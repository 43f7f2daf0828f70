---------------------------- MODULE FilesProofs -----------------------------
(***************************************************************************)
(* Proofs about Files, for every set of names, every size of the id space, *)
(* every reach of the guest and every behaviour of the host.               *)
(***************************************************************************)
EXTENDS Files, TLAPS

Inv == FileTypes /\ RequestType /\ OneTransfer

\* What a step does to the requests.
Asks == \E what \in Transfers : Running /\ Begin(what)
Answered == \E id, answer : pending # NoRequest /\ Complete(id, answer)
Taken == \E done : Takes(done)

LEMMA MaxMin ==
  ASSUME NEW a \in Int, NEW b \in Int
  PROVE  /\ Max2(a, b) \in {a, b} /\ Max2(a, b) >= a /\ Max2(a, b) >= b
         /\ Min2(a, b) \in {a, b} /\ Min2(a, b) <= a /\ Min2(a, b) <= b
BY DEF Max2, Min2

\* A new handle, in whatever slot, leaves the others as they were.
LEMMA AllocKeeps ==
  ASSUME NEW h, HandleOk(h), \A i \in DOMAIN handles : HandleOk(handles[i]), AllocHandle(h)
  PROVE  \A i \in DOMAIN handles' : HandleOk(handles'[i])
BY DEF AllocHandle

\* Changing the position or the size of a file handle keeps it one.
LEMMA FileKeeps ==
  ASSUME NEW i \in DOMAIN handles, NEW h \in FileHandle,
         \A j \in DOMAIN handles : HandleOk(handles[j]),
         handles' = [handles EXCEPT ![i] = h]
  PROVE  \A j \in DOMAIN handles' : HandleOk(handles'[j])
<1>1. HandleOk(h)
  BY DEF HandleOk, FileHandle
<1> QED
  BY <1>1

\* The requests change in three ways only.
LEMMA OneTransferKept ==
  ASSUME RequestType, OneTransfer, Asks \/ Answered \/ Taken \/ UNCHANGED requests
  PROVE  RequestType' /\ OneTransfer'
<1> USE RequestAssumption DEF RequestType, OneTransfer, Running, NoRequest, NoWait, Ids
<1>1. CASE Asks
  <2>1. PICK what \in Transfers : Running /\ Begin(what)
    BY <1>1 DEF Asks
  <2>2. Successor(nextId) \in Ids
    BY DEF Successor
  <2> QED
    BY <2>1, <2>2 DEF Begin
<1>2. CASE Answered
  <2>1. PICK id, answer : pending # NoRequest /\ Complete(id, answer)
    BY <1>2 DEF Answered
  <2>2. wait # NoWait /\ pending.id = wait /\ completed = {}
    BY <2>1
  <2>3. wait' = wait /\ nextId' = nextId
    BY <2>1 DEF Complete
  <2>4. CASE pending.id = id
    <3> DEFINE done == [id |-> id, answer |-> answer, what |-> pending.what]
    <3>1. pending' = NoRequest /\ completed' = {done}
      BY <2>1, <2>2, <2>4 DEF Complete
    <3>2. done.id = wait
      BY <2>2, <2>4
    <3> QED
      BY <2>2, <2>3, <3>1, <3>2
  <2>5. CASE pending.id # id
    <3>1. pending' = pending /\ completed' = completed
      BY <2>1, <2>5 DEF Complete
    <3> QED
      BY <2>2, <2>3, <3>1
  <2> QED
    BY <2>4, <2>5
<1>3. CASE Taken
  BY <1>3 DEF Taken, Takes
<1>4. CASE UNCHANGED requests
  BY <1>4 DEF requests
<1> QED
  BY <1>1, <1>2, <1>3, <1>4

LEMMA OpenTypes ==
  ASSUME Inv, NEW k \in Keys, NEW creation, NEW wantsWrite \in BOOLEAN,
         CreateFile(k, creation, wantsWrite), guest' = guest
  PROVE  FileTypes' /\ UNCHANGED requests
<1> USE FileAssumption DEF Inv, FileTypes
<1>1. CASE OpenMemory(k, creation, wantsWrite)
  <2> DEFINE h == [kind |-> "file", key |-> k, data |-> files[k], pos |-> 0, size |-> 0, writable |-> wantsWrite]
  <2>1. HandleOk(h)
    BY DEF HandleOk, FileHandle
  <2>2. AllocHandle(h) /\ UNCHANGED <<requests, files, entries>>
    BY <1>1 DEF OpenMemory
  <2>3. files[k] \in Keys
    BY <1>1 DEF OpenMemory
  <2>4. bytes' \in [Keys -> 0 .. MaxSize]
    BY <1>1, <2>3 DEF OpenMemory
  <2>5. \A i \in DOMAIN handles' : HandleOk(handles'[i])
    BY <2>1, <2>2, AllocKeeps
  <2> QED
    BY <2>2, <2>4, <2>5
<1>2. CASE OpenAsync(k, creation, wantsWrite)
  <2> DEFINE entry == OpenedEntry(k, creation, wantsWrite)
             h == [kind |-> "file", key |-> k, data |-> None, pos |-> 0, size |-> entry.size,
                   writable |-> wantsWrite /\ entry.writable]
  <2>1. entry \in [size : 0 .. MaxSize, writable : BOOLEAN]
    BY <1>2 DEF OpenAsync, OpenedEntry
  <2>2. HandleOk(h)
    BY <2>1 DEF HandleOk, FileHandle
  <2>3. AllocHandle(h) /\ UNCHANGED <<requests, files, bytes>> /\ entries' = [entries EXCEPT ![k] = entry]
    BY <1>2 DEF OpenAsync
  <2>4. \A i \in DOMAIN handles' : HandleOk(handles'[i])
    BY <2>2, <2>3, AllocKeeps
  <2>5. entries' \in [Keys -> {NoEntry} \cup [size : 0 .. MaxSize, writable : BOOLEAN]]
    BY <2>1, <2>3
  <2> QED
    BY <2>3, <2>4, <2>5
<1> QED
  BY <1>1, <1>2 DEF CreateFile

LEMMA HandleOfFile ==
  ASSUME FileTypes, NEW i, OpenFile(i)
  PROVE  /\ i \in DOMAIN handles
         /\ handles[i] \in FileHandle
         /\ FileSize(i) \in 0 .. MaxSize
         /\ ~IsMemory(i) => handles[i].key \in Keys
<1>1. i \in DOMAIN handles /\ handles[i] \in FileHandle
  BY DEF FileTypes, OpenFile, HandleOk
<1> QED
  BY <1>1, FileAssumption DEF FileTypes, FileHandle, FileSize, IsMemory

\* A call that changes one file handle, and nothing else of the types but `bytes`
\* and `entries`, keeps the types.
LEMMA FileChange ==
  ASSUME Inv, NEW i \in DOMAIN handles, NEW h \in FileHandle,
         handles' = [handles EXCEPT ![i] = h], guest' = guest, files' = files,
         bytes' \in [Keys -> 0 .. MaxSize],
         entries' \in [Keys -> {NoEntry} \cup [size : 0 .. MaxSize, writable : BOOLEAN]]
  PROVE  FileTypes'
<1>1. \A j \in DOMAIN handles' : HandleOk(handles'[j])
  BY FileKeeps DEF Inv, FileTypes
<1> QED
  BY <1>1 DEF Inv, FileTypes

LEMMA ReadTypes ==
  ASSUME Inv, NEW i, NEW n \in Nat, n <= MaxSize, Read(i, n), guest' = guest
  PROVE  FileTypes' /\ (Asks \/ UNCHANGED requests)
<1> DEFINE rest == FileSize(i) - handles[i].pos
           got == Min2(n, Max2(0, rest))
           h == [handles[i] EXCEPT !.pos = @ + got]
<1>1. OpenFile(i) /\ Running /\ handles' = Moved(i, got) /\ UNCHANGED directory
  BY DEF Read
<1>2. /\ i \in DOMAIN handles /\ handles[i] \in FileHandle /\ FileSize(i) \in 0 .. MaxSize
  BY <1>1, HandleOfFile DEF Inv
<1>3. handles[i].pos \in 0 .. MaxSize
  BY <1>2 DEF FileHandle
<1>4. got \in 0 .. MaxSize /\ handles[i].pos + got \in 0 .. MaxSize
  <2>1. rest \in Int /\ 0 \in Int /\ n \in Int
    BY <1>2, <1>3, FileAssumption
  <2>2. Max2(0, rest) \in Int
    BY <2>1, MaxMin
  <2>3. got \in {n, Max2(0, rest)} /\ got <= n /\ got <= Max2(0, rest)
    BY <2>1, <2>2, MaxMin
  <2>4. Max2(0, rest) \in {0, rest} /\ Max2(0, rest) >= 0
    BY <2>1, MaxMin
  <2> HIDE DEF rest, got
  <2>5. got >= 0 /\ got \in Int /\ (got = 0 \/ got <= rest)
    BY <2>1, <2>2, <2>3, <2>4
  <2> QED
    BY <2>1, <2>5, <2>3, <1>2, <1>3, FileAssumption DEF rest
<1> HIDE DEF got
<1>5. h \in FileHandle
  BY <1>2, <1>4 DEF FileHandle
<1>6. handles' = [handles EXCEPT ![i] = h]
  BY <1>1 DEF Moved
<1>7. FileTypes'
  BY <1>1, <1>2, <1>5, <1>6, FileChange DEF Inv, FileTypes, directory
<1>8. Transfer("read", i, got) \in Transfers
  BY <1>2, <1>4, FileAssumption DEF Transfer, FileHandle
<1>9. UNCHANGED requests \/ Begin(Transfer("read", i, got))
  BY DEF Read, got
<1> QED
  BY <1>1, <1>7, <1>8, <1>9 DEF Asks

\* A write to memory, whichever call makes it.
LEMMA WriteMemoryTypes ==
  ASSUME Inv, NEW i, NEW n \in Nat, OpenFile(i), handles[i].pos + n <= MaxSize,
         WriteMemory(i, n), guest' = guest
  PROVE  FileTypes'
<1> DEFINE h == [handles[i] EXCEPT !.pos = @ + n]
           d == handles[i].data
<1>1. i \in DOMAIN handles /\ handles[i] \in FileHandle
  BY HandleOfFile DEF Inv
<1>2. handles[i].pos \in 0 .. MaxSize /\ d \in Keys
  BY <1>1 DEF FileHandle, WriteMemory, IsMemory
<1>3. h \in FileHandle
  BY <1>1, <1>2, FileAssumption DEF FileHandle
<1>4. handles' = [handles EXCEPT ![i] = h] /\ UNCHANGED <<files, entries>>
  BY DEF WriteMemory, Moved
<1>5. bytes' \in [Keys -> 0 .. MaxSize]
  <2>0. bytes[d] \in 0 .. MaxSize
    BY <1>2 DEF Inv, FileTypes
  <2>1. handles[i].pos + n \in 0 .. MaxSize
    BY <1>2, FileAssumption
  <2>2. Max2(bytes[d], handles[i].pos + n) \in 0 .. MaxSize
    BY <2>0, <2>1, FileAssumption, MaxMin
  <2> QED
    BY <1>2, <2>2 DEF WriteMemory, Inv, FileTypes
<1> QED
  BY <1>1, <1>3, <1>4, <1>5, FileChange DEF Inv, FileTypes

\* A write to an asynchronous file moves the handle and its size.
LEMMA GrownTypes ==
  ASSUME Inv, NEW i, NEW n \in Nat, OpenFile(i), handles[i].pos + n <= MaxSize,
         handles' = Grown(i, n), guest' = guest, files' = files, bytes' = bytes,
         entries' \in [Keys -> {NoEntry} \cup [size : 0 .. MaxSize, writable : BOOLEAN]]
  PROVE  FileTypes'
<1> DEFINE grown == Max2(handles[i].size, handles[i].pos + n)
           h == [[handles[i] EXCEPT !.pos = @ + n] EXCEPT !.size = grown]
<1>1. i \in DOMAIN handles /\ handles[i] \in FileHandle
  BY HandleOfFile DEF Inv
<1>2. handles[i].size \in 0 .. MaxSize /\ handles[i].pos + n \in 0 .. MaxSize
  BY <1>1, FileAssumption DEF FileHandle
<1>3. grown \in 0 .. MaxSize
  BY <1>2, FileAssumption, MaxMin
<1> HIDE DEF grown
<1>4. h \in FileHandle
  BY <1>1, <1>2, <1>3 DEF FileHandle
<1>5. handles' = [handles EXCEPT ![i] = h]
  BY <1>1 DEF Grown, FileHandle, grown
<1> QED
  BY <1>1, <1>4, <1>5, FileChange DEF Inv, FileTypes

LEMMA NotedTypes ==
  ASSUME FileTypes, NEW k \in Keys, NEW end \in 0 .. MaxSize
  PROVE  Noted(entries, k, end) \in [Keys -> {NoEntry} \cup [size : 0 .. MaxSize, writable : BOOLEAN]]
<1>1. CASE entries[k] = NoEntry
  BY <1>1 DEF Noted, FileTypes
<1>2. CASE entries[k] # NoEntry
  <2>1. entries[k].size \in 0 .. MaxSize
    BY <1>2 DEF FileTypes
  <2>2. Max2(entries[k].size, end) \in 0 .. MaxSize
    BY <2>1, FileAssumption, MaxMin
  <2> QED
    BY <1>2, <2>2 DEF Noted, FileTypes
<1> QED
  BY <1>1, <1>2

LEMMA WriteTypes ==
  ASSUME Inv, NEW i, NEW n \in Nat, n <= MaxSize, Write(i, n), guest' = guest
  PROVE  FileTypes' /\ (Asks \/ UNCHANGED requests)
<1>1. OpenFile(i) /\ Running /\ i \in DOMAIN handles /\ handles[i] \in FileHandle
  BY HandleOfFile DEF Write, Inv
<1>2. handles[i].pos \in 0 .. MaxSize /\ handles[i].pos + n <= guest.reach /\ guest.reach <= MaxSize
  BY <1>1, FileAssumption DEF Write, FileHandle, Inv, FileTypes
<1>3. handles[i].pos + n \in 0 .. MaxSize
  BY <1>2, FileAssumption DEF Inv, FileTypes
<1>4. CASE WriteMemory(i, n)
  <2>0. handles[i].pos + n <= MaxSize
    BY <1>3, FileAssumption
  <2>1. FileTypes'
    BY <1>1, <1>4, <2>0, WriteMemoryTypes
  <2> QED
    BY <1>4, <2>1 DEF WriteMemory
<1>5. CASE WriteAsync(i, n)
  <2>1. handles[i].key \in Keys
    BY <1>1, <1>5, HandleOfFile DEF WriteAsync, Inv
  <2>2. entries' \in [Keys -> {NoEntry} \cup [size : 0 .. MaxSize, writable : BOOLEAN]]
    BY <1>3, <1>5, <2>1, NotedTypes DEF WriteAsync, Inv
  <2>3. FileTypes'
    BY <1>1, <1>3, <1>5, <2>2, GrownTypes DEF WriteAsync
  <2>4. Transfer("write", i, n) \in Transfers
    BY <1>1, <1>2, <2>1, FileAssumption DEF Transfer, FileHandle
  <2> QED
    BY <1>1, <1>5, <2>3, <2>4 DEF Asks, WriteAsync
<1> QED
  BY <1>4, <1>5 DEF Write

LEMMA CrtPrintTypes ==
  ASSUME Inv, NEW i, NEW n \in Nat, CrtPrint(i, n), guest' = guest
  PROVE  FileTypes' /\ UNCHANGED requests
<1>1. OpenFile(i) /\ i \in DOMAIN handles /\ handles[i] \in FileHandle
  BY HandleOfFile DEF CrtPrint, Inv
<1>2. handles[i].pos + n <= MaxSize
  BY <1>1, FileAssumption DEF CrtPrint, FileHandle, Inv, FileTypes
<1>3. CASE WriteMemory(i, n)
  BY <1>1, <1>2, <1>3, WriteMemoryTypes DEF WriteMemory
<1>4. CASE handles' = Grown(i, n) /\ UNCHANGED <<requests, directory>>
  BY <1>1, <1>2, <1>4, GrownTypes DEF directory, Inv, FileTypes
<1> QED
  BY <1>3, <1>4 DEF CrtPrint

LEMMA SeekTypes ==
  ASSUME Inv, NEW i, NEW origin \in Int, NEW dist \in Int, Seek(i, dist, origin), guest' = guest
  PROVE  FileTypes' /\ UNCHANGED requests
<1> DEFINE pos == Max2(0, origin + dist)
           h == [handles[i] EXCEPT !.pos = pos]
<1>1. i \in DOMAIN handles /\ handles[i] \in FileHandle
  BY HandleOfFile DEF Seek, Inv
<1>2. pos \in Int /\ pos >= 0 /\ pos <= guest.reach
  <2>1. 0 \in Int /\ origin + dist \in Int
    OBVIOUS
  <2>2. pos \in {0, origin + dist} /\ pos >= 0
    BY <2>1, MaxMin
  <2> QED
    BY <2>1, <2>2 DEF Seek
<1>3. pos \in 0 .. MaxSize
  BY <1>2, FileAssumption DEF Inv, FileTypes
<1>4. handles' = [handles EXCEPT ![i] = h] /\ UNCHANGED <<requests, directory>>
  BY <1>1 DEF Seek
<1> HIDE DEF pos
<1>5. h \in FileHandle
  BY <1>1, <1>3 DEF FileHandle
<1> QED
  BY <1>1, <1>4, <1>5, FileChange DEF directory, Inv, FileTypes

LEMMA SetEndTypes ==
  ASSUME Inv, NEW i, SetEndOfFile(i), guest' = guest
  PROVE  FileTypes' /\ UNCHANGED requests
<1> DEFINE h == [handles[i] EXCEPT !.size = handles[i].pos]
<1>1. i \in DOMAIN handles /\ handles[i] \in FileHandle
  BY HandleOfFile DEF SetEndOfFile, Inv
<1>2. CASE IsMemory(i)
  <2>1. handles[i].data \in Keys /\ handles[i].pos \in 0 .. MaxSize
    BY <1>1, <1>2 DEF FileHandle, IsMemory
  <2>2. bytes' = [bytes EXCEPT ![handles[i].data] = handles[i].pos] /\ UNCHANGED <<handles, files, entries, requests>>
    BY <1>2 DEF SetEndOfFile
  <2> QED
    BY <2>1, <2>2 DEF Inv, FileTypes
<1>3. CASE ~IsMemory(i)
  <2>1. h \in FileHandle
    BY <1>1 DEF FileHandle
  <2>2. handles' = [handles EXCEPT ![i] = h] /\ UNCHANGED <<bytes, files, entries, requests>>
    BY <1>3 DEF SetEndOfFile
  <2> QED
    BY <1>1, <2>1, <2>2, FileChange DEF Inv, FileTypes
<1> QED
  BY <1>2, <1>3

\* Closing, enumerating, deleting and renaming.
LEMMA DirectoryTypes ==
  ASSUME Inv, guest' = guest,
         \/ \E i \in DOMAIN handles : CloseHandle(i) \/ FindNextFile(i)
         \/ FindFirstFile
         \/ \E k \in Keys : DeleteFile(k)
         \/ \E j, k \in Keys : MoveFile(j, k)
  PROVE  FileTypes' /\ UNCHANGED requests
<1> USE DEF Inv, FileTypes
<1>1. CASE \E i \in DOMAIN handles : CloseHandle(i)
  <2>1. HandleOk(Closed)
    BY DEF HandleOk, Closed
  <2> QED
    BY <1>1, <2>1 DEF CloseHandle, directory
<1>2. CASE \E i \in DOMAIN handles : FindNextFile(i)
  <2>1. PICK i \in DOMAIN handles : FindNextFile(i)
    BY <1>2
  <2> DEFINE h == [handles[i] EXCEPT !.index = @ + 1]
  <2>2. handles' = [handles EXCEPT ![i] = h] /\ UNCHANGED <<requests, directory>>
    BY <2>1 DEF FindNextFile
  <2>3. HandleOk(h)
    BY <2>1 DEF FindNextFile, HandleOk
  <2> QED
    BY <2>2, <2>3 DEF directory
<1>3. CASE FindFirstFile
  <2> DEFINE h == [kind |-> "find", found |-> Listed, index |-> 1]
  <2>1. HandleOk(h)
    BY DEF HandleOk
  <2>2. AllocHandle(h) /\ UNCHANGED <<requests, directory>>
    BY <1>3 DEF FindFirstFile
  <2>3. \A i \in DOMAIN handles' : HandleOk(handles'[i])
    BY <2>1, <2>2, AllocKeeps
  <2> QED
    BY <2>2, <2>3 DEF directory
<1>4. CASE \E k \in Keys : DeleteFile(k)
  BY <1>4 DEF DeleteFile
<1>5. CASE \E j, k \in Keys : MoveFile(j, k)
  BY <1>5 DEF MoveFile
<1> QED
  BY <1>1, <1>2, <1>3, <1>4, <1>5

LEMMA GuestTypes ==
  ASSUME Inv, GuestNext
  PROVE  FileTypes' /\ (Asks \/ UNCHANGED requests)
<1>1. guest' = guest /\ guest \in Guests /\ guest.opens \subseteq Keys /\ guest.reach \in 0 .. MaxSize
  BY FileAssumption DEF GuestNext, Inv, FileTypes
<1>2. CASE Opens
  BY <1>1, <1>2, OpenTypes DEF Opens
<1>3. CASE TransferCalls
  <2>1. PICK i \in DOMAIN handles, n \in 0 .. guest.reach : Read(i, n) \/ Write(i, n)
    BY <1>3 DEF TransferCalls
  <2>2. n \in Nat /\ n <= MaxSize
    BY <1>1, FileAssumption
  <2> QED
    BY <1>1, <2>1, <2>2, ReadTypes, WriteTypes
<1>4. CASE Seeks
  <2>1. PICK i \in DOMAIN handles, origin \in -guest.reach .. guest.reach,
             dist \in -guest.reach .. guest.reach : Seek(i, dist, origin)
    BY <1>4 DEF Seeks
  <2>2. origin \in Int /\ dist \in Int
    BY <1>1, FileAssumption
  <2> QED
    BY <1>1, <2>1, <2>2, SeekTypes
<1>5. CASE \E i \in DOMAIN handles, n \in 0 .. guest.reach : CrtPrint(i, n)
  <2>1. PICK i \in DOMAIN handles, n \in 0 .. guest.reach : CrtPrint(i, n)
    BY <1>5
  <2>2. n \in Nat
    BY <1>1, FileAssumption
  <2> QED
    BY <1>1, <2>1, <2>2, CrtPrintTypes
<1>6. CASE \E i \in DOMAIN handles : SetEndOfFile(i)
  BY <1>1, <1>6, SetEndTypes
<1>7. CASE \/ \E i \in DOMAIN handles : CloseHandle(i) \/ FindNextFile(i)
           \/ FindFirstFile
           \/ \E k \in Keys : DeleteFile(k)
           \/ \E j, k \in Keys : MoveFile(j, k)
  BY <1>1, <1>7, DirectoryTypes
<1> QED
  BY <1>2, <1>3, <1>4, <1>5, <1>6, <1>7 DEF GuestNext

LEMMA HostTypes ==
  ASSUME Inv, HostNext
  PROVE  FileTypes' /\ Answered
<1>1. PICK id, answer : HostAnswers(id, answer)
  BY DEF HostNext, HostServes
<1>2. Answered
  BY <1>1 DEF HostAnswers, Answered
<1>3. UNCHANGED <<guest, directory, handles>>
  BY DEF HostNext, HostServes, HostAnswers
<1> QED
  BY <1>2, <1>3 DEF Inv, FileTypes, directory

\* Every step keeps the types and does one of three things to the requests.
LEMMA StepTypes ==
  ASSUME Inv, [Next]_vars
  PROVE  FileTypes' /\ (Asks \/ Answered \/ Taken \/ UNCHANGED requests)
<1>1. CASE GuestNext
  BY <1>1, GuestTypes
<1>2. CASE HostNext
  BY <1>2, HostTypes
<1>3. CASE Wake /\ UNCHANGED guest
  BY <1>3 DEF Wake, Taken, directory, Inv, FileTypes
<1>4. CASE UNCHANGED vars
  BY <1>4 DEF vars, directory, Inv, FileTypes
<1> QED
  BY <1>1, <1>2, <1>3, <1>4 DEF Next

\* The invariant the results hang on is inductive.
LEMMA InvAlways == Spec => []Inv
<1>1. Init => Inv
  <2> SUFFICES ASSUME Init PROVE Inv
    OBVIOUS
  <2>1. guest \in Guests /\ guest.memory \subseteq Keys /\ guest.writable \in BOOLEAN /\ 1 \in 0 .. MaxSize
    BY FileAssumption DEF Init
  <2>2. /\ files \in [Keys -> Keys \cup {None}]
        /\ bytes \in [Keys -> 0 .. MaxSize]
        /\ handles = <<>>
    BY <2>1 DEF Init
  <2>3. entries \in [Keys -> {NoEntry} \cup [size : 0 .. MaxSize, writable : BOOLEAN]]
    <3>1. [size |-> 1, writable |-> guest.writable] \in [size : 0 .. MaxSize, writable : BOOLEAN]
      BY <2>1
    <3> QED
      BY <3>1 DEF Init
  <2>4. FileTypes
    BY <2>1, <2>2, <2>3 DEF FileTypes
  <2>5. RequestType /\ OneTransfer
    BY RequestAssumption DEF Init, RequestInit, RequestType, OneTransfer, Running, Ids
  <2> QED
    BY <2>4, <2>5 DEF Inv
<1>2. Inv /\ [Next]_vars => Inv'
  BY StepTypes, OneTransferKept DEF Inv
<1> QED
  BY <1>1, <1>2, PTL DEF Spec

\* A parked guest has exactly one transfer under way, a running one has none:
\* begin_read and begin_write find no pending request, whatever the host does.
THEOREM OneTransferAlways == Spec => []OneTransfer
<1>1. Inv => OneTransfer
  BY DEF Inv
<1> QED
  BY <1>1, InvAlways, PTL

\* The handle table and the directory keep their types, and no position or size
\* gets beyond the largest reach.
THEOREM TypeCorrect == Spec => []TypeOK
<1>1. Inv => TypeOK
  BY DEF Inv, TypeOK
<1> QED
  BY <1>1, InvAlways, PTL

\* To the guest a transfer is a blocking call: the requests and answers of
\* hle_vfs.rs implement HostCall.
THEOREM BlockingCallsHold == Spec => BlockingCalls
<1>1. Init => Call!Init
  BY DEF Init, RequestInit, Call!Init, Running, NoRequest
<1>2. Inv /\ Asks => Call!Ask
  <2> SUFFICES ASSUME Inv, NEW what \in Transfers, Running, Begin(what) PROVE Call!Ask
    BY DEF Asks
  <2>1. wait' # NoWait /\ completed = {} /\ completed' = {} /\ pending'.what = what
    BY RequestAssumption DEF Begin, Inv, OneTransfer, RequestType, Ids, NoWait
  <2> QED
    BY <2>1 DEF Call!Ask, Running
<1>3. Inv /\ Answered => Call!Answer \/ UNCHANGED Call!call
  <2> SUFFICES ASSUME Inv, NEW id, NEW answer, pending # NoRequest, Complete(id, answer)
               PROVE  Call!Answer \/ UNCHANGED Call!call
    BY DEF Answered
  <2>1. wait # NoWait /\ wait' = wait /\ completed = {}
    BY DEF Complete, Inv, OneTransfer, Running
  <2>2. CASE pending.id = id
    <3> DEFINE done == [id |-> id, answer |-> answer, what |-> pending.what]
    <3>1. completed' = {done} /\ done.what = pending.what
      BY <2>1, <2>2 DEF Complete
    <3>2. (CHOOSE d \in completed' : TRUE) = done
      BY <3>1
    <3> QED
      BY <2>1, <3>1, <3>2 DEF Call!Answer, Running
  <2>3. CASE pending.id # id
    BY <2>1, <2>3 DEF Complete, Call!call, Running
  <2> QED
    BY <2>2, <2>3
<1>4. Inv /\ Taken => Call!Return
  <2> SUFFICES ASSUME Inv, NEW done, Takes(done) PROVE Call!Return
    BY DEF Taken
  <2>1. wait # NoWait /\ wait' = NoWait /\ completed = {done} /\ pending = NoRequest
    BY RequestAssumption DEF Takes, Inv, OneTransfer, RequestType, Running, Ids, NoRequest
  <2>2. completed' = {} /\ pending' = NoRequest
    BY <2>1 DEF Takes
  <2> QED
    BY <2>1, <2>2 DEF Call!Return, Running, NoRequest
<1>5. UNCHANGED requests => UNCHANGED Call!call
  BY DEF requests, Call!call, Running
<1>6. Inv /\ [Next]_vars => [Call!Next]_(Call!call)
  BY <1>2, <1>3, <1>4, <1>5, StepTypes DEF Call!Next
<1> QED
  BY <1>1, <1>6, InvAlways, PTL DEF Spec, BlockingCalls, Call!Spec

(***************************************************************************)
(* The directory covers what is written.  The size in the entry grows when *)
(* the write is asked for, so the pending write is part of the invariant.  *)
(***************************************************************************)
Covered ==
  /\ acked \in [Keys -> Nat]
  /\ EntryCoversWrites
  /\ (pending # NoRequest /\ pending.what.kind = "write" /\ entries[pending.what.key] # NoEntry)
       => pending.what.offset + pending.what.len <= entries[pending.what.key].size

LEMMA OpenCovers ==
  ASSUME Inv, Covered, NEW k \in Keys, NEW creation, NEW wantsWrite \in BOOLEAN,
         OpenAsync(k, creation, wantsWrite), Running
  PROVE  Covered'
<1> DEFINE entry == OpenedEntry(k, creation, wantsWrite)
<1>1. /\ entries' = [entries EXCEPT ![k] = entry] /\ UNCHANGED requests
      /\ acked' = IF entry.size = 0 THEN [acked EXCEPT ![k] = 0] ELSE acked
  BY DEF OpenAsync
<1>2. entry.size = 0 \/ (entries[k] # NoEntry /\ entry.size = entries[k].size)
  BY DEF OpenAsync, OpenedEntry, Inv, FileTypes
<1> HIDE DEF entry
<1>3. pending' = NoRequest
  BY <1>1 DEF Inv, OneTransfer, requests
<1>4. acked' \in [Keys -> Nat]
  BY <1>1 DEF Covered
<1>5. EntryCoversWrites'
  <2> SUFFICES ASSUME NEW j \in Keys, entries'[j] # NoEntry PROVE acked'[j] <= entries'[j].size
    BY DEF EntryCoversWrites
  <2>1. CASE j # k
    BY <1>1, <2>1 DEF Covered, EntryCoversWrites, Inv, FileTypes
  <2>2. CASE j = k
    BY <1>1, <1>2, <2>2 DEF Covered, EntryCoversWrites, Inv, FileTypes
  <2> QED
    BY <2>1, <2>2
<1> QED
  BY <1>3, <1>4, <1>5 DEF Covered

LEMMA WriteCovers ==
  ASSUME Inv, Covered, NEW i, NEW n \in Nat, OpenFile(i), WriteAsync(i, n)
  PROVE  Covered'
<1> DEFINE k == handles[i].key
           end == handles[i].pos + n
<1>1. k \in Keys /\ end \in Nat
  BY HandleOfFile, FileAssumption DEF Inv, WriteAsync, FileHandle
<1>2. /\ entries' = Noted(entries, k, end) /\ acked' = acked
      /\ pending' = [id |-> nextId, what |-> [kind |-> "write", key |-> k, offset |-> handles[i].pos, len |-> n]]
  BY DEF WriteAsync, Begin, Transfer, history
<1>3. CASE entries[k] = NoEntry
  BY <1>1, <1>2, <1>3 DEF Noted, Covered, EntryCoversWrites
<1>4. CASE entries[k] # NoEntry
  <2> DEFINE grown == Max2(entries[k].size, end)
  <2>1. entries[k] \in [size : 0 .. MaxSize, writable : BOOLEAN]
    BY <1>1, <1>4 DEF Inv, FileTypes
  <2>2. grown \in Int /\ grown >= entries[k].size /\ grown >= end
    BY <1>1, <2>1, FileAssumption, MaxMin
  <2>3. entries' = [entries EXCEPT ![k] = [size |-> grown, writable |-> TRUE]]
    BY <1>2, <1>4 DEF Noted
  <2> HIDE DEF grown
  <2>4. entries'[k].size = grown /\ \A j \in Keys \ {k} : entries'[j] = entries[j]
    BY <1>1, <2>3 DEF Inv, FileTypes
  <2>5. acked[k] \in Nat /\ acked[k] <= entries[k].size
    BY <1>1, <1>4 DEF Covered, EntryCoversWrites
  <2>6. acked[k] <= grown
    BY <2>1, <2>2, <2>5
  <2>7. EntryCoversWrites'
    BY <1>2, <2>4, <2>6 DEF Covered, EntryCoversWrites
  <2>8. pending'.what.offset + pending'.what.len <= entries'[pending'.what.key].size
    BY <1>1, <1>2, <2>2, <2>4
  <2> QED
    BY <1>2, <2>7, <2>8 DEF Covered
<1> QED
  BY <1>3, <1>4

LEMMA DirectoryCovers ==
  ASSUME Inv, Covered, (\E k \in Keys : DeleteFile(k)) \/ (\E j, k \in Keys : MoveFile(j, k))
  PROVE  Covered'
<1>1. pending' = NoRequest
  BY DEF DeleteFile, MoveFile, Inv, OneTransfer, requests
<1>2. acked' \in [Keys -> Nat]
  BY DEF DeleteFile, MoveFile, Covered
<1>3. EntryCoversWrites'
  BY DEF DeleteFile, MoveFile, Covered, EntryCoversWrites, Inv, FileTypes
<1> QED
  BY <1>1, <1>2, <1>3 DEF Covered

LEMMA AnswerCovers ==
  ASSUME Inv, Covered, HostNext
  PROVE  Covered'
<1>1. pending # NoRequest /\ pending.what \in Transfers /\ UNCHANGED <<entries, guest>>
  BY DEF HostNext, HostServes, HostAnswers, Inv, RequestType, directory
<1> DEFINE what == pending.what
           k == what.key
<1>2. k \in Keys /\ what.offset \in Nat /\ what.len \in Nat
  BY <1>1, TransferAssumption
<1>3. CASE \E a : HostAnswers(pending.id, a) /\ a.count \in 0 .. what.len
  <2>1. PICK a : HostAnswers(pending.id, a) /\ a.count \in 0 .. what.len
    BY <1>3
  <2> DEFINE stored == Stores(what, a)
             end == what.offset + what.len
  <2>2. pending' = NoRequest
    BY <2>1 DEF HostAnswers, Complete
  <2>3. stored \in Nat /\ (stored = 0 \/ (what.kind = "write" /\ stored <= end))
    BY <1>2, <2>1 DEF Stores
  <2>4. acked' = IF entries[k] = NoEntry THEN acked ELSE [acked EXCEPT ![k] = Max2(@, stored)]
    BY <2>1 DEF HostAnswers
  <2> HIDE DEF stored
  <2>5. CASE entries[k] = NoEntry
    BY <1>1, <2>2, <2>4, <2>5 DEF Covered, EntryCoversWrites
  <2>6. CASE entries[k] # NoEntry
    <3>0. entries[k] \in [size : 0 .. MaxSize, writable : BOOLEAN]
      <4> HIDE DEF k
      <4> QED
        BY <1>2, <2>6 DEF Inv, FileTypes
    <3>1. acked[k] \in Nat /\ acked[k] <= entries[k].size /\ entries[k].size \in Nat
      <4> HIDE DEF k
      <4> QED
        BY <1>2, <2>6, <3>0, FileAssumption DEF Covered, EntryCoversWrites
    <3>2. stored <= entries[k].size
      BY <1>1, <1>2, <2>3, <2>6, <3>1 DEF Covered
    <3>3. Max2(acked[k], stored) \in Nat /\ Max2(acked[k], stored) <= entries[k].size
      BY <2>3, <3>1, <3>2, MaxMin
    <3>4. acked' = [acked EXCEPT ![k] = Max2(acked[k], stored)]
      BY <2>4, <2>6
    <3> HIDE DEF k
    <3>5. acked' \in [Keys -> Nat]
      BY <1>2, <3>3, <3>4 DEF Covered
    <3>6. EntryCoversWrites'
      BY <1>1, <3>3, <3>4 DEF Covered, EntryCoversWrites
    <3> QED
      BY <2>2, <3>5, <3>6 DEF Covered
  <2> QED
    BY <2>5, <2>6
<1>4. CASE \E j, a : HostAnswers(j, a) /\ j # pending.id
  BY <1>1, <1>4 DEF HostAnswers, Complete, history, Covered, EntryCoversWrites
<1>5. \/ \E a : HostAnswers(pending.id, a) /\ a.count \in 0 .. what.len
      \/ \E j, a : HostAnswers(j, a) /\ j # pending.id
  <2>1. CASE HostServes
    <3>1. PICK a \in IF guest.faulty THEN Answers(what) ELSE {[ok |-> TRUE, count |-> what.len]} :
            HostAnswers(pending.id, a)
      BY <2>1 DEF HostServes
    <3>2. a \in Answers(what) \/ a.count = what.len
      BY <3>1
    <3>3. a.count \in 0 .. what.len
      <4> HIDE DEF what
      <4>1. CASE a = [ok |-> FALSE, count |-> 0]
        BY <1>2, <4>1
      <4>2. CASE a \in [ok : {TRUE}, count : 0 .. what.len]
        BY <4>2
      <4>3. CASE a.count = what.len
        BY <1>2, <4>3
      <4> QED
        BY <3>2, <4>1, <4>2, <4>3 DEF Answers
    <3> QED
      BY <3>1, <3>3
  <2>2. CASE \E j \in Ids : HostAnswers(j, [ok |-> FALSE, count |-> 0]) /\ j # pending.id
    BY <2>2
  <2> QED
    BY <2>1, <2>2 DEF HostNext
<1> QED
  BY <1>3, <1>4, <1>5

\* The remaining calls leave the entries alone, and ask for reads at most.
LEMMA CallCovers ==
  ASSUME Inv, Covered, UNCHANGED <<entries, acked>>,
         UNCHANGED requests \/ pending'.what.kind # "write"
  PROVE  Covered'
BY DEF Covered, EntryCoversWrites, requests

LEMMA CoveredKept ==
  ASSUME Inv, Covered, [Next]_vars
  PROVE  Covered'
<1>1. CASE GuestNext
  <2>0. guest.opens \subseteq Keys /\ guest.reach \in 0 .. MaxSize
    BY FileAssumption DEF Inv, FileTypes
  <2>1. CASE Opens
    <3>1. PICK k \in Keys, creation \in Creations, wantsWrite \in BOOLEAN : CreateFile(k, creation, wantsWrite)
      BY <2>0, <2>1 DEF Opens
    <3>2. CASE OpenMemory(k, creation, wantsWrite)
      BY <3>2, CallCovers DEF OpenMemory, history
    <3> QED
      BY <3>1, <3>2, OpenCovers DEF CreateFile
  <2>2. CASE TransferCalls
    <3>1. PICK i \in DOMAIN handles, n \in 0 .. guest.reach : Read(i, n) \/ Write(i, n)
      BY <2>2 DEF TransferCalls
    <3>2. CASE Read(i, n)
      BY <3>2, CallCovers DEF Read, Begin, Transfer, directory, history
    <3>3. CASE WriteMemory(i, n)
      BY <3>3, CallCovers DEF WriteMemory, history
    <3>4. CASE Write(i, n) /\ WriteAsync(i, n)
      <4>1. n \in Nat /\ OpenFile(i)
        BY <2>0, <3>4 DEF Write
      <4> QED
        BY <3>4, <4>1, WriteCovers
    <3> QED
      BY <3>1, <3>2, <3>3, <3>4 DEF Write
  <2>3. CASE (\E k \in Keys : DeleteFile(k)) \/ (\E j, k \in Keys : MoveFile(j, k))
    BY <2>3, DirectoryCovers
  <2>4. CASE Seeks
    BY <2>4, CallCovers DEF Seeks, Seek, directory, history
  <2>5. CASE \E i \in DOMAIN handles, n \in 0 .. guest.reach : CrtPrint(i, n)
    BY <2>5, CallCovers DEF CrtPrint, WriteMemory, directory, history
  <2>6. CASE \E i \in DOMAIN handles : SetEndOfFile(i)
    BY <2>6, CallCovers DEF SetEndOfFile
  <2>7. CASE (\E i \in DOMAIN handles : CloseHandle(i) \/ FindNextFile(i)) \/ FindFirstFile
    BY <2>7, CallCovers DEF CloseHandle, FindNextFile, FindFirstFile, directory, history
  <2> QED
    BY <1>1, <2>1, <2>2, <2>3, <2>4, <2>5, <2>6, <2>7 DEF GuestNext
<1>2. CASE HostNext
  BY <1>2, AnswerCovers
<1>3. CASE Wake
  BY <1>3 DEF Wake, Takes, directory, history, Covered, EntryCoversWrites
<1>4. CASE UNCHANGED vars
  BY <1>4, CallCovers DEF vars, directory, history
<1> QED
  BY <1>1, <1>2, <1>3, <1>4 DEF Next

\* Whatever the host answers and however handles, renames and truncations mix,
\* the entry of an asynchronous file covers every write the host has carried out.
THEOREM EntryAlwaysCovers == Spec => []EntryCoversWrites
<1>1. Init => Covered
  BY DEF Init, RequestInit, Covered, EntryCoversWrites, NoEntry
<1>2. Inv /\ Covered /\ [Next]_vars => Covered'
  BY CoveredKept
<1>3. Covered => EntryCoversWrites
  BY DEF Covered
<1> QED
  BY <1>1, <1>2, <1>3, InvAlways, PTL DEF Spec

(***************************************************************************)
(* Sizes are backed by what the host has.  A write that is under way       *)
(* counts as stored: until it is answered no other request can be made, so *)
(* what a key will hold never shrinks.                                     *)
(***************************************************************************)
EntryBacked(k) == (k \notin lost /\ entries[k] # NoEntry) => entries[k].size <= Stored(k)

HandleBacked(h) ==
  (h.kind = "file" /\ h.data = None /\ h.key \notin lost) => h.size <= Stored(h.key)

Backed ==
  /\ host \in [Keys -> Nat]
  /\ \A k \in Keys : EntryBacked(k)
  /\ \A i \in DOMAIN handles : HandleBacked(handles[i])

StoredTyped == \A k \in Keys : Stored(k) \in Nat /\ host[k] <= Stored(k)

LEMMA StoredType == Inv /\ host \in [Keys -> Nat] => StoredTyped
<1> SUFFICES ASSUME Inv, host \in [Keys -> Nat], NEW k \in Keys
             PROVE  Stored(k) \in Nat /\ host[k] <= Stored(k)
  BY DEF StoredTyped
<1>1. CASE pending # NoRequest /\ pending.what.kind = "write" /\ pending.what.key = k
  <2>1. pending.what.offset + pending.what.len \in Nat
    BY <1>1, TransferAssumption DEF Inv, RequestType
  <2> QED
    BY <1>1, <2>1, MaxMin DEF Stored
<1>2. CASE ~(pending # NoRequest /\ pending.what.kind = "write" /\ pending.what.key = k)
  BY <1>2 DEF Stored
<1> QED
  BY <1>1, <1>2

\* What a step promises that lets nothing shrink under a size.
Grows == lost \subseteq lost' /\ \A k \in Keys \ lost' : Stored(k) <= Stored(k)'

LEMMA HandleStaysBacked ==
  ASSUME Inv, Inv', Backed, host' \in [Keys -> Nat], Grows, NEW h, HandleOk(h), HandleBacked(h)
  PROVE  HandleBacked(h)'
<1> SUFFICES ASSUME h.kind = "file", h.data = None, h.key \notin lost'
             PROVE  h.size <= Stored(h.key)'
  BY DEF HandleBacked
<1>1. h \in FileHandle /\ h.key \in Keys /\ h.size \in Int
  BY FileAssumption DEF HandleOk, FileHandle
<1>2. h.size <= Stored(h.key) /\ Stored(h.key) <= Stored(h.key)'
  BY <1>1 DEF HandleBacked, Grows
<1>3. Stored(h.key) \in Nat
  BY <1>1, StoredType DEF Backed, StoredTyped
<1>4. Stored(h.key)' \in Nat
  <2>1. Inv' /\ (host \in [Keys -> Nat])' => StoredTyped'
    BY StoredType, PTL
  <2> QED
    BY <1>1, <2>1 DEF StoredTyped
<1> QED
  BY <1>1, <1>2, <1>3, <1>4

\* Entries and handles that do not change stay backed.
LEMMA BackedKept ==
  ASSUME Inv, Inv', Backed, host' \in [Keys -> Nat], Grows,
         \A k \in Keys : entries'[k] = entries[k] \/ EntryBacked(k)',
         \A i \in DOMAIN handles' :
           (i \in DOMAIN handles /\ handles'[i] = handles[i]) \/ HandleBacked(handles[i])'
  PROVE  Backed'
<1>1. ASSUME NEW k \in Keys, entries'[k] = entries[k] PROVE EntryBacked(k)'
  <2> SUFFICES ASSUME k \notin lost', entries[k] # NoEntry PROVE entries[k].size <= Stored(k)'
    BY <1>1 DEF EntryBacked
  <2>1. entries[k].size <= Stored(k) /\ Stored(k) <= Stored(k)'
    BY DEF Grows, Backed, EntryBacked
  <2>2. entries[k].size \in Int
    BY FileAssumption DEF Inv, FileTypes
  <2>3. Stored(k) \in Nat
    BY StoredType DEF Backed, StoredTyped
  <2>4. Stored(k)' \in Nat
    <3>1. Inv' /\ (host \in [Keys -> Nat])' => StoredTyped'
      BY StoredType, PTL
    <3> QED
      BY <3>1 DEF StoredTyped
  <2> QED
    BY <2>1, <2>2, <2>3, <2>4
<1>2. ASSUME NEW i \in DOMAIN handles, NEW j \in DOMAIN handles', handles'[j] = handles[i]
      PROVE  HandleBacked(handles[j])'
  <2> DEFINE h == handles[i]
  <2>1. HandleOk(h) /\ HandleBacked(h)
    BY DEF Inv, FileTypes, Backed
  <2>2. \A g : HandleOk(g) /\ HandleBacked(g) => HandleBacked(g)'
    BY HandleStaysBacked
  <2>3. handles'[j] = h
    BY <1>2
  <2> HIDE DEF h
  <2> QED
    BY <2>1, <2>2, <2>3 DEF HandleBacked
<1>3. \A i \in DOMAIN handles' : HandleBacked(handles[i])'
  BY <1>2
<1> QED
  BY <1>1, <1>3 DEF Backed

\* A handle that moved, or whose size went down, stays backed.
LEMMA MovedBacked ==
  ASSUME Inv, Inv', Backed, host' \in [Keys -> Nat], Grows, NEW i \in DOMAIN handles',
         i \in DOMAIN handles, handles'[i].kind = handles[i].kind,
         handles[i].kind = "file" =>
           /\ handles'[i].key = handles[i].key /\ handles'[i].data = handles[i].data
           /\ handles'[i].size <= handles[i].size
  PROVE  HandleBacked(handles[i])'
<1> PICK h, g : h = handles[i] /\ g = handles'[i]
  OBVIOUS
<1>1. HandleOk(h) /\ HandleBacked(h) /\ HandleOk(g)
  BY DEF Inv, FileTypes, Backed
<1>2. \A x : HandleOk(x) /\ HandleBacked(x) => HandleBacked(x)'
  BY HandleStaysBacked
<1>3. HandleBacked(h)'
  BY <1>1, <1>2
<1> SUFFICES ASSUME g.kind = "file", g.data = None, g.key \notin lost'
             PROVE  g.size <= Stored(g.key)'
  BY DEF HandleBacked
<1>4. h.kind = "file" /\ h.data = None /\ h.key = g.key /\ g.size <= h.size
  OBVIOUS
<1>5. h \in FileHandle /\ g \in FileHandle
  BY <1>1, <1>4 DEF HandleOk
<1>6. h.size \in Int /\ g.size \in Int /\ g.key \in Keys
  BY <1>5, FileAssumption DEF FileHandle
<1>7. Stored(g.key)' \in Nat
  <2>1. Inv' /\ (host \in [Keys -> Nat])' => StoredTyped'
    BY StoredType, PTL
  <2> QED
    BY <1>6, <2>1 DEF StoredTyped
<1>8. h.size <= Stored(h.key)'
  BY <1>3, <1>4 DEF HandleBacked
<1> QED
  BY <1>4, <1>6, <1>7, <1>8

\* Outside of a write that is asked for or answered, what a key holds is the same.
LEMMA QuietGrows ==
  ASSUME Inv, Backed, host' = host, lost \subseteq lost',
         pending' = pending \/ (Running /\ (pending' = NoRequest \/ pending'.what.kind # "write"))
  PROVE  Grows
<1>1. Running => pending = NoRequest
  BY DEF Inv, OneTransfer
<1>2. \A k \in Keys : Stored(k)' = Stored(k)
  BY <1>1 DEF Stored
<1>3. \A k \in Keys : Stored(k) \in Nat
  BY StoredType DEF Backed, StoredTyped
<1> QED
  BY <1>2, <1>3 DEF Grows

LEMMA OpenBacked ==
  ASSUME Inv, Inv', Backed, NEW k \in Keys, NEW creation, NEW wantsWrite \in BOOLEAN,
         CreateFile(k, creation, wantsWrite)
  PROVE  Backed'
<1>1. CASE OpenMemory(k, creation, wantsWrite)
  <2> DEFINE h == [kind |-> "file", key |-> k, data |-> files[k], pos |-> 0, size |-> 0, writable |-> wantsWrite]
  <2>1. AllocHandle(h) /\ h.data # None /\ UNCHANGED <<requests, entries, host, lost>>
    BY <1>1 DEF OpenMemory, history
  <2>2. Grows /\ host' \in [Keys -> Nat]
    BY <2>1, QuietGrows DEF requests, Backed
  <2>3. \A i \in DOMAIN handles' : (i \in DOMAIN handles /\ handles'[i] = handles[i]) \/ handles'[i] = h
    BY <2>1 DEF AllocHandle
  <2> HIDE DEF h
  <2>4. \A i \in DOMAIN handles' :
           (i \in DOMAIN handles /\ handles'[i] = handles[i]) \/ HandleBacked(handles[i])'
    BY <2>1, <2>3 DEF HandleBacked
  <2> QED
    BY <2>1, <2>2, <2>4, BackedKept
<1>2. CASE OpenAsync(k, creation, wantsWrite)
  <2> PICK entry : entry = OpenedEntry(k, creation, wantsWrite)
    OBVIOUS
  <2> DEFINE h == [kind |-> "file", key |-> k, data |-> None, pos |-> 0, size |-> entry.size,
                   writable |-> wantsWrite /\ entry.writable]
  <2>1. AllocHandle(h) /\ UNCHANGED <<requests, host, lost>> /\ entries' = [entries EXCEPT ![k] = entry]
    BY <1>2 DEF OpenAsync
  <2>2. Grows /\ host' \in [Keys -> Nat]
    BY <2>1, QuietGrows DEF requests, Backed
  <2>3. entry.size = 0 \/ (entries[k] # NoEntry /\ entry.size = entries[k].size)
    BY <1>2 DEF OpenAsync, OpenedEntry, Inv, FileTypes
  <2>4. k \notin lost' => entry.size <= Stored(k)'
    <3>1. Stored(k)' = Stored(k)
      BY <2>1 DEF Stored, requests
    <3>2. Stored(k) \in Nat
      BY StoredType DEF Backed, StoredTyped
    <3> QED
      BY <2>1, <2>3, <3>1, <3>2 DEF Backed, EntryBacked
  <2>5. \A j \in Keys : entries'[j] = entries[j] \/ EntryBacked(j)'
    BY <2>1, <2>4 DEF EntryBacked, Inv, FileTypes
  <2>6. \A i \in DOMAIN handles' : (i \in DOMAIN handles /\ handles'[i] = handles[i]) \/ handles'[i] = h
    BY <2>1 DEF AllocHandle
  <2>7. h.key = k /\ h.size = entry.size
    OBVIOUS
  <2> HIDE DEF h
  <2>8. \A i \in DOMAIN handles' :
           (i \in DOMAIN handles /\ handles'[i] = handles[i]) \/ HandleBacked(handles[i])'
    BY <2>4, <2>6, <2>7 DEF HandleBacked
  <2> QED
    BY <2>2, <2>5, <2>8, BackedKept
<1> QED
  BY <1>1, <1>2 DEF CreateFile

\* A write to an asynchronous file: the handle grows to the end of the write, and
\* so does what the key will hold, or the key is given up for lost (fprintf).
LEMMA GrownBacked ==
  ASSUME Inv, Inv', Backed, Grows, host' \in [Keys -> Nat],
         NEW i \in DOMAIN handles, handles[i] \in FileHandle, NEW n \in Nat,
         handles' = Grown(i, n), NEW key, key = handles[i].key,
         key \notin lost' => handles[i].pos + n <= Stored(key)',
         \A k \in Keys : entries'[k] = entries[k] \/ EntryBacked(k)'
  PROVE  Backed'
<1>1. PICK h : h = handles[i]
  OBVIOUS
<1>2. /\ h \in FileHandle /\ h.kind = "file" /\ h.key \in Keys /\ h.key = key
      /\ h.size \in Int /\ h.pos + n \in Int
  BY <1>1, FileAssumption DEF FileHandle
<1>3. HandleBacked(h)'
  <2>1. HandleOk(h) /\ HandleBacked(h)
    BY <1>1 DEF Inv, FileTypes, Backed
  <2> QED
    BY <2>1, HandleStaysBacked
<1>4. /\ handles'[i].key = h.key /\ handles'[i].kind = "file" /\ handles'[i].data = h.data
      /\ handles'[i].size = Max2(h.size, h.pos + n)
      /\ DOMAIN handles' = DOMAIN handles
      /\ \A j \in DOMAIN handles : j # i => handles'[j] = handles[j]
  BY <1>1, <1>2 DEF Grown, FileHandle
<1>5. HandleBacked(handles[i])'
  <2> SUFFICES ASSUME h.data = None, h.key \notin lost'
               PROVE  Max2(h.size, h.pos + n) <= Stored(h.key)'
    BY <1>4 DEF HandleBacked
  <2>1. h.size <= Stored(h.key)' /\ h.pos + n <= Stored(h.key)'
    BY <1>1, <1>2, <1>3 DEF HandleBacked
  <2> QED
    BY <1>2, <2>1, MaxMin
<1> QED
  BY <1>4, <1>5, BackedKept

LEMMA WriteBacked ==
  ASSUME Inv, Inv', Backed, NEW i \in DOMAIN handles, NEW n \in Nat, OpenFile(i), WriteAsync(i, n), Running
  PROVE  Backed'
<1> PICK k, end : k = handles[i].key /\ end = handles[i].pos + n
  OBVIOUS
<1>1. k \in Keys /\ end \in Nat /\ handles[i] \in FileHandle
  BY HandleOfFile, FileAssumption DEF Inv, WriteAsync, FileHandle
<1>2. /\ entries' = Noted(entries, k, end) /\ host' = host /\ lost' = lost
      /\ pending' = [id |-> nextId, what |-> [kind |-> "write", key |-> k, offset |-> handles[i].pos, len |-> n]]
      /\ handles' = Grown(i, n)
  BY DEF WriteAsync, Begin, Transfer, history
<1>3. pending = NoRequest /\ pending' # NoRequest
  <2>1. pending = NoRequest
    BY DEF Inv, OneTransfer
  <2>2. pending'.id # 0
    BY <1>2, RequestAssumption DEF Inv, RequestType, Ids
  <2> QED
    BY <2>1, <2>2 DEF NoRequest
<1>4. \A j \in Keys : Stored(j) = host[j] /\ host[j] \in Nat
  BY <1>3 DEF Stored, Backed
<1>5. Stored(k)' = Max2(host[k], end) /\ \A j \in Keys : j # k => Stored(j)' = host[j]
  BY <1>1, <1>2, <1>3 DEF Stored
<1>6. Max2(host[k], end) >= host[k] /\ Max2(host[k], end) >= end /\ Max2(host[k], end) \in Nat
  BY <1>1, <1>4, MaxMin
<1>7. Grows
  BY <1>2, <1>4, <1>5, <1>6 DEF Grows
<1>8. \A j \in Keys : entries'[j] = entries[j] \/ EntryBacked(j)'
  <2>1. CASE entries[k] = NoEntry
    BY <1>2, <2>1 DEF Noted
  <2>2. CASE entries[k] # NoEntry
    <3> PICK grown : grown = Max2(entries[k].size, end)
      OBVIOUS
    <3>1. entries' = [entries EXCEPT ![k] = [size |-> grown, writable |-> TRUE]]
      BY <1>2, <2>2 DEF Noted
    <3>2. entries'[k].size = grown /\ \A j \in Keys : j # k => entries'[j] = entries[j]
      BY <1>1, <3>1 DEF Inv, FileTypes
    <3>3. k \notin lost => grown <= Max2(host[k], end)
      <4>1. entries[k].size \in Int
        BY <1>1, <2>2, FileAssumption DEF Inv, FileTypes
      <4>2. grown \in {entries[k].size, end}
        BY <1>1, <4>1, MaxMin
      <4>3. k \notin lost => entries[k].size <= host[k]
        BY <1>1, <1>4, <2>2 DEF Backed, EntryBacked
      <4> QED
        BY <1>1, <1>4, <1>6, <4>1, <4>2, <4>3
    <3> QED
      BY <1>2, <1>5, <3>2, <3>3 DEF EntryBacked
  <2> QED
    BY <2>1, <2>2
<1> QED
  BY <1>1, <1>2, <1>5, <1>6, <1>7, <1>8, GrownBacked DEF Backed

\* Calls that move one handle, or shorten its size, and make no write request.
LEMMA MoveBacked ==
  ASSUME Inv, Inv', Backed, Grows, host' = host, entries' = entries, NEW i \in DOMAIN handles,
         handles[i] \in FileHandle, NEW h \in FileHandle, handles' = [handles EXCEPT ![i] = h],
         h.key = handles[i].key, h.data = handles[i].data, h.size <= handles[i].size
  PROVE  Backed'
<1>1. host' \in [Keys -> Nat]
  BY DEF Backed
<1>2. /\ DOMAIN handles' = DOMAIN handles /\ handles'[i] = h
      /\ \A j \in DOMAIN handles : j # i => handles'[j] = handles[j]
  OBVIOUS
<1>3. handles'[i].kind = handles[i].kind
  BY <1>2 DEF FileHandle
<1>4. HandleBacked(handles[i])'
  BY <1>1, <1>2, <1>3, MovedBacked
<1> QED
  BY <1>1, <1>2, <1>4, BackedKept

LEMMA PositionBacked ==
  ASSUME Inv, Inv', Backed, host' = host, entries' = entries, lost \subseteq lost',
         pending' = pending \/ (Running /\ (pending' = NoRequest \/ pending'.what.kind # "write")),
         NEW i, OpenFile(i), NEW p, p \in 0 .. MaxSize, handles' = [handles EXCEPT ![i].pos = p]
  PROVE  Backed'
<1> DEFINE h == [handles[i] EXCEPT !.pos = p]
<1>1. i \in DOMAIN handles /\ handles[i] \in FileHandle
  BY HandleOfFile DEF Inv
<1>2. h \in FileHandle /\ h.key = handles[i].key /\ h.data = handles[i].data /\ h.size = handles[i].size
  BY <1>1 DEF FileHandle
<1>3. handles[i].size \in Int
  BY <1>1, FileAssumption DEF FileHandle
<1>4. handles' = [handles EXCEPT ![i] = h]
  BY <1>1
<1> HIDE DEF h
<1>5. h.size <= handles[i].size
  BY <1>2, <1>3
<1> QED
  BY <1>1, <1>2, <1>4, <1>5, QuietGrows, MoveBacked

LEMMA ReadBacked ==
  ASSUME Inv, Inv', Backed, NEW i, NEW n \in Nat, n <= MaxSize, Read(i, n)
  PROVE  Backed'
<1> DEFINE got == Min2(n, Max2(0, FileSize(i) - handles[i].pos))
<1>1. /\ OpenFile(i) /\ Running /\ handles' = Moved(i, got)
      /\ UNCHANGED <<entries, host, lost>>
      /\ pending' = pending \/ pending'.what.kind # "write"
  BY DEF Read, directory, history, requests, Begin, Transfer
<1> HIDE DEF got
<1>2. i \in DOMAIN handles /\ handles[i] \in FileHandle
  BY <1>1, HandleOfFile DEF Inv
<1>3. i \in DOMAIN handles' /\ handles'[i].kind = "file" /\ handles'[i].pos = handles[i].pos + got
  BY <1>1, <1>2 DEF Moved, FileHandle
<1>4. handles'[i] \in FileHandle
  BY <1>3 DEF Inv, FileTypes, HandleOk
<1>5. handles[i].pos + got \in 0 .. MaxSize
  BY <1>3, <1>4 DEF FileHandle
<1>6. handles' = [handles EXCEPT ![i].pos = handles[i].pos + got]
  BY <1>1, <1>2 DEF Moved
<1> QED
  BY <1>1, <1>5, <1>6, PositionBacked

LEMMA MemoryBacked ==
  ASSUME Inv, Inv', Backed, NEW i, NEW n \in Nat, OpenFile(i), WriteMemory(i, n)
  PROVE  Backed'
<1>1. /\ handles' = Moved(i, n) /\ UNCHANGED <<entries, host, lost, pending>>
  BY DEF WriteMemory, history, requests
<1>2. i \in DOMAIN handles /\ handles[i] \in FileHandle
  BY HandleOfFile DEF Inv
<1>3. i \in DOMAIN handles' /\ handles'[i].kind = "file" /\ handles'[i].pos = handles[i].pos + n
  BY <1>1, <1>2 DEF Moved, FileHandle
<1>4. handles'[i] \in FileHandle
  BY <1>3 DEF Inv, FileTypes, HandleOk
<1>5. handles[i].pos + n \in 0 .. MaxSize
  BY <1>3, <1>4 DEF FileHandle
<1>6. handles' = [handles EXCEPT ![i].pos = handles[i].pos + n]
  BY <1>1, <1>2 DEF Moved
<1> QED
  BY <1>1, <1>5, <1>6, PositionBacked

LEMMA SeekBacked ==
  ASSUME Inv, Inv', Backed, NEW i, NEW dist \in Int, NEW origin \in Int, Seek(i, dist, origin)
  PROVE  Backed'
<1>1. PICK p : p = Max2(0, origin + dist)
  OBVIOUS
<1>2. /\ OpenFile(i) /\ handles' = [handles EXCEPT ![i].pos = p] /\ p <= guest.reach
      /\ UNCHANGED <<entries, host, lost, pending>>
  BY <1>1 DEF Seek, directory, history, requests
<1>3. p \in 0 .. MaxSize
  <2>1. guest.reach \in 0 .. MaxSize /\ MaxSize \in Nat
    BY FileAssumption DEF Inv, FileTypes
  <2>2. p \in Int /\ p >= 0
    BY <1>1, MaxMin
  <2> QED
    BY <1>2, <2>1, <2>2
<1> QED
  BY <1>2, <1>3, PositionBacked

LEMMA PrintBacked ==
  ASSUME Inv, Inv', Backed, NEW i, NEW n \in Nat, CrtPrint(i, n)
  PROVE  Backed'
<1>1. OpenFile(i) /\ i \in DOMAIN handles /\ handles[i] \in FileHandle
  BY HandleOfFile DEF Inv, CrtPrint
<1>2. CASE WriteMemory(i, n)
  BY <1>1, <1>2, MemoryBacked
<1>3. CASE ~WriteMemory(i, n)
  <2> PICK key : key = handles[i].key
    OBVIOUS
  <2>1. /\ handles' = Grown(i, n) /\ lost' = lost \cup {key}
        /\ UNCHANGED <<requests, directory, host>>
    BY <1>3 DEF CrtPrint
  <2>2. Grows /\ host' \in [Keys -> Nat]
    BY <2>1, QuietGrows DEF requests, Backed
  <2> QED
    BY <1>1, <2>1, <2>2, GrownBacked DEF directory
<1> QED
  BY <1>2, <1>3

LEMMA SetEndBacked ==
  ASSUME Inv, Inv', Backed, NEW i, SetEndOfFile(i)
  PROVE  Backed'
<1>1. OpenFile(i) /\ i \in DOMAIN handles /\ handles[i] \in FileHandle
  BY HandleOfFile DEF Inv, SetEndOfFile
<1>2. lost \subseteq lost' /\ UNCHANGED <<requests, entries, host>>
  BY DEF SetEndOfFile
<1>3. Grows /\ host' \in [Keys -> Nat]
  BY <1>2, QuietGrows DEF requests, Backed
<1>4. CASE IsMemory(i)
  BY <1>2, <1>3, <1>4, BackedKept DEF SetEndOfFile
<1>5. CASE ~IsMemory(i) /\ handles[i].pos > handles[i].size
  <2>1. /\ handles' = [handles EXCEPT ![i].size = handles[i].pos]
        /\ lost' = lost \cup {handles[i].key}
    BY <1>5 DEF SetEndOfFile
  <2>2. DOMAIN handles' = DOMAIN handles /\ handles'[i].key = handles[i].key
        /\ \A j \in DOMAIN handles : j # i => handles'[j] = handles[j]
    BY <1>1, <2>1 DEF FileHandle
  <2>3. HandleBacked(handles[i])'
    BY <2>1, <2>2 DEF HandleBacked
  <2> QED
    BY <1>2, <1>3, <2>2, <2>3, BackedKept
<1>6. CASE ~IsMemory(i) /\ ~(handles[i].pos > handles[i].size)
  <2> DEFINE h == [handles[i] EXCEPT !.size = handles[i].pos]
  <2>1. handles' = [handles EXCEPT ![i] = h]
    BY <1>1, <1>6 DEF SetEndOfFile
  <2>2. /\ h \in FileHandle /\ h.key = handles[i].key /\ h.data = handles[i].data
        /\ h.size = handles[i].pos
    BY <1>1 DEF FileHandle
  <2>3. handles[i].pos \in Int /\ handles[i].size \in Int
    BY <1>1, FileAssumption DEF FileHandle
  <2> HIDE DEF h
  <2>4. h.size <= handles[i].size
    BY <1>6, <2>2, <2>3
  <2> QED
    BY <1>1, <1>2, <1>3, <2>1, <2>2, <2>4, MoveBacked
<1> QED
  BY <1>4, <1>5, <1>6

LEMMA DirectoryBacked ==
  ASSUME Inv, Inv', Backed, (\E k \in Keys : DeleteFile(k)) \/ (\E j, k \in Keys : MoveFile(j, k))
  PROVE  Backed'
<1>1. UNCHANGED <<requests, handles, host>> /\ lost \subseteq lost'
  BY DEF DeleteFile, MoveFile
<1>2. Grows /\ host' \in [Keys -> Nat]
  BY <1>1, QuietGrows DEF requests, Backed
<1>3. \A k \in Keys : entries'[k] = entries[k] \/ entries'[k] = NoEntry \/ k \in lost'
  BY DEF DeleteFile, MoveFile, Inv, FileTypes
<1>4. \A k \in Keys : entries'[k] = entries[k] \/ EntryBacked(k)'
  BY <1>3 DEF EntryBacked
<1> QED
  BY <1>1, <1>2, <1>4, BackedKept

\* An answer that falls short of the request gives the key up for lost, any other
\* one leaves the host with all of the write.
LEMMA AnswerBacked ==
  ASSUME Inv, Inv', Backed, NEW id, NEW a, HostAnswers(id, a), id = pending.id => a.count \in Nat
  PROVE  Backed'
<1>1. UNCHANGED <<entries, handles>> /\ pending # NoRequest
  BY DEF HostAnswers, directory
<1>2. CASE id # pending.id
  <2>1. UNCHANGED <<pending, host, lost>>
    BY <1>2 DEF HostAnswers, Complete, history
  <2>2. Grows /\ host' \in [Keys -> Nat]
    BY <2>1, QuietGrows DEF Backed
  <2> QED
    BY <1>1, <2>2, BackedKept
<1>3. CASE id = pending.id
  <2> PICK what, key : what = pending.what /\ key = what.key
    OBVIOUS
  <2> PICK kept : kept = Max2(host[key], Stores(what, a))
    OBVIOUS
  <2>1. what \in Transfers /\ key \in Keys /\ what.offset \in Nat /\ what.len \in Nat /\ a.count \in Nat
    BY <1>1, <1>3, TransferAssumption DEF Inv, RequestType
  <2>2. /\ pending' = NoRequest /\ host' = [host EXCEPT ![key] = kept]
        /\ lost' = IF what.kind = "write" /\ kept < what.offset + what.len THEN lost \cup {key} ELSE lost
    BY <1>1, <1>3 DEF HostAnswers, Complete
  <2>3. Stores(what, a) \in Nat /\ host[key] \in Nat
    BY <2>1 DEF Stores, Backed
  <2>4. kept \in Nat /\ kept >= host[key]
    BY <2>3, MaxMin
  <2>5. host' \in [Keys -> Nat]
    BY <2>2, <2>4 DEF Backed
  <2>6. \A k \in Keys : Stored(k)' = host'[k]
    BY <2>2 DEF Stored
  <2>7. \A k \in Keys : k # key => Stored(k) = host[k] /\ host'[k] = host[k] /\ host[k] \in Nat
    BY <2>2 DEF Stored, Backed
  <2>8. key \notin lost' => Stored(key) <= kept
    <3>1. CASE what.kind = "write"
      <4>1. Stored(key) = Max2(host[key], what.offset + what.len)
        BY <1>1, <3>1 DEF Stored
      <4>2. Stored(key) \in {host[key], what.offset + what.len}
        BY <2>1, <2>3, <4>1, MaxMin
      <4> QED
        BY <2>1, <2>2, <2>3, <2>4, <3>1, <4>2
    <3>2. CASE what.kind # "write"
      BY <2>4, <3>2 DEF Stored
    <3> QED
      BY <3>1, <3>2
  <2>9. host'[key] = kept
    BY <2>1, <2>2 DEF Backed
  <2>10. Grows
    BY <2>2, <2>6, <2>7, <2>8, <2>9 DEF Grows
  <2> QED
    BY <1>1, <2>5, <2>10, BackedKept
<1> QED
  BY <1>2, <1>3

\* Steps that change no size and nothing at the host.
LEMMA QuietBacked ==
  ASSUME Inv, Inv', Backed, UNCHANGED <<entries, host, lost, pending>>,
         \A i \in DOMAIN handles' :
           (i \in DOMAIN handles /\ handles'[i] = handles[i]) \/ handles'[i].kind # "file"
  PROVE  Backed'
<1>1. Grows /\ host' \in [Keys -> Nat]
  BY QuietGrows DEF Backed
<1>2. \A i \in DOMAIN handles' :
        (i \in DOMAIN handles /\ handles'[i] = handles[i]) \/ HandleBacked(handles[i])'
  BY DEF HandleBacked
<1> QED
  BY <1>1, <1>2, BackedKept

LEMMA SizesKept ==
  ASSUME Inv, Inv', Backed, [Next]_vars
  PROVE  Backed'
<1>1. CASE GuestNext
  <2>0. guest.opens \subseteq Keys /\ guest.reach \in 0 .. MaxSize
    BY FileAssumption DEF Inv, FileTypes
  <2>1. CASE Opens
    BY <2>0, <2>1, OpenBacked DEF Opens
  <2>2. CASE TransferCalls
    <3>1. PICK i \in DOMAIN handles, n \in 0 .. guest.reach : Read(i, n) \/ Write(i, n)
      BY <2>2 DEF TransferCalls
    <3>2. n \in Nat /\ n <= MaxSize
      BY <2>0, FileAssumption
    <3>3. CASE Read(i, n)
      BY <3>2, <3>3, ReadBacked
    <3>4. CASE Write(i, n)
      BY <3>2, <3>4, WriteBacked, MemoryBacked DEF Write
    <3> QED
      BY <3>1, <3>3, <3>4
  <2>3. CASE (\E k \in Keys : DeleteFile(k)) \/ (\E j, k \in Keys : MoveFile(j, k))
    BY <2>3, DirectoryBacked
  <2>4. CASE Seeks
    <3>1. PICK i \in DOMAIN handles, origin \in -guest.reach .. guest.reach,
               dist \in -guest.reach .. guest.reach : Seek(i, dist, origin)
      BY <2>4 DEF Seeks
    <3>2. origin \in Int /\ dist \in Int
      BY <2>0, FileAssumption
    <3> QED
      BY <3>1, <3>2, SeekBacked
  <2>5. CASE \E i \in DOMAIN handles, n \in 0 .. guest.reach : CrtPrint(i, n)
    BY <2>0, <2>5, PrintBacked
  <2>6. CASE \E i \in DOMAIN handles : SetEndOfFile(i)
    BY <2>6, SetEndBacked
  <2>7. CASE \E i \in DOMAIN handles : CloseHandle(i)
    BY <2>7, QuietBacked DEF CloseHandle, Closed, directory, history, requests
  <2>8. CASE \E i \in DOMAIN handles : FindNextFile(i)
    <3>1. PICK i \in DOMAIN handles : FindNextFile(i)
      BY <2>8
    <3>2. handles' = [handles EXCEPT ![i].index = @ + 1] /\ handles[i].kind = "find"
      BY <3>1 DEF FindNextFile
    <3>3. handles'[i].kind = "find" /\ DOMAIN handles' = DOMAIN handles
          /\ \A j \in DOMAIN handles : j # i => handles'[j] = handles[j]
      <4>1. "kind" \in DOMAIN handles[i]
        BY DEF Inv, FileTypes, HandleOk
      <4>2. handles'[i] = [handles[i] EXCEPT !.index = @ + 1]
        BY <3>2
      <4>3. handles'[i].kind = handles[i].kind
        BY <4>1, <4>2
      <4> QED
        BY <3>2, <4>3
    <3> QED
      BY <3>1, <3>3, QuietBacked DEF FindNextFile, directory, history, requests
  <2>9. CASE FindFirstFile
    BY <2>9, QuietBacked DEF FindFirstFile, AllocHandle, directory, history, requests
  <2> QED
    BY <1>1, <2>1, <2>2, <2>3, <2>4, <2>5, <2>6, <2>7, <2>8, <2>9 DEF GuestNext
<1>2. CASE HostNext
  <2>1. pending # NoRequest /\ pending.what \in Transfers
    BY <1>2 DEF HostNext, HostServes, HostAnswers, Inv, RequestType
  <2>2. pending.what.len \in Nat
    BY <2>1, TransferAssumption
  <2>3. CASE HostServes
    <3>1. PICK a \in IF guest.faulty THEN Answers(pending.what) ELSE {[ok |-> TRUE, count |-> pending.what.len]} :
            HostAnswers(pending.id, a)
      BY <2>3 DEF HostServes
    <3>2. a.count \in Nat
      <4>1. a \in Answers(pending.what) \/ a.count = pending.what.len
        BY <3>1
      <4>2. CASE a = [ok |-> FALSE, count |-> 0]
        BY <4>2
      <4>3. CASE a \in [ok : {TRUE}, count : 0 .. pending.what.len]
        BY <2>2, <4>3
      <4> QED
        BY <2>2, <4>1, <4>2, <4>3 DEF Answers
    <3> QED
      BY <3>1, <3>2, AnswerBacked
  <2>4. CASE \E id \in Ids : HostAnswers(id, [ok |-> FALSE, count |-> 0]) /\ id # pending.id
    BY <2>4, AnswerBacked
  <2> QED
    BY <1>2, <2>3, <2>4 DEF HostNext
<1>3. CASE Wake
  BY <1>3, QuietBacked DEF Wake, Takes, directory, history
<1>4. CASE UNCHANGED vars
  BY <1>4, QuietBacked DEF vars, directory, history, requests
<1> QED
  BY <1>1, <1>2, <1>3, <1>4 DEF Next

\* The directory and the open handles never promise bytes the host does not have
\* or is not about to have, but for the keys given up for lost.
THEOREM SizesAlwaysBacked == Spec => []SizesBacked
<1>1. Init => Backed
  <2> SUFFICES ASSUME Init PROVE Backed
    OBVIOUS
  <2>1. \A k \in Keys : entries[k] # NoEntry => entries[k].size = 1 /\ host[k] = 1
    BY DEF Init
  <2>2. \A k \in Keys : Stored(k) = host[k]
    BY DEF Init, RequestInit, Stored
  <2>3. handles = <<>> /\ host \in [Keys -> Nat]
    BY DEF Init
  <2> QED
    BY <2>1, <2>2, <2>3 DEF Backed, EntryBacked
<1>2. Inv /\ Backed /\ [Next]_vars => Backed'
  <2>1. Inv /\ [Next]_vars => Inv'
    BY StepTypes, OneTransferKept DEF Inv
  <2> QED
    BY <2>1, SizesKept
<1>3. Inv /\ Backed => SizesBacked
  BY DEF Backed, EntryBacked, HandleBacked, SizesBacked, OpenFile, IsMemory, Inv, FileTypes
<1> QED
  BY <1>1, <1>2, <1>3, InvAlways, PTL DEF Spec
=============================================================================
