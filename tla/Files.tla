------------------------------- MODULE Files --------------------------------
(***************************************************************************)
(* The virtual file system of a mounted guest (hle_vfs.rs), the file and   *)
(* find handles over it (hle_base.rs, hle_kernel_file.rs) and the C        *)
(* streams that are the same handles (hle_msvcrt.rs).  `enabled` is set:   *)
(* native host files are not modelled.                                     *)
(*                                                                         *)
(* A memory file is bytes shared between the directory and its handles; an *)
(* asynchronous file is only a directory entry here, its bytes are at the  *)
(* host.  Bytes are not modelled, sizes are.  Calls that fail and change   *)
(* nothing (a closed or unfit handle) are left out.                        *)
(***************************************************************************)
EXTENDS VfsRequests, Sequences, SequencesExt

CONSTANTS
  Keys,         (* normalised guest paths, all in one directory            *)
  MaxSize,      (* the largest reach of a guest                            *)
  Guests        (* the guests to check, see `guest`                        *)

ASSUME TransferAssumption ==
  \A t \in Transfers : t.key \in Keys /\ t.offset \in Nat /\ t.len \in Nat

ASSUME FileAssumption ==
  /\ MaxSize \in Nat \ {0}
  /\ Keys \subseteq Nat \ {0}
  /\ [kind : {"read", "write"}, key : Keys, offset : 0 .. MaxSize, len : 0 .. MaxSize] \subseteq Transfers
  /\ \A g \in Guests : g.memory \subseteq Keys /\ g.opens \subseteq Keys /\ g.reach \in 0 .. MaxSize
                       /\ g.writable \in BOOLEAN

VARIABLES
  guest,        (* what is mounted and what the guest does:                *)
                (*   memory, async  keys mounted as bytes, as entries      *)
                (*   opens      keys it opens                              *)
                (*   writable   async_writable, and the mounted entries    *)
                (*   calls      the API calls it makes                     *)
                (*   handles    bound: handles it has open                 *)
                (*   reach      bound: end of what it writes and seeks     *)
                (*   faulty     the host may refuse or shorten a transfer  *)
  files,        (* directory of memory files: key to its bytes, or None    *)
  bytes,        (* size of the bytes that were mounted under a key         *)
  entries,      (* directory of asynchronous files: key to entry           *)
  handles,      (* the handle table                                        *)
  host,         (* external: size of what the host has stored under a key  *)
  acked,        (* history: end of the furthest write the host carried out *)
  lost          (* history: keys of which a size was claimed without storing *)

directory == <<files, bytes, entries>>
history   == <<host, acked, lost>>
vars == <<guest, requests, directory, handles, history>>

None == 0    \* Keys are positive numbers, in the order of their names.
NoEntry == [size |-> -1, writable |-> FALSE]
Closed == [kind |-> "closed"]

\* A handle on bytes names them in `data`; `size` is read on asynchronous files only.
FileHandle == [kind : {"file"}, key : Keys, data : Keys \cup {None}, pos : 0 .. MaxSize,
               size : 0 .. MaxSize, writable : BOOLEAN]
HandleOk(h) == "kind" \in DOMAIN h /\ (h.kind = "file" => h \in FileHandle)

Max2(a, b) == IF a >= b THEN a ELSE b
Min2(a, b) == IF a <= b THEN a ELSE b

Init ==
  /\ guest \in Guests
  /\ RequestInit
  /\ files = [k \in Keys |-> IF k \in guest.memory THEN k ELSE None]
  /\ bytes = [d \in Keys |-> 1]
  /\ entries = [k \in Keys |-> IF k \in guest.async THEN [size |-> 1, writable |-> guest.writable] ELSE NoEntry]
  /\ handles = <<>>
  /\ host = [k \in Keys |-> IF k \in guest.async THEN 1 ELSE 0]
  /\ acked = [k \in Keys |-> 0]
  /\ lost = {}

-----------------------------------------------------------------------------
(***************************************************************************)
(* The handle table.                                                       *)
(***************************************************************************)

\* alloc_handle: the first empty slot, or a new one.
FreeSlot(hs) ==
  IF \E i \in DOMAIN hs : hs[i] = Closed
  THEN CHOOSE i \in DOMAIN hs : hs[i] = Closed /\ \A j \in 1 .. i - 1 : hs[j] # Closed
  ELSE Len(hs) + 1

AllocHandle(h) ==
  LET slot == FreeSlot(handles)
  IN /\ slot <= guest.handles
     /\ handles' = [i \in DOMAIN handles \cup {slot} |-> IF i = slot THEN h ELSE handles[i]]

OpenFile(i)  == i \in DOMAIN handles /\ handles[i].kind = "file"
IsMemory(i)  == handles[i].data # None
FileSize(i)  == IF IsMemory(i) THEN bytes[handles[i].data] ELSE handles[i].size
Running      == wait = NoWait

CloseHandle(i) ==
  /\ Running /\ i \in DOMAIN handles /\ handles[i] # Closed
  /\ handles' = [handles EXCEPT ![i] = Closed]
  /\ UNCHANGED <<requests, directory, history>>

-----------------------------------------------------------------------------
(***************************************************************************)
(* Opening.                                                                *)
(***************************************************************************)
Existing == {"create_always", "truncate_existing", "open_existing", "open_always"}
Creations == Existing \cup {"create_new"}

\* open_virtual_file: bytes that exist are never created anew, and are cleared
\* for every handle that has them open.
OpenMemory(k, creation, wantsWrite) ==
  LET clears == creation \in {"create_always", "truncate_existing"} /\ wantsWrite
  IN /\ files[k] # None /\ creation # "create_new"
     /\ AllocHandle([kind |-> "file", key |-> k, data |-> files[k], pos |-> 0, size |-> 0,
                     writable |-> wantsWrite])
     /\ bytes' = IF clears THEN [bytes EXCEPT ![files[k]] = 0] ELSE bytes
     /\ UNCHANGED <<requests, files, entries, history>>

\* open_async_virtual_file: the entry a handle is opened on, NoEntry if it fails.
OpenedEntry(k, creation, wantsWrite) ==
  LET mayCreate == guest.writable /\ wantsWrite
      old == entries[k]
      empty == [size |-> 0, writable |-> TRUE]
  IN IF old = NoEntry
     THEN IF mayCreate /\ creation \in {"create_new", "create_always", "open_always"}
          THEN empty ELSE NoEntry
     ELSE IF creation = "create_new" THEN NoEntry
     ELSE IF creation \in {"create_always", "truncate_existing"}
          THEN IF mayCreate THEN empty ELSE old
     ELSE IF creation \in {"open_existing", "open_always"} /\ wantsWrite /\ ~old.writable /\ ~guest.writable
          THEN NoEntry
     ELSE [old EXCEPT !.writable = @ \/ mayCreate]

OpenAsync(k, creation, wantsWrite) ==
  LET entry == OpenedEntry(k, creation, wantsWrite)
  IN /\ files[k] = None /\ entry # NoEntry
     /\ entries' = [entries EXCEPT ![k] = entry]
     /\ AllocHandle([kind |-> "file", key |-> k, data |-> None, pos |-> 0, size |-> entry.size,
                     writable |-> wantsWrite /\ entry.writable])
     /\ acked' = IF entry.size = 0 THEN [acked EXCEPT ![k] = 0] ELSE acked
     /\ UNCHANGED <<requests, files, bytes, host, lost>>

CreateFile(k, creation, wantsWrite) ==
  Running /\ (OpenMemory(k, creation, wantsWrite) \/ OpenAsync(k, creation, wantsWrite))
-----------------------------------------------------------------------------
(***************************************************************************)
(* Transfers: ReadFile, WriteFile, _lread, _lwrite, fread, fwrite.         *)
(***************************************************************************)
Moved(i, n)  == [handles EXCEPT ![i].pos = @ + n]
\* Mutation of Grown: every write is taken for an append.
GrownByLength(i, n) == [handles EXCEPT ![i].pos = @ + n, ![i].size = @ + n]
Grown(i, n)  == [handles EXCEPT ![i].pos = @ + n, ![i].size = Max2(@, handles[i].pos + n)]
Transfer(kind, i, n) == [kind |-> kind, key |-> handles[i].key, offset |-> handles[i].pos, len |-> n]

\* FileHandle::read.  The position of an asynchronous file moves when the read
\* is asked for.
Read(i, n) ==
  LET got == Min2(n, Max2(0, FileSize(i) - handles[i].pos))
  IN /\ Running /\ OpenFile(i)
     /\ handles' = Moved(i, got)
     /\ IF IsMemory(i) \/ got = 0 THEN UNCHANGED requests ELSE Begin(Transfer("read", i, got))
     /\ UNCHANGED <<directory, history>>

\* Mutation of Noted: the end of the last write is the size.
NotedLast(es, k, end) ==
  IF es[k] = NoEntry THEN es ELSE [es EXCEPT ![k] = [size |-> end, writable |-> TRUE]]

\* note_async_write
Noted(es, k, end) ==
  IF es[k] = NoEntry THEN es
  ELSE [es EXCEPT ![k] = [size |-> Max2(@.size, end), writable |-> TRUE]]

WriteMemory(i, n) ==
  LET d == handles[i].data
  IN /\ IsMemory(i)
     /\ handles' = Moved(i, n)
     /\ bytes' = [bytes EXCEPT ![d] = Max2(@, handles[i].pos + n)]
     /\ UNCHANGED <<requests, files, entries, history>>

WriteAsync(i, n) ==
  LET k == handles[i].key
  IN /\ ~IsMemory(i)
     /\ handles' = Grown(i, n)
     /\ entries' = Noted(entries, k, handles[i].pos + n)
     /\ Begin(Transfer("write", i, n))
     /\ UNCHANGED <<files, bytes, history>>

Write(i, n) ==
  /\ Running /\ OpenFile(i) /\ handles[i].writable
  /\ handles[i].pos + n <= guest.reach
  /\ WriteMemory(i, n) \/ WriteAsync(i, n)

\* fprintf, fputc: write_sync.  On an asynchronous file the position and the
\* size move, but no request is made.
CrtPrint(i, n) ==
  /\ Running /\ OpenFile(i) /\ handles[i].writable
  /\ handles[i].pos + n <= guest.reach
  /\ \/ WriteMemory(i, n)
     \/ /\ ~IsMemory(i)
        /\ handles' = Grown(i, n)
        /\ lost' = lost \cup {handles[i].key}
        /\ UNCHANGED <<requests, directory, host, acked>>

\* FileHandle::seek, from the start, the position or the end.
Seek(i, dist, origin) ==
  LET pos == Max2(0, origin + dist)
  IN /\ Running /\ OpenFile(i)
     /\ origin \in {0, handles[i].pos, FileSize(i)}
     /\ pos <= guest.reach
     /\ handles' = [handles EXCEPT ![i].pos = pos]
     /\ UNCHANGED <<requests, directory, history>>

\* set_end: the entry of an asynchronous file is not told.
SetEndOfFile(i) ==
  /\ Running /\ OpenFile(i) /\ handles[i].writable
  /\ IF IsMemory(i)
     THEN bytes' = [bytes EXCEPT ![handles[i].data] = handles[i].pos] /\ UNCHANGED <<handles, lost>>
     ELSE /\ handles' = [handles EXCEPT ![i].size = handles[i].pos]
          /\ lost' = IF handles[i].pos > handles[i].size THEN lost \cup {handles[i].key} ELSE lost
          /\ UNCHANGED bytes
  /\ UNCHANGED <<requests, files, entries, host, acked>>

-----------------------------------------------------------------------------
(***************************************************************************)
(* The directory.                                                          *)
(***************************************************************************)

\* delete_key, also MoveFileEx without a new name: bytes before entries.
DeleteFile(k) ==
  /\ Running
  /\ IF files[k] # None
     THEN files' = [files EXCEPT ![k] = None] /\ UNCHANGED <<entries, acked>>
     ELSE /\ entries[k] # NoEntry
          /\ entries' = [entries EXCEPT ![k] = NoEntry]
          /\ acked' = [acked EXCEPT ![k] = 0]
          /\ UNCHANGED files
  /\ UNCHANGED <<requests, bytes, handles, host, lost>>

\* move_key replaces what is there.  The host is not told.
MoveFile(from, to) ==
  /\ Running
  /\ IF files[from] # None
     THEN /\ files' = [[files EXCEPT ![from] = None] EXCEPT ![to] = files[from]]
          /\ UNCHANGED <<entries, acked, lost>>
     ELSE /\ entries[from] # NoEntry
          /\ entries' = [[entries EXCEPT ![from] = NoEntry] EXCEPT ![to] = entries[from]]
          /\ acked' = [[acked EXCEPT ![from] = 0] EXCEPT ![to] = acked[from]]
          /\ lost' = IF from = to THEN lost ELSE lost \cup {to}
          /\ UNCHANGED files
  /\ UNCHANGED <<requests, bytes, handles, host>>

\* find_file_entries: the names, once each and sorted, as they are now.
Listed == SetToSortSeq({k \in Keys : files[k] # None \/ entries[k] # NoEntry}, LAMBDA a, b : a < b)

FindFirstFile ==
  /\ Running /\ Listed # <<>>
  /\ AllocHandle([kind |-> "find", found |-> Listed, index |-> 1])
  /\ UNCHANGED <<requests, directory, history>>

\* FindNextFile counts on after the last entry.
FindNextFile(i) ==
  /\ Running /\ i \in DOMAIN handles /\ handles[i].kind = "find"
  /\ handles[i].index <= Len(handles[i].found)
  /\ handles' = [handles EXCEPT ![i].index = @ + 1]
  /\ UNCHANGED <<requests, directory, history>>

-----------------------------------------------------------------------------
(***************************************************************************)
(* The host, and the end of a wait.                                        *)
(***************************************************************************)
Stores(what, answer) ==
  IF what.kind = "write" /\ answer.count > 0 THEN what.offset + answer.count ELSE 0

\* complete_request, with the host that calls it.  An answer to another request
\* changes nothing.
HostAnswers(id, answer) ==
  /\ pending # NoRequest
  /\ Complete(id, answer)
  /\ IF id # pending.id THEN UNCHANGED history
     ELSE LET what == pending.what
              kept == Max2(host[what.key], Stores(what, answer))
          IN /\ host' = [host EXCEPT ![what.key] = kept]
             /\ acked' = IF entries[what.key] = NoEntry THEN acked
                         ELSE [acked EXCEPT ![what.key] = Max2(@, Stores(what, answer))]
             /\ lost' = IF what.kind = "write" /\ kept < what.offset + what.len THEN lost \cup {what.key} ELSE lost
  /\ UNCHANGED <<directory, handles>>

HostServes ==
  /\ pending # NoRequest
  /\ \E answer \in IF guest.faulty THEN Answers(pending.what)
                   ELSE {[ok |-> TRUE, count |-> pending.what.len]} :
       HostAnswers(pending.id, answer)

\* complete_hle_vfs_io: the position stays where the request put it.
Wake ==
  /\ \E done \in completed : Takes(done)
  /\ UNCHANGED <<directory, handles, history>>

Makes(call) == call \in guest.calls

Opens ==
  \E k \in guest.opens, creation \in Creations, wantsWrite \in BOOLEAN : CreateFile(k, creation, wantsWrite)
TransferCalls ==
  \E i \in DOMAIN handles, n \in 0 .. guest.reach : Read(i, n) \/ Write(i, n)
Seeks ==
  \E i \in DOMAIN handles, origin, dist \in -guest.reach .. guest.reach : Seek(i, dist, origin)

GuestNext ==
  /\ \/ Opens \/ TransferCalls \/ Seeks
     \/ \E i \in DOMAIN handles : CloseHandle(i)
     \/ Makes("print") /\ \E i \in DOMAIN handles, n \in 0 .. guest.reach : CrtPrint(i, n)
     \/ Makes("setEnd") /\ \E i \in DOMAIN handles : SetEndOfFile(i)
     \/ Makes("find") /\ (FindFirstFile \/ \E i \in DOMAIN handles : FindNextFile(i))
     \/ Makes("delete") /\ \E k \in Keys : DeleteFile(k)
     \/ Makes("move") /\ \E j, k \in Keys : MoveFile(j, k)
  /\ UNCHANGED guest

HostNext ==
  /\ \/ HostServes
     \/ \E id \in Ids : HostAnswers(id, [ok |-> FALSE, count |-> 0]) /\ id # pending.id
  /\ UNCHANGED guest

Next == GuestNext \/ HostNext \/ (Wake /\ UNCHANGED guest)

Spec == Init /\ [][Next]_vars

\* The host answers, and the run loop looks at the answers every frame.
FairSpec == Spec /\ WF_vars(HostServes /\ UNCHANGED guest) /\ WF_vars(Wake /\ UNCHANGED guest)

-----------------------------------------------------------------------------
(***************************************************************************)
(* Properties.                                                             *)
(***************************************************************************)

\* The variables have their types; no position and no size gets beyond the
\* largest reach.
FileTypes ==
  /\ guest \in Guests
  /\ files \in [Keys -> Keys \cup {None}]
  /\ bytes \in [Keys -> 0 .. MaxSize]
  /\ entries \in [Keys -> {NoEntry} \cup [size : 0 .. MaxSize, writable : BOOLEAN]]
  /\ \A i \in DOMAIN handles : HandleOk(handles[i])

TypeOK == FileTypes /\ RequestType

\* A guest is parked on exactly the one transfer under way, which is with the
\* host or already answered, and a running guest has none: the assertions of
\* begin_read and begin_write hold, and no answer is left behind to be taken
\* for another one when the ids wrap.
OneTransfer ==
  IF Running THEN pending = NoRequest /\ completed = {}
  ELSE \/ pending.id = wait /\ completed = {}
       \/ pending = NoRequest /\ \E done \in completed : completed = {done} /\ done.id = wait

\* The size of an asynchronous file covers every write the host has carried
\* out since it was created, whichever handle made it and whatever sizes the
\* other handles remember.
EntryCoversWrites ==
  \A k \in Keys : entries[k] # NoEntry => acked[k] <= entries[k].size

\* What a key holds once the write under way is done.
Stored(k) ==
  IF pending # NoRequest /\ pending.what.kind = "write" /\ pending.what.key = k
  THEN Max2(host[k], pending.what.offset + pending.what.len) ELSE host[k]

\* The directory and the sizes that open handles remember never promise bytes
\* the host does not have, so that a read clipped to them is one the host can
\* serve.  Excepted are the ways the code has to break this promise: a transfer
\* that fails or falls short, a rename, fprintf, and SetEndOfFile past the end.
SizesBacked ==
  /\ \A k \in Keys \ lost : entries[k] # NoEntry => entries[k].size <= Stored(k)
  /\ \A i \in DOMAIN handles :
       (OpenFile(i) /\ ~IsMemory(i) /\ handles[i].key \notin lost) => handles[i].size <= Stored(handles[i].key)

\* To the guest a transfer is a blocking call: asked once, answered once.
Call == INSTANCE HostCall WITH
  Transfers <- Transfers, NoTransfer <- NoTransfer,
  phase <- IF Running THEN "running" ELSE IF completed = {} THEN "asked" ELSE "answered",
  what <- IF completed = {} THEN pending.what ELSE (CHOOSE done \in completed : TRUE).what
BlockingCalls == Call!Spec

\* A parked transfer ends, when the host answers what it is asked.
TransferEnds == ~Running ~> Running
=============================================================================
