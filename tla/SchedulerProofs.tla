--------------------------- MODULE SchedulerProofs ---------------------------
(***************************************************************************)
(* Proofs about Scheduler, for every set of machines, of calls their       *)
(* guests make and of scripts, and for every bound.                        *)
(***************************************************************************)
EXTENDS Scheduler, DataLemmas, SequenceTheorems

Kind   == {"mm", "window"}
Target == [ms : Nat, frames : Nat]
InputMessage == [msg : Inputs, id : {0}]

TimerOf(ids) == [id : ids, period : Target, left : Nat, framesLeft : Nat]
MmTimer(n)   == [id : 1 .. n, periodic : BOOLEAN, period : Target, left : Nat, framesLeft : Nat]

-----------------------------------------------------------------------------
(***************************************************************************)
(* Timers.                                                                 *)
(***************************************************************************)
\* Deadlines are natural numbers.
LEMMA DelayTyped ==
  ASSUME NEW live \in BOOLEAN, NEW frameMs \in Nat, NEW delay \in Nat
  PROVE  DelayTarget(live, frameMs, delay) \in Target
<1>1. CASE ~live
  BY <1>1 DEF DelayTarget, Target, Longer
<1>2. CASE live /\ frameMs = 0
  BY <1>2 DEF DelayTarget, Target, Longer
<1>3. CASE live /\ frameMs # 0
  <2> DEFINE q == (2 * delay + frameMs) \div (2 * frameMs)
             n == IF delay = 0 THEN 1 ELSE Longer(q, 1)
  <2>1. q \in Int
    <3>1. 2 * frameMs \in Int /\ 2 * frameMs > 0 /\ 2 * delay + frameMs \in Int
      BY <1>3
    <3> QED
      BY <3>1
  <2> HIDE DEF q
  <2>2. n \in Nat
    BY <2>1 DEF Longer
  <2>3. DelayTarget(live, frameMs, delay)
          = [ms |-> IF delay = 0 THEN 0 ELSE Longer(n * frameMs, 1), frames |-> n]
    BY <1>3 DEF DelayTarget, q
  <2> HIDE DEF n
  <2>4. n * frameMs \in Nat
    BY <2>2
  <2>5. Longer(n * frameMs, 1) \in Nat
    BY <2>4 DEF Longer
  <2> QED
    BY <2>2, <2>3, <2>5 DEF Target
<1> QED
  BY <1>1, <1>2, <1>3

\* A function over the positions of a sequence is a sequence.
LEMMA OverPositions ==
  ASSUME NEW S, NEW T, NEW q \in Seq(S), NEW f, f = [i \in DOMAIN q |-> f[i]],
         \A i \in DOMAIN q : f[i] \in T
  PROVE  f \in Seq(T) /\ Len(f) = Len(q)
<1>1. Len(q) \in Nat /\ DOMAIN q = 1 .. Len(q)
  OBVIOUS
<1> QED
  BY <1>1

\* Message timers stay timers when time passes, when frames begin and when the
\* due ones are re-armed.
LEMMA TimersKept ==
  ASSUME NEW ids, NEW q \in Seq(TimerOf(ids)), NEW dt \in Nat
  PROVE  /\ AllAged(q, dt) \in Seq(TimerOf(ids))
         /\ AllFramed(q) \in Seq(TimerOf(ids))
         /\ PumpedTimers(q) \in Seq(TimerOf(ids))
<1>1. \A i \in DOMAIN q : q[i] \in TimerOf(ids)
  OBVIOUS
<1>2. \A t \in TimerOf(ids) :
        Aged(t, dt) \in TimerOf(ids) /\ Framed(t) \in TimerOf(ids) /\ Rearmed(t) \in TimerOf(ids)
  <2> SUFFICES ASSUME NEW t \in TimerOf(ids)
               PROVE  Aged(t, dt) \in TimerOf(ids) /\ Framed(t) \in TimerOf(ids)
                      /\ Rearmed(t) \in TimerOf(ids)
    OBVIOUS
  <2>1. Aged(t, dt) \in TimerOf(ids) /\ Framed(t) \in TimerOf(ids)
    BY DEF TimerOf, Aged, Framed, Minus
  <2>2. t.period.ms \in Nat /\ t.period.frames \in Nat
    BY DEF TimerOf, Target
  <2>3. Rearmed(t) \in TimerOf(ids)
    BY <2>2 DEF TimerOf, Rearmed
  <2> QED
    BY <2>1, <2>3
<1>3. AllAged(q, dt) \in Seq(TimerOf(ids))
  BY <1>1, <1>2, OverPositions DEF AllAged
<1>4. AllFramed(q) \in Seq(TimerOf(ids))
  BY <1>1, <1>2, OverPositions DEF AllFramed
<1>5. PumpedTimers(q) \in Seq(TimerOf(ids))
  BY <1>1, <1>2, OverPositions DEF PumpedTimers
<1> QED
  BY <1>3, <1>4, <1>5

LEMMA MmTimersKept ==
  ASSUME NEW n \in Nat, NEW q \in Seq(MmTimer(n)), NEW dt \in Nat
  PROVE  /\ AllAged(q, dt) \in Seq(MmTimer(n))
         /\ AllFramed(q) \in Seq(MmTimer(n))
<1>1. \A i \in DOMAIN q : q[i] \in MmTimer(n)
  OBVIOUS
<1>2. \A t \in MmTimer(n) : Aged(t, dt) \in MmTimer(n) /\ Framed(t) \in MmTimer(n)
  <2> SUFFICES ASSUME NEW t \in MmTimer(n)
               PROVE  Aged(t, dt) \in MmTimer(n) /\ Framed(t) \in MmTimer(n)
    OBVIOUS
  <2>1. t.left \in Nat /\ t.framesLeft \in Nat
    BY DEF MmTimer
  <2>2. PICK x, y \in Nat : x = Minus(t.left, dt) /\ y = Minus(t.framesLeft, 1)
    BY <2>1 DEF Minus
  <2>3. [t EXCEPT !.left = x] \in MmTimer(n) /\ [t EXCEPT !.framesLeft = y] \in MmTimer(n)
    BY DEF MmTimer
  <2> QED
    BY <2>2, <2>3 DEF Aged, Framed
<1>3. AllAged(q, dt) \in Seq(MmTimer(n))
  BY <1>1, <1>2, OverPositions DEF AllAged
<1>4. AllFramed(q) \in Seq(MmTimer(n))
  BY <1>1, <1>2, OverPositions DEF AllFramed
<1> QED
  BY <1>3, <1>4

\* Setting and killing timers.
LEMMA SetTimerTyped ==
  ASSUME NEW ids, NEW q \in Seq(TimerOf(ids)), NEW id \in ids, NEW target \in Target
  PROVE  SetTimerIn(q, id, target) \in Seq(TimerOf(ids))
<1> DEFINE t == [id |-> id, period |-> target, left |-> target.ms, framesLeft |-> target.frames]
           known == {i \in DOMAIN q : q[i].id = id}
           new == [i \in DOMAIN q |-> IF i \in known THEN t ELSE q[i]]
<1>1. t \in TimerOf(ids)
  BY DEF TimerOf, Target
<1>2. SetTimerIn(q, id, target) = IF known = {} THEN Append(q, t) ELSE new
  BY DEF SetTimerIn
<1> HIDE DEF t, known
<1>3. Append(q, t) \in Seq(TimerOf(ids))
  BY <1>1
<1>4. new \in Seq(TimerOf(ids))
  <2>1. \A i \in DOMAIN q : new[i] \in TimerOf(ids)
    BY <1>1
  <2> QED
    BY <2>1, OverPositions
<1> QED
  BY <1>2, <1>3, <1>4

LEMMA KilledTyped ==
  ASSUME NEW T, NEW q \in Seq(T), NEW id
  PROVE  Killed(q, id) \in Seq(T)
  BY WithoutEmbeds DEF Killed

LEMMA SetMmTimerTyped ==
  ASSUME NEW n \in Nat, NEW q \in Seq(MmTimer(n)), NEW target \in Target, NEW periodic \in BOOLEAN
  PROVE  SetMmTimer(q, n + 1, target, periodic) \in Seq(MmTimer(n + 1))
<1> DEFINE t == [id |-> n + 1, periodic |-> periodic, period |-> target,
                 left |-> target.ms, framesLeft |-> target.frames]
<1>1. t \in MmTimer(n + 1)
  BY DEF MmTimer, Target
<1>2. q \in Seq(MmTimer(n + 1))
  <2>1. MmTimer(n) \subseteq MmTimer(n + 1)
    BY DEF MmTimer
  <2> QED
    BY <2>1
<1>3. SetMmTimer(q, n + 1, target, periodic) = Append(q, t)
  BY DEF SetMmTimer
<1> HIDE DEF t
<1> QED
  BY <1>1, <1>2, <1>3

\* Taking an element out of a sequence.
LEMMA RemoveAtTyped ==
  ASSUME NEW S, NEW q \in Seq(S), NEW i \in DOMAIN q
  PROVE  RemoveAt(q, i) \in Seq(S)
<1>1. SubSeq(q, 1, i - 1) \in Seq(S) /\ SubSeq(q, i + 1, Len(q)) \in Seq(S)
  BY Len(q) \in Nat
<1> QED
  BY <1>1, ConcatProperties DEF RemoveAt

LEMMA MmTakenTyped ==
  ASSUME NEW n \in Nat, NEW q \in Seq(MmTimer(n)), DueMm(q) # {}
  PROVE  MmTaken(q) \in Seq(MmTimer(n))
<1>1. Min(DueMm(q)) \in DOMAIN q
  <2>1. DueMm(q) \in SUBSET Nat /\ DueMm(q) \subseteq DOMAIN q
    BY DEF DueMm
  <2> QED
    BY <2>1, MinIsLeast
<1> PICK i : i = Min(DueMm(q))
  OBVIOUS
<1>2. i \in DOMAIN q /\ q[i] \in MmTimer(n)
  BY <1>1
<1>3. Rearmed(q[i]) \in MmTimer(n)
  BY <1>2 DEF MmTimer, Target, Rearmed
<1>4. [q EXCEPT ![i] = Rearmed(q[i])] \in Seq(MmTimer(n))
  BY <1>2, <1>3
<1>5. RemoveAt(q, i) \in Seq(MmTimer(n))
  BY <1>2, RemoveAtTyped
<1> QED
  BY <1>4, <1>5 DEF MmTaken

-----------------------------------------------------------------------------
(***************************************************************************)
(* The journal and the queues.                                             *)
(***************************************************************************)
Scripted == [rest : Seq(Item), left : Nat]

LEMMA AgedTyped ==
  ASSUME NEW j \in Scripted, NEW dt \in Nat
  PROVE  Aged(j, dt) \in Scripted /\ Aged(j, dt).rest = j.rest
  BY DEF Scripted, Aged, Minus

\* Messages are made of events only.
LEMMA EventsTyped ==
  ASSUME NEW items \in Seq(Item)
  PROVE  EventsOf(items) \in Seq(InputMessage)
<1> DEFINE drop == {item \in Range(items) : item.event = "none"}
           kept == Without(items, drop)
           f == [i \in DOMAIN kept |-> [msg |-> kept[i].event, id |-> 0]]
<1>1. EventsOf(items) = f
  BY DEF EventsOf
<1>2. kept \in Seq(Item) /\ \A i \in DOMAIN kept : kept[i].event \in Inputs
  <2> HIDE DEF drop
  <2>1. PICK g : LeftOf(Item, items, drop, Len(items), kept, g)
    BY WithoutEmbeds
  <2> PICK k : k = kept
    OBVIOUS
  <2>2. SUFFICES k \in Seq(Item) /\ \A i \in DOMAIN k : k[i].event \in Inputs
    OBVIOUS
  <2> HIDE DEF kept
  <2>3. /\ k \in Seq(Item) /\ g \in [DOMAIN k -> 1 .. Len(items)]
        /\ \A i \in DOMAIN k : k[i] = items[g[i]]
        /\ \A n \in 1 .. Len(items) : items[n] \notin drop <=> \E i \in DOMAIN k : g[i] = n
    BY <2>1 DEF LeftOf
  <2>4. ASSUME NEW i \in DOMAIN k PROVE k[i].event \in Inputs
    <3>1. g[i] \in 1 .. Len(items) /\ k[i] = items[g[i]] /\ items[g[i]] \notin drop
      BY <2>3
    <3>2. items[g[i]] \in Item /\ items[g[i]] \in Range(items)
      BY <3>1 DEF Range
    <3> QED
      BY <3>1, <3>2 DEF drop, Item
  <2> QED
    BY <2>3, <2>4
<1> HIDE DEF kept
<1>3. \A i \in DOMAIN kept : f[i] \in InputMessage
  BY <1>2 DEF InputMessage
<1>4. f \in Seq(InputMessage)
  BY <1>2, <1>3, OverPositions
<1> QED
  BY <1>1, <1>4

\* Playing the journal leaves a rest that waits, or nothing.
LEMMA PumpTyped ==
  ASSUME NEW j \in Scripted
  PROVE  /\ PumpJournal(j) \in [rest : Seq(Item), left : Nat, events : Seq(InputMessage)]
         /\ PumpJournal(j).left > 0 \/ PumpJournal(j).rest = <<>>
<1>1. CASE Silent(j)
  <2>1. PumpJournal(j) = [rest |-> j.rest, left |-> j.left, events |-> <<>>]
    BY <1>1 DEF PumpJournal
  <2> QED
    BY <1>1, <2>1 DEF Scripted, Silent
<1>2. CASE ~Silent(j)
  <2> PICK q : q = j.rest
    OBVIOUS
  <2> DEFINE delaying == {i \in DOMAIN q : q[i].wait > 0}
  <2> PICK n : n = PlayedUpTo(q)
    OBVIOUS
  <2>1. /\ q \in Seq(Item) /\ q # <<>> /\ Len(q) \in Nat /\ DOMAIN q = 1 .. Len(q)
        /\ Len(q) \in DOMAIN q
    BY <1>2 DEF Scripted, Silent
  <2>2. n \in DOMAIN q /\ (n = Len(q) \/ q[n].wait > 0)
    <3>1. n = IF delaying = {} THEN Len(q) ELSE Min(delaying)
      BY DEF PlayedUpTo
    <3>2. CASE delaying = {}
      <4>1. n = Len(q)
        BY <3>1, <3>2
      <4> QED
        BY <2>1, <4>1
    <3>3. CASE delaying # {}
      <4>1. delaying \in SUBSET Nat
        BY <2>1
      <4>2. Min(delaying) \in delaying
        <5> HIDE DEF delaying
        <5> QED
          BY <3>3, <4>1, MinIsLeast
      <4> QED
        BY <3>1, <3>3, <4>2
    <3> QED
      BY <3>2, <3>3
  <2>3. PumpJournal(j) = [rest |-> SubSeq(q, n + 1, Len(q)), left |-> q[n].wait,
                          events |-> EventsOf(SubSeq(q, 1, n))]
    BY <1>2 DEF PumpJournal
  <2>4. SubSeq(q, 1, n) \in Seq(Item) /\ SubSeq(q, n + 1, Len(q)) \in Seq(Item)
    BY <2>1, <2>2
  <2>5. n = Len(q) => SubSeq(q, n + 1, Len(q)) = <<>>
    BY <2>1
  <2>6. q[n].wait \in Nat
    <3>1. q[n] \in Item
      BY <2>1, <2>2
    <3> QED
      BY <3>1 DEF Item
  <2>7. EventsOf(SubSeq(q, 1, n)) \in Seq(InputMessage)
    BY <2>4, EventsTyped
  <2> QED
    BY <2>2, <2>3, <2>4, <2>5, <2>6, <2>7
<1> QED
  BY <1>1, <1>2

\* Removing a message takes it from one of the queues.
LEMMA RemainingTyped ==
  ASSUME NEW filter, NEW inQ \in Seq(InputMessage), NEW aQ
  PROVE  Remaining(filter, inQ, aQ).input \in Seq(InputMessage)
<1>1. CASE Matching(filter, inQ) # {}
  <2>1. Matching(filter, inQ) \in SUBSET Nat /\ Matching(filter, inQ) \subseteq DOMAIN inQ
    BY DEF Matching
  <2>2. Min(Matching(filter, inQ)) \in DOMAIN inQ
    BY <1>1, <2>1, MinIsLeast
  <2>3. RemoveAt(inQ, Min(Matching(filter, inQ))) \in Seq(InputMessage)
    BY <2>2, RemoveAtTyped
  <2> QED
    BY <1>1, <2>3 DEF Remaining
<1>2. CASE Matching(filter, inQ) = {}
  BY <1>2 DEF Remaining
<1> QED
  BY <1>1, <1>2
-----------------------------------------------------------------------------
(***************************************************************************)
(* The types, in the parts that actions change apart.                      *)
(***************************************************************************)
Cpu == [call : GuestCalls \cup {NoCall}, nest : Seq(Kind)]

MessageWaits == [kind : {"message"}, filter : SUBSET AnyMessage]
TimeoutWaits == [kind : {"timeout"}, left : Nat, framesLeft : Nat]
Waits        == {Ready} \cup MessageWaits \cup TimeoutWaits

MmFrame     == [kind : {"mm"}, cpu : Cpu]
WindowFrame == [kind : {"window"}, more : Nat]

TimerIds == {c.id : c \in {d \in GuestCalls : d.op = "SetTimer"}}

GuestTypes == cpu \in Cpu /\ task \in [cpu : Cpu, wait : Waits]
StackTypes == frames \in Seq(MmFrame \cup WindowFrame) /\ mmActive \in BOOLEAN
ClockTypes ==
  /\ timers \in Seq(TimerOf(TimerIds))
  /\ mmCreated \in Nat /\ mmTimers \in Seq(MmTimer(mmCreated))
  /\ journal \in Scripted
QueueTypes == inputQ \in Seq(InputMessage)
LoopTypes ==
  /\ windowReady \in BOOLEAN /\ midFrame \in BOOLEAN
  /\ pc \in {"between", "pump", "wake", "wait", "mm", "execute"}
  /\ pc = "wait" => ~Live
  /\ pc = "between" => Live
  /\ stopped \in {"no", "quit", "exit", "waiting", "limit"}
  /\ elapsed \in Nat /\ owed \in Nat

Types ==
  /\ machine \in DOMAIN Machines
  /\ GuestTypes /\ StackTypes /\ ClockTypes /\ QueueTypes /\ LoopTypes

\* What depends on the machine alone does not change.
Fixed ==
  /\ machine' = machine
  /\ Live' = Live /\ GuestCalls' = GuestCalls /\ Cpu' = Cpu /\ MmFrame' = MmFrame
  /\ TimerIds' = TimerIds

LEMMA MachineFixed == ASSUME UNCHANGED machine PROVE Fixed
<1>1. Live' = Live /\ GuestCalls' = GuestCalls
  BY DEF Live, GuestCalls
<1>2. Cpu' = Cpu /\ TimerIds' = TimerIds
  BY <1>1 DEF Cpu, TimerIds
<1>3. MmFrame' = MmFrame
  BY <1>2 DEF MmFrame
<1> QED
  BY <1>1, <1>2, <1>3 DEF Fixed

\* What the assumption says of the machine that runs.
LEMMA MachineTyped ==
  ASSUME machine \in DOMAIN Machines
  PROVE  /\ Live \in BOOLEAN /\ FrameMs \in Nat /\ IsScript(Script)
         /\ \A c \in GuestCalls : IsCall(c)
         /\ \A c \in GuestCalls : c.op # "none"
<1>1. Live \in BOOLEAN /\ FrameMs \in Nat /\ IsScript(Script) /\ \A c \in GuestCalls : IsCall(c)
  BY SchedulerAssumption DEF Live, FrameMs, Script, GuestCalls
<1>2. \A c \in GuestCalls : c.op # "none"
  BY <1>1 DEF IsCall
<1> QED
  BY <1>1, <1>2

LEMMA InitTypes == Init => Types
<1> SUFFICES ASSUME Init PROVE Types
  OBVIOUS
<1>1. machine \in DOMAIN Machines
  BY DEF Init
<1>2. GuestTypes
  <2>1. NoCpu \in Cpu
    BY DEF NoCpu, Cpu
  <2>2. cpu = NoCpu /\ task = [cpu |-> NoCpu, wait |-> Ready]
    BY DEF Init
  <2>3. Ready \in Waits
    BY DEF Waits
  <2> QED
    BY <2>1, <2>2, <2>3 DEF GuestTypes
<1>3. StackTypes
  <2>1. frames = <<>> /\ mmActive = FALSE
    BY DEF Init
  <2>2. frames \in Seq(MmFrame \cup WindowFrame)
    BY <2>1, SMT
  <2>3. mmActive \in BOOLEAN
    BY <2>1, Zenon
  <2> QED
    BY <2>2, <2>3, Zenon DEF StackTypes
<1>4. ClockTypes
  <2>1. Script \in Seq(Item)
    BY <1>1, MachineTyped DEF IsScript
  <2> QED
    BY <2>1 DEF Init, ClockTypes, Scripted
<1>5. QueueTypes
  BY DEF Init, QueueTypes
<1>6. LoopTypes
  <2>1. Live \in BOOLEAN
    BY <1>1, MachineTyped
  <2> QED
    BY <2>1 DEF Init, LoopTypes
<1> QED
  BY <1>1, <1>2, <1>3, <1>4, <1>5, <1>6 DEF Types

\* The steps that the types tell apart.
LEMMA GuestTypesKept ==
  ASSUME Types, Fixed, Next
  PROVE  GuestTypes'
<1>0. /\ cpu \in Cpu /\ task \in [cpu : Cpu, wait : Waits] /\ Cpu' = Cpu /\ elapsed \in Nat
      /\ machine \in DOMAIN Machines
  BY DEF Types, GuestTypes, LoopTypes, Fixed
<1>w. /\ Live \in BOOLEAN /\ FrameMs \in Nat /\ \A c \in GuestCalls : IsCall(c)
      /\ \A c \in GuestCalls : c.op # "none"
  BY <1>0, MachineTyped
<1>1. ASSUME UNCHANGED guest PROVE GuestTypes'
  BY <1>0, <1>1 DEF GuestTypes, guest
<1>2. \A c \in Cpu : [c EXCEPT !.call = NoCall] \in Cpu
  BY DEF Cpu
<1>3. ASSUME Returns, UNCHANGED task PROVE GuestTypes'
  BY <1>0, <1>2, <1>3 DEF GuestTypes, Returns
<1>4. ASSUME NEW wait \in Waits, Parks(wait) PROVE GuestTypes'
  BY <1>0, <1>4 DEF GuestTypes, Parks
<1>5. task.wait.kind = "timeout" => task.wait \in TimeoutWaits
  BY <1>0 DEF Waits, MessageWaits, Ready
<1>6. CASE BeginFrame
  <2>1. task.wait.kind = "timeout" => Framed(task.wait) \in Waits
    BY <1>5 DEF Waits, TimeoutWaits, Framed, Minus
  <2>2. cpu' = cpu /\ task' = IF task.wait.kind = "timeout" THEN [task EXCEPT !.wait = Framed(@)] ELSE task
    BY <1>6 DEF BeginFrame
  <2> QED
    BY <1>0, <2>1, <2>2 DEF GuestTypes
<1>7. CASE Pump
  <2>1. task.wait.kind = "timeout" => Aged(task.wait, elapsed) \in Waits
    BY <1>0, <1>5 DEF Waits, TimeoutWaits, Aged, Minus
  <2>2. cpu' = cpu /\ task' = IF task.wait.kind = "timeout" THEN [task EXCEPT !.wait = Aged(@, elapsed)] ELSE task
    BY <1>7 DEF Pump
  <2> QED
    BY <1>0, <2>1, <2>2 DEF GuestTypes
<1>8. CASE Wake
  <2>1. CASE ~Wakes
    BY <1>1, <1>8, <2>1 DEF Wake
  <2>2. CASE Wakes
    <3>1. /\ task' = [cpu |-> NoCpu, wait |-> Ready]
          /\ cpu' = IF task.wait.kind = "timeout" THEN [task.cpu EXCEPT !.call = NoCall] ELSE task.cpu
      BY <1>8, <2>2 DEF Wake
    <3>2. NoCpu \in Cpu /\ task.cpu \in Cpu
      BY <1>0 DEF NoCpu, Cpu
    <3> QED
      BY <1>0, <1>2, <3>1, <3>2 DEF GuestTypes, Waits
  <2> QED
    BY <2>1, <2>2
<1>9. ASSUME NEW kind \in Kind, cpu' = [call |-> NoCall, nest |-> Append(cpu.nest, kind)], UNCHANGED task
      PROVE  GuestTypes'
  <2>1. Append(cpu.nest, kind) \in Seq(Kind)
    BY <1>0 DEF Cpu
  <2> QED
    BY <1>0, <1>9, <2>1 DEF GuestTypes, Cpu
<1>10. CASE DispatchMmTimer
  <2>1. UNCHANGED task /\ (\/ UNCHANGED cpu
                           \/ cpu' = [call |-> NoCall, nest |-> Append(cpu.nest, "mm")])
    BY <1>10 DEF DispatchMmTimer
  <2>2. CASE UNCHANGED cpu
    BY <1>1, <2>1, <2>2 DEF guest
  <2>3. CASE cpu' = [call |-> NoCall, nest |-> Append(cpu.nest, "mm")]
    BY <1>9, <2>1, <2>3 DEF Kind
  <2> QED
    BY <2>1, <2>2, <2>3
<1>11. CASE SendToWindow
  <2>1. UNCHANGED task /\ cpu' = [call |-> NoCall, nest |-> Append(cpu.nest, "window")]
    BY <1>11 DEF SendToWindow
  <2> QED
    BY <1>9, <2>1 DEF Kind
<1>12. CASE AsyncReturn
  <2> DEFINE outer == [cpu EXCEPT !.nest = Front(@)]
  <2>1. /\ UNCHANGED task /\ cpu.nest # <<>>
        /\ \/ cpu' = outer
           \/ frames # <<>> /\ Last(frames).kind = "mm" /\ cpu' = Last(frames).cpu
           \/ cpu' = [outer EXCEPT !.nest = Append(@, "window")]
    <3>1. CASE frames = <<>>
      BY <1>12, <3>1 DEF AsyncReturn
    <3>2. CASE frames # <<>> /\ Last(frames).kind = "mm"
      BY <1>12, <3>2 DEF AsyncReturn
    <3>3. CASE frames # <<>> /\ Last(frames).kind = "window" /\ Last(frames).more = 0
      BY <1>12, <3>3 DEF AsyncReturn
    <3>4. CASE frames # <<>> /\ Last(frames).kind # "mm"
               /\ ~(Last(frames).kind = "window" /\ Last(frames).more = 0)
      BY <1>12, <3>4 DEF AsyncReturn
    <3> HIDE DEF outer
    <3> QED
      BY <3>1, <3>2, <3>3, <3>4
  <2>2. outer \in Cpu /\ Front(cpu.nest) \in Seq(Kind)
    <3>1. cpu.nest \in Seq(Kind)
      BY <1>0 DEF Cpu
    <3>2. Front(cpu.nest) \in Seq(Kind)
      BY <2>1, <3>1 DEF Front
    <3> QED
      BY <1>0, <3>2 DEF Cpu
  <2>3. [outer EXCEPT !.nest = Append(@, "window")] \in Cpu
    <3>1. Append(outer.nest, "window") \in Seq(Kind)
      BY <1>0, <2>2 DEF Cpu, Kind
    <3> HIDE DEF outer
    <3> QED
      BY <2>2, <3>1 DEF Cpu
  <2>4. frames # <<>> /\ Last(frames).kind = "mm" => Last(frames).cpu \in Cpu
    <3> SUFFICES ASSUME frames # <<>>, Last(frames).kind = "mm" PROVE Last(frames).cpu \in Cpu
      OBVIOUS
    <3>1. Last(frames) \in MmFrame \cup WindowFrame
      BY DEF Types, StackTypes, Last
    <3> QED
      BY <3>1 DEF MmFrame, WindowFrame
  <2> HIDE DEF outer
  <2> QED
    BY <1>0, <2>1, <2>2, <2>3, <2>4 DEF GuestTypes
<1>13. ASSUME NEW c \in GuestCalls, CallApi(c) PROVE GuestTypes'
  BY <1>0, <1>13 DEF CallApi, GuestTypes, Cpu
<1>14. ASSUME NEW takes, NEW parks, PollMessage(takes, parks),
              cpu.call.op \in {"GetMessage", "PeekMessage", "WaitMessage"}
       PROVE  GuestTypes'
  <2> DEFINE f == IF cpu.call.op = "WaitMessage" THEN AnyMessage ELSE cpu.call.filter
  <2>1. (Returns /\ UNCHANGED task) \/ Parks(MessageWait(f))
    BY <1>14 DEF PollMessage
  <2>2. f \in SUBSET AnyMessage
    <3>1. cpu.call \in GuestCalls
      BY <1>0, <1>14 DEF Cpu, NoCall
    <3> QED
      BY <1>14, <1>w, <3>1 DEF IsCall
  <2>3. MessageWait(f) \in Waits
    BY <2>2 DEF MessageWait, Waits, MessageWaits
  <2> QED
    BY <1>3, <1>4, <2>1, <2>3
<1>15. CASE GetMessage \/ PeekMessage \/ WaitMessage
  BY <1>14, <1>15 DEF GetMessage, PeekMessage, WaitMessage, Dispatching
<1>16. CASE Sleep
  <2>1. CASE ~Live
    BY <1>3, <1>16, <2>1 DEF Sleep
  <2>2. CASE Live
    <3>1. cpu.call \in GuestCalls /\ cpu.call.op = "Sleep"
      BY <1>0, <1>16 DEF Cpu, NoCall, Sleep, Dispatching
    <3>2. Delayed(cpu.call.ms) \in Target
      BY <1>w, <3>1, DelayTyped DEF Delayed, IsCall
    <3>3. TimeoutWait(Delayed(cpu.call.ms)) \in Waits
      BY <3>2 DEF TimeoutWait, Target, Waits, TimeoutWaits
    <3> QED
      BY <1>4, <1>16, <2>2, <3>3 DEF Sleep
  <2> QED
    BY <2>1, <2>2
<1>17. CASE SetTimer \/ KillTimer \/ TimeSetEvent \/ TimeKillEvent \/ PostMessage \/ CreateWindow \/ Present
  BY <1>3, <1>17 DEF SetTimer, KillTimer, TimeSetEvent, TimeKillEvent, PostMessage, CreateWindow, Present
<1>18. CASE Tick \/ ServiceGuest \/ HandleHeadlessWait \/ Compute \/ Stop
  BY <1>1, <1>18 DEF Tick, ServiceGuest, HandleHeadlessWait, Compute, Stop
<1> QED
  BY <1>6, <1>7, <1>8, <1>10, <1>11, <1>12, <1>13, <1>15, <1>16, <1>17, <1>18
     DEF Next, Service, Instruction
LEMMA StackTypesKept ==
  ASSUME Types, Fixed, Next
  PROVE  StackTypes'
<1>0. /\ frames \in Seq(MmFrame \cup WindowFrame) /\ mmActive \in BOOLEAN
      /\ cpu \in Cpu /\ MmFrame' = MmFrame /\ WindowFrame' = WindowFrame
      /\ \A c \in GuestCalls : IsCall(c)
  BY MachineTyped DEF Types, GuestTypes, StackTypes, Fixed
<1>1. ASSUME UNCHANGED stack PROVE StackTypes'
  BY <1>0, <1>1 DEF StackTypes, stack
<1>2. ASSUME NEW f \in MmFrame \cup WindowFrame, frames' = Append(frames, f), mmActive' \in BOOLEAN
      PROVE  StackTypes'
  <2>1. frames' \in Seq(MmFrame \cup WindowFrame)
    BY <1>0, <1>2
  <2> QED
    BY <1>0, <1>2, <2>1, Zenon DEF StackTypes
<1>3. CASE DispatchMmTimer
  <2>1. CASE UNCHANGED stack
    BY <1>1, <2>1
  <2>2. CASE ~ UNCHANGED stack
    <3>1. mmActive' = TRUE /\ frames' = Append(frames, [kind |-> "mm", cpu |-> cpu])
      BY <1>3, <2>2 DEF DispatchMmTimer
    <3>2. [kind |-> "mm", cpu |-> cpu] \in MmFrame
      BY <1>0 DEF MmFrame
    <3>3. mmActive' \in BOOLEAN
      BY <3>1, Zenon
    <3> QED
      BY <1>2, <3>1, <3>2, <3>3
  <2> QED
    BY <2>1, <2>2
<1>4. CASE SendToWindow
  <2>1. cpu.call.op = "SendToWindow" /\ cpu.call \in GuestCalls
    BY <1>0, <1>4 DEF SendToWindow, Dispatching, Cpu, NoCall
  <2>2. cpu.call.messages - 1 \in Nat
    BY <1>0, <2>1 DEF IsCall
  <2>3. [kind |-> "window", more |-> cpu.call.messages - 1] \in WindowFrame
    BY <2>2 DEF WindowFrame
  <2>4. frames' = Append(frames, [kind |-> "window", more |-> cpu.call.messages - 1])
    BY <1>4 DEF SendToWindow
  <2>5. mmActive' \in BOOLEAN
    BY <1>0, <1>4 DEF SendToWindow
  <2> QED
    BY <1>2, <2>3, <2>4, <2>5
<1>5. CASE AsyncReturn
  <2>1. mmActive' \in BOOLEAN
    <3>1. mmActive' = FALSE
      BY <1>5 DEF AsyncReturn
    <3> QED
      BY <3>1, Zenon
  <2>2. frames' \in Seq(MmFrame \cup WindowFrame)
    <3>1. CASE frames = <<>>
      BY <1>0, <1>5, <3>1 DEF AsyncReturn
    <3>2. CASE frames # <<>>
      <4>1. Front(frames) \in Seq(MmFrame \cup WindowFrame)
        BY <1>0, <3>2 DEF Front
      <4>2. Len(frames) \in DOMAIN frames /\ Last(frames) = frames[Len(frames)]
            /\ Last(frames) \in MmFrame \cup WindowFrame
        BY <1>0, <3>2 DEF Last
      <4> DEFINE chained == /\ Last(frames).kind # "mm"
                            /\ ~(Last(frames).kind = "window" /\ Last(frames).more = 0)
      <4>3. CASE ~chained
        <5>1. frames' = Front(frames)
          BY <1>5, <3>2, <4>3 DEF AsyncReturn
        <5> QED
          BY <4>1, <5>1
      <4>4. CASE chained
        <5>1. frames' = [frames EXCEPT ![Len(frames)].more = @ - 1]
          BY <1>5, <3>2, <4>4 DEF AsyncReturn
        <5> PICK top : top = frames[Len(frames)]
          OBVIOUS
        <5>2. top \in WindowFrame /\ top.more # 0
          <6>1. top = Last(frames)
            BY <4>2
          <6>2. top \in WindowFrame
            BY <4>2, <4>4, <6>1 DEF MmFrame
          <6>3. top.kind = "window"
            BY <6>2 DEF WindowFrame
          <6> QED
            BY <4>4, <6>1, <6>2, <6>3
        <5>3. [top EXCEPT !.more = @ - 1] \in WindowFrame
          BY <5>2 DEF WindowFrame
        <5>4. frames' = [frames EXCEPT ![Len(frames)] = [top EXCEPT !.more = @ - 1]]
          BY <5>1
        <5> PICK lower : lower = [top EXCEPT !.more = @ - 1]
          OBVIOUS
        <5>5. frames' = [frames EXCEPT ![Len(frames)] = lower] /\ lower \in MmFrame \cup WindowFrame
          BY <5>3, <5>4
        <5> QED
          BY <1>0, <4>2, <5>5
      <4> HIDE DEF chained
      <4> QED
        BY <4>3, <4>4
    <3> QED
      BY <3>1, <3>2
  <2> QED
    BY <1>0, <2>1, <2>2, Zenon DEF StackTypes
<1>6. CASE \/ Tick \/ BeginFrame \/ ServiceGuest \/ Pump \/ Wake \/ HandleHeadlessWait
           \/ Compute \/ (\E c \in GuestCalls : CallApi(c)) \/ Sleep
  BY <1>1, <1>6 DEF Tick, BeginFrame, ServiceGuest, Pump, Wake, HandleHeadlessWait, Compute,
                    CallApi, Sleep
<1>7. CASE GetMessage \/ PeekMessage \/ WaitMessage
  BY <1>1, <1>7 DEF GetMessage, PeekMessage, WaitMessage, PollMessage
<1>8. CASE \/ SetTimer \/ KillTimer \/ TimeSetEvent \/ TimeKillEvent \/ PostMessage
           \/ CreateWindow \/ Present \/ Stop
  BY <1>1, <1>8 DEF SetTimer, KillTimer, TimeSetEvent, TimeKillEvent, PostMessage, CreateWindow,
                    Present, Stop
<1> QED
  BY <1>3, <1>4, <1>5, <1>6, <1>7, <1>8 DEF Next, Service, Instruction

LEMMA ClockTypesKept ==
  ASSUME Types, Fixed, Next
  PROVE  ClockTypes'
<1>0. /\ timers \in Seq(TimerOf(TimerIds)) /\ mmCreated \in Nat /\ mmTimers \in Seq(MmTimer(mmCreated))
      /\ journal \in Scripted /\ elapsed \in Nat /\ TimerIds' = TimerIds
      /\ cpu \in Cpu
  BY DEF Types, GuestTypes, ClockTypes, LoopTypes, Fixed
<1>w. Live \in BOOLEAN /\ FrameMs \in Nat /\ \A c \in GuestCalls : IsCall(c)
  BY MachineTyped DEF Types
<1>c. ASSUME NEW op, Dispatching(op), op # "none" PROVE cpu.call \in GuestCalls /\ cpu.call.op = op
  BY <1>0, <1>c DEF Dispatching, Cpu, NoCall
<1>1. ASSUME UNCHANGED clocks, UNCHANGED mmCreated PROVE ClockTypes'
  BY <1>0, <1>1 DEF ClockTypes, clocks
<1>2. /\ AllAged(timers, elapsed) \in Seq(TimerOf(TimerIds))
      /\ AllAged(mmTimers, elapsed) \in Seq(MmTimer(mmCreated))
      /\ Aged(journal, elapsed) \in Scripted
  BY <1>0, TimersKept, MmTimersKept, AgedTyped
<1>3. ASSUME Refreshed, UNCHANGED mmCreated PROVE ClockTypes'
  BY <1>0, <1>2, <1>3 DEF Refreshed, ClockTypes
<1>4. CASE BeginFrame
  <2>1. AllFramed(timers) \in Seq(TimerOf(TimerIds)) /\ AllFramed(mmTimers) \in Seq(MmTimer(mmCreated))
    BY <1>0, TimersKept, MmTimersKept
  <2> QED
    BY <1>0, <1>4, <2>1 DEF BeginFrame, ClockTypes
<1>5. CASE Pump
  <2> DEFINE due == AllAged(timers, elapsed)
             script == Aged(journal, elapsed)
             played == IF windowReady THEN PumpJournal(script)
                       ELSE [rest |-> script.rest, left |-> script.left, events |-> <<>>]
  <2>1. /\ timers' = PumpedTimers(due) /\ mmTimers' = AllAged(mmTimers, elapsed)
        /\ journal' = [rest |-> played.rest, left |-> played.left] /\ mmCreated' = mmCreated
    BY <1>5 DEF Pump
  <2>2. PumpedTimers(due) \in Seq(TimerOf(TimerIds))
    BY <1>0, <1>2, TimersKept
  <2>3. played.rest \in Seq(Item) /\ played.left \in Nat
    <3>1. script.rest \in Seq(Item) /\ script.left \in Nat
      BY <1>2 DEF Scripted
    <3>2. PumpJournal(script) \in [rest : Seq(Item), left : Nat, events : Seq(InputMessage)]
      BY <1>2, PumpTyped
    <3> HIDE DEF script
    <3> QED
      BY <3>1, <3>2
  <2> HIDE DEF due, played
  <2> QED
    BY <1>0, <1>2, <2>1, <2>2, <2>3 DEF ClockTypes, Scripted
<1>6. CASE HandleHeadlessWait
  <2>1. CASE UNCHANGED clocks
    BY <1>1, <1>6, <2>1 DEF HandleHeadlessWait
  <2>2. CASE ~ UNCHANGED clocks
    <3> PICK dt : dt = Min(Wakeups)
      OBVIOUS
    <3>1. /\ Wakeups # {} /\ mmCreated' = mmCreated
          /\ timers' = AllAged(timers, dt) /\ mmTimers' = AllAged(mmTimers, dt)
          /\ journal' = Aged(journal, dt)
      BY <1>6, <2>2 DEF HandleHeadlessWait
    <3>2. dt \in Nat
      <4>1. Wakeups \in SUBSET Nat
        <5>1. \A i \in DOMAIN timers : timers[i].left \in Nat
          <6>1. \A i \in DOMAIN timers : timers[i] \in TimerOf(TimerIds)
            BY <1>0
          <6> QED
            BY <6>1 DEF TimerOf
        <5>2. journal.left \in Nat
          BY <1>0 DEF Scripted
        <5> QED
          BY <5>1, <5>2 DEF Wakeups
      <4> QED
        BY <3>1, <4>1, MinIsLeast
    <3>3. /\ AllAged(timers, dt) \in Seq(TimerOf(TimerIds))
          /\ AllAged(mmTimers, dt) \in Seq(MmTimer(mmCreated))
          /\ Aged(journal, dt) \in Scripted
      BY <1>0, <3>2, TimersKept, MmTimersKept, AgedTyped
    <3> QED
      BY <1>0, <3>1, <3>3 DEF ClockTypes
  <2> QED
    BY <2>1, <2>2
<1>7. CASE DispatchMmTimer
  <2>1. /\ UNCHANGED <<timers, journal, mmCreated>>
        /\ UNCHANGED mmTimers \/ (DueMm(mmTimers) # {} /\ mmTimers' = MmTaken(mmTimers))
    BY <1>7 DEF DispatchMmTimer, CanTakeMm
  <2>2. DueMm(mmTimers) # {} => MmTaken(mmTimers) \in Seq(MmTimer(mmCreated))
    BY <1>0, MmTakenTyped
  <2> QED
    BY <1>0, <2>1, <2>2 DEF ClockTypes
<1>8. CASE GetMessage \/ PeekMessage \/ WaitMessage
  <2>1. ASSUME NEW takes, NEW parks, PollMessage(takes, parks) PROVE ClockTypes'
    <3>1. (Refreshed \/ UNCHANGED clocks) /\ UNCHANGED mmCreated
      BY <2>1 DEF PollMessage
    <3> QED
      BY <1>1, <1>3, <3>1
  <2> QED
    BY <1>8, <2>1 DEF GetMessage, PeekMessage, WaitMessage
<1>9. CASE Sleep
  BY <1>1, <1>3, <1>9 DEF Sleep
<1>10. CASE SetTimer
  <2>1. cpu.call \in GuestCalls /\ cpu.call.op = "SetTimer"
    BY <1>10, <1>c DEF SetTimer
  <2>2. Delayed(cpu.call.ms) \in Target /\ cpu.call.id \in TimerIds
    BY <1>w, <2>1, DelayTyped DEF IsCall, Delayed, TimerIds
  <2>3. SetTimerIn(AllAged(timers, elapsed), cpu.call.id, Delayed(cpu.call.ms)) \in Seq(TimerOf(TimerIds))
    BY <1>2, <2>2, SetTimerTyped
  <2> QED
    BY <1>0, <1>2, <1>10, <2>3 DEF SetTimer, ClockTypes
<1>11. CASE TimeSetEvent
  <2>1. cpu.call \in GuestCalls /\ cpu.call.op = "timeSetEvent"
    BY <1>11, <1>c DEF TimeSetEvent
  <2>2. Delayed(cpu.call.ms) \in Target /\ cpu.call.periodic \in BOOLEAN
    BY <1>w, <2>1, DelayTyped DEF IsCall, Delayed
  <2>3. SetMmTimer(AllAged(mmTimers, elapsed), mmCreated + 1, Delayed(cpu.call.ms), cpu.call.periodic)
          \in Seq(MmTimer(mmCreated + 1))
    BY <1>0, <1>2, <2>2, SetMmTimerTyped
  <2> QED
    BY <1>0, <1>2, <1>11, <2>3 DEF TimeSetEvent, ClockTypes
<1>12. CASE KillTimer \/ TimeKillEvent
  <2>1. /\ Killed(timers, cpu.call.id) \in Seq(TimerOf(TimerIds))
        /\ Killed(mmTimers, cpu.call.id) \in Seq(MmTimer(mmCreated))
    BY <1>0, KilledTyped
  <2> QED
    BY <1>0, <1>12, <2>1 DEF KillTimer, TimeKillEvent, ClockTypes
<1>13. CASE \/ Tick \/ ServiceGuest \/ Wake \/ Compute \/ (\E c \in GuestCalls : CallApi(c))
            \/ AsyncReturn \/ PostMessage \/ SendToWindow \/ CreateWindow \/ Present \/ Stop
  BY <1>1, <1>13 DEF Tick, ServiceGuest, Wake, Compute, CallApi, AsyncReturn, PostMessage,
                     SendToWindow, CreateWindow, Present, Stop
<1> QED
  BY <1>4, <1>5, <1>6, <1>7, <1>8, <1>9, <1>10, <1>11, <1>12, <1>13 DEF Next, Service, Instruction
LEMMA QueueTypesKept ==
  ASSUME Types, Fixed, Next
  PROVE  QueueTypes'
<1>0. inputQ \in Seq(InputMessage) /\ journal \in Scripted /\ elapsed \in Nat
  BY DEF Types, QueueTypes, ClockTypes, LoopTypes
<1>1. ASSUME UNCHANGED inputQ PROVE QueueTypes'
  BY <1>0, <1>1 DEF QueueTypes
<1>2. ASSUME NEW arrived \in Arrivals PROVE inputQ \o arrived \in Seq(InputMessage)
  <2> DEFINE k == [msg |-> "WM_KEYDOWN", id |-> 0]
  <2>1. k \in InputMessage
    BY DEF InputMessage, Inputs
  <2>2. arrived = <<>> \/ arrived = <<k>>
    BY <1>2, Zenon DEF Arrivals
  <2> HIDE DEF k
  <2>3. arrived \in Seq(InputMessage)
    <3>1. <<>> \in Seq(InputMessage)
      OBVIOUS
    <3>2. <<k>> \in Seq(InputMessage)
      BY <2>1
    <3> QED
      BY <2>2, <3>1, <3>2, Zenon
  <2> QED
    BY <1>0, <2>3, ConcatProperties
<1>3. CASE BeginFrame
  BY <1>2, <1>3 DEF BeginFrame, QueueTypes
<1>4. CASE Pump
  <2> DEFINE script == Aged(journal, elapsed)
             played == IF windowReady THEN PumpJournal(script)
                       ELSE [rest |-> script.rest, left |-> script.left, events |-> <<>>]
  <2>1. inputQ' = inputQ \o played.events
    BY <1>4 DEF Pump
  <2>2. played.events \in Seq(InputMessage)
    <3>1. script \in Scripted
      BY <1>0, AgedTyped
    <3>2. PumpJournal(script) \in [rest : Seq(Item), left : Nat, events : Seq(InputMessage)]
      BY <3>1, PumpTyped
    <3> HIDE DEF script
    <3> QED
      BY <3>2
  <2> HIDE DEF played
  <2> QED
    BY <1>0, <2>1, <2>2, ConcatProperties DEF QueueTypes
<1>5. ASSUME NEW takes, NEW parks, PollMessage(takes, parks) PROVE QueueTypes'
  <2> PICK f : f = IF cpu.call.op = "WaitMessage" THEN AnyMessage ELSE cpu.call.filter
    OBVIOUS
  <2>1. PICK arrived \in Arrivals \cup {<<>>} :
          inputQ' = inputQ \o arrived \/ inputQ' = Remaining(f, inputQ \o arrived, appQ).input
    BY <1>5 DEF PollMessage
  <2>2. <<>> \in Arrivals
    BY DEF Arrivals
  <2>3. inputQ \o arrived \in Seq(InputMessage)
    BY <1>2, <2>1, <2>2
  <2>4. Remaining(f, inputQ \o arrived, appQ).input \in Seq(InputMessage)
    BY <2>3, RemainingTyped
  <2> QED
    BY <2>1, <2>3, <2>4 DEF QueueTypes
<1>6. CASE GetMessage \/ PeekMessage \/ WaitMessage
  BY <1>5, <1>6 DEF GetMessage, PeekMessage, WaitMessage
<1>7. CASE \/ Tick \/ ServiceGuest \/ Wake \/ HandleHeadlessWait \/ DispatchMmTimer
           \/ Compute \/ (\E c \in GuestCalls : CallApi(c)) \/ AsyncReturn \/ Sleep
  BY <1>1, <1>7 DEF Tick, ServiceGuest, Wake, HandleHeadlessWait, DispatchMmTimer, Compute,
                    CallApi, AsyncReturn, Sleep, queues
<1>8. CASE \/ SetTimer \/ KillTimer \/ TimeSetEvent \/ TimeKillEvent \/ PostMessage
           \/ SendToWindow \/ CreateWindow \/ Present \/ Stop
  BY <1>1, <1>8 DEF SetTimer, KillTimer, TimeSetEvent, TimeKillEvent, PostMessage, SendToWindow,
                    CreateWindow, Present, Stop, queues
<1> QED
  BY <1>3, <1>4, <1>6, <1>7, <1>8 DEF Next, Service, Instruction

LEMMA LoopTypesKept ==
  ASSUME Types, Fixed, Next
  PROVE  LoopTypes'
<1> DEFINE Places == {"between", "pump", "wake", "wait", "mm", "execute"}
           Stops == {"no", "quit", "exit", "waiting", "limit"}
<1>0. /\ LoopTypes /\ Live' = Live /\ Live \in BOOLEAN /\ FrameMs \in Nat
      /\ cpu \in Cpu /\ \A c \in GuestCalls : IsCall(c)
  BY MachineTyped DEF Types, GuestTypes, Fixed
<1>1. ASSUME pc' \in Places, pc' = "wait" => ~Live, pc' = "between" => Live,
             stopped' \in Stops, elapsed' \in Nat, owed' \in Nat,
             windowReady' \in BOOLEAN, midFrame' \in BOOLEAN
      PROVE  LoopTypes'
  BY <1>0, <1>1 DEF LoopTypes
<1>2. ASSUME NEW e, NextInstruction(e)
      PROVE  /\ pc' \in Places /\ pc' # "wait" /\ (pc' = "between" => Live)
             /\ midFrame' \in BOOLEAN
  <2>1. pc' = (IF ~Live THEN "pump" ELSE IF e THEN "between" ELSE "execute") /\ midFrame' = TRUE
    BY <1>2 DEF NextInstruction
  <2>2. midFrame' \in BOOLEAN
    BY <2>1, Zenon
  <2>3. pc' \in Places /\ pc' # "wait" /\ (pc' = "between" => Live)
    BY <2>1
  <2> QED
    BY <2>2, <2>3
<1>3. ASSUME ClockRead \/ ClockUnread PROVE elapsed' \in Nat
  BY <1>0, <1>3 DEF ClockRead, ClockUnread, LoopTypes
<1>4. ASSUME NEW e, NextInstruction(e), ClockRead \/ ClockUnread,
             windowReady' \in BOOLEAN, stopped' \in Stops, owed' \in Nat
      PROVE  LoopTypes'
  BY <1>1, <1>2, <1>3, <1>4
<1>5. /\ windowReady \in BOOLEAN /\ midFrame \in BOOLEAN /\ pc \in Places /\ stopped \in Stops
      /\ elapsed \in Nat /\ owed \in Nat /\ (pc = "wait" => ~Live) /\ (pc = "between" => Live)
  BY <1>0 DEF LoopTypes
<1> HIDE DEF Places, Stops
<1>6. CASE Tick
  <2>1. elapsed + 1 \in Nat /\ Minus(owed, 1) \in Nat
    BY <1>5 DEF Minus
  <2> QED
    BY <1>1, <1>5, <1>6, <2>1 DEF Tick
<1>7. CASE BeginFrame
  <2>1. /\ pc' = "pump" /\ midFrame' = FALSE /\ UNCHANGED <<windowReady, elapsed, owed>>
        /\ stopped' \in {"quit", "no"}
    BY <1>7 DEF BeginFrame
  <2>2. midFrame' \in BOOLEAN
    BY <2>1, Zenon
  <2> QED
    BY <1>1, <1>5, <2>1, <2>2 DEF Places, Stops
<1>8. CASE ServiceGuest
  <2>1. /\ pc' = "pump" /\ midFrame' = TRUE /\ UNCHANGED <<windowReady, elapsed, owed, stopped>>
    BY <1>8 DEF ServiceGuest
  <2>2. midFrame' \in BOOLEAN
    BY <2>1, Zenon
  <2> QED
    BY <1>1, <1>5, <2>1, <2>2 DEF Places
<1>9. CASE Pump
  <2>1. pc' = "wake" /\ elapsed' = 0 /\ UNCHANGED <<windowReady, midFrame, owed, stopped>>
    BY <1>9 DEF Pump
  <2> QED
    BY <1>1, <1>5, <2>1 DEF Places
<1>10. CASE Wake
  <2>1. pc' = (IF Live THEN "mm" ELSE "wait") /\ UNCHANGED <<windowReady, midFrame, elapsed, owed, stopped>>
    BY <1>10 DEF Wake
  <2> QED
    BY <1>1, <1>5, <2>1 DEF Places
<1>11. CASE HandleHeadlessWait
  <2>1. /\ UNCHANGED <<windowReady, midFrame, elapsed, owed>>
        /\ \/ pc' = "mm" /\ UNCHANGED stopped
           \/ UNCHANGED pc /\ stopped' \in {"waiting", "limit"}
    BY <1>11 DEF HandleHeadlessWait
  <2> QED
    BY <1>1, <1>5, <2>1 DEF Places, Stops
<1>12. CASE DispatchMmTimer
  <2>1. /\ UNCHANGED <<windowReady, midFrame, elapsed, owed, stopped>>
        /\ pc' \in {"pump", "execute"} \/ (Live /\ pc' = "between")
    BY <1>12 DEF DispatchMmTimer, AfterService
  <2> QED
    BY <1>1, <1>5, <2>1 DEF Places
<1>13. CASE Compute \/ (\E c \in GuestCalls : CallApi(c)) \/ AsyncReturn
  <2>1. PICK e : NextInstruction(e)
    BY <1>13 DEF Compute, CallApi, AsyncReturn
  <2>2. ClockUnread /\ UNCHANGED <<windowReady, stopped, owed>>
    BY <1>13 DEF Compute, CallApi, AsyncReturn
  <2> QED
    BY <1>4, <1>5, <2>1, <2>2
<1>14. CASE GetMessage \/ PeekMessage \/ WaitMessage
  <2>1. ASSUME NEW takes, NEW parks, PollMessage(takes, parks) PROVE LoopTypes'
    <3>1. PICK e : NextInstruction(e)
      BY <2>1 DEF PollMessage
    <3>2. (ClockRead \/ ClockUnread) /\ UNCHANGED <<windowReady, owed>> /\ stopped' \in {"quit", "no"}
      BY <2>1 DEF PollMessage
    <3>3. stopped' \in Stops
      BY <3>2 DEF Stops
    <3> QED
      BY <1>4, <1>5, <3>1, <3>2, <3>3
  <2> QED
    BY <1>14, <2>1 DEF GetMessage, PeekMessage, WaitMessage
<1>15. CASE Sleep
  <2>1. NextInstruction(TRUE) /\ UNCHANGED <<windowReady, stopped>>
        /\ (ClockRead \/ ClockUnread)
    BY <1>15 DEF Sleep
  <2>2. owed' \in Nat
    <3>1. CASE ~Live
      BY <1>5, <1>15, <3>1 DEF Sleep
    <3>2. CASE Live
      <4>1. cpu.call \in GuestCalls /\ cpu.call.op = "Sleep"
        BY <1>0, <1>15 DEF Cpu, NoCall, Sleep, Dispatching
      <4>2. Delayed(cpu.call.ms) \in Target
        BY <1>0, <4>1, DelayTyped DEF Delayed, IsCall
      <4>3. owed' = Delayed(cpu.call.ms).ms
        BY <1>15, <3>2 DEF Sleep
      <4> QED
        BY <4>2, <4>3 DEF Target
    <3> QED
      BY <3>1, <3>2
  <2> QED
    BY <1>4, <1>5, <2>1, <2>2
<1>16. CASE SetTimer \/ KillTimer \/ TimeSetEvent \/ TimeKillEvent \/ PostMessage \/ SendToWindow \/ Present
  <2>1. PICK e : NextInstruction(e)
    BY <1>16 DEF SetTimer, KillTimer, TimeSetEvent, TimeKillEvent, PostMessage, SendToWindow, Present
  <2>2. (ClockRead \/ ClockUnread) /\ UNCHANGED <<windowReady, stopped, owed>>
    BY <1>16 DEF SetTimer, KillTimer, TimeSetEvent, TimeKillEvent, PostMessage, SendToWindow, Present
  <2> QED
    BY <1>4, <1>5, <2>1, <2>2
<1>17. CASE CreateWindow
  <2>1. windowReady' = TRUE /\ NextInstruction(FALSE) /\ ClockUnread /\ UNCHANGED <<stopped, owed>>
    BY <1>17 DEF CreateWindow
  <2>2. windowReady' \in BOOLEAN
    BY <2>1, Zenon
  <2> QED
    BY <1>4, <1>5, <2>1, <2>2
<1>18. CASE Stop
  <2>1. UNCHANGED <<windowReady, elapsed, pc, midFrame, owed>> /\ stopped' \in {"exit", "limit"}
    BY <1>18 DEF Stop
  <2> QED
    BY <1>1, <1>5, <2>1 DEF Stops
<1> QED
  BY <1>6, <1>7, <1>8, <1>9, <1>10, <1>11, <1>12, <1>13, <1>14, <1>15, <1>16, <1>17, <1>18
     DEF Next, Service, Instruction

LEMMA StepTypes ==
  ASSUME Types, [Next]_<<machine, vars>>
  PROVE  Types' /\ Fixed
<1>1. Fixed
  BY MachineFixed DEF Next, vars
<1>2. CASE Next
  <2>1. GuestTypes' /\ StackTypes' /\ ClockTypes' /\ QueueTypes' /\ LoopTypes'
    BY <1>1, <1>2, GuestTypesKept, StackTypesKept, ClockTypesKept, QueueTypesKept, LoopTypesKept
  <2> QED
    BY <1>1, <2>1 DEF Types, Fixed
<1>3. CASE UNCHANGED <<machine, vars>>
  <2>1. GuestTypes'
    BY <1>1, <1>3 DEF vars, Types, GuestTypes, Fixed
  <2>2. StackTypes'
    <3>1. WindowFrame' = WindowFrame
      BY DEF WindowFrame
    <3> QED
      BY <1>1, <1>3, <3>1 DEF vars, Types, StackTypes, Fixed
  <2>3. ClockTypes'
    BY <1>1, <1>3 DEF vars, Types, ClockTypes, Fixed
  <2>4. QueueTypes' /\ LoopTypes'
    BY <1>1, <1>3 DEF vars, Types, QueueTypes, LoopTypes, Fixed
  <2> QED
    BY <1>1, <2>1, <2>2, <2>3, <2>4 DEF Types, Fixed
<1> QED
  BY <1>1, <1>2, <1>3

LEMMA TypesAlways == Spec => []Types
  BY InitTypes, StepTypes, PTL DEF Spec

LEMMA TypesImplyTypeOK == Types => TypeOK
<1> SUFFICES ASSUME Types PROVE TypeOK
  OBVIOUS
<1>1. cpu.call \in GuestCalls \cup {NoCall} /\ task.cpu.call \in GuestCalls \cup {NoCall}
  BY DEF Types, GuestTypes, Cpu
<1>2. task.wait.kind \in {"ready", "message", "timeout"}
  <2>1. task.wait \in Waits
    BY DEF Types, GuestTypes
  <2> QED
    BY <2>1 DEF Waits, Ready, MessageWaits, TimeoutWaits
<1>3. \A i \in DOMAIN frames : frames[i].kind \in {"mm", "window"}
  <2>1. \A i \in DOMAIN frames : frames[i] \in MmFrame \cup WindowFrame
    BY DEF Types, StackTypes
  <2> QED
    BY <2>1 DEF MmFrame, WindowFrame
<1>4. \A i \in DOMAIN timers : timers[i].left \in Nat /\ timers[i].framesLeft \in Nat
  <2>1. \A i \in DOMAIN timers : timers[i] \in TimerOf(TimerIds)
    BY DEF Types, ClockTypes
  <2> QED
    BY <2>1 DEF TimerOf
<1>5. \A i \in DOMAIN mmTimers : mmTimers[i].id \in 1 .. mmCreated
  <2>1. \A i \in DOMAIN mmTimers : mmTimers[i] \in MmTimer(mmCreated)
    BY DEF Types, ClockTypes
  <2> QED
    BY <2>1 DEF MmTimer
<1> QED
  BY <1>1, <1>2, <1>3, <1>4, <1>5 DEF Types, StackTypes, LoopTypes, TypeOK

\* The state has the types of the Rust fields.
THEOREM TypeCorrect == Spec => []TypeOK
  BY TypesAlways, TypesImplyTypeOK, PTL
-----------------------------------------------------------------------------
(***************************************************************************)
(* What steps have in common.                                              *)
(***************************************************************************)
\* The calls that may park, and what all other instructions leave alone.
Parking == GetMessage \/ PeekMessage \/ WaitMessage \/ Sleep

LEMMA Instructions ==
  ASSUME Instruction
  PROVE  /\ Executing
         /\ stopped' # "waiting"
         /\ pc' \in {"pump", "between", "execute"}
         /\ Parking \/ UNCHANGED task
<1>1. ASSUME NEW e, NextInstruction(e) PROVE pc' \in {"pump", "between", "execute"}
  BY <1>1 DEF NextInstruction
<1>2. CASE Compute \/ (\E c \in GuestCalls : CallApi(c)) \/ AsyncReturn
  <2>1. Executing /\ UNCHANGED <<task, stopped>>
    BY <1>2 DEF Compute, CallApi, AsyncReturn, guest
  <2>2. PICK e : NextInstruction(e)
    BY <1>2 DEF Compute, CallApi, AsyncReturn
  <2> QED
    BY <1>1, <2>1, <2>2 DEF Executing
<1>3. CASE GetMessage \/ PeekMessage \/ WaitMessage
  <2>1. Executing
    BY <1>3 DEF GetMessage, PeekMessage, WaitMessage, Dispatching
  <2>2. ASSUME NEW takes, NEW parks, PollMessage(takes, parks)
        PROVE  stopped' # "waiting" /\ \E e : NextInstruction(e)
    BY <2>2 DEF PollMessage
  <2> QED
    BY <1>1, <1>3, <2>1, <2>2 DEF GetMessage, PeekMessage, WaitMessage, Parking
<1>4. CASE Sleep
  <2>1. Executing /\ UNCHANGED stopped /\ NextInstruction(TRUE)
    BY <1>4 DEF Sleep, Dispatching
  <2> QED
    BY <1>1, <1>4, <2>1 DEF Executing, Parking
<1>5. CASE \/ SetTimer \/ KillTimer \/ TimeSetEvent \/ TimeKillEvent \/ PostMessage
           \/ SendToWindow \/ CreateWindow \/ Present
  <2>1. Executing
    BY <1>5 DEF SetTimer, KillTimer, TimeSetEvent, TimeKillEvent, PostMessage, SendToWindow,
                CreateWindow, Present, Dispatching
  <2>2. UNCHANGED <<task, stopped>>
    BY <1>5 DEF SetTimer, KillTimer, TimeSetEvent, TimeKillEvent, PostMessage, SendToWindow,
                CreateWindow, Present
  <2>3. PICK e : NextInstruction(e)
    BY <1>5 DEF SetTimer, KillTimer, TimeSetEvent, TimeKillEvent, PostMessage, SendToWindow,
                CreateWindow, Present
  <2> QED
    BY <1>1, <2>1, <2>2, <2>3 DEF Executing
<1>6. CASE Stop
  BY <1>6 DEF Stop, Dispatching, Executing, guest
<1> QED
  BY <1>2, <1>3, <1>4, <1>5, <1>6 DEF Instruction

LEMMA ParkingSteps ==
  ASSUME Parking
  PROVE  /\ Executing
         /\ \/ Returns /\ UNCHANGED task
            \/ /\ cpu.call.op \in {"GetMessage", "WaitMessage"}
               /\ Parks(MessageWait(IF cpu.call.op = "WaitMessage" THEN AnyMessage
                                    ELSE cpu.call.filter))
               /\ NextInstruction(TRUE)
            \/ /\ Sleep /\ Live /\ Parks(TimeoutWait(Delayed(cpu.call.ms)))
               /\ NextInstruction(TRUE)
<1>1. ASSUME NEW takes, NEW parks, PollMessage(takes, parks)
      PROVE  \/ Returns /\ UNCHANGED task
             \/ parks /\ NextInstruction(TRUE)
                /\ Parks(MessageWait(IF cpu.call.op = "WaitMessage" THEN AnyMessage ELSE cpu.call.filter))
  <2> PICK f : f = IF cpu.call.op = "WaitMessage" THEN AnyMessage ELSE cpu.call.filter
    OBVIOUS
  <2>1. PICK found, quit : /\ IF found \/ quit \/ ~parks THEN Returns /\ UNCHANGED task
                              ELSE Parks(MessageWait(f))
                           /\ NextInstruction(~found)
    BY <1>1 DEF PollMessage
  <2> QED
    BY <2>1 DEF NextInstruction
<1>2. CASE GetMessage \/ WaitMessage
  BY <1>1, <1>2 DEF GetMessage, WaitMessage, Dispatching
<1>3. CASE PeekMessage
  BY <1>1, <1>3 DEF PeekMessage, Dispatching
<1>4. CASE Sleep
  <2>1. Executing /\ NextInstruction(TRUE)
    BY <1>4 DEF Sleep, Dispatching
  <2>2. CASE Live
    BY <1>4, <2>1, <2>2 DEF Sleep
  <2>3. CASE ~Live
    BY <1>4, <2>1, <2>3 DEF Sleep
  <2> QED
    BY <2>2, <2>3
<1> QED
  BY <1>2, <1>3, <1>4 DEF Parking

-----------------------------------------------------------------------------
(***************************************************************************)
(* Waits that end by the clock, and runs that give up.                     *)
(***************************************************************************)
\* A live guest executes only when it is not parked; only a live guest sleeps,
\* and its deadline is what the host clock still owes it.
SleepInv ==
  /\ task.wait.kind = "timeout" => Live /\ owed = Minus(task.wait.left, elapsed)
  /\ Live /\ pc = "execute" => ~Parked

LEMMA WaitKinds ==
  ASSUME Types
  PROVE  /\ task.wait \in Waits /\ Ready.kind = "ready"
         /\ task.wait.kind = "timeout" => task.wait \in TimeoutWaits /\ Parked
         /\ task.wait.kind = "message" => Parked
         /\ ~Parked => task.wait = Ready
  BY DEF Types, GuestTypes, Waits, MessageWaits, TimeoutWaits, Ready, Parked

LEMMA SleepInvKept ==
  ASSUME Types, SleepInv, Fixed, [Next]_<<machine, vars>>
  PROVE  /\ SleepInv'
         /\ task.wait.kind = "timeout" /\ task'.wait = Ready => owed = 0
<1> DEFINE Good == SleepInv' /\ (task.wait.kind = "timeout" /\ task'.wait = Ready => owed = 0)
<1>0. /\ Live' = Live /\ Live \in BOOLEAN /\ elapsed \in Nat /\ owed \in Nat
      /\ pc = "wait" => ~Live
      /\ FrameMs \in Nat /\ \A c \in GuestCalls : IsCall(c)
      /\ cpu \in Cpu
  BY MachineTyped DEF Types, LoopTypes, GuestTypes, Fixed
<1>w. /\ task.wait \in Waits /\ Ready.kind = "ready"
      /\ task.wait.kind = "timeout" => task.wait \in TimeoutWaits /\ Parked
      /\ task.wait.kind = "message" => Parked
      /\ ~Parked => task.wait = Ready
      /\ task \in [cpu : Cpu, wait : Waits]
  BY WaitKinds DEF Types, GuestTypes
<1>1. ASSUME Executing PROVE task.wait.kind # "timeout" /\ (Live => ~Parked)
  BY <1>0, <1>1, <1>w DEF SleepInv, Executing
<1>2. ASSUME UNCHANGED task, Executing PROVE Good
  BY <1>0, <1>1, <1>2 DEF SleepInv, Parked
<1>3. ASSUME UNCHANGED <<task, elapsed, owed>>, Live => pc' # "execute" PROVE Good
  BY <1>0, <1>3, <1>w DEF SleepInv
<1>4. CASE Instruction
  <2>1. CASE ~Parking
    BY <1>2, <1>4, <2>1, Instructions
  <2>2. CASE Parking
    <3>1. CASE UNCHANGED task
      BY <1>2, <2>2, <3>1, ParkingSteps
    <3>2. ASSUME NEW f, Parks(MessageWait(f)), NextInstruction(TRUE) PROVE Good
      <4>1. task'.wait.kind = "message"
        BY <3>2 DEF Parks, MessageWait
      <4>2. Live => pc' # "execute"
        BY <3>2 DEF NextInstruction
      <4> QED
        BY <1>0, <1>w, <4>1, <4>2 DEF SleepInv
    <3>3. ASSUME Sleep, Live, Parks(TimeoutWait(Delayed(cpu.call.ms))), NextInstruction(TRUE) PROVE Good
      <4>1. cpu.call \in GuestCalls /\ cpu.call.op = "Sleep"
        BY <1>0, <3>3 DEF Cpu, NoCall, Sleep, Dispatching
      <4>2. Delayed(cpu.call.ms) \in Target
        BY <1>0, <4>1, DelayTyped DEF Delayed, IsCall
      <4>3. /\ task'.wait.kind = "timeout" /\ task'.wait.left = Delayed(cpu.call.ms).ms
            /\ owed' = Delayed(cpu.call.ms).ms /\ elapsed' = 0
        BY <3>3 DEF Sleep, Parks, TimeoutWait, ClockRead
      <4>4. owed' = Minus(task'.wait.left, elapsed')
        BY <4>2, <4>3 DEF Minus, Target
      <4>5. pc' # "execute"
        BY <3>3 DEF NextInstruction
      <4> QED
        BY <1>0, <1>w, <3>3, <4>3, <4>4, <4>5 DEF SleepInv
    <3> QED
      BY <2>2, <3>1, <3>2, <3>3, ParkingSteps
  <2> QED
    BY <2>1, <2>2
<1>5. CASE Tick
  <2>1. UNCHANGED <<task, pc>> /\ elapsed' = elapsed + 1 /\ owed' = Minus(owed, 1)
    BY <1>5 DEF Tick, guest
  <2>2. task.wait.kind = "timeout" => owed' = Minus(task.wait.left, elapsed + 1)
    BY <1>0, <1>w, <2>1 DEF SleepInv, Minus, TimeoutWaits
  <2> QED
    BY <1>0, <1>w, <2>1, <2>2 DEF SleepInv, Parked
<1>6. CASE BeginFrame
  <2>1. /\ UNCHANGED <<elapsed, owed>> /\ pc' = "pump"
        /\ task' = IF task.wait.kind = "timeout" THEN [task EXCEPT !.wait = Framed(@)] ELSE task
    BY <1>6 DEF BeginFrame
  <2>2. CASE task.wait.kind = "timeout"
    <3>1. Framed(task.wait).kind = "timeout" /\ Framed(task.wait).left = task.wait.left
      BY <1>w, <2>2 DEF Framed, TimeoutWaits
    <3>2. task'.wait = Framed(task.wait)
      BY <1>w, <2>1, <2>2
    <3> QED
      BY <1>0, <1>w, <2>1, <3>1, <3>2 DEF SleepInv
  <2>3. CASE task.wait.kind # "timeout"
    BY <1>3, <2>1, <2>3
  <2> QED
    BY <2>2, <2>3
<1>7. CASE Pump
  <2>1. /\ UNCHANGED owed /\ elapsed' = 0 /\ pc' = "wake"
        /\ task' = IF task.wait.kind = "timeout" THEN [task EXCEPT !.wait = Aged(@, elapsed)] ELSE task
    BY <1>7 DEF Pump
  <2>2. CASE task.wait.kind = "timeout"
    <3>1. /\ Aged(task.wait, elapsed).kind = "timeout"
          /\ Aged(task.wait, elapsed).left = Minus(task.wait.left, elapsed)
          /\ task.wait.left \in Nat
      BY <1>w, <2>2 DEF Aged, TimeoutWaits
    <3>2. task'.wait = Aged(task.wait, elapsed)
      BY <1>w, <2>1, <2>2
    <3>3. Minus(Minus(task.wait.left, elapsed), 0) = Minus(task.wait.left, elapsed)
      BY <1>0, <3>1 DEF Minus
    <3> QED
      BY <1>0, <1>w, <2>1, <2>2, <3>1, <3>2, <3>3 DEF SleepInv
  <2>3. CASE task.wait.kind # "timeout"
    BY <1>0, <2>1, <2>3 DEF SleepInv
  <2> QED
    BY <2>2, <2>3
<1>8. CASE Wake
  <2>1. UNCHANGED <<elapsed, owed>> /\ pc' # "execute"
    BY <1>8 DEF Wake
  <2>2. CASE Wakes
    <3>1. task'.wait = Ready
      BY <1>8, <2>2 DEF Wake
    <3>2. task.wait.kind = "timeout" => owed = 0
      <4> SUFFICES ASSUME task.wait.kind = "timeout" PROVE owed = 0
        OBVIOUS
      <4>1. task.wait.left = 0
        BY <2>2 DEF Wakes, Due
      <4> QED
        BY <1>0, <4>1 DEF SleepInv, Minus
    <3> QED
      BY <1>w, <2>1, <3>1, <3>2 DEF SleepInv
  <2>3. CASE ~Wakes
    BY <1>3, <1>8, <2>1, <2>3 DEF Wake, guest
  <2> QED
    BY <2>2, <2>3
<1>9. CASE HandleHeadlessWait
  <2>1. UNCHANGED <<task, elapsed, owed>> /\ ~Live
    BY <1>0, <1>9 DEF HandleHeadlessWait, guest
  <2> QED
    BY <1>3, <2>1
<1>10. CASE DispatchMmTimer
  <2>1. UNCHANGED <<task, elapsed, owed>> /\ (Live /\ Parked => pc' # "execute")
    BY <1>10 DEF DispatchMmTimer, AfterService
  <2> QED
    BY <1>0, <1>w, <2>1 DEF SleepInv, Parked
<1>11. CASE ServiceGuest
  BY <1>3, <1>11 DEF ServiceGuest, guest
<1>12. CASE UNCHANGED <<machine, vars>>
  BY <1>0, <1>w, <1>12 DEF vars, SleepInv, Parked
<1> QED
  BY <1>4, <1>5, <1>6, <1>7, <1>8, <1>9, <1>10, <1>11, <1>12 DEF Next, Service

LEMMA SleepInvAlways == Spec => [](Types /\ SleepInv)
<1>1. Init => SleepInv
  BY DEF Init, SleepInv, NoCpu, Ready, Parked
<1>2. Types /\ SleepInv /\ [Next]_<<machine, vars>> => (Types /\ SleepInv)'
  BY StepTypes, SleepInvKept
<1> QED
  BY <1>1, <1>2, InitTypes, PTL DEF Spec

\* A parked Sleep is not over before the host clock has advanced by the delay.
THEOREM SleepsAlwaysLongEnough == Spec => SleepsLongEnough
<1>1. Types /\ SleepInv /\ [Next]_<<machine, vars>>
        => [task.wait.kind = "timeout" /\ task'.wait = Ready => owed = 0]_vars
  BY StepTypes, SleepInvKept
<1> QED
  BY <1>1, SleepInvAlways, PTL DEF Spec, SleepsLongEnough
\* When the headless loop decides whether to wait, nothing wakes the guest any
\* more and the journal waits or is at its end; once it has given up it stays
\* where it decided to.
GiveUpInv ==
  /\ pc = "wait" => ~Wakes
  /\ pc \in {"wake", "wait"} /\ windowReady => journal.left > 0 \/ journal.rest = <<>>
  /\ stopped = "waiting" => pc = "wait" /\ Parked /\ Wakeups = {}

LEMMA GiveUpKept ==
  ASSUME Types, GiveUpInv, Fixed, [Next]_<<machine, vars>>
  PROVE  GiveUpInv'
<1>0. /\ journal \in Scripted /\ elapsed \in Nat /\ Live \in BOOLEAN
      /\ pc = "wait" => ~Live
      /\ stopped \in {"no", "quit", "exit", "waiting", "limit"}
  BY MachineTyped DEF Types, LoopTypes, ClockTypes
<1>1. ASSUME pc' \notin {"wake", "wait"}, stopped' # "waiting" PROVE GiveUpInv'
  BY <1>1 DEF GiveUpInv
<1>2. CASE Instruction
  BY <1>1, <1>2, Instructions
<1>3. CASE Tick \/ BeginFrame \/ ServiceGuest \/ DispatchMmTimer
  <2>1. pc' \notin {"wake", "wait"}
    BY <1>3 DEF Tick, BeginFrame, ServiceGuest, DispatchMmTimer, AfterService
  <2>2. stopped' # "waiting"
    BY <1>3 DEF Tick, BeginFrame, ServiceGuest, DispatchMmTimer
  <2> QED
    BY <1>1, <2>1, <2>2
<1>4. CASE Pump
  <2> DEFINE script == Aged(journal, elapsed)
             played == IF windowReady THEN PumpJournal(script)
                       ELSE [rest |-> script.rest, left |-> script.left, events |-> <<>>]
  <2>1. /\ journal' = [rest |-> played.rest, left |-> played.left] /\ pc' = "wake"
        /\ UNCHANGED <<windowReady, stopped>> /\ stopped = "no"
    BY <1>4 DEF Pump
  <2>2. windowReady => played.left > 0 \/ played.rest = <<>>
    <3>1. script \in Scripted
      BY <1>0, AgedTyped
    <3>2. PumpJournal(script).left > 0 \/ PumpJournal(script).rest = <<>>
      BY <3>1, PumpTyped
    <3> HIDE DEF script
    <3> QED
      BY <3>2
  <2> HIDE DEF played
  <2> QED
    BY <2>1, <2>2 DEF GiveUpInv
<1>5. CASE Wake
  <2>1. /\ stopped = "no" /\ pc = "wake" /\ UNCHANGED <<journal, windowReady, stopped, inputQ, appQ>>
        /\ pc' \in {"mm", "wait"}
    BY <1>5 DEF Wake, clocks, queues
  <2>2. ~Wakes'
    <3>1. CASE Wakes
      <4>1. task'.wait = Ready
        BY <1>5, <3>1 DEF Wake
      <4>2. Ready.kind = "ready"
        BY DEF Ready
      <4> QED
        BY <4>1, <4>2 DEF Wakes
    <3>2. CASE ~Wakes
      <4>1. UNCHANGED <<task, inputQ, appQ>>
        BY <1>5, <2>1, <3>2 DEF Wake, guest
      <4> QED
        BY <3>2, <4>1 DEF Wakes
    <3> QED
      BY <3>1, <3>2
  <2> QED
    BY <2>1, <2>2 DEF GiveUpInv
<1>6. CASE HandleHeadlessWait
  <2>1. UNCHANGED <<task, inputQ, appQ, windowReady>> /\ pc = "wait" /\ stopped = "no"
    BY <1>6 DEF HandleHeadlessWait, guest, queues
  <2>2. CASE pc' = "mm" /\ UNCHANGED stopped
    BY <1>1, <2>1, <2>2
  <2>3. CASE Parked /\ Wakeups = {} /\ stopped' = "waiting" /\ UNCHANGED <<clocks, pc>>
    <3>1. Wakes' = Wakes /\ Parked' = Parked
      BY <2>1 DEF Wakes, Parked
    <3>2. Wakeups' = Wakeups /\ UNCHANGED <<journal, pc>>
      BY <2>3 DEF Wakeups, clocks
    <3> QED
      BY <2>1, <2>3, <3>1, <3>2 DEF GiveUpInv
  <2>4. CASE stopped' = "limit" /\ UNCHANGED <<clocks, pc>>
    <3>1. Wakes' = Wakes
      BY <2>1 DEF Wakes
    <3>2. UNCHANGED <<journal, pc>>
      BY <2>4 DEF clocks
    <3> QED
      BY <2>1, <2>4, <3>1, <3>2 DEF GiveUpInv
  <2> QED
    BY <1>6, <2>2, <2>3, <2>4 DEF HandleHeadlessWait
<1>7. CASE UNCHANGED <<machine, vars>>
  <2>1. Wakes' = Wakes /\ Parked' = Parked /\ Wakeups' = Wakeups
    BY <1>7 DEF vars, Wakes, Parked, Wakeups
  <2> QED
    BY <1>7, <2>1 DEF vars, GiveUpInv
<1> QED
  BY <1>2, <1>3, <1>4, <1>5, <1>6, <1>7 DEF Next, Service

LEMMA GiveUpAlways == Spec => [](Types /\ GiveUpInv)
<1>1. Init => GiveUpInv
  <2> SUFFICES ASSUME Init PROVE GiveUpInv
    OBVIOUS
  <2>1. pc \in {"between", "pump"} /\ stopped = "no"
    BY DEF Init
  <2> QED
    BY <2>1 DEF GiveUpInv
<1>2. Types /\ GiveUpInv /\ [Next]_<<machine, vars>> => (Types /\ GiveUpInv)'
  BY StepTypes, GiveUpKept
<1> QED
  BY <1>1, <1>2, InitTypes, PTL DEF Spec

\* The headless run gives up only when no message matches, no message timer is
\* set and the journal has been played.
THEOREM WaitingAlwaysMeansIdle == Spec => []WaitingMeansIdle
<1>1. ASSUME Types, GiveUpInv PROVE WaitingMeansIdle
  <2> SUFFICES ASSUME stopped = "waiting"
               PROVE  ~Wakes /\ timers = <<>> /\ (windowReady => journal.rest = <<>>)
    BY DEF WaitingMeansIdle
  <2>1. pc = "wait" /\ Wakeups = {} /\ ~Wakes
        /\ (windowReady => journal.left > 0 \/ journal.rest = <<>>)
    BY <1>1 DEF GiveUpInv
  <2>2. {timers[i].left : i \in DOMAIN timers} = {} /\ ~(journal.left > 0)
    BY <2>1 DEF Wakeups
  <2>3. timers = <<>>
    <3>1. timers \in Seq(TimerOf(TimerIds)) /\ DOMAIN timers = {}
      BY <1>1, <2>2 DEF Types, ClockTypes
    <3> QED
      BY <3>1
  <2> QED
    BY <2>1, <2>2, <2>3
<1> QED
  BY <1>1, GiveUpAlways, PTL
-----------------------------------------------------------------------------
(***************************************************************************)
(* Callback frames.                                                        *)
(***************************************************************************)
\* A stack of callbacks: a frame for each, and the cpu a timer interrupted was
\* inside of those below.
Nested(fs, nest) ==
  /\ Kinds(fs) = nest
  /\ \A k \in DOMAIN fs : fs[k].kind = "mm" => fs[k].cpu.nest = SubSeq(nest, 1, k - 1)

LEMMA KindsTyped ==
  ASSUME NEW fs \in Seq(MmFrame \cup WindowFrame)
  PROVE  Kinds(fs) \in Seq(Kind) /\ Len(Kinds(fs)) = Len(fs)
         /\ \A i \in DOMAIN fs : Kinds(fs)[i] = fs[i].kind
<1>1. \A i \in DOMAIN fs : fs[i] \in MmFrame \cup WindowFrame
  OBVIOUS
<1>2. \A i \in DOMAIN fs : fs[i].kind \in Kind
  BY <1>1 DEF MmFrame, WindowFrame, Kind
<1>3. DOMAIN fs = 1 .. Len(fs) /\ Len(fs) \in Nat
  OBVIOUS
<1> QED
  BY <1>2, <1>3 DEF Kinds

\* Two sequences that agree are equal.
LEMMA SameSeq ==
  ASSUME NEW S, NEW p \in Seq(S), NEW q \in Seq(S), Len(p) = Len(q),
         \A i \in 1 .. Len(p) : p[i] = q[i]
  PROVE  p = q
  OBVIOUS

LEMMA Pushed ==
  ASSUME NEW fs \in Seq(MmFrame \cup WindowFrame), NEW nest, Nested(fs, nest),
         NEW f \in MmFrame \cup WindowFrame, f.kind = "mm" => f.cpu.nest = nest
  PROVE  Nested(Append(fs, f), Append(nest, f.kind))
<1> DEFINE n == Len(fs)
<1>1. nest \in Seq(Kind) /\ Len(nest) = n /\ \A i \in DOMAIN fs : nest[i] = fs[i].kind
  BY KindsTyped DEF Nested
<1>2. /\ n \in Nat /\ DOMAIN fs = 1 .. n
      /\ Append(fs, f) \in Seq(MmFrame \cup WindowFrame) /\ Len(Append(fs, f)) = n + 1
      /\ DOMAIN Append(fs, f) = 1 .. n + 1
      /\ Append(fs, f)[n + 1] = f /\ \A i \in 1 .. n : Append(fs, f)[i] = fs[i]
  OBVIOUS
<1>3. f.kind \in Kind
  BY DEF MmFrame, WindowFrame, Kind
<1>4. /\ Append(nest, f.kind) \in Seq(Kind) /\ Len(Append(nest, f.kind)) = n + 1
      /\ Append(nest, f.kind)[n + 1] = f.kind
      /\ \A i \in 1 .. n : Append(nest, f.kind)[i] = nest[i]
  BY <1>1, <1>3
<1> PICK gs, deep : gs = Append(fs, f) /\ deep = Append(nest, f.kind)
  OBVIOUS
<1>n. \A i \in 1 .. n + 1 : i \in 1 .. n \/ i = n + 1
  BY <1>2
<1> HIDE DEF n
<1>5. Kinds(gs) = deep
  <2>1. /\ Kinds(gs) \in Seq(Kind) /\ Len(Kinds(gs)) = n + 1
        /\ \A i \in 1 .. n + 1 : Kinds(gs)[i] = gs[i].kind
    BY <1>2, KindsTyped
  <2>2. \A i \in 1 .. n + 1 : Kinds(gs)[i] = deep[i]
    <3> SUFFICES ASSUME NEW i \in 1 .. n + 1 PROVE gs[i].kind = deep[i]
      BY <2>1
    <3>1. CASE i = n + 1
      BY <1>2, <1>4, <3>1
    <3>2. CASE i \in 1 .. n
      BY <1>1, <1>2, <1>4, <3>2
    <3> QED
      BY <1>n, <3>1, <3>2
  <2> QED
    BY <1>4, <2>1, <2>2, SameSeq
<1>6. \A k \in 1 .. n : SubSeq(deep, 1, k - 1) = SubSeq(nest, 1, k - 1)
  BY <1>1, <1>2, <1>4
<1>7. SubSeq(deep, 1, (n + 1) - 1) = nest
  <2>1. SubSeq(deep, 1, n) \in Seq(Kind) /\ Len(SubSeq(deep, 1, n)) = n
        /\ \A i \in 1 .. n : SubSeq(deep, 1, n)[i] = deep[i]
    BY <1>2, <1>4
  <2>2. SubSeq(deep, 1, n) = nest
    BY <1>1, <1>4, <2>1, SameSeq
  <2> QED
    BY <1>2, <2>2
<1>8. ASSUME NEW k \in DOMAIN gs, gs[k].kind = "mm" PROVE gs[k].cpu.nest = SubSeq(deep, 1, k - 1)
  <2>1. CASE k = n + 1
    BY <1>2, <1>7, <1>8, <2>1
  <2>2. CASE k \in 1 .. n
    <3>1. gs[k] = fs[k] /\ k \in DOMAIN fs
      BY <1>2, <2>2
    <3>2. fs[k].cpu.nest = SubSeq(nest, 1, k - 1)
      BY <1>8, <3>1 DEF Nested
    <3> QED
      BY <1>6, <2>2, <3>1, <3>2
  <2>3. k \in 1 .. n + 1
    BY <1>2
  <2> QED
    BY <1>n, <2>1, <2>2, <2>3
<1> QED
  BY <1>5, <1>8 DEF Nested

LEMMA Popped ==
  ASSUME NEW fs \in Seq(MmFrame \cup WindowFrame), NEW nest, Nested(fs, nest), fs # <<>>
  PROVE  /\ Nested(Front(fs), Front(nest))
         /\ Last(fs).kind = "mm" => Last(fs).cpu.nest = Front(nest)
         /\ nest = Append(Front(nest), Last(fs).kind)
<1> DEFINE n == Len(fs)
<1>1. /\ nest \in Seq(Kind) /\ Len(nest) = n /\ \A i \in DOMAIN fs : nest[i] = fs[i].kind
      /\ \A k \in DOMAIN fs : fs[k].kind = "mm" => fs[k].cpu.nest = SubSeq(nest, 1, k - 1)
  BY KindsTyped DEF Nested
<1>2. /\ n \in Nat /\ n # 0 /\ DOMAIN fs = 1 .. n
      /\ Front(fs) \in Seq(MmFrame \cup WindowFrame) /\ Len(Front(fs)) = n - 1
      /\ DOMAIN Front(fs) = 1 .. n - 1
      /\ \A i \in 1 .. n - 1 : Front(fs)[i] = fs[i]
      /\ Last(fs) = fs[n]
  <2>1. n \in Nat /\ n # 0 /\ DOMAIN fs = 1 .. n
    OBVIOUS
  <2>2. Front(fs) \in Seq(MmFrame \cup WindowFrame) /\ Len(Front(fs)) = n - 1
    BY <2>1 DEF Front
  <2>3. DOMAIN Front(fs) = 1 .. n - 1
    BY <2>2
  <2>4. \A i \in 1 .. n - 1 : Front(fs)[i] = fs[i]
    BY <2>1 DEF Front
  <2> QED
    BY <2>1, <2>2, <2>3, <2>4 DEF Last
<1>3. /\ Front(nest) \in Seq(Kind) /\ Len(Front(nest)) = n - 1
      /\ Front(nest) = SubSeq(nest, 1, n - 1)
      /\ \A i \in 1 .. n - 1 : Front(nest)[i] = nest[i]
  BY <1>1, <1>2 DEF Front
<1> PICK gs, outer : gs = Front(fs) /\ outer = Front(nest)
  OBVIOUS
<1> HIDE DEF n
<1>4. Kinds(gs) = outer
  <2>1. /\ Kinds(gs) \in Seq(Kind) /\ Len(Kinds(gs)) = n - 1
        /\ \A i \in 1 .. n - 1 : Kinds(gs)[i] = gs[i].kind
    BY <1>2, KindsTyped
  <2>2. \A i \in 1 .. n - 1 : Kinds(gs)[i] = outer[i]
    <3> SUFFICES ASSUME NEW i \in 1 .. n - 1 PROVE gs[i].kind = outer[i]
      BY <2>1
    <3>1. i \in 1 .. n
      BY <1>2
    <3>2. gs[i] = fs[i] /\ nest[i] = fs[i].kind /\ outer[i] = nest[i]
      BY <1>1, <1>2, <1>3, <3>1
    <3> QED
      BY <3>2
  <2> QED
    BY <1>3, <2>1, <2>2, SameSeq
<1>5. \A k \in 1 .. n - 1 : SubSeq(outer, 1, k - 1) = SubSeq(nest, 1, k - 1)
  BY <1>1, <1>2, <1>3
<1>6. ASSUME NEW k \in DOMAIN gs, gs[k].kind = "mm" PROVE gs[k].cpu.nest = SubSeq(outer, 1, k - 1)
  <2>1. k \in 1 .. n - 1 /\ k \in DOMAIN fs /\ gs[k] = fs[k]
    BY <1>2, <1>6
  <2>2. fs[k].cpu.nest = SubSeq(nest, 1, k - 1)
    BY <1>1, <1>6, <2>1
  <2> QED
    BY <1>5, <2>1, <2>2
<1>7. Nested(gs, outer)
  BY <1>4, <1>6 DEF Nested
<1>8. Last(fs).kind = "mm" => Last(fs).cpu.nest = outer
  BY <1>1, <1>2, <1>3
<1>9. nest = Append(outer, Last(fs).kind)
  <2> PICK last : last = Last(fs).kind
    OBVIOUS
  <2>1. last \in Kind /\ nest[n] = last
    BY <1>1, <1>2
  <2>2. /\ Append(outer, last) \in Seq(Kind) /\ Len(Append(outer, last)) = n
        /\ Append(outer, last)[n] = last /\ \A i \in 1 .. n - 1 : Append(outer, last)[i] = outer[i]
    BY <1>2, <1>3, <2>1
  <2>3. \A i \in 1 .. n : Append(outer, last)[i] = nest[i]
    BY <1>2, <1>3, <2>1, <2>2
  <2> QED
    BY <1>1, <2>2, <2>3, SameSeq
<1> QED
  BY <1>7, <1>8, <1>9

\* The next message of a chain: the frame of a window callback is changed.
LEMMA Chained ==
  ASSUME NEW fs \in Seq(MmFrame \cup WindowFrame), NEW nest, Nested(fs, nest), fs # <<>>,
         NEW f \in WindowFrame, Last(fs).kind = "window"
  PROVE  Nested([fs EXCEPT ![Len(fs)] = f], nest)
<1> DEFINE n == Len(fs)
<1> PICK gs : gs = [fs EXCEPT ![n] = f]
  OBVIOUS
<1>1. /\ n \in DOMAIN fs /\ DOMAIN gs = DOMAIN fs /\ gs[n] = f
      /\ \A i \in DOMAIN fs : i # n => gs[i] = fs[i]
      /\ fs[n].kind = "window" /\ f.kind = "window"
  BY DEF Last, WindowFrame
<1>2. \A i \in DOMAIN fs : gs[i].kind = fs[i].kind
  BY <1>1
<1>3. Kinds(gs) = Kinds(fs)
  BY <1>1, <1>2 DEF Kinds
<1>4. ASSUME NEW k \in DOMAIN gs, gs[k].kind = "mm" PROVE gs[k].cpu.nest = SubSeq(nest, 1, k - 1)
  <2>1. k # n /\ k \in DOMAIN fs /\ gs[k] = fs[k]
    BY <1>1, <1>4
  <2> QED
    BY <1>4, <2>1 DEF Nested
<1> QED
  BY <1>3, <1>4 DEF Nested
\* The hypothesis of the theorem: a headless guest sets no multimedia timers.
HeadlessQuiet ==
  \A m \in DOMAIN Machines :
    ~Machines[m].live => \A c \in Machines[m].calls : c.op # "timeSetEvent"

\* The filter a call looks for.
Asked(c) == IF c.op = "WaitMessage" THEN AnyMessage ELSE c.filter

\* The frames are those of the stack, also of the stack that a parked guest
\* will wake up with.
StackInv ==
  /\ Nested(frames, cpu.nest)
  /\ Parked => task.cpu.nest = cpu.nest

\* A headless guest that is parked keeps executing the call it is parked in,
\* which finds nothing and parks again.
HeadlessInv ==
  ~Live =>
    /\ mmTimers = <<>>
    /\ Parked =>
         /\ cpu.call.op \in {"GetMessage", "WaitMessage"}
         /\ task = [cpu |-> cpu, wait |-> MessageWait(Asked(cpu.call))]
         /\ pc \in {"wait", "mm", "execute"} => ~Wakes

\* A guest that executes anything but such a call is not parked.
LEMMA ExecutingUnparked ==
  ASSUME Types, SleepInv, HeadlessInv, Executing,
         cpu.call.op \notin {"GetMessage", "WaitMessage"}
  PROVE  ~Parked
  BY MachineTyped DEF Types, SleepInv, HeadlessInv, Executing

\* A parked headless guest looks again and finds nothing.
LEMMA ParksAgain ==
  ASSUME Types, HeadlessInv, Instruction, ~Live, Parked
  PROVE  /\ UNCHANGED cpu /\ task' = task
         /\ pc' = "pump" \/ UNCHANGED <<pc, inputQ, appQ>>
<1>0. /\ cpu.call.op \in {"GetMessage", "WaitMessage"} /\ cpu \in Cpu
      /\ task = [cpu |-> cpu, wait |-> MessageWait(Asked(cpu.call))]
      /\ inputQ \in Seq(InputMessage)
  BY DEF HeadlessInv, Types, GuestTypes, QueueTypes
<1>1. Executing
  BY Instructions
<1>2. ~HasMessage(Asked(cpu.call), inputQ, appQ)
  <2>1. ~Wakes
    BY <1>1 DEF HeadlessInv, Executing
  <2>2. task.wait.kind = "message" /\ task.wait.filter = Asked(cpu.call)
    BY <1>0 DEF MessageWait
  <2> QED
    BY <2>1, <2>2 DEF Wakes
<1>3. cpu.call # NoCall
  <2>1. NoCall.op = "none"
    BY DEF NoCall
  <2> QED
    BY <1>0, <2>1
<1>4. ASSUME NEW takes, PollMessage(takes, TRUE)
      PROVE  UNCHANGED cpu /\ task' = task /\ pc' = "pump"
  <2> PICK f : f = Asked(cpu.call)
    OBVIOUS
  <2>1. PICK arrived \in Arrivals, quit \in {FALSE} :
          /\ LET found == ~quit /\ HasMessage(f, inputQ \o arrived, appQ)
             IN  /\ IF found \/ quit \/ ~TRUE THEN Returns /\ UNCHANGED task
                    ELSE Parks(MessageWait(f))
                 /\ NextInstruction(~found)
    BY <1>2, <1>4 DEF PollMessage, Asked
  <2>2. arrived = <<>>
    BY <2>1 DEF Arrivals
  <2>3. inputQ \o arrived = inputQ
    BY <1>0, <2>2
  <2>4. Parks(MessageWait(f)) /\ NextInstruction(TRUE)
    BY <1>2, <2>1, <2>3
  <2> QED
    BY <1>0, <2>4 DEF Parks, NextInstruction
<1>5. CASE GetMessage \/ WaitMessage
  BY <1>4, <1>5 DEF GetMessage, WaitMessage
<1>6. CASE Stop
  BY <1>6 DEF Stop, guest, queues
<1>7. CASE \/ Compute \/ (\E c \in GuestCalls : CallApi(c)) \/ AsyncReturn
  BY <1>3, <1>7 DEF Compute, CallApi, AsyncReturn
<1>8. CASE \/ PeekMessage \/ Sleep \/ SetTimer \/ KillTimer \/ TimeSetEvent \/ TimeKillEvent
           \/ PostMessage \/ SendToWindow \/ CreateWindow \/ Present
  BY <1>0, <1>8 DEF PeekMessage, Sleep, SetTimer, KillTimer, TimeSetEvent, TimeKillEvent,
                    PostMessage, SendToWindow, CreateWindow, Present, Dispatching
<1> QED
  BY <1>5, <1>6, <1>7, <1>8 DEF Instruction

\* No call but timeSetEvent starts a multimedia timer.
LEMMA NoTimerStarts ==
  ASSUME HeadlessQuiet, Types, Next, ~Live, mmTimers = <<>>
  PROVE  mmTimers' = <<>>
<1>1. \A dt : AllAged(<<>>, dt) = <<>> /\ AllFramed(<<>>) = <<>>
  BY DEF AllAged, AllFramed
<1>2. \A id : Killed(<<>>, id) = <<>>
  <2> TAKE id
  <2> PICK q : q = Killed(<<>>, id)
    OBVIOUS
  <2>1. <<>> \in Seq({})
    OBVIOUS
  <2>2. q \in Seq({})
    BY <2>1, KilledTyped
  <2> QED
    BY <2>2
<1>3. ASSUME Refreshed \/ UNCHANGED clocks PROVE mmTimers' = <<>>
  BY <1>1, <1>3 DEF Refreshed, clocks
<1>4. CASE GetMessage \/ PeekMessage \/ WaitMessage
  <2>1. ASSUME NEW takes, NEW parks, PollMessage(takes, parks) PROVE Refreshed \/ UNCHANGED clocks
    BY <2>1 DEF PollMessage
  <2> QED
    BY <1>3, <1>4, <2>1 DEF GetMessage, PeekMessage, WaitMessage
<1>5. CASE TimeSetEvent
  <2>1. cpu.call \in GuestCalls /\ cpu.call.op = "timeSetEvent"
    BY <1>5 DEF TimeSetEvent, Dispatching, Types, GuestTypes, Cpu, NoCall
  <2>2. FALSE
    BY <2>1 DEF HeadlessQuiet, Types, Live, GuestCalls
  <2> QED
    BY <2>2
<1>6. CASE SetTimer \/ KillTimer \/ TimeKillEvent \/ Sleep
  BY <1>1, <1>2, <1>3, <1>6 DEF SetTimer, KillTimer, TimeKillEvent, Sleep
<1>7. CASE \/ Compute \/ (\E c \in GuestCalls : CallApi(c)) \/ AsyncReturn \/ PostMessage
           \/ SendToWindow \/ CreateWindow \/ Present \/ Stop \/ Wake
  BY <1>3, <1>7 DEF Compute, CallApi, AsyncReturn, PostMessage, SendToWindow, CreateWindow,
                    Present, Stop, Wake
<1>8. CASE Tick \/ BeginFrame \/ ServiceGuest
  BY <1>8 DEF Tick, BeginFrame, ServiceGuest
<1>9. CASE Pump
  BY <1>1, <1>9 DEF Pump
<1>10. CASE HandleHeadlessWait
  BY <1>1, <1>10 DEF HandleHeadlessWait, clocks
<1>11. CASE DispatchMmTimer
  <2>1. DueMm(mmTimers) = {}
    BY DEF DueMm
  <2> QED
    BY <1>11, <2>1 DEF DispatchMmTimer, CanTakeMm
<1> QED
  BY <1>4, <1>5, <1>6, <1>7, <1>8, <1>9, <1>10, <1>11 DEF Next, Service, Instruction

LEMMA HeadlessKept ==
  ASSUME HeadlessQuiet, Types, SleepInv, HeadlessInv, Fixed, [Next]_<<machine, vars>>
  PROVE  HeadlessInv'
<1> SUFFICES ASSUME ~Live
             PROVE  /\ mmTimers' = <<>>
                    /\ Parked' =>
                         /\ cpu'.call.op \in {"GetMessage", "WaitMessage"}
                         /\ task' = [cpu |-> cpu', wait |-> MessageWait(Asked(cpu'.call))]
                         /\ pc' \in {"wait", "mm", "execute"} => ~Wakes'
  BY DEF HeadlessInv, Fixed, Asked
<1> DEFINE Stays == Parked' =>
             /\ cpu'.call.op \in {"GetMessage", "WaitMessage"}
             /\ task' = [cpu |-> cpu', wait |-> MessageWait(Asked(cpu'.call))]
             /\ pc' \in {"wait", "mm", "execute"} => ~Wakes'
<1>0. /\ mmTimers = <<>>
      /\ Parked => /\ cpu.call.op \in {"GetMessage", "WaitMessage"}
                   /\ task = [cpu |-> cpu, wait |-> MessageWait(Asked(cpu.call))]
                   /\ pc \in {"wait", "mm", "execute"} => ~Wakes
  BY DEF HeadlessInv
<1>1. mmTimers' = <<>>
  BY <1>0, NoTimerStarts DEF vars
<1> SUFFICES Stays
  BY <1>1
<1>2. ASSUME UNCHANGED <<cpu, task>>,
             \/ /\ UNCHANGED <<inputQ, appQ>>
                /\ pc' \in {"wait", "mm", "execute"} => pc \in {"wait", "mm", "execute"}
             \/ pc' \notin {"wait", "mm", "execute"}
      PROVE  Stays
  <2>1. Parked' = Parked /\ Asked(cpu'.call) = Asked(cpu.call)
    BY <1>2 DEF Parked, Asked
  <2>2. UNCHANGED <<inputQ, appQ>> => Wakes' = Wakes
    BY <1>2 DEF Wakes
  <2> QED
    BY <1>0, <1>2, <2>1, <2>2
<1>3. CASE Instruction
  <2>1. CASE Parked
    <3>1. UNCHANGED <<cpu, task>> /\ (pc' = "pump" \/ UNCHANGED <<pc, inputQ, appQ>>)
      BY <1>3, <2>1, ParksAgain
    <3> QED
      BY <1>2, <3>1
  <2>2. CASE ~Parked
    <3>1. CASE UNCHANGED task
      BY <2>2, <3>1 DEF Parked
    <3>2. CASE ~ UNCHANGED task
      <4>1. Parking
        BY <1>3, <3>2, Instructions
      <4>2. /\ cpu.call.op \in {"GetMessage", "WaitMessage"} /\ Parks(MessageWait(Asked(cpu.call)))
            /\ NextInstruction(TRUE)
        BY <3>2, <4>1, ParkingSteps DEF Asked
      <4> QED
        BY <4>2 DEF Parks, NextInstruction, Asked
    <3> QED
      BY <3>1, <3>2
  <2> QED
    BY <2>1, <2>2
<1>4. CASE Tick \/ BeginFrame \/ ServiceGuest
  BY <1>4 DEF Tick, BeginFrame, ServiceGuest
<1>5. CASE Pump
  <2>1. task.wait.kind # "timeout"
    BY DEF SleepInv
  <2> QED
    BY <1>2, <1>5, <2>1 DEF Pump
<1>6. CASE Wake
  <2>1. CASE Wakes
    <3>1. ~Parked'
      BY <1>6, <2>1 DEF Wake, Parked
    <3> QED
      BY <3>1
  <2>2. CASE ~Wakes
    <3>1. UNCHANGED <<cpu, task, inputQ, appQ>>
      BY <1>6, <2>2 DEF Wake, guest, queues
    <3>2. Parked' = Parked /\ Asked(cpu'.call) = Asked(cpu.call) /\ Wakes' = Wakes
      BY <3>1 DEF Parked, Asked, Wakes
    <3> QED
      BY <1>0, <2>2, <3>1, <3>2
  <2> QED
    BY <2>1, <2>2
<1>7. CASE HandleHeadlessWait
  <2>1. UNCHANGED <<cpu, task, inputQ, appQ>> /\ pc = "wait"
    BY <1>7 DEF HandleHeadlessWait, guest, queues
  <2> QED
    BY <1>2, <2>1
<1>8. CASE DispatchMmTimer
  <2>1. DueMm(mmTimers) = {}
    BY <1>0 DEF DueMm
  <2>2. UNCHANGED <<cpu, task, inputQ, appQ>> /\ pc = "mm"
    BY <1>8, <2>1 DEF DispatchMmTimer, CanTakeMm, queues
  <2> QED
    BY <1>2, <2>2
<1>9. CASE UNCHANGED <<machine, vars>>
  BY <1>2, <1>9 DEF vars
<1> HIDE DEF Stays
<1> QED
  BY <1>3, <1>4, <1>5, <1>6, <1>7, <1>8, <1>9 DEF Next, Service
\* What callbacks push and async returns pop.
LEMMA StackKept ==
  ASSUME Types, SleepInv, HeadlessInv, StackInv, Fixed, [Next]_<<machine, vars>>
  PROVE  StackInv'
<1>0. /\ Nested(frames, cpu.nest) /\ (Parked => task.cpu.nest = cpu.nest)
      /\ frames \in Seq(MmFrame \cup WindowFrame) /\ cpu \in Cpu /\ Live \in BOOLEAN
      /\ task \in [cpu : Cpu, wait : Waits]
  BY MachineTyped DEF StackInv, Types, GuestTypes, StackTypes
<1>w. /\ Ready.kind = "ready" /\ (task.wait.kind = "timeout" => Parked)
      /\ (task.wait.kind = "message" => Parked)
  BY WaitKinds
<1>1. ASSUME UNCHANGED frames, cpu'.nest = cpu.nest, UNCHANGED task PROVE StackInv'
  BY <1>0, <1>1 DEF StackInv, Parked
<1>2. ASSUME Returns PROVE cpu'.nest = cpu.nest
  BY <1>0, <1>2 DEF Returns, Cpu
<1>3. ASSUME NEW f \in MmFrame \cup WindowFrame, f.kind = "mm" => f.cpu.nest = cpu.nest,
             frames' = Append(frames, f), cpu'.nest = Append(cpu.nest, f.kind),
             UNCHANGED task, ~Parked
      PROVE  StackInv'
  <2>1. Nested(frames', cpu'.nest)
    BY <1>0, <1>3, Pushed
  <2> QED
    BY <1>3, <2>1 DEF StackInv, Parked
<1>4. CASE SendToWindow
  <2> DEFINE f == [kind |-> "window", more |-> cpu.call.messages - 1]
  <2>1. /\ frames' = Append(frames, f) /\ cpu' = [call |-> NoCall, nest |-> Append(cpu.nest, "window")]
        /\ UNCHANGED task /\ Executing /\ cpu.call.op = "SendToWindow"
    BY <1>4 DEF SendToWindow, Dispatching
  <2>2. cpu.call \in GuestCalls
    BY <1>0, <2>1 DEF Cpu, NoCall
  <2>3. cpu.call.messages - 1 \in Nat
    BY <2>1, <2>2, MachineTyped DEF Types, IsCall
  <2>4. f \in WindowFrame /\ f.kind = "window"
    BY <2>3 DEF WindowFrame
  <2>5. ~Parked
    BY <2>1, ExecutingUnparked
  <2> HIDE DEF f
  <2> QED
    BY <1>3, <2>1, <2>4, <2>5
<1>5. CASE DispatchMmTimer
  <2>1. CASE UNCHANGED <<frames, cpu>>
    <3>1. UNCHANGED task
      BY <1>5 DEF DispatchMmTimer
    <3> QED
      BY <1>1, <2>1, <3>1
  <2>2. CASE ~ UNCHANGED <<frames, cpu>>
    <3> DEFINE f == [kind |-> "mm", cpu |-> cpu]
    <3>1. /\ frames' = Append(frames, f) /\ cpu' = [call |-> NoCall, nest |-> Append(cpu.nest, "mm")]
          /\ UNCHANGED task /\ (Live => ~Parked) /\ DueMm(mmTimers) # {}
      BY <1>5, <2>2 DEF DispatchMmTimer, CanTakeMm, MmMayInterrupt, stack
    <3>2. f \in MmFrame /\ f.kind = "mm" /\ f.cpu.nest = cpu.nest
      BY <1>0 DEF MmFrame
    <3>3. ~Parked
      <4>1. CASE Live
        BY <3>1, <4>1
      <4>2. CASE ~Live
        BY <3>1, <4>2 DEF HeadlessInv, DueMm
      <4> QED
        BY <4>1, <4>2
    <3> HIDE DEF f
    <3> QED
      BY <1>3, <3>1, <3>2, <3>3
  <2> QED
    BY <2>1, <2>2
<1>6. CASE AsyncReturn
  <2> DEFINE outer == [cpu EXCEPT !.nest = Front(@)]
  <2>1. Executing /\ cpu.call = NoCall /\ cpu.nest # <<>> /\ UNCHANGED task
    BY <1>6 DEF AsyncReturn
  <2>2. ~Parked
    <3>1. cpu.call.op = "none"
      BY <2>1 DEF NoCall
    <3> QED
      BY <2>1, <3>1, ExecutingUnparked
  <2>3. SUFFICES Nested(frames', cpu'.nest)
    BY <2>1, <2>2 DEF StackInv, Parked
  <2>4. frames # <<>>
    <3>1. Kinds(frames) = cpu.nest
      BY <1>0 DEF Nested
    <3>2. frames = <<>> => Kinds(frames) = <<>>
      BY DEF Kinds
    <3> QED
      BY <2>1, <3>1, <3>2
  <2>5. /\ Nested(Front(frames), Front(cpu.nest))
        /\ Last(frames).kind = "mm" => Last(frames).cpu.nest = Front(cpu.nest)
        /\ cpu.nest = Append(Front(cpu.nest), Last(frames).kind)
    BY <1>0, <2>4, Popped
  <2>6. outer.nest = Front(cpu.nest)
    BY <1>0 DEF Cpu
  <2>7. CASE Last(frames).kind = "mm"
    <3>1. frames' = Front(frames) /\ cpu' = Last(frames).cpu
      BY <1>6, <2>4, <2>7 DEF AsyncReturn
    <3> QED
      BY <2>5, <2>7, <3>1
  <2>8. CASE Last(frames).kind = "window" /\ Last(frames).more = 0
    <3>1. frames' = Front(frames) /\ cpu' = outer
      BY <1>6, <2>4, <2>8 DEF AsyncReturn
    <3> QED
      BY <2>5, <2>6, <3>1
  <2>9. CASE /\ Last(frames).kind # "mm"
             /\ ~(Last(frames).kind = "window" /\ Last(frames).more = 0)
    <3> DEFINE lower == [frames[Len(frames)] EXCEPT !.more = @ - 1]
    <3>1. /\ frames' = [frames EXCEPT ![Len(frames)].more = @ - 1]
          /\ cpu' = [outer EXCEPT !.nest = Append(@, "window")]
      BY <1>6, <2>4, <2>9 DEF AsyncReturn
    <3>2. frames' = [frames EXCEPT ![Len(frames)] = lower]
      BY <3>1
    <3>3. cpu'.nest = Append(outer.nest, "window")
      <4>1. outer \in Cpu
        <5>1. Front(cpu.nest) \in Seq(Kind)
          <6>1. cpu.nest \in Seq(Kind)
            BY <1>0 DEF Cpu
          <6> QED
            BY <2>1, <6>1 DEF Front
        <5> QED
          BY <1>0, <5>1 DEF Cpu
      <4> HIDE DEF outer
      <4> QED
        BY <3>1, <4>1 DEF Cpu
    <3>4. Last(frames) = frames[Len(frames)] /\ Last(frames) \in MmFrame \cup WindowFrame
      BY <1>0, <2>4 DEF Last
    <3>5. Last(frames) \in WindowFrame /\ Last(frames).kind = "window"
      <4>1. Last(frames) \notin MmFrame
        BY <2>9 DEF MmFrame
      <4>2. Last(frames) \in WindowFrame
        BY <3>4, <4>1
      <4> QED
        BY <4>2 DEF WindowFrame
    <3>6. lower \in WindowFrame
      <4> PICK top : top = Last(frames)
        OBVIOUS
      <4>1. top \in WindowFrame /\ top.more # 0
        BY <2>9, <3>5
      <4>2. [top EXCEPT !.more = @ - 1] \in WindowFrame
        BY <4>1 DEF WindowFrame
      <4> QED
        BY <3>4, <4>2
    <3>7. cpu'.nest = cpu.nest
      BY <2>5, <2>6, <3>3, <3>5
    <3> HIDE DEF lower
    <3>8. Nested([frames EXCEPT ![Len(frames)] = lower], cpu.nest)
      BY <1>0, <2>4, <3>5, <3>6, Chained
    <3> QED
      BY <3>2, <3>7, <3>8
  <2> QED
    BY <2>7, <2>8, <2>9
<1>7. CASE Parking
  <2>1. UNCHANGED frames
    BY <1>7 DEF Parking, GetMessage, PeekMessage, WaitMessage, Sleep, PollMessage, stack
  <2>2. (Returns /\ UNCHANGED task) \/ (\E w : Parks(w))
    BY <1>7, ParkingSteps
  <2>3. CASE Returns /\ UNCHANGED task
    BY <1>1, <1>2, <2>1, <2>3
  <2>4. ASSUME NEW w, Parks(w) PROVE StackInv'
    <3>1. cpu' = cpu /\ task'.cpu = cpu
      BY <2>4 DEF Parks
    <3> QED
      BY <1>0, <2>1, <3>1 DEF StackInv
  <2> QED
    BY <2>2, <2>3, <2>4
<1>8. CASE Wake
  <2>1. UNCHANGED frames
    BY <1>8 DEF Wake, stack
  <2>2. CASE Wakes
    <3>1. /\ cpu' = IF task.wait.kind = "timeout" THEN [task.cpu EXCEPT !.call = NoCall] ELSE task.cpu
          /\ task'.wait = Ready
      BY <1>8, <2>2 DEF Wake
    <3>2. Parked
      BY <1>w, <2>2 DEF Wakes
    <3>3. cpu'.nest = cpu.nest
      <4>1. task.cpu \in Cpu /\ task.cpu.nest = cpu.nest
        BY <1>0, <3>2
      <4> QED
        BY <3>1, <4>1 DEF Cpu
    <3> QED
      BY <1>0, <2>1, <3>1, <3>3 DEF StackInv, Parked
  <2>3. CASE ~Wakes
    BY <1>1, <1>8, <2>1, <2>3 DEF Wake, guest
  <2> QED
    BY <2>2, <2>3
<1>9. ASSUME UNCHANGED <<frames, cpu>>, NEW w,
             task' = IF task.wait.kind = "timeout" THEN [task EXCEPT !.wait = w] ELSE task
      PROVE  StackInv'
  <2>1. task'.cpu = task.cpu /\ (Parked' => Parked)
    BY <1>0, <1>w, <1>9 DEF Parked
  <2> QED
    BY <1>0, <1>9, <2>1 DEF StackInv
<1>10. CASE BeginFrame \/ Pump
  <2>1. UNCHANGED <<frames, cpu>>
    BY <1>10 DEF BeginFrame, Pump, stack
  <2>2. \E w : task' = IF task.wait.kind = "timeout" THEN [task EXCEPT !.wait = w] ELSE task
    BY <1>10 DEF BeginFrame, Pump
  <2> QED
    BY <1>9, <2>1, <2>2
<1>11. CASE \/ Tick \/ ServiceGuest \/ HandleHeadlessWait \/ Compute \/ Stop
  BY <1>1, <1>11 DEF Tick, ServiceGuest, HandleHeadlessWait, Compute, Stop, guest, stack
<1>12. CASE \E c \in GuestCalls : CallApi(c)
  <2>1. UNCHANGED <<frames, task>> /\ cpu'.nest = cpu.nest
    BY <1>0, <1>12 DEF CallApi, stack, Cpu
  <2> QED
    BY <1>1, <2>1
<1>13. CASE \/ SetTimer \/ KillTimer \/ TimeSetEvent \/ TimeKillEvent \/ PostMessage
            \/ CreateWindow \/ Present
  <2>1. UNCHANGED <<frames, task>> /\ Returns
    BY <1>13 DEF SetTimer, KillTimer, TimeSetEvent, TimeKillEvent, PostMessage, CreateWindow,
                 Present, stack
  <2> QED
    BY <1>1, <1>2, <2>1
<1>14. CASE UNCHANGED <<machine, vars>>
  BY <1>1, <1>14 DEF vars
<1> QED
  BY <1>4, <1>5, <1>6, <1>7, <1>8, <1>10, <1>11, <1>12, <1>13, <1>14
     DEF Next, Service, Instruction, Parking

\* Every callback the guest is inside of has its frame, and no other frame is
\* there, if no headless guest sets multimedia timers (the headless loop
\* interrupts a parked guest, which abandons the frame).
THEOREM FramesAlwaysMatch == HeadlessQuiet => (Spec => []FramesMatchStack)
<1> SUFFICES ASSUME HeadlessQuiet PROVE Spec => []FramesMatchStack
  OBVIOUS
<1>1. Init => SleepInv /\ HeadlessInv /\ StackInv
  <2> SUFFICES ASSUME Init PROVE SleepInv /\ HeadlessInv /\ StackInv
    OBVIOUS
  <2>1. ~Parked /\ task.wait.kind = "ready" /\ mmTimers = <<>> /\ frames = <<>> /\ cpu.nest = <<>>
    BY DEF Init, NoCpu, Ready, Parked
  <2>2. Nested(<<>>, <<>>)
    BY DEF Nested, Kinds
  <2> QED
    BY <2>1, <2>2 DEF SleepInv, HeadlessInv, StackInv
<1>2. Types /\ SleepInv /\ HeadlessInv /\ StackInv /\ [Next]_<<machine, vars>>
        => (Types /\ SleepInv /\ HeadlessInv /\ StackInv)'
  BY StepTypes, SleepInvKept, HeadlessKept, StackKept
<1>3. StackInv => FramesMatchStack
  BY DEF StackInv, Nested, FramesMatchStack
<1> QED
  BY <1>1, <1>2, <1>3, InitTypes, PTL DEF Spec
=============================================================================
