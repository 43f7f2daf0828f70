------------------------------- MODULE Timers --------------------------------
(***************************************************************************)
(* Message timers (SetTimer) and multimedia timers (timeSetEvent) of       *)
(* src/hle_base.rs, the delays they are built from, and the input journal  *)
(* of src/journal.rs, which is driven by the same clock.                   *)
(*                                                                         *)
(* The code keeps absolute deadlines (next_ms, eligible_frame, until_ms,   *)
(* wait_until_ms) and only ever compares them with the current time and    *)
(* frame, or re-arms them from it.  Here a deadline is the time, or the    *)
(* number of frames, that is left: 0 means reached.  That is exact up to   *)
(* u64 saturation and keeps the state space finite.                        *)
(***************************************************************************)
EXTENDS Integers, SequencesExt, Queues

CONSTANTS
  KeyDelay    (* KEY_EVENT_REPLAY_DELAY_MS                                 *)

ASSUME TimersAssumption == KeyDelay \in Nat \ {0}

Longer(a, b)  == IF a > b THEN a ELSE b
Minus(a, b)   == IF a > b THEN a - b ELSE 0

\* Hle::delay_target and HleDelayTarget: a guest delay as milliseconds and
\* frames.  Headless delays have no frame part and are at least 1 ms; live
\* ones are rounded to whole frames of frameMs (frontend_microseconds_per_frame,
\* 0 when unknown), at least one.
DelayTarget(live, frameMs, delay) ==
  IF ~live THEN [ms |-> Longer(delay, 1), frames |-> 0]
  ELSE IF frameMs = 0 THEN [ms |-> delay, frames |-> 1]
  ELSE LET n == IF delay = 0 THEN 1
                ELSE Longer((2 * delay + frameMs) \div (2 * frameMs), 1)
       IN  [ms |-> IF delay = 0 THEN 0 ELSE Longer(n * frameMs, 1), frames |-> n]

\* Mutation of Framed: the frame number is not advanced.
FramedNever(t) == t

\* A deadline armed now; reached when both parts are.
Due(t)       == t.left = 0 /\ t.framesLeft = 0
Aged(t, dt)  == [t EXCEPT !.left = Minus(@, dt)]
Framed(t)    == [t EXCEPT !.framesLeft = Minus(@, 1)]
Rearmed(t)   == [t EXCEPT !.left = t.period.ms, !.framesLeft = t.period.frames]

AllAged(timers, dt) == [i \in DOMAIN timers |-> Aged(timers[i], dt)]
AllFramed(timers)   == [i \in DOMAIN timers |-> Framed(timers[i])]

-----------------------------------------------------------------------------
\* set_timer: a timer that exists is changed in place, a new one goes last.
\* (hwnd, id) is one identity here.
SetTimerIn(timers, id, target) ==
  LET t     == [id |-> id, period |-> target, left |-> target.ms, framesLeft |-> target.frames]
      known == {i \in DOMAIN timers : timers[i].id = id}
  IN  IF known = {} THEN Append(timers, t)
      ELSE [i \in DOMAIN timers |-> IF i \in known THEN t ELSE timers[i]]

\* kill_timer and kill_mm_timer; a WM_TIMER already queued stays queued.
Killed(timers, id) == Without(timers, {t \in Range(timers) : t.id = id})

TimerMessage(id) == [msg |-> "WM_TIMER", id |-> id]

Pending(queue, id) == \E i \in DOMAIN queue : queue[i] = TimerMessage(id)

\* pump_timers: every due timer is re-armed and posts a WM_TIMER unless one is
\* still queued.
PumpedQueue(timers, queue) ==
  FoldLeft(LAMBDA q, t : IF Due(t) /\ ~Pending(q, t.id)
                         THEN Append(q, TimerMessage(t.id)) ELSE q,
           queue, timers)

PumpedTimers(timers) ==
  [i \in DOMAIN timers |-> IF Due(timers[i]) THEN Rearmed(timers[i]) ELSE timers[i]]

-----------------------------------------------------------------------------
\* set_mm_timer.
SetMmTimer(mm, id, target, periodic) ==
  Append(mm, [id |-> id, periodic |-> periodic, period |-> target,
              left |-> target.ms, framesLeft |-> target.frames])

\* take_due_mm_timer: the first due timer, unless a callback is active.  A
\* periodic one is re-armed, a one-shot one removed.
DueMm(mm) == {i \in DOMAIN mm : Due(mm[i])}
CanTakeMm(mm, active) == ~active /\ DueMm(mm) # {}

MmTaken(mm) ==
  LET i == Min(DueMm(mm))
  IN  IF mm[i].periodic THEN [mm EXCEPT ![i] = Rearmed(@)] ELSE RemoveAt(mm, i)

-----------------------------------------------------------------------------
\* The journal: [rest |-> items not consumed, left |-> time left of
\* wait_until_ms].  Items are a key edge, followed by KeyDelay, a move of the
\* mouse (no delay) and a wait.
KeyItem     == [event |-> "WM_KEYDOWN", wait |-> KeyDelay]
MouseItem   == [event |-> "WM_MOUSEMOVE", wait |-> 0]
WaitItem(n) == [event |-> "none", wait |-> n]

Inputs == {"WM_KEYDOWN", "WM_MOUSEMOVE"}
Item   == [event : Inputs \cup {"none"}, wait : Nat]
IsScript(items) ==
  /\ items \in Seq(Item)
  /\ \A i \in DOMAIN items :
       items[i].event # "none" => items[i] \in {KeyItem, MouseItem}

\* next_event answers None before wait_until_ms and at the end of the script;
\* until then it plays every item up to the first that makes the rest wait.
Silent(journal) == journal.left > 0 \/ journal.rest = <<>>

PlayedUpTo(items) ==
  LET delaying == {i \in DOMAIN items : items[i].wait > 0}
  IN  IF delaying = {} THEN Len(items) ELSE Min(delaying)

\* pump_journal: the events among the items played become messages.
EventsOf(items) ==
  LET events == Without(items, {item \in Range(items) : item.event = "none"})
  IN  [i \in DOMAIN events |-> [msg |-> events[i].event, id |-> 0]]

PumpJournal(journal) ==
  IF Silent(journal) THEN [rest |-> journal.rest, left |-> journal.left, events |-> <<>>]
  ELSE LET n == PlayedUpTo(journal.rest)
       IN  [rest   |-> SubSeq(journal.rest, n + 1, Len(journal.rest)),
            left   |-> journal.rest[n].wait,
            events |-> EventsOf(SubSeq(journal.rest, 1, n))]
=============================================================================
