---------------------------- MODULE MCScheduler ------------------------------
(***************************************************************************)
(* Guest programs (the API calls a guest may make, in any order) and input *)
(* scripts for the runs of Scheduler.                                      *)
(***************************************************************************)
EXTENDS Scheduler

Get(f)        == [op |-> "GetMessage", filter |-> f]
Peek(f)       == [op |-> "PeekMessage", filter |-> f]
Op(name)      == [op |-> name]
SleepFor(n)   == [op |-> "Sleep", ms |-> n]
SetT(id, n)   == [op |-> "SetTimer", id |-> id, ms |-> n]
KillT(id)     == [op |-> "KillTimer", id |-> id]
MmT(n, p)     == [op |-> "timeSetEvent", ms |-> n, periodic |-> p]
MmKill(id)    == [op |-> "timeKillEvent", id |-> id]
Send(n)       == [op |-> "SendToWindow", messages |-> n]

\* A message loop with a window and timers of both kinds.
CallbackProgram ==
  {Get({"WM_TIMER"}), MmT(1, TRUE), SleepFor(1), Op("CreateWindow"), Send(2)}

\* The queues: every way to look at them, two timers, posts.
QueueProgram ==
  {Get({"WM_TIMER"}), Get({"WM_USER"}), Peek(AnyMessage), Op("WaitMessage"), SetT(1, 1),
   SetT(2, 2), KillT(1), Op("PostMessage"), Op("CreateWindow")}

\* Sleeps around a timer callback.
SleepProgram == {SleepFor(0), SleepFor(1), SleepFor(3), MmT(1, TRUE), MmT(2, FALSE), MmKill(1),
                 Get(AnyMessage), Op("CreateWindow"), Send(1), Op("Present"), Op("ExitProcess")}

\* What a scripted headless program does.
ScriptProgram == {Get(AnyMessage), Peek({"WM_KEYDOWN", "WM_MOUSEMOVE"}), SetT(1, 3), KillT(1),
                  Op("CreateWindow"), SleepFor(1), Op("PostMessage")}

\* Multimedia timers and window callbacks, nothing else.
ReentryProgram == {MmT(1, TRUE), Op("CreateWindow"), Send(1)}

KeysAndMouse == <<WaitItem(1), KeyItem, MouseItem, WaitItem(0), KeyItem>>

LiveMachine(program, frameMs, depth) ==
  [live |-> TRUE, frameMs |-> frameMs, insnLimit |-> FALSE, maxDepth |-> depth,
   calls |-> program, script |-> <<>>]
HeadlessMachine(program, script, limited) ==
  [live |-> FALSE, frameMs |-> 0, insnLimit |-> limited, maxDepth |-> 2,
   calls |-> program, script |-> script]

WaitingMachines ==
  [callbacks |-> LiveMachine(CallbackProgram, 0, 2),
   queues |-> LiveMachine(QueueProgram, 0, 2),
   sleeps |-> LiveMachine(SleepProgram, 2, 1),
   script |-> HeadlessMachine(ScriptProgram, KeysAndMouse, TRUE)]
Reentry == [reentry |-> LiveMachine(ReentryProgram, 0, 2)]
=============================================================================
