------------------------------ MODULE Scheduler ------------------------------
(***************************************************************************)
(* The run loop of src/lib.rs: one guest task that executes instructions,  *)
(* calls the emulated Win32 API, parks in it, and is interrupted by        *)
(* callbacks; two frontends drive it.                                      *)
(*                                                                         *)
(*   live      run_one_frame: frames that poll the host, service timers,   *)
(*             then run the guest until it presents, parks, idles or the   *)
(*             frame times out; time is the host clock.                    *)
(*   headless  run: every iteration services timers and runs one           *)
(*             instruction; time is the instruction count, and jumps to    *)
(*             the next wake-up when the guest is parked.                  *)
(*                                                                         *)
(* The iteration is cut at the functions of the code: pump_timers and      *)
(* pump_journal (Pump), wake_hle_tasks (Wake), handle_headless_wait        *)
(* (HandleHeadlessWait), dispatch_due_mm_timer_interrupt (DispatchMmTimer) *)
(* and run_one_instruction (one action per API the guest calls).  The      *)
(* program has exactly one task: CreateThread never starts one.            *)
(*                                                                         *)
(* A cpu is what it is doing: `call`, the API thunk its eip is at (NoCall  *)
(* inside guest code), and `nest`, the callbacks its stack is inside of.   *)
(***************************************************************************)
EXTENDS Timers, FiniteSets

CONSTANTS
  Machines,    (* named frontends with the guest they run, see Machine      *)
  MaxQueue,    (* bound: messages the guest or the frontend keep queued     *)
  MaxMmTimers, (* bound: multimedia timers ever created                     *)
  MaxElapsed   (* bound: host ms between two looks at the clock             *)

AnyMessage == {"WM_KEYDOWN", "WM_MOUSEMOVE", "WM_TIMER", "WM_USER"}

\* A call of the API, with the arguments that matter.
IsCall(c) ==
  /\ c.op \in {"GetMessage", "PeekMessage", "WaitMessage", "Sleep", "SetTimer", "KillTimer",
              "timeSetEvent", "timeKillEvent", "PostMessage", "SendToWindow", "CreateWindow",
              "Present", "ExitProcess"}
  /\ c.op \in {"GetMessage", "PeekMessage"} => c.filter \subseteq AnyMessage
  /\ c.op \in {"Sleep", "SetTimer", "timeSetEvent"} => c.ms \in Nat
  /\ c.op = "timeSetEvent" => c.periodic \in BOOLEAN
  /\ c.op = "SendToWindow" => c.messages \in Nat \ {0}

ASSUME SchedulerAssumption ==
  /\ \A m \in DOMAIN Machines :
       /\ Machines[m].live \in BOOLEAN       \* SDL or browser, or headless
       /\ Machines[m].frameMs \in Nat        \* 0 when unknown
       /\ Machines[m].insnLimit \in BOOLEAN  \* max_insns is set
       /\ Machines[m].maxDepth \in Nat       \* bound: nesting of guest callbacks
       /\ IsScript(Machines[m].script)       \* the journal
       /\ \A c \in Machines[m].calls : IsCall(c)
  /\ MaxQueue \in Nat /\ MaxMmTimers \in Nat /\ MaxElapsed \in Nat

VARIABLES
  machine,     (* which of Machines runs; it never changes                  *)
  cpu,         (* Emulator::cpu                                             *)
  task,        (* hle_tasks[0]: the cpu saved when it parked, and its wait  *)
  frames,      (* hle_callback_stack                                        *)
  mmActive,    (* mm_timer_callback_active                                  *)
  timers,      (* message timers                                            *)
  mmTimers,    (* multimedia timers                                         *)
  mmCreated,   (* next_mm_timer_id - 1                                      *)
  journal,     (* the input script: what is left of it, and its wait        *)
  inputQ,      (* input_messages                                            *)
  appQ,        (* app_messages                                              *)
  windowReady, (* window_ready(): input is dropped before there is a window *)
  elapsed,     (* ms the clock is ahead of guest_time_ms                    *)
  pc,          (* where the run loop is                                     *)
  midFrame,    (* live: the frame has executed guest code                   *)
  stopped,     (* StopReason, or "no"                                       *)
  owed         (* history: host ms the current Sleep still owes             *)

guest  == <<cpu, task>>
stack  == <<frames, mmActive>>
clocks == <<timers, mmTimers, journal>>
queues == <<inputQ, appQ>>
\* The machine: its frontend, the calls its guest makes, its journal (a
\* sequence of items, see Timers).
Live       == Machines[machine].live
FrameMs    == Machines[machine].frameMs
GuestCalls == Machines[machine].calls
Script     == Machines[machine].script
InsnLimit  == Machines[machine].insnLimit
MaxDepth   == Machines[machine].maxDepth

vars   == <<cpu, task, frames, mmActive, timers, mmTimers, mmCreated, journal, inputQ,
            appQ, windowReady, elapsed, pc, midFrame, stopped, owed>>

-----------------------------------------------------------------------------
NoCall == [op |-> "none"]
Ready  == [kind |-> "ready"]

MessageWait(filter) == [kind |-> "message", filter |-> filter]
TimeoutWait(target) == [kind |-> "timeout", left |-> target.ms, framesLeft |-> target.frames]

Parked == task.wait # Ready

UserMessage == [msg |-> "WM_USER", id |-> 0]

\* has_matching_message: a filter is the set of message numbers it lets pass.
Matching(filter, q) == {i \in DOMAIN q : q[i].msg \in filter}
HasMessage(filter, inQ, aQ) == Matching(filter, inQ) # {} \/ Matching(filter, aQ) # {}

\* poll_message with removal: the input queue comes first.
Remaining(filter, inQ, aQ) ==
  IF Matching(filter, inQ) # {}
  THEN [input |-> RemoveAt(inQ, Min(Matching(filter, inQ))), app |-> aQ]
  ELSE [input |-> inQ, app |-> RemoveAt(aQ, Min(Matching(filter, aQ)))]

\* What poll_events may bring at a look at the frontend: nothing, or one key.
Arrivals ==
  IF Live /\ windowReady /\ Len(inputQ) < MaxQueue
  THEN {<<>>, <<[msg |-> "WM_KEYDOWN", id |-> 0]>>} ELSE {<<>>}

\* The saved cpu of a task that is not parked is never read; it is kept at this
\* value.
NoCpu == [call |-> NoCall, nest |-> <<>>]

Init ==
  /\ machine \in DOMAIN Machines
  /\ cpu = NoCpu
  /\ task = [cpu |-> NoCpu, wait |-> Ready]
  /\ frames = <<>> /\ mmActive = FALSE
  /\ timers = <<>> /\ mmTimers = <<>> /\ mmCreated = 0
  /\ journal = [rest |-> Script, left |-> 0]
  /\ inputQ = <<>> /\ appQ = <<>> /\ windowReady = FALSE
  /\ elapsed = 0 /\ midFrame = FALSE
  /\ pc = IF Live THEN "between" ELSE "pump"
  /\ stopped = "no" /\ owed = 0

-----------------------------------------------------------------------------
(***************************************************************************)
(* Time.                                                                   *)
(***************************************************************************)

\* The host clock, live.  What passes during a service is counted just after
\* it: the service reads the clock once.
Tick ==
  /\ Live /\ stopped = "no" /\ pc \in {"between", "execute"} /\ elapsed < MaxElapsed
  /\ elapsed' = elapsed + 1
  /\ owed' = Minus(owed, 1)
  /\ UNCHANGED <<guest, stack, clocks, mmCreated, queues, windowReady, pc, midFrame, stopped>>

Delayed(ms) == DelayTarget(Live, FrameMs, ms)

\* refresh_guest_time inside an API handler.
Refreshed ==
  /\ timers' = AllAged(timers, elapsed)
  /\ mmTimers' = AllAged(mmTimers, elapsed)
  /\ journal' = Aged(journal, elapsed)

\* Mutation of ClockRead: the handler does not refresh guest_time.
ClockStale  == IF Live THEN UNCHANGED elapsed ELSE elapsed' \in {0, 1}

\* Headless, every HEADLESS_INSNS_PER_MS-th instruction is a millisecond.
ClockRead   == IF Live THEN elapsed' = 0 ELSE elapsed' \in {0, 1}
ClockUnread == IF Live THEN UNCHANGED elapsed ELSE elapsed' \in {0, 1}

-----------------------------------------------------------------------------
(***************************************************************************)
(* Service: what the run loop does between guest instructions.             *)
(***************************************************************************)

\* run_one_frame up to begin_frontend_frame: a new scheduler frame, then the
\* frontend's events.  After a Quit the frame returns without guest code.
BeginFrame ==
  /\ Live /\ stopped = "no" /\ pc = "between"
  /\ timers' = AllFramed(timers) /\ mmTimers' = AllFramed(mmTimers)
  /\ task' = IF task.wait.kind = "timeout" THEN [task EXCEPT !.wait = Framed(@)] ELSE task
  /\ \E arrived \in Arrivals, quit \in BOOLEAN :
       /\ inputQ' = inputQ \o arrived
       /\ stopped' = IF quit THEN "quit" ELSE "no"
  /\ pc' = "pump" /\ midFrame' = FALSE
  /\ UNCHANGED <<cpu, stack, mmCreated, journal, appQ, windowReady, elapsed, owed>>

\* Live, the guest is also serviced every FRAME_DEADLINE_CHECK_INSNS.
ServiceGuest ==
  /\ Live /\ stopped = "no" /\ pc = "execute"
  /\ pc' = "pump" /\ midFrame' = TRUE
  /\ UNCHANGED <<guest, stack, clocks, mmCreated, queues, windowReady, elapsed, stopped, owed>>

\* refresh_guest_time, pump_timers, pump_journal.
Pump ==
  /\ stopped = "no" /\ pc = "pump"
  /\ LET due    == AllAged(timers, elapsed)
         script == Aged(journal, elapsed)
         played == IF windowReady THEN PumpJournal(script)
                   ELSE [rest |-> script.rest, left |-> script.left, events |-> <<>>]
     IN  /\ timers' = PumpedTimers(due)
         /\ appQ' = PumpedQueue(due, appQ)
         /\ journal' = [rest |-> played.rest, left |-> played.left]
         /\ inputQ' = inputQ \o played.events
  /\ mmTimers' = AllAged(mmTimers, elapsed)
  /\ task' = IF task.wait.kind = "timeout" THEN [task EXCEPT !.wait = Aged(@, elapsed)] ELSE task
  /\ elapsed' = 0 /\ pc' = "wake"
  /\ UNCHANGED <<cpu, stack, mmCreated, windowReady, midFrame, stopped, owed>>

\* wake_hle_tasks: a message wait re-executes its call, a timeout returns from
\* it (complete_hle_timeout); either way the saved cpu is put back.
Wakes ==
  \/ task.wait.kind = "message" /\ HasMessage(task.wait.filter, inputQ, appQ)
  \/ task.wait.kind = "timeout" /\ Due(task.wait)

Wake ==
  /\ stopped = "no" /\ pc = "wake"
  /\ IF Wakes
     THEN LET woken == IF task.wait.kind = "timeout" THEN [task.cpu EXCEPT !.call = NoCall]
                       ELSE task.cpu
          IN  task' = [cpu |-> NoCpu, wait |-> Ready] /\ cpu' = woken
     ELSE UNCHANGED guest
  /\ pc' = IF Live THEN "mm" ELSE "wait"
  /\ UNCHANGED <<stack, clocks, mmCreated, queues, windowReady, elapsed, midFrame, stopped, owed>>

\* Mutation of Wakeups: the journal is not asked.
WakeupsOfTimers == {timers[i].left : i \in DOMAIN timers}

\* handle_headless_wait: a parked guest makes time jump to the next message
\* timer or journal event (next_headless_wakeup_ms), and with neither the run
\* is over.  Multimedia timers are not consulted.
Wakeups ==
  {timers[i].left : i \in DOMAIN timers} \cup
  (IF journal.left > 0 THEN {journal.left} ELSE {})

HandleHeadlessWait ==
  /\ stopped = "no" /\ pc = "wait"
  /\ \/ ~Parked /\ pc' = "mm" /\ UNCHANGED <<clocks, stopped>>
     \/ /\ Parked /\ Wakeups # {} /\ pc' = "mm"
        /\ LET dt == Min(Wakeups)
           IN  /\ timers' = AllAged(timers, dt)
               /\ mmTimers' = AllAged(mmTimers, dt)
               /\ journal' = Aged(journal, dt)
        /\ UNCHANGED stopped
     \/ Parked /\ Wakeups = {} /\ stopped' = "waiting" /\ UNCHANGED <<clocks, pc>>
     \/ Parked /\ InsnLimit /\ stopped' = "limit" /\ UNCHANGED <<clocks, pc>>
  /\ UNCHANGED <<guest, stack, mmCreated, queues, windowReady, elapsed, midFrame, owed>>

\* Mutations of MmMayInterrupt: without the guard; only at an API call.
MmMayAlwaysInterrupt == TRUE
MmMayInterruptCalls == (Live => ~Parked) /\ cpu.call # NoCall

\* dispatch_due_mm_timer_interrupt: the current cpu is saved in a callback
\* frame and enters the callback.  service_guest does so only when the guest
\* is not parked; the headless loop asks no such question.
MmMayInterrupt == Live => ~Parked

AfterService ==
  IF Live /\ Parked THEN pc' = "between"
  ELSE pc' \in {"execute"} \cup (IF Live /\ midFrame THEN {"between"} ELSE {})

DispatchMmTimer ==
  /\ stopped = "no" /\ pc = "mm"
  /\ IF MmMayInterrupt /\ CanTakeMm(mmTimers, mmActive)
     THEN /\ mmTimers' = MmTaken(mmTimers)
          /\ mmActive' = TRUE
          /\ frames' = Append(frames, [kind |-> "mm", cpu |-> cpu])
          /\ cpu' = [call |-> NoCall, nest |-> Append(cpu.nest, "mm")]
          /\ IF Live THEN AfterService ELSE pc' = "pump"
     ELSE AfterService /\ UNCHANGED <<mmTimers, stack, cpu>>
  /\ UNCHANGED <<task, timers, journal, mmCreated, queues, windowReady, elapsed, midFrame,
                 stopped, owed>>

-----------------------------------------------------------------------------
(***************************************************************************)
(* Guest instructions (run_one_instruction_inner).  Live, an instruction   *)
(* that presents, parks or reports a cooperative idle ends the frame.      *)
(***************************************************************************)
Executing == stopped = "no" /\ pc = "execute"
Dispatching(op) == Executing /\ cpu.call.op = op

NextInstruction(endsFrame) ==
  /\ pc' = IF ~Live THEN "pump" ELSE IF endsFrame THEN "between" ELSE "execute"
  /\ midFrame' = TRUE

Returns == cpu' = [cpu EXCEPT !.call = NoCall]

\* park_current_hle_task: eip stays at the thunk of the call.
Parks(wait) == task' = [cpu |-> cpu, wait |-> wait] /\ UNCHANGED cpu

\* Guest code that calls nothing.
Compute ==
  /\ Executing /\ cpu.call = NoCall
  /\ NextInstruction(FALSE) /\ ClockUnread
  /\ UNCHANGED <<guest, stack, clocks, mmCreated, queues, windowReady, stopped, owed>>

\* Guest code jumps to the thunk of an API.
WithinBounds(c) ==
  /\ c.op = "PostMessage" => Len(appQ) < MaxQueue
  /\ c.op = "timeSetEvent" => mmCreated < MaxMmTimers
  /\ c.op = "SendToWindow" => windowReady /\ Len(cpu.nest) < MaxDepth

CallApi(c) ==
  /\ Executing /\ cpu.call = NoCall /\ WithinBounds(c)
  /\ cpu' = [cpu EXCEPT !.call = c]
  /\ NextInstruction(FALSE) /\ ClockUnread
  /\ UNCHANGED <<task, stack, clocks, mmCreated, queues, windowReady, stopped, owed>>

\* GetMessage, PeekMessage and WaitMessage look at the queues, and at the
\* frontend when they find nothing (poll_frontend_events_no_timers).  With
\* still nothing GetMessage and WaitMessage park; PeekMessage reports idle.
PollMessage(takes, parks) ==
  LET f == IF cpu.call.op = "WaitMessage" THEN AnyMessage ELSE cpu.call.filter
      polls == ~HasMessage(f, inputQ, appQ)
  IN  \E arrived \in (IF polls THEN Arrivals ELSE {<<>>}),
         quit \in (IF polls /\ Live THEN BOOLEAN ELSE {FALSE}) :
       LET in == inputQ \o arrived
           found == ~quit /\ HasMessage(f, in, appQ)
       IN  /\ IF polls THEN Refreshed /\ ClockRead ELSE UNCHANGED clocks /\ ClockUnread
           /\ stopped' = IF quit THEN "quit" ELSE "no"
           /\ IF found /\ takes
              THEN /\ inputQ' = Remaining(f, in, appQ).input
                   /\ appQ' = Remaining(f, in, appQ).app
              ELSE inputQ' = in /\ UNCHANGED appQ
           /\ IF found \/ quit \/ ~parks THEN Returns /\ UNCHANGED task
              ELSE Parks(MessageWait(f))
           /\ NextInstruction(~found)
           /\ UNCHANGED <<stack, mmCreated, windowReady, owed>>

GetMessage  == Dispatching("GetMessage") /\ PollMessage(TRUE, TRUE)
PeekMessage == Dispatching("PeekMessage") /\ PollMessage(TRUE, FALSE)
WaitMessage == Dispatching("WaitMessage") /\ PollMessage(FALSE, TRUE)

\* Sleep and SleepEx park only a live guest; headless they return at once.
Sleep ==
  /\ Dispatching("Sleep")
  /\ IF Live
     THEN LET target == Delayed(cpu.call.ms)
          IN  /\ Refreshed /\ ClockRead
              /\ Parks(TimeoutWait(target))
              /\ owed' = target.ms
     ELSE Returns /\ ClockUnread /\ UNCHANGED <<task, clocks, owed>>
  /\ NextInstruction(TRUE)
  /\ UNCHANGED <<stack, mmCreated, queues, windowReady, stopped>>

SetTimer ==
  /\ Dispatching("SetTimer")
  /\ timers' = SetTimerIn(AllAged(timers, elapsed), cpu.call.id, Delayed(cpu.call.ms))
  /\ mmTimers' = AllAged(mmTimers, elapsed) /\ journal' = Aged(journal, elapsed)
  /\ Returns /\ NextInstruction(FALSE) /\ ClockRead
  /\ UNCHANGED <<task, stack, mmCreated, queues, windowReady, stopped, owed>>

KillTimer ==
  /\ Dispatching("KillTimer")
  /\ timers' = Killed(timers, cpu.call.id)
  /\ Returns /\ NextInstruction(FALSE) /\ ClockUnread
  /\ UNCHANGED <<task, stack, mmTimers, mmCreated, journal, queues, windowReady, stopped, owed>>

\* timeSetEvent numbers its timers from 1 (set_mm_timer).
TimeSetEvent ==
  /\ Dispatching("timeSetEvent")
  /\ mmTimers' = SetMmTimer(AllAged(mmTimers, elapsed), mmCreated + 1,
                            Delayed(cpu.call.ms), cpu.call.periodic)
  /\ timers' = AllAged(timers, elapsed) /\ journal' = Aged(journal, elapsed)
  /\ mmCreated' = mmCreated + 1
  /\ Returns /\ NextInstruction(FALSE) /\ ClockRead
  /\ UNCHANGED <<task, stack, queues, windowReady, stopped, owed>>

TimeKillEvent ==
  /\ Dispatching("timeKillEvent")
  /\ mmTimers' = Killed(mmTimers, cpu.call.id)
  /\ Returns /\ NextInstruction(FALSE) /\ ClockUnread
  /\ UNCHANGED <<task, stack, timers, mmCreated, journal, queues, windowReady, stopped, owed>>

PostMessage ==
  /\ Dispatching("PostMessage")
  /\ appQ' = Append(appQ, UserMessage)
  /\ Returns /\ NextInstruction(FALSE) /\ ClockUnread
  /\ UNCHANGED <<task, stack, clocks, mmCreated, inputQ, windowReady, stopped, owed>>

\* UpdateWindow (one message) and ShowWindow (a chain of them) run the window
\* procedure as a callback before they return.  DispatchMessage is a tail call
\* and leaves no frame.
SendToWindow ==
  /\ Dispatching("SendToWindow")
  /\ frames' = Append(frames, [kind |-> "window", more |-> cpu.call.messages - 1])
  /\ cpu' = [call |-> NoCall, nest |-> Append(cpu.nest, "window")]
  /\ NextInstruction(FALSE) /\ ClockUnread
  /\ UNCHANGED <<task, mmActive, clocks, mmCreated, queues, windowReady, stopped, owed>>

\* The guest returns from a callback to the async-return thunk, which pops a
\* frame (pop_hle_callback_frame) and clears mm_timer_callback_active whatever
\* the frame was.  An "mm" frame puts the interrupted cpu back, a "window" one
\* goes on with the chain or returns from the call that made the callback.
AsyncReturn ==
  /\ Executing /\ cpu.call = NoCall /\ cpu.nest # <<>>
  /\ mmActive' = FALSE
  /\ LET outer == [cpu EXCEPT !.nest = Front(@)]
     IN  IF frames = <<>> THEN frames' = frames /\ cpu' = outer
         ELSE LET top == Last(frames)
              IN  CASE top.kind = "mm" -> frames' = Front(frames) /\ cpu' = top.cpu
                    [] top.kind = "window" /\ top.more = 0 ->
                         frames' = Front(frames) /\ cpu' = outer
                    [] OTHER -> /\ frames' = [frames EXCEPT ![Len(frames)].more = @ - 1]
                                /\ cpu' = [outer EXCEPT !.nest = Append(@, "window")]
  /\ NextInstruction(FALSE) /\ ClockUnread
  /\ UNCHANGED <<task, clocks, mmCreated, queues, windowReady, stopped, owed>>

\* CreateWindow: from now on input is accepted (window_ready).
CreateWindow ==
  /\ Dispatching("CreateWindow")
  /\ windowReady' = TRUE
  /\ Returns /\ NextInstruction(FALSE) /\ ClockUnread
  /\ UNCHANGED <<task, stack, clocks, mmCreated, queues, stopped, owed>>

\* A call that presents the screen.
Present ==
  /\ Dispatching("Present")
  /\ Returns /\ NextInstruction(TRUE) /\ ClockUnread
  /\ UNCHANGED <<task, stack, clocks, mmCreated, queues, windowReady, stopped, owed>>

\* ExitProcess; or the instruction limit is reached.
Stop ==
  /\ \/ Dispatching("ExitProcess") /\ stopped' = "exit"
     \/ Executing /\ InsnLimit /\ stopped' = "limit"
  /\ UNCHANGED <<guest, stack, clocks, mmCreated, queues, windowReady, elapsed, pc, midFrame,
                 owed>>

Instruction ==
  \/ Compute \/ (\E c \in GuestCalls : CallApi(c)) \/ AsyncReturn
  \/ GetMessage \/ PeekMessage \/ WaitMessage \/ Sleep
  \/ SetTimer \/ KillTimer \/ TimeSetEvent \/ TimeKillEvent
  \/ PostMessage \/ SendToWindow \/ CreateWindow \/ Present \/ Stop

Service == Pump \/ Wake \/ HandleHeadlessWait \/ DispatchMmTimer

Next ==
  /\ Tick \/ BeginFrame \/ ServiceGuest \/ Service \/ Instruction
  /\ UNCHANGED machine

Spec == Init /\ [][Next]_<<machine, vars>>

\* The process that runs the emulator keeps calling run_one_frame (live) or
\* keeps looping (headless), an instruction loop is serviced again after at
\* most 4096 instructions, and the clock advances: the host's, or the
\* instruction count's.  Nothing is assumed of the guest.
FairSpec ==
  /\ Spec
  /\ WF_vars(BeginFrame) /\ WF_vars(ServiceGuest) /\ WF_vars(Service)
  /\ SF_vars(Tick) /\ SF_vars(~Live /\ Instruction /\ elapsed' = 1)
-----------------------------------------------------------------------------
(***************************************************************************)
(* Properties.                                                             *)
(***************************************************************************)
Running == stopped = "no"
Kinds(fs) == [i \in DOMAIN fs |-> fs[i].kind]

\* The state has the types of the Rust fields.
TypeOK ==
  /\ cpu.call \in GuestCalls \cup {NoCall} /\ task.cpu.call \in GuestCalls \cup {NoCall}
  /\ task.wait.kind \in {"ready", "message", "timeout"}
  /\ \A i \in DOMAIN frames : frames[i].kind \in {"mm", "window"}
  /\ mmActive \in BOOLEAN /\ windowReady \in BOOLEAN /\ midFrame \in BOOLEAN
  /\ \A i \in DOMAIN timers : timers[i].left \in Nat /\ timers[i].framesLeft \in Nat
  /\ \A i \in DOMAIN mmTimers : mmTimers[i].id \in 1 .. mmCreated
  /\ pc \in {"between", "pump", "wake", "wait", "mm", "execute"}
  /\ stopped \in {"no", "quit", "exit", "waiting", "limit"}
  /\ elapsed \in Nat /\ owed \in Nat

\* Every callback the guest is inside of has its frame on hle_callback_stack,
\* and no other frame is there, whatever mixture of timer interrupts, window
\* callbacks and waits led here: each async return then pops its own frame.
\* An interrupt of a parked guest would break it, as the next wake puts back
\* the cpu saved before the interrupt (the guard of service_guest).
FramesMatchStack == Kinds(frames) = cpu.nest

\* The headless run gives up (StopReason::Waiting) only when nothing it knows
\* of can still wake the guest: no message matches, no message timer is set and
\* the whole journal has been played.
WaitingMeansIdle ==
  stopped = "waiting" =>
    /\ ~Wakes /\ timers = <<>> /\ (windowReady => journal.rest = <<>>)

\* A parked Sleep is not over before the host clock has advanced by the delay,
\* although guest time is only refreshed now and then: delay_target refreshes
\* it first.
SleepsLongEnough ==
  [][task.wait.kind = "timeout" /\ task'.wait = Ready => owed = 0]_vars

\* However late the loop looks at the clock, the script never posts two key
\* edges at once: the delay after a key counts from when it was posted.
KeyEdges(q) == Cardinality(Matching({"WM_KEYDOWN"}, q))

KeysNeverBunch == [][~Live => KeyEdges(inputQ') <= KeyEdges(inputQ) + 1]_vars

\* A guest parked on a message that is there runs again.
MessageWakes ==
  (task.wait.kind = "message" /\ HasMessage(task.wait.filter, inputQ, appQ))
    ~> (~Parked \/ ~Running)

\* Sleep returns.
SleepEnds == (task.wait.kind = "timeout") ~> (task.wait.kind # "timeout" \/ ~Running)

\* A due multimedia timer interrupts guest code, however busy, that is neither
\* parked nor in a timer callback already.
MmTimerFires ==
  (DueMm(mmTimers) # {}) ~> (mmActive \/ Parked \/ DueMm(mmTimers) = {} \/ ~Running)

\* Whatever the guest waits for, it runs again once it is there, and a guest
\* that waits for nothing is still interrupted.
WaitsEnd == MessageWakes /\ SleepEnds /\ MmTimerFires

\* Once there is a window the whole journal is played, unless the guest exits
\* or runs into the instruction limit; the run does not give up before.
JournalPlayed ==
  windowReady ~> (journal.rest = <<>> \/ stopped \in {"exit", "quit", "limit"})

\* The script is replayed to its end, and at the pace it asks for.
JournalReplayed == KeysNeverBunch /\ JournalPlayed

\* The test multimedia_timers_schedule_periodic_callbacks (hle_base.rs:5586)
\* expects no second callback to start before the first has returned.
MmNotReentered ==
  \A i, j \in DOMAIN cpu.nest : cpu.nest[i] = "mm" /\ cpu.nest[j] = "mm" => i = j
=============================================================================
