# wemu in TLA+

wemu runs 32-bit Windows programs: an x86 interpreter, a PE loader and a
high-level emulation (HLE) of the Win32 API, written in Rust, with SDL,
browser (wasm) and headless frontends. This directory models what can go wrong
in it over a history of calls, frames, messages and answers, and the pure
algorithms that are hard to get right: arithmetic and flags, the x87 stack,
pixel copies, decoders.

Guest code runs as exactly one task. `CreateThread` hands out a handle and
never starts anything (`hle_kernel_process.rs:274`), so there are no data
races. The hard behaviour comes from interruptions between any two
instructions, from callbacks nested in calls, from time, from a host that
answers late, and from long sequences of legal API calls.

`PROJECT.json` holds the machine-readable side: components, runs, the lines each
definition stands for, hazards, mutants, theorems and findings.

## 1. Inventory

| Component | State | Operations | Talks to | What makes it correct |
|---|---|---|---|---|
| Guest memory (`memory.rs`, `arena.rs`, `hle_kernel_memory.rs`, `hle_base.rs:2658-2987`) | page bitmap; five arenas, each a sorted list of allocations; the stack mapped at load | map, map_or_update, unmap; first-fit, fixed-base, guarded, aligned allocation; free; heap, surface, image, Virtual* entry points | everything that hands memory to the guest | live blocks are disjoint and backed; the stack is never handed out; failed calls change nothing; no page leaks; first fit finds every hole |
| Run loop (`lib.rs:934-1500`) | current cpu, task with saved cpu and wait state, stop reason, guest time, frame number | run, run_one_frame, service, wake, park, headless wait, one instruction | HLE handlers (park, callbacks), frontends (events, time) | a parked guest continues where it parked; every wait whose condition holds ends; a run gives up only when nothing can happen |
| Timers, journal (`hle_base.rs:1227-1256, 2079-2330`, `journal.rs`) | message timers, multimedia timers, `mm_timer_callback_active`; script position and deadline | set, kill, pump, take due; next event | run loop, message queue | delays are not cut short; callbacks are not re-entered; the script keeps its order and its key delays |
| Callbacks (`hle_base.rs:2240-2300, 4486`, `hle_user_window.rs:3247-3367, 4182`, `hle_user_dialog.rs`) | `hle_callback_stack` of continuations; frames on the guest stack | push, async return, chains of messages, hooks | window procedures, timers, dialogs | every return pops the frame of the callback that returns; the call comes back with the stack intact |
| Message queues, painting (`hle_base.rs:1270-1420`, `hle_user_window.rs:900-1000`) | input and application queue, invalid region and frame token of each window | post, poll, peek, remove, validate, invalidate | run loop, windows | no paint is lost, none starves other messages, ancestors are painted first |
| Window tree (`hle_user_window.rs`, `hle_base.rs:3027-3190`) | windows with parents, areas, flags; focus, capture | create, show, move, reparent, destroy, enumerate, hit test | display, input | what is shown and what is hit are the windows as they are now |
| Menus, controls, input (`hle_user_dialog.rs`, `hle_base.rs:1638-2056`) | menus, active popup, key table, mouse position | mouse, keyboard, accelerators, menu tracking | message queue, window tree | a click reaches the window, or the command, the user sees |
| Display (`hle_directdraw.rs`, `hle_gdi*.rs`) | surfaces, bitmaps, contexts, desktop-drawn and GDI-pending flags | create, select, save, draw, flip, present | windows, frontends | nothing drawn is forgotten; contexts draw on live surfaces; pixels are the ones asked for |
| Virtual files (`hle_vfs.rs`, `hle_kernel_file.rs`, `hle_msvcrt.rs`) | directory, handles with positions, pending request, completed answers | open, read, write, seek, truncate, rename, delete, find; request and answer | run loop waits, host page | one answer per request; sizes cover what was written; parked calls end |
| PE loader, modules (`pe.rs`, `hle_kernel_module.rs`, `hle_base.rs:2330-2500`) | images, loaded modules, import thunks | load, relocate, import, LoadLibrary, GetProcAddress, DllMain chain | module arena, files | only whole images are visible; a library is loaded once; every DllMain runs before the entry |
| x86 interpreter (`cpu.rs`) | registers, flags, x87 list | one instruction | memory | results and flags as compiled code expects |
| C runtime, registry, sockets, locale, shell, printing, audio devices | little | answers to API calls | | |
| Frontends, debugger, tools | host windows, sockets | events in, pixels out | run loop | |

Audio devices are stubs: every call succeeds, no buffer is queued, so there is no
buffer queue to model. The registry drops what is written to it.

## 2. Modules

**Memory.** `PageMap` is the page bitmap of `memory.rs` with the host's refusal
of single pages and the rollback; `GuestArena` is `arena.rs`: placement, hole
search, reservation and backing, free. `GuestMemory` composes them: one action
per entry point over `allocs`, `mapped` and `status`; a handler that unwraps a failed
allocation panics the emulator ("panicked", nothing more happens).
`AddressSpace` is what an allocator promises - disjoint intervals, reserved,
released, replaced - and GuestMemory implements it. Everything is in pages.

**Time and the run loop.** `Timers` holds operators on message timers, multimedia
timers, delays and the journal; a deadline is the time or the frames that are
*left*, which is exact up to saturation and keeps the space finite. `Scheduler`
is the run loop: `pc` marks the functions of one iteration (`between` frames,
`pump`, `wake`, `wait`, `mm`, `execute`). A cpu is the thunk it is at and the
callbacks its stack is inside of, which is what the callback stack (`frames`) has
to match. A machine of `Machines` fixes the frontend (live or headless), the
length of a frame, the calls the guest makes and the script.

**Messages.** `WindowQueue` has the window map, the application queue and
WM_PAINT: every handler that touches visibility, parent, procedure or invalid
region is one action, with the messages it queues in the code's order.
`Callbacks` is about the calls that enter window procedures: the words on the guest
stack, the frames of `hle_callback_stack`, and the continuation each leaves.
`SentMessages` says what such a call promises - its messages, in order, then its
value - and Callbacks implements it.

**Files.** `VfsRequests` is the mailbox of one pending request and the completed
answers, with a host that may answer late, twice, or for an id that is not asked for;
`HostCall` is the blocking call a guest sees, which it implements. `Files` adds the
directory, handles and every call on them. Bytes are left out, sizes are not.

**Processor.** `Alu` holds the operations and their flags, for operands of any
width; `Processor` has registers, memory and an action per group of opcodes;
`FpuStack` the x87 list beside the ring of registers it stands for (a ghost).
`Idioms` runs the sequences compilers emit and says what each must leave.

**Pictures and windows.** `Raster` holds what calls do to pixels, `Drawing` the
guest that makes the calls, each with a reference for its result. `WindowTree`
has the orders in which windows are drawn, hit and enumerated; `Display` how drawings
reach the screen; `WindowInput` the mouse, the keyboard and the menus; `Desktop`
composes the three.

**Loader.** `Loader` maps images, relocates them, resolves imports - recursively,
with failures half way - and builds the chain of DllMain calls.

The `MC*` modules hold the small instances: arenas, machines, guests, scenes,
programs. `GuestMemoryProofs`, `AluProofs`, `FilesProofs`, `WindowQueueProofs`,
`SchedulerProofs`, `CallbacksProofs` and `DesktopProofs` hold the proofs, `DataLemmas` their
common lemmas; `Queues` has the one operator on queues that several models share.

## 3. Runs

| Run | Instance | What it shows |
|---|---|---|
| guest_heap | heap of five pages, private arena of three; requests of 1-2 pages, guards of 0-1 | blocks stay backed, guards unbacked outside the heap, first fit finds every hole |
| guest_virtual | virtual arenas, images, the stack inside virtual_high; two pages the host refuses | blocks are disjoint, the stack is safe, no page leaks or is taken from another block when a call fails half way; AddressSpace is implemented |
| waits | four machines: timer interrupts in window callbacks, queues, sleeps with 2 ms frames, a headless script | frames match the stack; parked guests wake, not early; the script plays to the end in order; no false give-up |
| live_reentry (violation) | a periodic timer and window callbacks | a timer callback is entered again before it returns |
| paint | two windows; headless with empty rectangles, live with frames between any two calls | ancestors first until SetParent, one WM_PAINT per frame, none lost, a guest that pumps gets its posts and its paints |
| callbacks | four guests on three windows, calls nested three deep | every call returns with its stack; owner-drawn items go to their owners; SentMessages is implemented |
| dialog_hook (violation) | a dialog made under a WH_CBT hook | the return address is lost |
| files | three guests on a memory and an asynchronous file, sizes to 2, ids that wrap after two requests, a host that fails | one answer per call, sizes cover what was acknowledged, blocking calls, every transfer ends |
| processor | bytes of 3 bits, registers of 6; x87 of three numbers | sums, comparisons, shifts, strings, calls, divisions, bit arrays compute what they are for; the list behaves like the ring |
| drawing | two pictures of up to 4 x 3 pixels, colours of 4 bits, 11 scenes | copies, blits, stretches, lines and boxes are exact; bands compose; what is encoded is decoded |
| desktop | 3 x 2 cells, five window handles, eight scenes of 3-8 calls | nothing drawn is forgotten, contexts live, the screen is the windows as they are, clicks reach what is seen, walks skip nobody |
| loader | module arena of 8 units, four executables, libraries in an archive and a host directory that import each other, cannot be relocated, are broken | visible images are whole, libraries are loaded once, every DllMain runs |

Why the bounds are enough. Memory: two to five pages leave a hole before, between and
after blocks, alignment that skips a page, and a request that fails for each
reason. Waits: `MaxQueue`, `MaxMmTimers`, `maxDepth` and `MaxElapsed` (milliseconds
between two looks at the clock, 1: the loop polls more often than the clock
ticks) are guards of the guest's or the frontend's actions, never of the
emulator's; one message queued, one timer and two nested callbacks make every
order of park, wake, interrupt and return. Paint: two windows are enough for a
paint that waits for another; `LastToken` 2 tells a stale frame token from the
current one across the wrap; `MaxPosted` bounds messages other than WM_PAINT. Files:
a size of 2 separates a partial write from a full one; three ids let an old answer
meet a new request of the same id. Processor: 3-bit bytes have all carries, borrows
and sign changes, and a register of two bytes has the wide ones; wide operands take the
values around the ends and the sign where every value would be too many. Drawing:
rectangles hang over every edge and overlap in every direction. Desktop and
loader: a scene ends after its depth; the depths are what one needs for the
sequences named in its hazards (select, save, delete, restore; drawing, flip, flush;
load, fail, load again).

Runs do not check for deadlock because the systems really stop: on a panic, a stop
reason, the end of a program or scene, or a bound on the guest.

### Fairness

`Scheduler!FairSpec`: the process calls `run_one_frame` again, or loops (weak fairness of
`BeginFrame` and `Service`); the instruction loop is serviced every
`FRAME_DEADLINE_CHECK_INSNS` instructions (weak fairness of `ServiceGuest`); clocks
advance (strong fairness of `Tick`, and, headless, of instructions that complete a
millisecond, because time is their count). Nothing is assumed about the guest.
`WindowQueue!PumpSpec`: the guest keeps calling GetMessage for any window and message,
the frontend keeps running frames, and from some time on the queue is empty,
throttled paints aside, before the next frame begins. A guest that polls once per
frame and never validates does starve; the assumption names that.
`Files!FairSpec`: the host page serves the request it is shown - the browser polls after
every frame - and the run loop wakes the task whose request is answered.

## 4. Proofs

Each proof module extends the module it is about. `DataLemmas` has what they share:
the least and the greatest of a set of numbers, induction as a statement about sets
(a set that holds 0 and is closed under successor holds every number: the form that
needs no operator as parameter), and `WithoutEmbeds`, by which the rest of a filtered
queue embeds into the queue in order. `Queues` defines that filter by what it removes,
so that a proof can reason about it.

**GuestMemoryProofs.** For every number of pages, layout of arenas, guard size,
granularity and set of refused pages (`GuestMemoryAssumption`),
types, `SpansDisjoint`, `PayloadBacked`, `StackKept`, `NoLeakedPage` and
`GuardsUnmapped` hold always. They hang together in one inductive invariant `IInv`:
types; spans in their arena; spans disjoint within an arena (arenas are disjoint by
assumption, so across arenas too); payloads of heap, private and module blocks
mapped; the stack mapped and disjoint from payloads; every mapped page owned;
guards outside the heap unmapped. None is inductive alone: freeing unmaps a
payload, which keeps the other payloads backed only because spans are disjoint, and
a new span keeps clear of the others' guards by the placement checks. Lemmas state what each
operator of PageMap and GuestArena returns, then one lemma per shape of step
(placing, freeing, recommitting, decommitting) preserves `Good`, and each action is
one of those shapes. On the same invariant rest

- `FirstFitAlwaysExact`: the search through the holes finds a base exactly when one
  exists. A base that fits lies in a hole, between the end of one span and the start of the
  next, and the aligned start of that hole fits as well. Hypothesis: the host refuses no page
  (`HostPages = {}`); where it refuses some, the first hole may be refused though a
  later one is not, in the code too;
- `OnlyOwnedPagesAlwaysChange`: a call changes pages of the span it places or frees only,
  the calls that fail half way included;
- `AlwaysRefinesAddressSpace`: the blocks a state shows are a set of disjoint
  intervals, and every action adds one, removes one, replaces one or leaves them alone.

**AluProofs.** For every width, after CMP the ten conditions of the model order the
operands as unsigned and as signed numbers (`CompareDecides`); ADD with ADC is the
sum of two numbers of two registers (`PairSums`); SUB with SBB their difference,
unless the borrow is added to a full-width register of all ones (`PairDifferences`
- the exception is the code's, cpu.rs:3084).

**FilesProofs.** For every set of names, every id space, every bound on sizes and every
host - late, double and stray answers included - (`TransferAssumption`,
`FileAssumption`, `RequestAssumption`), `OneTransfer` holds, the entry of an
asynchronous file covers what the host wrote (`EntryCoversWrites`), what a handle says of
its size is acknowledged or under way (`SizesBacked`), and every step is a
step of `HostCall` or a stutter (`BlockingCalls`). The invariant is types with
`OneTransfer`, which a wrapped id cannot break because a parked guest asks for nothing
else; entry and sizes are strengthened by the write that is under way, whose end the entry
already covers when it is asked for.

**WindowQueueProofs.** For every number of windows, every tree and every set of messages
(`MessageAssumption`: WM_PAINT is none of the posted ones). The invariant `IInv` says
that queued WM_PAINTs are of windows that exist and that the parents form a forest: no
window is among its own ancestors. Ancestors are the least set closed under taking
parents (`UpClosed`), so a proof that a set contains them shows that it is closed; the
depth of the tree never enters. `AncestorsAlwaysFirst`: a WM_PAINT is
inserted in front of the first one of a descendant, everything behind stays in order,
and removals keep the order (`WithoutEmbeds`). SetParent is the exception the
property itself names: it moves a window and leaves the queue alone. `PaintsNeverLost`: the calls that
remove a WM_PAINT also clean, hide or destroy the window. `PaintsAlwaysThrottled` needs `ThrottleInv`:
once a frontend has handed a WM_PAINT out, the window carries the token of the frame
as long as it is dirty, so it is not offered again before the next frame. Its
hypothesis, `Hits["live"] = {TRUE}`, is that live invalidations meet the client area; one
that misses it escapes the throttle in the code as well (hazards).

**SchedulerProofs.** For every set of machines, calls and scripts and all bounds
(`SchedulerAssumption`). Types come in parts (guest, stack, clock, queues, loop), one lemma per part.
`SleepsAlwaysLongEnough`: what a Sleep still owes is the wait that is left minus the time the
clock has moved unread (`SleepInv`), because the delay is computed from a clock just
read, and a live guest that executes is never parked.
`WaitingAlwaysMeansIdle`: between waking and giving up nothing wakes the guest and the
journal waits or is at its end (`GiveUpInv`).
`FramesAlwaysMatch`: the frames are nested like the calls on the stack, on the stack
saved for a parked guest too (`StackInv`). A headless guest that is parked executes its call again and
parks again with the same filter and stack (`HeadlessInv`). Hypothesis `HeadlessQuiet`: no headless guest sets
multimedia timers; the headless loop interrupts a parked guest without the
guard of `service_guest` (lib.rs:963), which abandons a frame, see the known deviations.

**CallbacksProofs.** For every set of handles and guests, of any number of windows and
any depth of nested calls. `CallsAlwaysReturn`: every call comes back to its caller with the stack
as it was. The stack is one sequence of words, so the invariant says what an unfinished
procedure may rely on by its words alone (`Laid`): a guest body has its own word on top of
a return address with the arguments it will pop below (`GuestKept`); a button that asked
its painter to draw has the return address of its own call, moved down (`ButtonKept`); a
return address of a body lies on that body's word, with nothing but arguments between
(`RetKept`), and one of the thunk on the return address of the call that waits for it
(`ThunkKept`). `Placing` adds where control is: in a body, in a button, or in the thunk.
One lemma per way of growing the stack (a call's frame, the thunk's next frame, a tail call, a
button's frame) and per way of cutting it (a body, a button, the thunk) keeps it, and
counts the words of the thunk, which are the callback frames (`Counted`). Hypothesis `NoHookedDialogs`: no guest
makes dialogs under a WH_CBT hook, whose frame is laid out for another call: run
`dialog_hook` shows the contrary.

`ItemsAlwaysOwned`: each draw item and each context made for a WM_DRAWITEM belongs to
one call in progress and goes when that call is finished (`Owned`). A new item is one that
is free, and that one is free needs a bound on the frames, which the guest's depth gives
only for the calls it makes itself: `Deep` adds that the words of the thunk below a body
are fewer than the calls it is inside of, so that the frames, which are as many, never
exceed the depth (`DepthsAreNumbers`).

`AlwaysRefinesSentMessages`: under the same hypothesis, and for
any finite set of handles (`HandlesFinite`; it bounds the children that one EndPaint
draws), the callbacks implement `SentMessages`. A call in progress is a
callback frame, and its procedure is the one of the same rank among those that come back to
the thunk (`Rank`, `Opened`), so the mapping needs no variable but the history `acts`. The
invariant `RInv` adds to the one of `ItemsAlwaysOwned` that a procedure comes back to the
thunk exactly when the return address it was entered with still is the thunk (`Tagged`),
that frames and such procedures are paired (`Paired`), and what a frame has left to send
(`FrameOk`): nothing in a plain frame, something in one of messages, WM_DRAWITEMs
only in one that draws. Ranks below do not change when a procedure is entered or left on top
(`SharedCall`), so a step touches the last call only: it sends (`SendStep`), delivers
(`DeliverStep`), finishes (`FinishStep`), or a procedure leaves that no frame waits for
(`TailStep`, `LeaveStep`). That ShowWindow announces one of three activations needs that a top-level
window that has the focus is its own top-level window (`TopLevel`).

**DesktopProofs.** For every screen, every set of scenes - of windows that exist at
first, of calls allowed, of areas - and every bound on handles, surfaces and
objects (`HandleBound`, `ObjectBound`: numbers; `SurfaceBound`: there is room for the
screen's surface; `FormatsAreBits`). The state of the GDI is one record, so each operation gets a lemma about what
it returns: it shows (`Shows`: flags, pictures and pending surfaces change), is calm
(`Calm`: nothing shown changes), or makes surfaces (`Grows`). The invariant `GInv` has

- `BitmapsHeld` and `DcsHeld`: a bitmap has a live surface of its own, and a live
  context, or a saved level of one that may be restored, has the surface of the bitmap it names,
  or one that belongs to no bitmap. That saved levels are included makes it inductive:
  RestoreDC brings them back. On it rests `DcsAlwaysLive`. The model's guest deletes no bitmap
  that only a saved level still names; the code would (known deviations);
- `Pends`: the screen's surface, drawn on and not shown, is pending
  (`DrawingsAlwaysPending`). Presenting another surface must not take the flag, and a
  surface that is freed is never the screen's;
- `Current`: the picture is that of the windows or is stale, unless the guest may call
  SetParent, which renders nothing (`DesktopAlwaysCurrent`). What the picture looks like,
  a recursion over the tree, is left unopened: the proof is about when it is drawn.

`WalksVisitSiblings` has an invariant of its own, `WalkHeld`: a walk that stands on a
child has met its windows in the order of their handles, all beyond it, and every child
that stayed and that it is past. A step goes to the nearest handle on, so none is passed over; a window
created meanwhile may be ahead or behind, one that leaves is no longer asked for.

Only model-checked: liveness (`WaitsEnd`, `JournalReplayed`, `QueueDrains`,
`TransferEnds`); the programs of `Idioms` and the x87 stack; of the desktop `HitsWhatIsSeen`, which compares two recursions
over the tree; drawing and loader. Drawing, idioms and loader compute by
recursion and folds over data, where what a definition computes is out of the
prover's reach by induction.

## 5. Findings

- **live_reentry**: `pop_hle_callback_frame` clears `mm_timer_callback_active`
  whichever frame it pops (`hle_base.rs:2270`), so a window callback inside a timer
  callback lets the timer interrupt its own callback; a test expects otherwise.
- **dialog_hook**: the frame of a WH_CBT hook is laid out for the twelve arguments of
  CreateWindowEx (`hle_user_dialog.rs:1764`); CreateDialogIndirectParam has five.

## 6. Known deviations

Met while modelling; where a property would state the contrary, it names the
exception, and nothing in the repository's docs or tests claims otherwise.

- **Run loop.** The headless loop lets a timer interrupt a parked guest
  (`lib.rs:963`, without the guard of `service_guest`). Flipping every frame
  starves pending GDI output (`lib.rs:1036`).
- **Memory.** The heap arena keeps freed pages mapped (`arena.rs:150`), so a guard there
  may be backed.
- **Messages.** MoveWindow with a dirty child puts its WM_PAINT in front of WM_SIZE
  (`hle_user_window.rs:4005`); SetParent leaves the paint queue alone; an invalidation
  that misses the client area queues a WM_PAINT without a region; a cycle of parents
  loops for ever (`hle_base.rs:1326`); an automatic timer id may equal a chosen one
  (`hle_base.rs:2088`); KillTimer leaves a queued WM_TIMER (`hle_base.rs:2123`); the
  CREATESTRUCT of a window leaks (`hle_user_window.rs:4365`).
- **Files.** MoveFile, DeleteFile and truncation never reach the host
  (`hle_vfs.rs:796`); position and size advance before the transfer; fprintf and
  fputc on an asynchronous file fail silently (`hle_msvcrt.rs:1792`) and
  mmioDescend finds nothing in one; SetEndOfFile does not update the entry; a second
  handle keeps a stale size (`hle_vfs.rs:193`); named kernel objects are never
  removed; request ids wrap (`hle_vfs.rs:305`); `read_exact_at_sync` leaves the
  position moved when a read fails.
- **Processor.** SBB adds the borrow in 32 bits (`cpu.rs:3084`); the short IMULs set
  neither CF nor OF; 8-bit DIV divides DX:AX, overflow truncates and the most negative
  dividend over -1 panics; FF /6 with an operand prefix pushes 32 bits; XADD of a
  register with itself; ROL and ROR leave OF; BT of a word with a negative offset;
  FINCSTP, FDECSTP and FXRSTOR do not move the x87 list.
- **Drawing.** Raster-operation blits within one surface smear (`hle_gdi.rs:656`);
  a clipped stretch computes its scale from the clipped corner; GDI never stores pure
  black (`hle_gdi.rs:1764`); unknown operations copy, and those without a source need
  one; LineTo draws its end; patterns ignore the brush origin; an encoding error
  leaks the surface; Blt never stretches.
- **Display.** SetPixel and tiles do not mark a presentation; several GDI calls on the
  DirectDraw primary are not presented; resizing clears the frame without a
  presentation; 8-bit screens do not redraw windows; after the last window the old
  picture stays; RestoreDC brings back a freed surface; GetDisplayMode leaks one.
- **Windows and input.** Siblings that overlap are drawn by position and hit by handle;
  MoveWindow leaves children behind; disabled top-level windows are hit; capture and
  focus survive their window; a button pressed in a client and released on a menu
  bar loses its WM_LBUTTONUP (`hle_base.rs:1721`); a click that closes a popup
  also clicks beneath it; commands do not ask where the button went down; TrackPopupMenu
  does not wait; modifiers of accelerators are read at translation; input is read
  before posted commands (`hle_base.rs:1290`).
- **Loader.** Circular imports exhaust the module arena; a failed load keeps its
  reservation (`pe.rs:125`, `pe.rs:307`); a path in another directory is
  answered with the library of the same name; DllMain runs in the order of addresses,
  for LoadLibrary not at all; sections beyond `size_of_image` are mapped outside the
  reservation.
- **Audio.** waveOutWrite accepts buffers and never marks one done; a guest that
  waits for WHDR_DONE waits for ever.

## 7. Not modelled

Contents and protection of pages and the write watch; several tasks (there is one);
breakpoints, `run_for` and the debugger; path normalisation, attributes, file mappings
and archives (`hle_vfs.rs`); the recorder and the parser of the journal; decoding and
prefixes of instructions, segments, MMX, BCD, the AX forms of 8-bit MUL and DIV and
the values of transcendental functions; text, fonts, regions, palettes of GDI;
DirectInput and DirectSound, stubs whose buffers are plain memory; list boxes, edit
controls and their contents; reference counts of modules (there are none:
FreeLibrary does nothing, `hle_kernel_module.rs:46`);
the wasm heap, which serves the emulator and not the guest, in one build only; the
chunks of multimedia files, which a guest finds by moving a file position;
and everything marked `not_modelled` in `PROJECT.json`, with its reason.
