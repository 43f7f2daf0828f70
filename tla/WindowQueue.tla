---------------------------- MODULE WindowQueue ----------------------------
(***************************************************************************)
(* The windows of the guest, its application message queue and the         *)
(* generation of WM_PAINT (hle_user_window.rs, hle_base.rs).               *)
(*                                                                         *)
(* The guest is one thread, so every API call is one action, in any order  *)
(* and with any arguments: a window procedure called back in the middle of *)
(* a call only makes more of these calls.  Rectangles are reduced to "does *)
(* it meet the client area", procedures to "is there one".                 *)
(***************************************************************************)
EXTENDS Naturals, FiniteSets, SequencesExt, Queues

CONSTANTS
  Windows,      \* handles alloc_window_handle hands out
  Desktop,      \* the null handle: no parent, no window
  LastToken,    \* frame token before the wrap
  MaxPosted,    \* bound on messages other than WM_PAINT in app_messages
  (* What the guest does, without a frontend and with one: functions of    *)
  (* Modes.                                                                *)
  Posts,        \* application messages it posts, each queued at most once (bound)
  Hits,         \* may a rectangle miss the client area, may a client be empty
  Procs,        \* does it give its windows a procedure
  Reparents     \* windows it gives another parent

Modes == {"headless", "live"}
AppMsgs == UNION {Posts[m] : m \in Modes}

ASSUME HandleAssumption ==
  /\ IsFiniteSet(Windows) /\ Desktop \notin Windows
ASSUME BoundAssumption ==
  /\ LastToken \in Nat \ {0} /\ MaxPosted \in Nat
  /\ \A m \in Modes : /\ Hits[m] \subseteq BOOLEAN /\ TRUE \in Hits[m]
                      /\ Procs[m] \subseteq BOOLEAN /\ Reparents[m] \subseteq Windows

VARIABLES
  win,       \* Hle::windows; destroyed windows stay in it
  appQ,      \* Hle::app_messages
  token,     \* Hle::paint_frame_token
  handed     \* ghost: times the queued WM_PAINT was handed out in this frame

vars == <<win, appQ, token, handed>>

Mode == IF token = 0 THEN "headless" ELSE "live"

Absent == [hwnd |-> Desktop]
Window == [parent : Windows \cup {Desktop}, visible : BOOLEAN,
           dirty : BOOLEAN,        \* invalid_rect.is_some()
           proc : BOOLEAN,         \* proc # 0
           client : BOOLEAN,       \* the client rectangle is not empty
           frame : 0..LastToken]   \* last_generated_paint_frame

(* The messages the system makes are none of those the guest posts.        *)
ASSUME MessageAssumption == AppMsgs \cap {"PAINT", "SIZE", "DESTROY"} = {}

Message == [hwnd : Windows \cup {Desktop},
            msg : {"PAINT", "SIZE", "DESTROY"} \cup AppMsgs]
Paint(h) == [hwnd |-> h, msg |-> "PAINT"]
Size(h) == [hwnd |-> h, msg |-> "SIZE"]

Exists(w, h) == w[h] # Absent
Real(w) == {h \in Windows : Exists(w, h)}

(* The handles met on the way up from h, whether or not they exist.  (The  *)
(* loops of the code do not end on a cycle of parents.)                    *)
ParentOf(w, h) == IF h \in Real(w) THEN w[h].parent ELSE Desktop

UpClosed(w, S) == \A k \in S : ParentOf(w, k) \in S \cup {Desktop}

Ancestors(w, h) ==
  {k \in Windows : \A S \in SUBSET Windows :
                     ParentOf(w, h) \in S \cup {Desktop} /\ UpClosed(w, S) => k \in S}

----------------------------------------------------------------------------
(* The dirty region and the paint queue.                                   *)

IsQueued(q, m) == \E i \in DOMAIN q : q[i] = m

\* Mutation of PaintPlace: always at the end.
PaintPlaceLast(w, q, h) == Len(q) + 1

(* Where the WM_PAINT of h goes: in front of the first one that belongs to *)
(* a descendant of h, or to the end.                                       *)
PaintPlace(w, q, h) ==
  LET below == {i \in DOMAIN q : /\ q[i].msg = "PAINT"
                                 /\ h \in Ancestors(w, q[i].hwnd)}
  IN  IF below = {} THEN Len(q) + 1 ELSE Min(below)

\* Mutation of QueuePaint: coalesced over all windows.
QueuePaintOnce(w, q, h) ==
  IF (Exists(w, h) /\ ~w[h].visible) \/ (\E i \in DOMAIN q : q[i].msg = "PAINT") THEN q
  ELSE InsertAt(q, PaintPlace(w, q, h), Paint(h))

QueuePaint(w, q, h) ==
  IF (Exists(w, h) /\ ~w[h].visible) \/ IsQueued(q, Paint(h)) THEN q
  ELSE InsertAt(q, PaintPlace(w, q, h), Paint(h))

RemovePaint(q, h) == Without(q, {Paint(h)})

QueueSize(w, q, h) ==
  IF Exists(w, h) /\ w[h].proc THEN Append(q, Size(h)) ELSE q

Invalidate(w, h, hits) ==
  IF Exists(w, h) /\ w[h].client /\ hits
  THEN [w EXCEPT ![h].dirty = TRUE] ELSE w

Validate(w, hs) ==
  [h \in Windows |-> IF h \in hs /\ Exists(w, h)
                     THEN [w[h] EXCEPT !.dirty = FALSE] ELSE w[h]]

Fits(q) == Cardinality({i \in DOMAIN q : q[i].msg # "PAINT"}) <= MaxPosted

(* The tally of a WM_PAINT starts again once it has left the queue.        *)
Tally(counts) ==
  handed' = [h \in Windows |-> IF IsQueued(appQ', Paint(h)) THEN counts[h] ELSE 0]

Painted(hs) ==
  /\ win' = Validate(win, hs)
  /\ appQ' = Without(appQ, {Paint(h) : h \in hs})

----------------------------------------------------------------------------
(* API calls of the guest.                                                 *)

Fresh(p, visible, proc, client) ==
  [parent |-> p, visible |-> visible, dirty |-> FALSE, proc |-> proc,
   client |-> client, frame |-> 0]

CreateWindowEx(h, p, visible, proc, client) ==
  /\ h \in Windows \ Real(win)
  /\ LET w == [win EXCEPT ![h] = Fresh(p, visible, proc, client)]
         q == QueueSize(w, appQ, h)
     IN  IF visible /\ proc
         THEN /\ win' = Invalidate(w, h, TRUE)
              /\ appQ' = QueuePaint(win', q, h)
         ELSE win' = w /\ appQ' = q

(* A dialog and its controls appear without any WM_PAINT.                  *)
CreateDialog(h, p, proc, controls, shown) ==
  /\ h \in Windows \ Real(win)
  /\ controls \subseteq Windows \ (Real(win) \cup {h})
  /\ win' = [k \in Windows |-> IF k = h THEN Fresh(p, TRUE, proc, TRUE)
                               ELSE IF k \in controls THEN Fresh(h, k \in shown, FALSE, TRUE)
                               ELSE win[k]]
  /\ UNCHANGED appQ

ShowWindow(h) ==
  LET w == IF Exists(win, h) THEN [win EXCEPT ![h].visible = TRUE] ELSE win
  IN  /\ win' = Invalidate(w, h, TRUE)
      /\ appQ' = QueuePaint(win', appQ, h)

Hidden(h) ==
  /\ win' = IF Exists(win, h)
            THEN [win EXCEPT ![h].visible = FALSE, ![h].dirty = FALSE] ELSE win

HideWindow(h) == Hidden(h) /\ appQ' = RemovePaint(appQ, h)

DestroyWindow(h) ==
  /\ Hidden(h)
  /\ LET q == RemovePaint(appQ, h)
     IN  appQ' = IF Exists(win, h) /\ win[h].proc
                 THEN Append(q, [hwnd |-> h, msg |-> "DESTROY"]) ELSE q

(* EndDialog hides the dialog and its children and leaves their WM_PAINT.  *)
EndDialog(h) ==
  /\ win' = [k \in Windows |->
               IF Exists(win, k) /\ (k = h \/ win[k].parent = h)
               THEN [win[k] EXCEPT !.visible = FALSE] ELSE win[k]]
  /\ UNCHANGED appQ

InvalidateRect(h, hits) ==
  /\ win' = Invalidate(win, h, hits)
  /\ appQ' = QueuePaint(win', appQ, h)

RedrawWindow(h, hits, invalidate, updateNow) ==
  /\ win' = IF invalidate THEN Invalidate(win, h, hits) ELSE win
  /\ appQ' = IF (invalidate \/ updateNow) /\ (Exists(win, h) => win'[h].dirty)
             THEN QueuePaint(win', appQ, h) ELSE appQ

ValidateRect(h) == Painted({h})
ValidateAll == Painted(Real(win))
BeginPaint(h) == Painted({h})
DefWindowProcPaint(h) == Painted({h})
ButtonPaint(h) == Painted({h})

(* set_window_pos_impl: visibility, then WM_SIZE, then the repaint.        *)
SetWindowPos(h, client, show, hide, redraw) ==
  LET w == IF Exists(win, h)
           THEN [win EXCEPT ![h].client = client,
                            ![h].visible = (@ \/ show) /\ ~hide]
           ELSE win
      q == QueueSize(w, IF redraw THEN RemovePaint(appQ, h) ELSE appQ, h)
  IN  IF redraw
      THEN /\ win' = Invalidate(w, h, TRUE)
           /\ appQ' = QueuePaint(win', q, h)
      ELSE win' = w /\ appQ' = q

MoveWindow(h, client, repaint) == SetWindowPos(h, client, FALSE, FALSE, repaint)

(* SetWindowLong(GWL_WNDPROC): a first procedure gets a first WM_PAINT.    *)
SetWindowProc(h, proc) ==
  /\ Exists(win, h)
  /\ LET w == [win EXCEPT ![h].proc = proc]
     IN  IF ~win[h].proc /\ proc /\ win[h].visible /\ ~win[h].dirty
         THEN /\ win' = Invalidate(w, h, TRUE)
              /\ appQ' = QueuePaint(win', appQ, h)
         ELSE win' = w /\ appQ' = appQ

(* SetParent and SetWindowLong(GWL_HWNDPARENT).  The code checks nothing;  *)
(* the guest is assumed to build no cycle, which Windows would refuse.     *)
SetParent(h, p) ==
  /\ h \in Reparents[Mode] /\ Exists(win, h)
  /\ p # h /\ h \notin Ancestors(win, p)
  /\ win' = [win EXCEPT ![h].parent = p]
  /\ UNCHANGED appQ

(* SetCooperativeLevel and IDirectDrawClipper::SetHWnd: DirectDraw draws   *)
(* the window from now on (ddraw_owned, which nothing here reads).         *)
MarkDDrawOwned(h) ==
  /\ Exists(win, h)
  /\ appQ' = RemovePaint(appQ, h)
  /\ UNCHANGED win

(* PostMessage to a window that exists, PostThreadMessage to none.         *)
PostMessage(h, m) ==
  /\ h \in Real(win) \cup {Desktop}
  /\ \A i \in DOMAIN appQ : appQ[i].msg # m
  /\ appQ' = Append(appQ, [hwnd |-> h, msg |-> m])
  /\ UNCHANGED win

----------------------------------------------------------------------------
(* Taking messages out: GetMessage and PeekMessage.                        *)

AnyWindow == "any window"
ThreadOnly == "no window"      \* hwnd filter 0xffffffff

\* Mutations of Suppressed: a frame off by one; the throttle never lifted.
SuppressedLater(m) ==
  /\ m.msg = "PAINT" /\ token # 0
  /\ m.hwnd \in Real(win) /\ win[m.hwnd].dirty /\ win[m.hwnd].frame > token
SuppressedForGood(m) ==
  /\ m.msg = "PAINT" /\ token # 0
  /\ m.hwnd \in Real(win) /\ win[m.hwnd].dirty /\ win[m.hwnd].frame # 0

Suppressed(m) ==
  /\ m.msg = "PAINT" /\ token # 0
  /\ m.hwnd \in Real(win) /\ win[m.hwnd].dirty /\ win[m.hwnd].frame = token

HwndMatches(h, filter) ==
  \/ filter = AnyWindow
  \/ filter = ThreadOnly /\ h = Desktop
  \/ filter \in Windows /\ (h = filter \/ filter \in Ancestors(win, h))

Matching(filter, ids) ==
  {i \in DOMAIN appQ : /\ ~Suppressed(appQ[i])
                       /\ HwndMatches(appQ[i].hwnd, filter)
                       /\ appQ[i].msg \in ids}

AllIds == {"PAINT", "SIZE", "DESTROY"} \cup AppMsgs

(* The first match is handed out; a WM_PAINT is never removed.  (A poll    *)
(* that finds a match in the input queue takes that one and changes        *)
(* nothing here.)                                                          *)
Poll(filter, ids, remove) ==
  LET matching == Matching(filter, ids)
      m == appQ[Min(matching)]
      counted == m.msg = "PAINT" /\ token # 0
  IN  /\ matching # {}
      /\ win' = IF counted /\ m.hwnd \in Real(win)
                THEN [win EXCEPT ![m.hwnd].frame = token] ELSE win
      /\ appQ' = IF remove /\ m.msg # "PAINT"
                 THEN RemoveAt(appQ, Min(matching)) ELSE appQ
      /\ handed' = IF counted /\ handed[m.hwnd] < 2
                   THEN [handed EXCEPT ![m.hwnd] = @ + 1] ELSE handed

GetMessage(filter, ids) == Poll(filter, ids, TRUE) /\ UNCHANGED token
PeekMessage(filter, ids, remove) == Poll(filter, ids, remove) /\ UNCHANGED token

Drained == Matching(AnyWindow, AllIds) = {}

(* The frontend runs a new frame, in the middle of whatever the guest does *)
(* when the time of the last one is up.                                    *)
BeginFrame ==
  /\ token > 0
  /\ token' = IF token = LastToken THEN 1 ELSE token + 1
  /\ handed' = [h \in Windows |-> 0]
  /\ UNCHANGED <<win, appQ>>

----------------------------------------------------------------------------

Init ==
  /\ win = [h \in Windows |-> Absent]
  /\ appQ = <<>>
  /\ token \in {0, 1}       \* no frontend, or a frame begins before the guest runs
  /\ handed = [h \in Windows |-> 0]

WindowCall ==
  \/ \E h \in Windows, p \in Real(win) \cup {Desktop}, visible \in BOOLEAN, proc \in Procs[Mode], client \in Hits[Mode] :
       CreateWindowEx(h, p, visible, proc, client)
  \/ \E h \in Windows, p \in Real(win) \cup {Desktop}, proc \in Procs[Mode], controls \in SUBSET Windows :
       \E shown \in SUBSET controls : CreateDialog(h, p, proc, controls, shown)
  \/ \E h \in Real(win) : ShowWindow(h) \/ HideWindow(h) \/ DestroyWindow(h) \/ EndDialog(h)
  \/ \E h \in Real(win), client \in Hits[Mode], show, hide, redraw \in BOOLEAN :
       SetWindowPos(h, client, show, hide, redraw)
  \/ \E h \in Real(win), client \in Hits[Mode], repaint \in BOOLEAN : MoveWindow(h, client, repaint)
  \/ \E h \in Real(win), proc \in Procs[Mode] : SetWindowProc(h, proc)
  \/ \E h \in Real(win), p \in Real(win) \cup {Desktop} : SetParent(h, p)
  \/ \E h \in Real(win) : MarkDDrawOwned(h)

PaintCall ==
  \/ \E h \in Real(win), hits \in Hits[Mode] : InvalidateRect(h, hits)
  \/ \E h \in Real(win), hits \in Hits[Mode], invalidate, updateNow \in BOOLEAN :
       RedrawWindow(h, hits, invalidate, updateNow)
  \/ \E h \in Real(win) : ValidateRect(h) \/ BeginPaint(h) \/ DefWindowProcPaint(h) \/ ButtonPaint(h)
  \/ ValidateAll

GuestCall ==
  /\ \/ WindowCall
     \/ PaintCall
     \/ \E h \in Windows \cup {Desktop}, m \in Posts[Mode] : PostMessage(h, m)
  /\ Fits(appQ')
  /\ UNCHANGED token
  /\ Tally(handed)

Filters == {AnyWindow, ThreadOnly} \cup Windows
IdSets == {AllIds, AllIds \ {"PAINT"}}

PumpCall ==
  \/ \E f \in Filters, ids \in IdSets : GetMessage(f, ids)
  \/ \E f \in Filters, ids \in IdSets, remove \in BOOLEAN : PeekMessage(f, ids, remove)

Next ==
  \/ GuestCall
  \/ PumpCall
  \/ BeginFrame

Spec == Init /\ [][Next]_vars

(***************************************************************************)
(* A guest that keeps pumping, a frontend that keeps running frames, and   *)
(* from some time on every frame long enough for the queue to be drained.  *)
(***************************************************************************)
PumpSpec ==
  /\ Spec
  /\ WF_vars(GetMessage(AnyWindow, AllIds))
  /\ WF_vars(Drained /\ BeginFrame)
  /\ <>[][BeginFrame => Drained]_vars

----------------------------------------------------------------------------
(* Properties.                                                             *)

(* The state has its types and the bounds hold.                            *)
TypeOK ==
  /\ win \in [Windows -> Window \cup {Absent}]
  /\ appQ \in Seq(Message)
  /\ token \in 0..LastToken
  /\ handed \in [Windows -> 0..2]

(* Every window's WM_PAINT waits behind that of every ancestor that is to  *)
(* be painted.                                                             *)
PaintsInOrder ==
  \A i, j \in DOMAIN appQ :
    (i < j /\ appQ[i].msg = "PAINT" /\ appQ[j].msg = "PAINT")
      => appQ[j].hwnd \notin Ancestors(win, appQ[i].hwnd)

(* A parent's background never covers a child that has been painted        *)
(* already (comment of queue_paint_message): the WM_PAINTs are in order    *)
(* when the queue is empty and remain so, whatever the order of creations, *)
(* invalidations, removals and deliveries.  Only SetParent, which moves a  *)
(* window and leaves the queue alone, may end that.                        *)
AncestorsFirst ==
  [][PaintsInOrder => \/ PaintsInOrder'
                      \/ \E h \in Real(win), p \in Real(win) \cup {Desktop} : SetParent(h, p)]_vars

(* A visible window that is dirty has a WM_PAINT coming.  Only two calls   *)
(* may leave it without: giving the window to DirectDraw, and showing a    *)
(* window that became dirty while hidden with SWP_NOREDRAW.                *)
Owed(h) == /\ Exists(win, h) /\ win[h].visible /\ win[h].dirty
           /\ ~IsQueued(appQ, Paint(h))
NoLostPaint ==
  [][\A h \in Windows :
       Owed(h)' => \/ Owed(h)
                   \/ Exists(win, h) /\ ~win[h].visible /\ win[h].dirty
                   \/ MarkDDrawOwned(h)]_vars

(* One generated WM_PAINT reaches the guest at most once a frame; one that *)
(* survives is throttled to the next frame (comment of Hle::begin_frame),  *)
(* so a guest that never validates still gets its other messages.          *)
PaintThrottled == \A h \in Windows : handed[h] < 2

(* A posted message reaches a guest that pumps, whatever windows are dirty *)
(* and whether or not the guest validates them.                            *)
PostsDelivered ==
  \A m \in AppMsgs :
    (\E i \in DOMAIN appQ : appQ[i].msg = m) ~> (\A i \in DOMAIN appQ : appQ[i].msg # m)

(* As long as frames keep coming, a queued WM_PAINT is handed out or loses *)
(* its reason: neither the throttle nor the other windows starve it.       *)
PaintsDelivered ==
  []<><<BeginFrame>>_vars =>
    \A h \in Windows :
      IsQueued(appQ, Paint(h)) ~> (handed[h] > 0 \/ ~IsQueued(appQ, Paint(h)))

(* Nothing in the queue of a guest that pumps is starved, posted or painted. *)
QueueDrains == PostsDelivered /\ PaintsDelivered
=============================================================================
