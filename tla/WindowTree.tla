----------------------------- MODULE WindowTree -----------------------------
(***************************************************************************)
(* The windows as the renderer, the mouse and the enumeration calls see    *)
(* them (hle_base.rs, hle_user_window.rs).  There is no stacking order:    *)
(* handles, positions and the focus stand in for it, each in its place.    *)
(*                                                                         *)
(* A window covers an area of the screen, a set of cells <<x, y>>.  Frames *)
(* and text are left out; the menu bar is the upper row of the area.       *)
(***************************************************************************)
EXTENDS Integers, FiniteSetsExt, SequencesExt

CONSTANT LastHandle   \* bound on the handles given out

ASSUME HandleBound == LastHandle \in Nat

VARIABLES
  win,       \* Hle::windows; destroyed windows stay in it
  nextHwnd,  \* Hle::next_window_handle; the main window takes a number too
  focus      \* Hle::focus_window

treeVars == <<win, nextHwnd, focus>>

Nobody == 0             \* no window, or the desktop as a parent
Main == 1               \* handle 0x20001
Handles == Main .. LastHandle
Absent == [parent |-> Nobody]

\* `button`: a click on it is a command; `menu`: its menu, 0 for none.
Window(parent, area, visible, enabled, button, menu) ==
  [parent |-> parent, area |-> area, visible |-> visible, enabled |-> enabled,
   ddraw |-> FALSE, button |-> button, menu |-> menu]

Real(w) == {h \in Handles : w[h] # Absent}
Covers(w, h, cell) == cell \in w[h].area
With(w, h, fields) == IF h \in Real(w) THEN [w EXCEPT ![h] = fields @@ @] ELSE w

\* The first window without a parent is the main one, whatever came before.
NewHandle(w, parent) == IF parent = Nobody /\ w[Main] = Absent THEN Main ELSE nextHwnd + 1

-----------------------------------------------------------------------------
(***************************************************************************)
(* Parents and siblings.                                                   *)
(***************************************************************************)
ParentOf(w, h) == IF h \in Real(w) THEN w[h].parent ELSE Nobody

\* The parents of h in order; the walk gives up after as many steps as there are windows.
ParentWalk(w, h) ==
  LET up[n \in Nat] == IF n = 0 THEN ParentOf(w, h) ELSE ParentOf(w, up[n - 1])
  IN  [n \in 1 .. Cardinality(Real(w)) |-> up[n - 1]]

IsChild(w, parent, h) ==
  LET walk == ParentWalk(w, h)
  IN  \E n \in DOMAIN walk : walk[n] = parent /\ \A m \in 1 .. n : walk[m] # Nobody

\* Nobody when a parent on the way is unknown.  (The loop does not end on a cycle.)
TopLevel(w, h) ==
  LET above == {h} \cup ToSet(ParentWalk(w, h))
      tops == {k \in above \cap Real(w) : w[k].parent = Nobody}
  IN  IF h \in Real(w) /\ tops # {} THEN CHOOSE k \in tops : TRUE ELSE Nobody

ChildrenOf(w, parent) == {h \in Real(w) : w[h].parent = parent}
Highest(hs) == IF hs = {} THEN Nobody ELSE Max(hs)
Lowest(hs) == IF hs = {} THEN Nobody ELSE Min(hs)

\* Mutation of NextSibling: one of another parent.
NextOfAll(w, h) == Highest({k \in Real(w) : k < h})

\* GetTopWindow, and GetWindow's steps among siblings: the newest in front.
TopChild(w, parent) == Highest(ChildrenOf(w, parent))
Siblings(w, h) == IF h \in Real(w) THEN ChildrenOf(w, w[h].parent) ELSE {}
NextSibling(w, h) == Highest({k \in Siblings(w, h) : k < h})
PreviousSibling(w, h) == Lowest({k \in Siblings(w, h) : k > h})
LastSibling(w, h) == Lowest(Siblings(w, h))

-----------------------------------------------------------------------------
(***************************************************************************)
(* What the renderer draws, in order, and which window is seen at a cell.  *)
(***************************************************************************)
Corner(area) == IF area = {} THEN <<0, 0>>
                ELSE <<Min({c[2] : c \in area}), Min({c[1] : c \in area})>>
Drawable(w, hs) == {h \in hs : w[h].visible /\ ~w[h].ddraw}
VisibleTops(w) == Drawable(w, ChildrenOf(w, Nobody))

\* The children by the upper left corner, then by handle.
Before(w, a, b) ==
  LET p == Corner(w[a].area)
      q == Corner(w[b].area)
  IN  \/ p[1] < q[1]
      \/ p[1] = q[1] /\ p[2] < q[2]
      \/ p = q /\ a < b

\* A window, and after it its children with theirs.  (Without end on a cycle.)
DrawTree(w, h) ==
  LET children(p) == SetToSortSeq(Drawable(w, ChildrenOf(w, p)), LAMBDA a, b : Before(w, a, b))
      tree[p \in Handles] ==
        <<p>> \o FlattenSeq([i \in DOMAIN children(p) |-> tree[children(p)[i]]])
  IN  tree[h]

\* The windows without a parent by their handles alone.
DrawOrder(w) ==
  LET tops == SetToSortSeq(VisibleTops(w), <)
  IN  FlattenSeq([i \in DOMAIN tops |-> DrawTree(w, tops[i])])

Seen(w, cell) ==
  LET drawn == DrawOrder(w)
      at == {i \in DOMAIN drawn : Covers(w, drawn[i], cell)}
  IN  IF at = {} THEN Nobody ELSE drawn[Max(at)]

-----------------------------------------------------------------------------
(***************************************************************************)
(* Which window the mouse hits, and which one hides another: not the same  *)
(* order.                                                                  *)
(***************************************************************************)
TopWindowAt(w, cell) ==
  Highest({h \in ChildrenOf(w, Nobody) : w[h].visible /\ Covers(w, h, cell)})

\* Mutation of ChildAt: the children of a hidden window stay where they were.
ChildAtHidden(w, parent, cell) ==
  LET at[p \in Handles] ==
        LET child == Highest({h \in ChildrenOf(w, p) : w[h].enabled /\ Covers(w, h, cell)})
        IN  IF child = Nobody THEN Nobody ELSE IF at[child] # Nobody THEN at[child] ELSE child
  IN  at[parent]

\* The deepest of the children at a cell, the highest of the siblings first.
ChildAt(w, parent, cell) ==
  LET at[p \in Handles] ==
        LET child == Highest({h \in ChildrenOf(w, p) : w[h].enabled /\ w[h].visible /\ Covers(w, h, cell)})
        IN  IF child = Nobody THEN Nobody ELSE IF at[child] # Nobody THEN at[child] ELSE child
  IN  at[parent]

\* The focused window's top level goes in front of all.
Rank(w, h) == IF TopLevel(w, focus) = h THEN LastHandle + 1 ELSE h
InFront(w, h) ==
  {k \in ChildrenOf(w, Nobody) : w[k].visible /\ Rank(w, k) > Rank(w, h)}

FullyObscured(w, h) ==
  /\ h \in Real(w) /\ w[h].parent = Nobody /\ w[h].visible /\ w[h].area # {}
  /\ \E k \in InFront(w, h) : w[k].area # {} /\ w[h].area \subseteq w[k].area

\* Drawing in the context of a window does not reach a cell outside its top
\* level or under a window in front of that.
Occluded(w, h, cell) ==
  LET top == TopLevel(w, h)
  IN  /\ top # Nobody
      /\ \/ ~w[top].visible \/ ~Covers(w, top, cell)
         \/ \E k \in InFront(w, top) : Covers(w, k, cell)
=============================================================================
