-------------------------- MODULE WindowQueueProofs --------------------------
(***************************************************************************)
(* Proofs about WindowQueue: the order of the WM_PAINTs, their throttle,   *)
(* and that none is lost.                                                  *)
(***************************************************************************)
EXTENDS WindowQueue, DataLemmas, SequenceTheorems

-----------------------------------------------------------------------------
(***************************************************************************)
(* The state, and what the parents of the windows are like: they exist,    *)
(* and no window is above itself.                                          *)
(***************************************************************************)
WindowsOK(w) == w \in [Windows -> Window \cup {Absent}]

TreeOK(w) ==
  /\ \A h \in Real(w) : w[h].parent \in Real(w) \cup {Desktop}
  /\ \A h \in Windows : h \notin Ancestors(w, h)

\* A WM_PAINT is for a window.
PaintsReal(w, q) == \A i \in DOMAIN q : q[i].msg = "PAINT" => q[i].hwnd \in Real(w)

QueueOK(w, q) == q \in Seq(Message) /\ PaintsReal(w, q)

\* PaintsInOrder of any windows and queue.
Ordered(w, q) ==
  \A i, j \in DOMAIN q :
    (i < j /\ q[i].msg = "PAINT" /\ q[j].msg = "PAINT")
      => q[j].hwnd \notin Ancestors(w, q[i].hwnd)

-----------------------------------------------------------------------------
(***************************************************************************)
(* Windows.                                                                *)
(***************************************************************************)
LEMMA AbsentIsNoWindow == Absent \notin Window
BY DEF Absent, Window

LEMMA RealWindows ==
  ASSUME NEW w, WindowsOK(w)
  PROVE  /\ Real(w) \subseteq Windows
         /\ \A h \in Real(w) : w[h] \in Window
         /\ \A h \in Windows : h \notin Real(w) => w[h] = Absent
         /\ \A h \in Windows : h \in Real(w) <=> Exists(w, h)
BY AbsentIsNoWindow DEF WindowsOK, Real, Exists

LEMMA Parents ==
  ASSUME NEW w, WindowsOK(w)
  PROVE  \A h : ParentOf(w, h) \in Windows \cup {Desktop}
<1> SUFFICES ASSUME NEW h PROVE ParentOf(w, h) \in Windows \cup {Desktop}
  OBVIOUS
<1>1. CASE h \in Real(w)
  BY <1>1, RealWindows DEF ParentOf, Window
<1> QED
  BY <1>1 DEF ParentOf

\* The ancestors of a window are closed upwards and have its parent.
LEMMA AncestorsClosed ==
  ASSUME NEW w, WindowsOK(w), NEW h
  PROVE  /\ Ancestors(w, h) \subseteq Windows
         /\ ParentOf(w, h) \in Ancestors(w, h) \cup {Desktop}
         /\ UpClosed(w, Ancestors(w, h))
<1>1. Ancestors(w, h) \subseteq Windows
  BY DEF Ancestors
<1>2. ParentOf(w, h) \in Ancestors(w, h) \cup {Desktop}
  BY Parents DEF Ancestors
<1>3. ASSUME NEW k \in Ancestors(w, h) PROVE ParentOf(w, k) \in Ancestors(w, h) \cup {Desktop}
  <2>1. \A S \in SUBSET Windows :
          ParentOf(w, h) \in S \cup {Desktop} /\ UpClosed(w, S)
            => ParentOf(w, k) \in S \cup {Desktop}
    BY <1>3 DEF Ancestors, UpClosed
  <2>2. ParentOf(w, k) \in Windows \cup {Desktop}
    BY Parents
  <2> QED
    BY <2>1, <2>2 DEF Ancestors
<1> QED
  BY <1>1, <1>2, <1>3 DEF UpClosed

\* They are in every set of windows of that kind.
LEMMA AncestorsLeast ==
  ASSUME NEW w, NEW h, NEW S \in SUBSET Windows,
         ParentOf(w, h) \in S \cup {Desktop}, UpClosed(w, S)
  PROVE  Ancestors(w, h) \subseteq S
BY DEF Ancestors

LEMMA AncestorsTransitive ==
  ASSUME NEW w, WindowsOK(w), NEW h, NEW k \in Ancestors(w, h)
  PROVE  Ancestors(w, k) \subseteq Ancestors(w, h)
<1>1. ParentOf(w, k) \in Ancestors(w, h) \cup {Desktop}
  BY AncestorsClosed DEF UpClosed
<1> QED
  BY <1>1, AncestorsClosed, AncestorsLeast

LEMMA AncestorsReal ==
  ASSUME NEW w, WindowsOK(w), TreeOK(w), NEW h
  PROVE  Ancestors(w, h) \subseteq Real(w)
<1>1. \A k : ParentOf(w, k) \in Real(w) \cup {Desktop}
  BY DEF TreeOK, ParentOf
<1>2. UpClosed(w, Real(w)) /\ Real(w) \subseteq Windows
  BY <1>1, RealWindows DEF UpClosed
<1> QED
  BY <1>1, <1>2, AncestorsLeast

(***************************************************************************)
(* A call that leaves the windows and their parents alone.                 *)
(***************************************************************************)
Alike(w, v) ==
  /\ WindowsOK(v)
  /\ \A h \in Windows : /\ h \in Real(v) <=> h \in Real(w)
                        /\ h \in Real(w) => v[h].parent = w[h].parent

LEMMA AlikeTree ==
  ASSUME NEW w, WindowsOK(w), TreeOK(w), NEW v, Alike(w, v)
  PROVE  /\ Real(v) = Real(w)
         /\ \A h : Ancestors(v, h) = Ancestors(w, h)
         /\ WindowsOK(v) /\ TreeOK(v)
         /\ \A q : QueueOK(w, q) => QueueOK(v, q)
         /\ \A q : Ordered(w, q) => Ordered(v, q)
<1>1. Real(v) = Real(w)
  BY RealWindows DEF Alike
<1>2. \A h : ParentOf(v, h) = ParentOf(w, h)
  BY <1>1, RealWindows DEF Alike, ParentOf
<1>3. \A h : Ancestors(v, h) = Ancestors(w, h)
  BY <1>2, Zenon DEF Ancestors, UpClosed
<1>4. TreeOK(v)
  BY <1>1, <1>3, RealWindows DEF TreeOK, Alike
<1> QED
  BY <1>1, <1>3, <1>4 DEF Alike, QueueOK, PaintsReal, Ordered

(***************************************************************************)
(* A call that makes windows: what was above a window stays above it.      *)
(***************************************************************************)
LEMMA GrownTree ==
  ASSUME NEW w, WindowsOK(w), TreeOK(w), NEW v, WindowsOK(v),
         Real(w) \subseteq Real(v), \A h \in Real(w) : v[h].parent = w[h].parent,
         NEW q, QueueOK(w, q)
  PROVE  /\ \A h \in Real(w) : Ancestors(v, h) \subseteq Ancestors(w, h)
         /\ UpClosed(v, Real(w))
         /\ QueueOK(v, q)
         /\ Ordered(w, q) => Ordered(v, q)
<1>1. \A h \in Real(w) : ParentOf(v, h) = ParentOf(w, h)
  BY DEF ParentOf
<1>2. \A h \in Real(w) : ParentOf(w, h) \in Real(w) \cup {Desktop}
  BY DEF ParentOf, TreeOK
<1>3. ASSUME NEW h \in Real(w) PROVE Ancestors(v, h) \subseteq Ancestors(w, h)
  <2>1. /\ Ancestors(w, h) \subseteq Real(w) /\ Ancestors(w, h) \subseteq Windows
        /\ ParentOf(w, h) \in Ancestors(w, h) \cup {Desktop}
        /\ UpClosed(w, Ancestors(w, h))
    BY AncestorsReal, AncestorsClosed
  <2>2. UpClosed(v, Ancestors(w, h))
    BY <1>1, <2>1 DEF UpClosed
  <2> QED
    BY <1>1, <2>1, <2>2, AncestorsLeast
<1>4. UpClosed(v, Real(w))
  BY <1>1, <1>2 DEF UpClosed
<1>5. QueueOK(v, q)
  BY DEF QueueOK, PaintsReal
<1>6. ASSUME Ordered(w, q) PROVE Ordered(v, q)
  BY <1>3, <1>6 DEF Ordered, QueueOK, PaintsReal
<1> QED
  BY <1>3, <1>4, <1>5, <1>6

-----------------------------------------------------------------------------
(***************************************************************************)
(* Queues.                                                                 *)
(***************************************************************************)
LEMMA InsertAtIs ==
  ASSUME NEW T, NEW q \in Seq(T), NEW i \in 1 .. Len(q) + 1, NEW e \in T
  PROVE  /\ InsertAt(q, i, e) \in Seq(T)
         /\ Len(InsertAt(q, i, e)) = Len(q) + 1
         /\ \A k \in 1 .. Len(q) + 1 :
              InsertAt(q, i, e)[k] = IF k < i THEN q[k] ELSE IF k = i THEN e ELSE q[k - 1]
<1>1. Len(q) \in Nat /\ i \in Nat /\ i >= 1 /\ i <= Len(q) + 1
  OBVIOUS
<1> DEFINE a == SubSeq(q, 1, i - 1)
           b == SubSeq(q, i, Len(q))
<1>2. a \in Seq(T) /\ Len(a) = i - 1 /\ \A k \in 1 .. i - 1 : a[k] = q[k]
  BY <1>1
<1>3. b \in Seq(T) /\ Len(b) = Len(q) + 1 - i /\ \A k \in 1 .. Len(q) + 1 - i : b[k] = q[k + i - 1]
  BY <1>1
<1>4. InsertAt(q, i, e) = (a \o <<e>>) \o b
  BY DEF InsertAt
<1> HIDE DEF a, b
<1> DEFINE c == a \o <<e>>
<1>5. c \in Seq(T) /\ Len(c) = i /\ c[i] = e /\ \A k \in 1 .. i - 1 : c[k] = q[k]
  BY <1>1, <1>2
<1>6. InsertAt(q, i, e) = c \o b
  BY <1>4
<1> HIDE DEF c
<1>7. c \o b \in Seq(T) /\ Len(c \o b) = Len(q) + 1
  BY <1>1, <1>3, <1>5
<1>8. ASSUME NEW k \in 1 .. Len(q) + 1
      PROVE  (c \o b)[k] = IF k < i THEN q[k] ELSE IF k = i THEN e ELSE q[k - 1]
  <2>1. CASE k <= i
    BY <1>1, <1>3, <1>5, <2>1
  <2>3. k <= i \/ k > i
    BY <1>1
  <2>2. CASE k > i
    <3>1. (c \o b)[k] = b[k - i] /\ k - i \in 1 .. Len(q) + 1 - i
      BY <1>1, <1>3, <1>5, <2>2
    <3>2. b[k - i] = q[(k - i) + i - 1] /\ (k - i) + i - 1 = k - 1
      BY <1>1, <1>3, <3>1
    <3> QED
      BY <1>1, <2>2, <3>1, <3>2
  <2> QED
    BY <2>1, <2>2, <2>3, Zenon
<1> QED
  BY <1>6, <1>7, <1>8

LEMMA RemoveAtIs ==
  ASSUME NEW T, NEW q \in Seq(T), NEW i \in 1 .. Len(q)
  PROVE  /\ RemoveAt(q, i) \in Seq(T)
         /\ Len(RemoveAt(q, i)) = Len(q) - 1
         /\ \A k \in 1 .. Len(q) - 1 :
              RemoveAt(q, i)[k] = IF k < i THEN q[k] ELSE q[k + 1]
<1>1. Len(q) \in Nat /\ i \in Nat /\ i >= 1 /\ i <= Len(q)
  OBVIOUS
<1> DEFINE a == SubSeq(q, 1, i - 1)
           b == SubSeq(q, i + 1, Len(q))
<1>2. a \in Seq(T) /\ Len(a) = i - 1 /\ \A k \in 1 .. i - 1 : a[k] = q[k]
  BY <1>1
<1>3. b \in Seq(T) /\ Len(b) = Len(q) - i /\ \A k \in 1 .. Len(q) - i : b[k] = q[k + i]
  BY <1>1
<1>4. RemoveAt(q, i) = a \o b
  BY DEF RemoveAt
<1> HIDE DEF a, b
<1>7. a \o b \in Seq(T) /\ Len(a \o b) = Len(q) - 1
  <2>1. Len(a \o b) = Len(a) + Len(b)
    BY <1>2, <1>3, ConcatProperties, Zenon
  <2> QED
    BY <1>1, <1>2, <1>3, <2>1
<1>8. ASSUME NEW k \in 1 .. Len(q) - 1
      PROVE  (a \o b)[k] = IF k < i THEN q[k] ELSE q[k + 1]
  <2>1. CASE k < i
    BY <1>1, <1>2, <1>3, <2>1
  <2>3. k < i \/ k >= i
    BY <1>1
  <2>2. CASE k >= i
    <3>1. (a \o b)[k] = b[k - (i - 1)] /\ k - (i - 1) \in 1 .. Len(q) - i
      BY <1>1, <1>2, <1>3, <2>2
    <3>2. b[k - (i - 1)] = q[(k - (i - 1)) + i] /\ (k - (i - 1)) + i = k + 1
      BY <1>1, <1>3, <3>1
    <3> QED
      BY <1>1, <2>2, <3>1, <3>2
  <2> QED
    BY <2>1, <2>2, <2>3, Zenon
<1> QED
  BY <1>4, <1>7, <1>8

(***************************************************************************)
(* What leaves a queue keeps the order of the rest.                        *)
(***************************************************************************)
Within(r, q) ==
  \E f \in [DOMAIN r -> DOMAIN q] :
    /\ \A i, j \in DOMAIN r : i < j => f[i] < f[j]
    /\ \A i \in DOMAIN r : r[i] = q[f[i]]

LEMMA WithinKeeps ==
  ASSUME NEW w, NEW q, NEW r \in Seq(Message), QueueOK(w, q), Within(r, q)
  PROVE  QueueOK(w, r) /\ (Ordered(w, q) => Ordered(w, r))
<1>1. PICK f \in [DOMAIN r -> DOMAIN q] :
        /\ \A i, j \in DOMAIN r : i < j => f[i] < f[j]
        /\ \A i \in DOMAIN r : r[i] = q[f[i]]
  BY DEF Within
<1>2. \A i \in DOMAIN r : f[i] \in DOMAIN q
  BY <1>1
<1>3. QueueOK(w, r)
  BY <1>1, <1>2 DEF QueueOK, PaintsReal
<1>4. ASSUME Ordered(w, q) PROVE Ordered(w, r)
  BY <1>1, <1>2, <1>4 DEF Ordered
<1> QED
  BY <1>3, <1>4

LEMMA WithoutKeeps ==
  ASSUME NEW w, NEW q, QueueOK(w, q), NEW drop
  PROVE  /\ QueueOK(w, Without(q, drop))
         /\ Ordered(w, q) => Ordered(w, Without(q, drop))
         /\ \A m : IsQueued(Without(q, drop), m) <=> IsQueued(q, m) /\ m \notin drop
<1> DEFINE r == Without(q, drop)
<1>0. q \in Seq(Message) /\ DOMAIN q = 1 .. Len(q)
  BY DEF QueueOK
<1>1. PICK f : LeftOf(Message, q, drop, Len(q), r, f)
  BY <1>0, WithoutEmbeds
<1> HIDE DEF r
<1>2. /\ r \in Seq(Message)
      /\ f \in [DOMAIN r -> DOMAIN q]
      /\ \A i, j \in DOMAIN r : i < j => f[i] < f[j]
      /\ \A i \in DOMAIN r : r[i] = q[f[i]]
      /\ \A k \in DOMAIN q : q[k] \notin drop <=> \E i \in DOMAIN r : f[i] = k
  BY <1>0, <1>1 DEF LeftOf
<1>3. Within(r, q)
  BY <1>2 DEF Within
<1>4. QueueOK(w, r) /\ (Ordered(w, q) => Ordered(w, r))
  BY <1>2, <1>3, WithinKeeps
<1>5. ASSUME NEW m PROVE IsQueued(r, m) <=> IsQueued(q, m) /\ m \notin drop
  <2>1. \A i \in DOMAIN r : f[i] \in DOMAIN q /\ q[f[i]] \notin drop
    BY <1>2
  <2>2. \A k \in DOMAIN q : q[k] \notin drop => \E i \in DOMAIN r : r[i] = q[k]
    BY <1>2
  <2> QED
    BY <1>2, <2>1, <2>2 DEF IsQueued
<1> QED
  BY <1>4, <1>5 DEF r

\* The place of a message that has been handed out.
LEMMA RemoveAtKeeps ==
  ASSUME NEW w, NEW q, QueueOK(w, q), NEW n \in DOMAIN q
  PROVE  /\ QueueOK(w, RemoveAt(q, n))
         /\ Ordered(w, q) => Ordered(w, RemoveAt(q, n))
         /\ \A m : IsQueued(RemoveAt(q, n), m) => IsQueued(q, m)
         /\ \A m : IsQueued(q, m) /\ m # q[n] => IsQueued(RemoveAt(q, n), m)
<1> DEFINE r == RemoveAt(q, n)
           f == [k \in 1 .. Len(q) - 1 |-> IF k < n THEN k ELSE k + 1]
<1>0. q \in Seq(Message) /\ DOMAIN q = 1 .. Len(q) /\ Len(q) \in Nat /\ n \in 1 .. Len(q)
  BY DEF QueueOK
<1>1. /\ r \in Seq(Message) /\ Len(r) = Len(q) - 1
      /\ \A k \in 1 .. Len(q) - 1 : r[k] = IF k < n THEN q[k] ELSE q[k + 1]
  BY <1>0, RemoveAtIs
<1> HIDE DEF r
<1>2. DOMAIN r = 1 .. Len(q) - 1
  BY <1>0, <1>1
<1>3. Within(r, q)
  <2>1. f \in [DOMAIN r -> DOMAIN q]
    BY <1>0, <1>2
  <2>2. \A i, j \in DOMAIN r : i < j => f[i] < f[j]
    BY <1>0, <1>2
  <2>3. \A i \in DOMAIN r : r[i] = q[f[i]]
    BY <1>0, <1>1, <1>2
  <2> HIDE DEF f
  <2> QED
    BY <2>1, <2>2, <2>3 DEF Within
<1>4. QueueOK(w, r) /\ (Ordered(w, q) => Ordered(w, r))
  BY <1>1, <1>3, WithinKeeps
<1>5. ASSUME NEW m, IsQueued(r, m) PROVE IsQueued(q, m)
  BY <1>3, <1>5 DEF Within, IsQueued
<1>6. ASSUME NEW m, IsQueued(q, m), m # q[n] PROVE IsQueued(r, m)
  <2>1. PICK k \in 1 .. Len(q) : q[k] = m
    BY <1>0, <1>6 DEF IsQueued
  <2>2. CASE k < n
    BY <1>0, <1>1, <1>2, <2>1, <2>2 DEF IsQueued
  <2>3. CASE k > n
    <3>1. k - 1 \in DOMAIN r /\ r[k - 1] = q[k]
      BY <1>0, <1>1, <1>2, <2>1, <2>3
    <3> QED
      BY <2>1, <3>1 DEF IsQueued
  <2> QED
    BY <1>0, <1>6, <2>1, <2>2, <2>3
<1> QED
  BY <1>4, <1>5, <1>6 DEF r

\* A message other than WM_PAINT at the end.
LEMMA AppendKeeps ==
  ASSUME NEW w, NEW q, QueueOK(w, q), NEW e \in Message, e.msg # "PAINT"
  PROVE  /\ QueueOK(w, Append(q, e))
         /\ Ordered(w, q) => Ordered(w, Append(q, e))
         /\ \A m : IsQueued(Append(q, e), m) <=> IsQueued(q, m) \/ m = e
<1> DEFINE r == Append(q, e)
<1>0. q \in Seq(Message) /\ DOMAIN q = 1 .. Len(q) /\ Len(q) \in Nat
  BY DEF QueueOK
<1>1. /\ r \in Seq(Message) /\ DOMAIN r = 1 .. Len(q) + 1 /\ r[Len(q) + 1] = e
      /\ \A k \in 1 .. Len(q) : r[k] = q[k]
  BY <1>0
<1> HIDE DEF r
<1>2. QueueOK(w, r)
  BY <1>0, <1>1 DEF QueueOK, PaintsReal
<1>3. ASSUME Ordered(w, q) PROVE Ordered(w, r)
  <2>1. \A i \in DOMAIN r : r[i].msg = "PAINT" => i \in DOMAIN q /\ r[i] = q[i]
    BY <1>0, <1>1
  <2> QED
    BY <1>3, <2>1, Zenon DEF Ordered
<1>4. ASSUME NEW m PROVE IsQueued(r, m) <=> IsQueued(q, m) \/ m = e
  <2>1. \A i \in DOMAIN r : i \in DOMAIN q \/ i = Len(q) + 1
    BY <1>0, <1>1
  <2>2. \A i \in DOMAIN q : i \in DOMAIN r /\ r[i] = q[i]
    BY <1>0, <1>1
  <2>3. Len(q) + 1 \in DOMAIN r
    BY <1>0, <1>1
  <2> QED
    BY <1>1, <2>1, <2>2, <2>3, Zenon DEF IsQueued
<1> QED
  BY <1>2, <1>3, <1>4 DEF r

(***************************************************************************)
(* The WM_PAINT of a window goes in front of those of its descendants.     *)
(***************************************************************************)
PaintsOf(q) == {k \in Windows : IsQueued(q, Paint(k))}

LEMMA PaintIsMessage ==
  ASSUME NEW h \in Windows
  PROVE  Paint(h) \in Message /\ Paint(h).msg = "PAINT" /\ Paint(h).hwnd = h
BY DEF Paint, Message

LEMMA PaintsAreReal ==
  ASSUME NEW w, NEW q, QueueOK(w, q)
  PROVE  PaintsOf(q) \subseteq Real(w)
BY PaintIsMessage DEF QueueOK, PaintsReal, PaintsOf, IsQueued

LEMMA PaintInserted ==
  ASSUME NEW w, WindowsOK(w), TreeOK(w), NEW q, QueueOK(w, q), NEW h \in Real(w)
  PROVE  LET r == InsertAt(q, PaintPlace(w, q, h), Paint(h))
         IN  /\ QueueOK(w, r)
             /\ Ordered(w, q) => Ordered(w, r)
             /\ PaintsOf(r) = PaintsOf(q) \cup {h}
<1> DEFINE r == InsertAt(q, PaintPlace(w, q, h), Paint(h))
           below == {i \in DOMAIN q : q[i].msg = "PAINT" /\ h \in Ancestors(w, q[i].hwnd)}
<1>0. q \in Seq(Message) /\ DOMAIN q = 1 .. Len(q) /\ Len(q) \in Nat /\ PaintsReal(w, q)
  BY DEF QueueOK
<1>1. h \in Windows /\ Paint(h) \in Message /\ Paint(h).msg = "PAINT" /\ Paint(h).hwnd = h
  BY RealWindows, PaintIsMessage
<1>2. PICK n \in 1 .. Len(q) + 1 :
        /\ n = PaintPlace(w, q, h)
        /\ \A i \in DOMAIN q : i < n => i \notin below
        /\ n \in DOMAIN q => n \in below
  <2>1. CASE below = {}
    <3>1. PaintPlace(w, q, h) = Len(q) + 1
      BY <2>1 DEF PaintPlace
    <3> QED
      BY <1>0, <2>1, <3>1
  <2>2. CASE below # {}
    <3>1. PaintPlace(w, q, h) = Min(below)
      BY <2>2 DEF PaintPlace
    <3>2. below \in SUBSET Nat /\ below \subseteq DOMAIN q
      BY <1>0
    <3> HIDE DEF below
    <3>3. Min(below) \in below /\ \A i \in below : Min(below) <= i
      BY <2>2, <3>2, MinIsLeast
    <3> DEFINE n == Min(below)
    <3>4. n = PaintPlace(w, q, h) /\ n \in below /\ \A i \in below : n <= i
      BY <3>1, <3>3
    <3> HIDE DEF n
    <3>5. n \in 1 .. Len(q) + 1 /\ \A i \in DOMAIN q : i < n => i \notin below
      BY <1>0, <3>2, <3>4
    <3> QED
      BY <3>4, <3>5
  <2> QED
    BY <2>1, <2>2
<1>3. /\ r \in Seq(Message) /\ Len(r) = Len(q) + 1
      /\ \A k \in 1 .. Len(q) + 1 :
           r[k] = IF k < n THEN q[k] ELSE IF k = n THEN Paint(h) ELSE q[k - 1]
  <2>1. r = InsertAt(q, n, Paint(h))
    BY <1>2
  <2> HIDE DEF r, below
  <2> DEFINE e == Paint(h)
  <2>2. e \in Message
    BY <1>1
  <2> HIDE DEF e
  <2>3. /\ InsertAt(q, n, e) \in Seq(Message) /\ Len(InsertAt(q, n, e)) = Len(q) + 1
        /\ \A k \in 1 .. Len(q) + 1 :
             InsertAt(q, n, e)[k] = IF k < n THEN q[k] ELSE IF k = n THEN e ELSE q[k - 1]
    <3>1. q \in Seq(Message) /\ n \in 1 .. Len(q) + 1
      BY <1>0
    <3> QED
      BY <2>2, <3>1, InsertAtIs
  <2> QED
    BY <2>1, <2>3 DEF e
<1> HIDE DEF r
<1>4. /\ DOMAIN r = 1 .. Len(q) + 1 /\ n \in DOMAIN r /\ r[n] = Paint(h)
      /\ \A k \in DOMAIN r : k < n => k \in DOMAIN q /\ r[k] = q[k]
      /\ \A k \in DOMAIN r : k > n => k - 1 \in DOMAIN q /\ r[k] = q[k - 1]
      /\ \A k \in DOMAIN q : k < n => k \in DOMAIN r /\ r[k] = q[k]
      /\ \A k \in DOMAIN q : k >= n => k + 1 \in DOMAIN r /\ r[k + 1] = q[k]
  <2>1. DOMAIN r = 1 .. Len(q) + 1
    BY <1>0, <1>3
  <2>2. \A k \in DOMAIN q : k >= n => k + 1 \in DOMAIN r /\ r[k + 1] = q[k]
    <3> SUFFICES ASSUME NEW k \in DOMAIN q, k >= n PROVE k + 1 \in DOMAIN r /\ r[k + 1] = q[k]
      OBVIOUS
    <3>1. k + 1 \in 1 .. Len(q) + 1 /\ (k + 1) - 1 = k /\ ~ (k + 1 < n) /\ k + 1 # n
      BY <1>0
    <3> QED
      BY <1>3, <2>1, <3>1
  <2> QED
    BY <1>0, <1>3, <2>1, <2>2
<1>5. QueueOK(w, r)
  <2>1. \A k \in DOMAIN r : k < n \/ k = n \/ k > n
    BY <1>0, <1>4
  <2>2. \A k \in DOMAIN r : r[k].msg = "PAINT" => r[k].hwnd \in Real(w)
    BY <1>0, <1>1, <1>4, <2>1 DEF PaintsReal
  <2> QED
    BY <1>3, <2>2 DEF QueueOK, PaintsReal
<1>6. ASSUME Ordered(w, q) PROVE Ordered(w, r)
  <2> SUFFICES ASSUME NEW i \in DOMAIN r, NEW j \in DOMAIN r, i < j,
                      r[i].msg = "PAINT", r[j].msg = "PAINT"
               PROVE  r[j].hwnd \notin Ancestors(w, r[i].hwnd)
    BY DEF Ordered
  <2>0. i \in Int /\ j \in Int /\ n \in Int
    BY <1>0, <1>4
  <2>1. CASE j < n
    BY <1>4, <1>6, <2>0, <2>1 DEF Ordered
  <2>2. CASE j = n
    <3>1. i \in DOMAIN q /\ r[i] = q[i] /\ i \notin below
      BY <1>2, <1>4, <2>0, <2>2
    <3> QED
      BY <1>1, <1>4, <2>2, <3>1
  <2>3. CASE i < n /\ j > n
    <3>1. i \in DOMAIN q /\ r[i] = q[i] /\ j - 1 \in DOMAIN q /\ r[j] = q[j - 1] /\ i < j - 1
      BY <1>4, <2>0, <2>3
    <3> QED
      BY <1>6, <3>1 DEF Ordered
  <2>4. CASE i = n
    <3>1. j - 1 \in DOMAIN q /\ r[j] = q[j - 1] /\ j - 1 >= n /\ n \in DOMAIN q
      BY <1>0, <1>4, <2>0, <2>4
    <3>2. n \in below
      BY <1>2, <3>1
    <3> DEFINE d == q[n].hwnd
               x == q[j - 1].hwnd
    <3>3. q[n].msg = "PAINT" /\ h \in Ancestors(w, d) /\ d \in Real(w) /\ d \in Windows
      BY <1>0, <3>2, RealWindows DEF PaintsReal
    <3>4. r[i].hwnd = h /\ r[j].hwnd = x
      BY <1>1, <1>4, <2>4, <3>1
    <3>5. Ancestors(w, h) \subseteq Ancestors(w, d)
      BY <3>3, AncestorsTransitive
    <3>6. x \notin Ancestors(w, d)
      <4>1. CASE j - 1 = n
        BY <3>3, <4>1 DEF TreeOK
      <4>2. CASE j - 1 > n
        BY <1>6, <3>1, <3>3, <4>2 DEF Ordered
      <4> QED
        BY <2>0, <3>1, <4>1, <4>2
    <3> QED
      BY <3>4, <3>5, <3>6
  <2>5. CASE i > n
    <3>1. /\ i - 1 \in DOMAIN q /\ r[i] = q[i - 1]
          /\ j - 1 \in DOMAIN q /\ r[j] = q[j - 1] /\ i - 1 < j - 1
      BY <1>4, <2>0, <2>5
    <3> QED
      BY <1>6, <3>1 DEF Ordered
  <2> QED
    BY <2>0, <2>1, <2>2, <2>3, <2>4, <2>5
<1>7. ASSUME NEW m PROVE IsQueued(r, m) <=> IsQueued(q, m) \/ m = Paint(h)
  <2>1. \A k \in DOMAIN r : k < n \/ k = n \/ k > n
    BY <1>0, <1>4
  <2>2. \A k \in DOMAIN q : k < n \/ k >= n
    BY <1>0
  <2>3. \A k \in DOMAIN q : \E i \in DOMAIN r : r[i] = q[k]
    BY <1>4, <2>2
  <2>4. \A k \in DOMAIN r : r[k] = Paint(h) \/ \E i \in DOMAIN q : r[k] = q[i]
    BY <1>4, <2>1
  <2> QED
    <3>1. IsQueued(r, m) => IsQueued(q, m) \/ m = Paint(h)
      BY <2>4, Zenon DEF IsQueued
    <3>2. IsQueued(q, m) => IsQueued(r, m)
      BY <2>3, Zenon DEF IsQueued
    <3>3. m = Paint(h) => IsQueued(r, m)
      BY <1>4, Zenon DEF IsQueued
    <3> QED
      BY <3>1, <3>2, <3>3
<1>8. PaintsOf(r) = PaintsOf(q) \cup {h}
  <2>1. \A k \in Windows : Paint(k) = Paint(h) <=> k = h
    BY <1>1, PaintIsMessage
  <2> QED
    BY <1>1, <1>7, <2>1 DEF PaintsOf
<1> QED
  BY <1>5, <1>6, <1>8 DEF r

(***************************************************************************)
(* The steps a call takes on the queue.                                    *)
(***************************************************************************)
LEMMA QueuePaintKeeps ==
  ASSUME NEW w, WindowsOK(w), TreeOK(w), NEW q, QueueOK(w, q), NEW h \in Real(w)
  PROVE  /\ QueueOK(w, QueuePaint(w, q, h))
         /\ Ordered(w, q) => Ordered(w, QueuePaint(w, q, h))
         /\ PaintsOf(QueuePaint(w, q, h))
              = IF w[h].visible THEN PaintsOf(q) \cup {h} ELSE PaintsOf(q)
<1>1. h \in Windows /\ Exists(w, h) /\ w[h].visible \in BOOLEAN
  BY RealWindows DEF Window
<1> DEFINE r == InsertAt(q, PaintPlace(w, q, h), Paint(h))
<1>5. QueueOK(w, r) /\ (Ordered(w, q) => Ordered(w, r)) /\ PaintsOf(r) = PaintsOf(q) \cup {h}
  BY PaintInserted
<1>2. CASE ~ w[h].visible
  BY <1>1, <1>2 DEF QueuePaint
<1>3. CASE w[h].visible /\ IsQueued(q, Paint(h))
  BY <1>1, <1>3 DEF QueuePaint, PaintsOf
<1>4. CASE w[h].visible /\ ~ IsQueued(q, Paint(h))
  <2>1. QueuePaint(w, q, h) = InsertAt(q, PaintPlace(w, q, h), Paint(h))
    BY <1>4 DEF QueuePaint
  <2> QED
    BY <1>4, <2>1, <1>5
<1> QED
  BY <1>1, <1>2, <1>3, <1>4

LEMMA AppendPaints ==
  ASSUME NEW w, NEW q, QueueOK(w, q), NEW e \in Message, e.msg # "PAINT"
  PROVE  PaintsOf(Append(q, e)) = PaintsOf(q)
<1>1. \A k \in Windows : Paint(k) # e
  BY PaintIsMessage
<1>2. \A m : IsQueued(Append(q, e), m) <=> IsQueued(q, m) \/ m = e
  BY AppendKeeps
<1> QED
  BY <1>1, <1>2, Zenon DEF PaintsOf

LEMMA QueueSizeKeeps ==
  ASSUME NEW w, NEW v, NEW q, QueueOK(w, q), NEW h \in Windows
  PROVE  /\ QueueOK(w, QueueSize(v, q, h))
         /\ Ordered(w, q) => Ordered(w, QueueSize(v, q, h))
         /\ PaintsOf(QueueSize(v, q, h)) = PaintsOf(q)
<1>1. Size(h) \in Message /\ Size(h).msg # "PAINT"
  BY DEF Size, Message
<1>2. /\ QueueOK(w, Append(q, Size(h)))
      /\ Ordered(w, q) => Ordered(w, Append(q, Size(h)))
      /\ PaintsOf(Append(q, Size(h))) = PaintsOf(q)
  BY <1>1, AppendKeeps, AppendPaints
<1> QED
  BY <1>2 DEF QueueSize

LEMMA PaintsLeave ==
  ASSUME NEW w, NEW q, QueueOK(w, q), NEW hs
  PROVE  LET r == Without(q, {Paint(h) : h \in hs})
         IN  /\ QueueOK(w, r)
             /\ Ordered(w, q) => Ordered(w, r)
             /\ PaintsOf(r) = PaintsOf(q) \ hs
<1>1. \A k \in Windows : Paint(k) \in {Paint(h) : h \in hs} <=> k \in hs
  BY DEF Paint
<1> DEFINE drop == {Paint(h) : h \in hs}
<1>2. \A k \in Windows : Paint(k) \in drop <=> k \in hs
  BY <1>1
<1> HIDE DEF drop
<1>3. /\ QueueOK(w, Without(q, drop))
      /\ Ordered(w, q) => Ordered(w, Without(q, drop))
      /\ \A m : IsQueued(Without(q, drop), m) <=> IsQueued(q, m) /\ m \notin drop
  BY WithoutKeeps
<1>4. PaintsOf(Without(q, drop)) = PaintsOf(q) \ hs
  BY <1>2, <1>3, Zenon DEF PaintsOf
<1> QED
  BY <1>3, <1>4 DEF drop

LEMMA RemovePaintKeeps ==
  ASSUME NEW w, NEW q, QueueOK(w, q), NEW h
  PROVE  /\ QueueOK(w, RemovePaint(q, h))
         /\ Ordered(w, q) => Ordered(w, RemovePaint(q, h))
         /\ PaintsOf(RemovePaint(q, h)) = PaintsOf(q) \ {h}
<1>1. {Paint(k) : k \in {h}} = {Paint(h)}
  OBVIOUS
<1> QED
  BY <1>1, PaintsLeave, Zenon DEF RemovePaint

-----------------------------------------------------------------------------
(***************************************************************************)
(* The steps a call takes on the windows: those of H are still there, with *)
(* the parent and the frame they had; the others do not change.            *)
(***************************************************************************)
Touches(w, v, H) ==
  /\ Alike(w, v)
  /\ \A k \in Real(w) : v[k].frame = w[k].frame
  /\ \A k \in Real(w) \ H : v[k] = w[k]

LEMMA WindowFields ==
  ASSUME NEW x \in Window, NEW b \in BOOLEAN
  PROVE  /\ x.parent \in Windows \cup {Desktop} /\ x.frame \in 0 .. LastToken
         /\ x.visible \in BOOLEAN /\ x.dirty \in BOOLEAN
         /\ x.proc \in BOOLEAN /\ x.client \in BOOLEAN
         /\ LET y == [x EXCEPT !.visible = b]
            IN  /\ y \in Window /\ y.parent = x.parent /\ y.frame = x.frame
                /\ y.visible = b /\ y.dirty = x.dirty /\ y.proc = x.proc /\ y.client = x.client
         /\ LET y == [x EXCEPT !.dirty = b]
            IN  /\ y \in Window /\ y.parent = x.parent /\ y.frame = x.frame
                /\ y.visible = x.visible /\ y.dirty = b /\ y.proc = x.proc /\ y.client = x.client
         /\ LET y == [x EXCEPT !.proc = b]
            IN  /\ y \in Window /\ y.parent = x.parent /\ y.frame = x.frame
                /\ y.visible = x.visible /\ y.dirty = x.dirty /\ y.proc = b /\ y.client = x.client
         /\ LET y == [x EXCEPT !.client = b]
            IN  /\ y \in Window /\ y.parent = x.parent /\ y.frame = x.frame
                /\ y.visible = x.visible /\ y.dirty = x.dirty /\ y.proc = x.proc /\ y.client = b
BY DEF Window

SetTo(w, h, x) == [w EXCEPT ![h] = x]

LEMMA SetWindow ==
  ASSUME NEW w, WindowsOK(w), NEW h \in Real(w), NEW x \in Window,
         x.parent = w[h].parent, x.frame = w[h].frame
  PROVE  Touches(w, SetTo(w, h, x), {h}) /\ SetTo(w, h, x)[h] = x
<1> DEFINE v == SetTo(w, h, x)
<1>1. h \in Windows /\ h \in Real(w) /\ x # Absent
  BY RealWindows, AbsentIsNoWindow
<1>2. v \in [Windows -> Window \cup {Absent}] /\ v[h] = x /\ \A k \in Windows \ {h} : v[k] = w[k]
  BY <1>1 DEF WindowsOK, SetTo
<1> HIDE DEF v
<1>3. \A k \in Windows : k \in Real(v) <=> k \in Real(w)
  BY <1>1, <1>2 DEF Real, Exists
<1>4. Touches(w, v, {h})
  BY <1>1, <1>2, <1>3, RealWindows DEF Touches, Alike, WindowsOK
<1> QED
  BY <1>2, <1>4 DEF v

LEMMA TouchesCompose ==
  ASSUME NEW w, NEW v, NEW u, NEW H, Touches(w, v, H), Touches(v, u, H)
  PROVE  Touches(w, u, H)
<1>1. \A k \in Real(w) : k \in Windows /\ k \in Real(v)
  BY DEF Touches, Alike, Real
<1> QED
  BY <1>1, Zenon DEF Touches, Alike

LEMMA InvalidateTouches ==
  ASSUME NEW w, WindowsOK(w), NEW h \in Real(w), NEW hits \in BOOLEAN
  PROVE  LET v == Invalidate(w, h, hits)
         IN  /\ Touches(w, v, {h})
             /\ v[h].dirty = (w[h].dirty \/ (w[h].client /\ hits))
             /\ v[h].visible = w[h].visible /\ v[h].client = w[h].client
             /\ v[h].proc = w[h].proc
<1> DEFINE x == [w[h] EXCEPT !.dirty = TRUE]
           v == Invalidate(w, h, hits)
<1>1. h \in Windows /\ Exists(w, h) /\ w[h] \in Window
  BY RealWindows
<1>2. /\ x \in Window /\ x.parent = w[h].parent /\ x.frame = w[h].frame
      /\ x.visible = w[h].visible /\ x.dirty = TRUE /\ x.proc = w[h].proc /\ x.client = w[h].client
      /\ w[h].dirty \in BOOLEAN /\ w[h].client \in BOOLEAN
  BY <1>1, WindowFields
<1>3. CASE w[h].client /\ hits
  <2>1. v = SetTo(w, h, x)
    BY <1>1, <1>3 DEF Invalidate, WindowsOK, SetTo
  <2> HIDE DEF x, v
  <2>3. Touches(w, SetTo(w, h, x), {h}) /\ SetTo(w, h, x)[h] = x
    BY <1>2, SetWindow
  <2>2. Touches(w, v, {h}) /\ v[h] = x
    BY <2>1, <2>3
  <2> QED
    BY <1>2, <1>3, <2>2 DEF v
<1>4. CASE ~ (w[h].client /\ hits)
  <2>1. v = w
    BY <1>1, <1>4 DEF Invalidate
  <2> QED
    BY <1>2, <1>4, <2>1 DEF Touches, Alike
<1> QED
  BY <1>3, <1>4

LEMMA ValidateTouches ==
  ASSUME NEW w, WindowsOK(w), NEW hs
  PROVE  LET v == Validate(w, hs)
         IN  /\ Touches(w, v, hs)
             /\ \A k \in Real(w) : /\ v[k].visible = w[k].visible
                                   /\ v[k].dirty = (w[k].dirty /\ k \notin hs)
                                   /\ v[k].client = w[k].client
<1> DEFINE v == Validate(w, hs)
<1>1. /\ Real(w) \subseteq Windows
      /\ \A k \in Real(w) : w[k] \in Window /\ Exists(w, k)
      /\ \A k \in Windows : k \notin Real(w) => w[k] = Absent /\ ~ Exists(w, k)
  BY RealWindows
<1>2. ASSUME NEW k \in Real(w)
      PROVE  /\ v[k] \in Window /\ v[k].parent = w[k].parent /\ v[k].frame = w[k].frame
             /\ v[k].visible = w[k].visible /\ v[k].dirty = (w[k].dirty /\ k \notin hs)
             /\ v[k].client = w[k].client
             /\ k \notin hs => v[k] = w[k]
  <2>0. k \in Windows /\ w[k] \in Window /\ Exists(w, k)
    BY <1>1
  <2>1. v[k] = IF k \in hs THEN [w[k] EXCEPT !.dirty = FALSE] ELSE w[k]
    BY <2>0 DEF Validate
  <2> DEFINE y == [w[k] EXCEPT !.dirty = FALSE]
  <2>2. /\ y \in Window /\ y.parent = w[k].parent /\ y.frame = w[k].frame
        /\ y.visible = w[k].visible /\ y.dirty = FALSE /\ y.client = w[k].client
        /\ w[k].dirty \in BOOLEAN
    BY <2>0, WindowFields
  <2> HIDE DEF y, v
  <2>3. v[k] = IF k \in hs THEN y ELSE w[k]
    BY <2>1 DEF y
  <2> QED
    BY <2>0, <2>2, <2>3
<1>3. \A k \in Windows : k \notin Real(w) => v[k] = Absent
  BY <1>1 DEF Validate
<1>4. v \in [Windows -> Window \cup {Absent}]
  <2>1. v = [k \in Windows |-> v[k]]
    BY DEF Validate
  <2> HIDE DEF v
  <2> QED
    BY <1>2, <1>3, <2>1
<1> HIDE DEF v
<1>5. \A k \in Windows : k \in Real(v) <=> k \in Real(w)
  BY <1>2, <1>3, AbsentIsNoWindow DEF Real, Exists
<1>6. Touches(w, v, hs)
  BY <1>1, <1>2, <1>4, <1>5 DEF Touches, Alike, WindowsOK
<1> QED
  BY <1>2, <1>6 DEF v

-----------------------------------------------------------------------------
(***************************************************************************)
(* What every call keeps: the types, the tree, the frames, the order; no   *)
(* WM_PAINT that is owed is lost; and when invalidations reach the client  *)
(* area (live), the windows with a WM_PAINT stay dirty.                    *)
(***************************************************************************)
NoneLost(w, q, v, r) ==
  \A k \in Real(v) :
    v[k].visible /\ v[k].dirty /\ k \notin PaintsOf(r)
      => k \in Real(w) /\ w[k].dirty /\ (w[k].visible => k \notin PaintsOf(q))

PaintsDirty(w, q) ==
  /\ \A k \in Real(w) : w[k].client
  /\ \A k \in PaintsOf(q) : w[k].dirty

Remains(w, q, v, r, live) ==
  /\ WindowsOK(v) /\ TreeOK(v) /\ QueueOK(v, r)
  /\ \A k \in Real(w) : k \in Real(v) /\ v[k].frame = w[k].frame
  /\ live /\ PaintsDirty(w, q) => PaintsDirty(v, r)

LEMMA Touched ==
  ASSUME NEW w, WindowsOK(w), TreeOK(w), NEW v, NEW H, Touches(w, v, H),
         NEW q, NEW r, QueueOK(w, r), Ordered(w, q) => Ordered(w, r),
         NEW live, live /\ PaintsDirty(w, q) => PaintsDirty(v, r)
  PROVE  Remains(w, q, v, r, live) /\ (Ordered(w, q) => Ordered(v, r))
<1>1. /\ Real(v) = Real(w) /\ WindowsOK(v) /\ TreeOK(v) /\ QueueOK(v, r)
      /\ Ordered(w, r) => Ordered(v, r)
  BY AlikeTree, Zenon DEF Touches
<1> QED
  BY <1>1 DEF Remains, Touches

\* A call that repaints h.
LEMMA Repainted ==
  ASSUME NEW w, WindowsOK(w), TreeOK(w), NEW h \in Real(w),
         NEW u, Touches(w, u, {h}), NEW hits \in BOOLEAN,
         NEW q, QueueOK(w, q), NEW p, QueueOK(w, p), Ordered(w, q) => Ordered(w, p),
         PaintsOf(p) \ {h} = PaintsOf(q) \ {h},
         NEW live, live /\ w[h].client => u[h].client /\ hits
  PROVE  LET v == Invalidate(u, h, hits)
             r == QueuePaint(v, p, h)
         IN  /\ Remains(w, q, v, r, live)
             /\ Ordered(w, q) => Ordered(v, r)
             /\ NoneLost(w, q, v, r)
<1> DEFINE v == Invalidate(u, h, hits)
           r == QueuePaint(v, p, h)
<1>1. WindowsOK(u) /\ h \in Real(u) /\ h \in Windows /\ u[h] \in Window
  BY RealWindows DEF Touches, Alike
<1>2. /\ Touches(u, v, {h}) /\ v[h].dirty = (u[h].dirty \/ (u[h].client /\ hits))
      /\ v[h].client = u[h].client
  BY <1>1, InvalidateTouches
<1> HIDE DEF v
<1>3. Touches(w, v, {h})
  BY <1>2, TouchesCompose
<1>4. /\ Real(v) = Real(w) /\ WindowsOK(v) /\ TreeOK(v) /\ QueueOK(v, p)
      /\ Ordered(w, p) => Ordered(v, p)
  BY <1>3, AlikeTree, Zenon DEF Touches
<1>5. /\ QueueOK(v, r) /\ (Ordered(v, p) => Ordered(v, r))
      /\ PaintsOf(r) = IF v[h].visible THEN PaintsOf(p) \cup {h} ELSE PaintsOf(p)
  BY <1>4, QueuePaintKeeps
<1> HIDE DEF r
<1>6. \A k \in Real(w) : k # h => v[k] = w[k]
  BY <1>3 DEF Touches
<1>7. \A k \in Real(w) : k # h => (k \in PaintsOf(r) <=> k \in PaintsOf(q))
  BY <1>5
<1>8. PaintsOf(r) \subseteq Real(w)
  BY <1>4, <1>5, PaintsAreReal
<1>9. NoneLost(w, q, v, r)
  <2>1. v[h].visible => h \in PaintsOf(r)
    BY <1>5
  <2> QED
    BY <1>4, <1>6, <1>7, <2>1, Zenon DEF NoneLost
<1>10. ASSUME live, PaintsDirty(w, q) PROVE PaintsDirty(v, r)
  <2>1. v[h].client /\ v[h].dirty
    BY <1>1, <1>2, <1>10, WindowFields DEF PaintsDirty
  <2> QED
    BY <1>4, <1>6, <1>7, <1>8, <1>10, <2>1, Zenon DEF PaintsDirty
<1>11. Remains(w, q, v, r, live)
  BY <1>3, <1>4, <1>5, <1>10 DEF Remains, Touches
<1> QED
  BY <1>4, <1>5, <1>9, <1>11 DEF v, r

-----------------------------------------------------------------------------
(***************************************************************************)
(* The calls.                                                              *)
(***************************************************************************)
StateOK == WindowsOK(win) /\ TreeOK(win) /\ QueueOK(win, appQ)

Live == Hits[Mode] = {TRUE}

Kept == Remains(win, appQ, win', appQ', Live)
OrderKept == Ordered(win, appQ) => Ordered(win', appQ')
PaintsKept == NoneLost(win, appQ, win', appQ')

LEMMA ModeIs ==
  /\ Mode \in Modes /\ Hits[Mode] \subseteq BOOLEAN
  /\ Procs[Mode] \subseteq BOOLEAN /\ Reparents[Mode] \subseteq Windows
BY BoundAssumption DEF Mode, Modes

LEMMA Itself ==
  ASSUME NEW w, WindowsOK(w), NEW H
  PROVE  Touches(w, w, H)
BY DEF Touches, Alike

LEMMA ShowWindowKeeps ==
  ASSUME StateOK, NEW h \in Real(win), ShowWindow(h)
  PROVE  Kept /\ OrderKept /\ PaintsKept
<1> DEFINE x == [win[h] EXCEPT !.visible = TRUE]
           u == SetTo(win, h, x)
<1>1. h \in Windows /\ win[h] \in Window /\ Exists(win, h) /\ WindowsOK(win)
  BY RealWindows DEF StateOK
<1>2. x \in Window /\ x.parent = win[h].parent /\ x.frame = win[h].frame /\ x.client = win[h].client
  BY <1>1, WindowFields
<1>3. win' = Invalidate(u, h, TRUE) /\ appQ' = QueuePaint(win', appQ, h)
  BY <1>1 DEF ShowWindow, SetTo, WindowsOK
<1> HIDE DEF x
<1>4. Touches(win, u, {h}) /\ u[h] = x
  BY <1>1, <1>2, SetWindow
<1> HIDE DEF u
<1> QED
  BY <1>2, <1>3, <1>4, Repainted DEF StateOK, Kept, OrderKept, PaintsKept

LEMMA InvalidateRectKeeps ==
  ASSUME StateOK, NEW h \in Real(win), NEW hits \in Hits[Mode], InvalidateRect(h, hits)
  PROVE  Kept /\ OrderKept /\ PaintsKept
<1>1. hits \in BOOLEAN /\ (Live => hits)
  BY ModeIs DEF Live
<1>2. Touches(win, win, {h})
  BY Itself DEF StateOK
<1>3. win' = Invalidate(win, h, hits) /\ appQ' = QueuePaint(win', appQ, h)
  BY DEF InvalidateRect
<1> QED
  BY <1>1, <1>2, <1>3, Repainted DEF StateOK, Kept, OrderKept, PaintsKept

LEMMA RedrawWindowKeeps ==
  ASSUME StateOK, NEW h \in Real(win), NEW hits \in Hits[Mode],
         NEW invalidate \in BOOLEAN, NEW updateNow \in BOOLEAN,
         RedrawWindow(h, hits, invalidate, updateNow)
  PROVE  Kept /\ OrderKept /\ PaintsKept
<1>1. hits \in BOOLEAN /\ (Live => hits)
  BY ModeIs DEF Live
<1>2. Exists(win, h) /\ h \in Windows /\ win[h] \in Window /\ Touches(win, win, {h})
  BY RealWindows, Itself DEF StateOK
<1> PICK v, r : v = win' /\ r = appQ'
  OBVIOUS
<1>3. CASE invalidate /\ v[h].dirty
  <2>1. v = Invalidate(win, h, hits) /\ r = QueuePaint(v, appQ, h)
    BY <1>2, <1>3 DEF RedrawWindow
  <2> QED
    BY <1>1, <1>2, <2>1, Repainted DEF StateOK, Kept, OrderKept, PaintsKept
<1>4. CASE ~ invalidate /\ updateNow /\ v[h].dirty
  <2>1. v = win /\ r = QueuePaint(win, appQ, h)
    BY <1>2, <1>4 DEF RedrawWindow
  <2>2. /\ QueueOK(win, r) /\ (Ordered(win, appQ) => Ordered(win, r))
        /\ PaintsOf(r) = IF win[h].visible THEN PaintsOf(appQ) \cup {h} ELSE PaintsOf(appQ)
    BY <2>1, QueuePaintKeeps DEF StateOK
  <2>3. PaintsDirty(win, appQ) => PaintsDirty(v, r)
    BY <1>4, <2>1, <2>2 DEF PaintsDirty
  <2>4. PaintsKept
    BY <2>1, <2>2 DEF PaintsKept, NoneLost
  <2> QED
    BY <1>2, <2>1, <2>2, <2>3, <2>4, Touched DEF StateOK, Kept, OrderKept
<1>5. CASE ~ v[h].dirty \/ (~ invalidate /\ ~ updateNow)
  <2>1. r = appQ /\ v = IF invalidate THEN Invalidate(win, h, hits) ELSE win
    BY <1>2, <1>5 DEF RedrawWindow
  <2>2. Touches(win, v, {h}) /\ v[h].client = win[h].client /\ (win[h].dirty => v[h].dirty)
    BY <1>1, <1>2, <2>1, InvalidateTouches DEF StateOK
  <2>3. Real(v) = Real(win) /\ \A k \in Real(win) : k # h => v[k] = win[k]
    BY <2>2, AlikeTree DEF Touches, StateOK
  <2>4. PaintsDirty(win, appQ) => PaintsDirty(v, r)
    <3>1. PaintsOf(appQ) \subseteq Real(win)
      BY PaintsAreReal DEF StateOK
    <3> QED
      BY <2>1, <2>2, <2>3, <3>1 DEF PaintsDirty
  <2>5. ~ invalidate /\ ~ updateNow => v = win
    BY <2>1
  <2>6. NoneLost(win, appQ, v, r)
    BY <1>5, <2>1, <2>3, <2>5 DEF NoneLost
  <2> QED
    BY <2>1, <2>2, <2>4, <2>6, Touched DEF StateOK, Kept, OrderKept, PaintsKept
<1> QED
  BY <1>3, <1>4, <1>5

LEMMA SetWindowPosKeeps ==
  ASSUME StateOK, NEW h \in Real(win), NEW client \in Hits[Mode],
         NEW show \in BOOLEAN, NEW hide \in BOOLEAN, NEW redraw \in BOOLEAN,
         SetWindowPos(h, client, show, hide, redraw)
  PROVE  Kept /\ OrderKept /\ PaintsKept
<1> DEFINE visible == (win[h].visible \/ show) /\ ~ hide
           x == [[win[h] EXCEPT !.client = client] EXCEPT !.visible = visible]
           u == SetTo(win, h, x)
           p == QueueSize(u, IF redraw THEN RemovePaint(appQ, h) ELSE appQ, h)
<1>1. /\ h \in Windows /\ win[h] \in Window /\ Exists(win, h) /\ WindowsOK(win)
      /\ client \in BOOLEAN /\ (Live => client)
  BY RealWindows, ModeIs DEF StateOK, Live
<1>2. /\ x \in Window /\ x.parent = win[h].parent /\ x.frame = win[h].frame
      /\ x.client = client /\ x.dirty = win[h].dirty
  BY <1>1 DEF Window
<1>3. IF redraw THEN win' = Invalidate(u, h, TRUE) /\ appQ' = QueuePaint(win', p, h)
                ELSE win' = u /\ appQ' = p
  <2>1. u = [win EXCEPT ![h].client = client, ![h].visible = (@ \/ show) /\ ~hide]
    BY <1>1 DEF WindowsOK, SetTo, Window
  <2> HIDE DEF u
  <2> QED
    BY <1>1, <2>1 DEF SetWindowPos
<1> HIDE DEF x
<1>4. Touches(win, u, {h}) /\ u[h] = x
  BY <1>1, <1>2, SetWindow
<1>5. /\ QueueOK(win, RemovePaint(appQ, h))
      /\ Ordered(win, appQ) => Ordered(win, RemovePaint(appQ, h))
      /\ PaintsOf(RemovePaint(appQ, h)) = PaintsOf(appQ) \ {h}
  BY RemovePaintKeeps DEF StateOK
<1> DEFINE b == IF redraw THEN RemovePaint(appQ, h) ELSE appQ
<1>6. /\ QueueOK(win, b) /\ (Ordered(win, appQ) => Ordered(win, b))
      /\ PaintsOf(b) = IF redraw THEN PaintsOf(appQ) \ {h} ELSE PaintsOf(appQ)
  BY <1>5 DEF StateOK
<1> HIDE DEF u
<1>7. /\ QueueOK(win, p) /\ (Ordered(win, appQ) => Ordered(win, p))
      /\ PaintsOf(p) = IF redraw THEN PaintsOf(appQ) \ {h} ELSE PaintsOf(appQ)
  <2> HIDE DEF b
  <2>1. p = QueueSize(u, b, h)
    BY DEF b
  <2> HIDE DEF p
  <2> QED
    BY <1>1, <1>6, <2>1, QueueSizeKeeps
<1> HIDE DEF p
<1>8. CASE redraw
  <2>1. PaintsOf(p) \ {h} = PaintsOf(appQ) \ {h}
    BY <1>7
  <2>2. win' = Invalidate(u, h, TRUE) /\ appQ' = QueuePaint(win', p, h)
    BY <1>3, <1>8
  <2> QED
    BY <1>1, <1>2, <1>4, <1>7, <2>1, <2>2, Repainted DEF StateOK, Kept, OrderKept, PaintsKept
<1>9. CASE ~ redraw
  <2>1. win' = u /\ appQ' = p /\ PaintsOf(p) = PaintsOf(appQ)
    BY <1>3, <1>7, <1>9
  <2>2. Real(u) = Real(win) /\ \A k \in Real(win) : k # h => u[k] = win[k]
    BY <1>4, AlikeTree DEF Touches, StateOK
  <2>3. Live /\ PaintsDirty(win, appQ) => PaintsDirty(u, p)
    <3>1. PaintsOf(appQ) \subseteq Real(win)
      BY PaintsAreReal DEF StateOK
    <3> QED
      BY <1>1, <1>2, <1>4, <2>1, <2>2, <3>1 DEF PaintsDirty
  <2>4. NoneLost(win, appQ, u, p)
    BY <1>2, <1>4, <2>1, <2>2 DEF NoneLost
  <2> QED
    BY <1>4, <1>7, <2>1, <2>3, <2>4, Touched DEF StateOK, Kept, OrderKept, PaintsKept
<1> QED
  BY <1>8, <1>9

LEMMA SetWindowProcKeeps ==
  ASSUME StateOK, NEW h \in Real(win), NEW proc \in Procs[Mode], SetWindowProc(h, proc)
  PROVE  Kept /\ OrderKept /\ PaintsKept
<1> DEFINE x == [win[h] EXCEPT !.proc = proc]
           u == SetTo(win, h, x)
<1>1. /\ h \in Windows /\ win[h] \in Window /\ Exists(win, h) /\ WindowsOK(win)
      /\ proc \in BOOLEAN
  BY RealWindows, ModeIs DEF StateOK
<1>2. /\ x \in Window /\ x.parent = win[h].parent /\ x.frame = win[h].frame
      /\ x.client = win[h].client /\ x.dirty = win[h].dirty /\ x.visible = win[h].visible
  BY <1>1 DEF Window
<1>3. \/ win' = Invalidate(u, h, TRUE) /\ appQ' = QueuePaint(win', appQ, h)
      \/ win' = u /\ appQ' = appQ
  BY <1>1 DEF SetWindowProc, SetTo, WindowsOK
<1> HIDE DEF x
<1>4. Touches(win, u, {h}) /\ u[h] = x
  BY <1>1, <1>2, SetWindow
<1> HIDE DEF u
<1>5. CASE win' = Invalidate(u, h, TRUE) /\ appQ' = QueuePaint(win', appQ, h)
  BY <1>2, <1>4, <1>5, Repainted DEF StateOK, Kept, OrderKept, PaintsKept
<1>6. CASE win' = u /\ appQ' = appQ
  <2>2. Real(u) = Real(win) /\ \A k \in Real(win) : k # h => u[k] = win[k]
    BY <1>4, AlikeTree DEF Touches, StateOK
  <2>3. PaintsDirty(win, appQ) => PaintsDirty(u, appQ)
    <3>1. PaintsOf(appQ) \subseteq Real(win)
      BY PaintsAreReal DEF StateOK
    <3> QED
      BY <1>2, <1>4, <2>2, <3>1 DEF PaintsDirty
  <2>4. NoneLost(win, appQ, u, appQ)
    BY <1>2, <1>4, <2>2 DEF NoneLost
  <2> QED
    BY <1>4, <1>6, <2>3, <2>4, Touched DEF StateOK, Kept, OrderKept, PaintsKept
<1> QED
  BY <1>3, <1>5, <1>6

LEMMA HiddenTouches ==
  ASSUME StateOK, NEW h \in Real(win), Hidden(h)
  PROVE  /\ Touches(win, win', {h}) /\ win'[h].visible = FALSE
         /\ win'[h].client = win[h].client
<1> DEFINE x == [[win[h] EXCEPT !.visible = FALSE] EXCEPT !.dirty = FALSE]
           u == SetTo(win, h, x)
<1>1. h \in Windows /\ win[h] \in Window /\ Exists(win, h) /\ WindowsOK(win)
  BY RealWindows DEF StateOK
<1>2. /\ x \in Window /\ x.parent = win[h].parent /\ x.frame = win[h].frame
      /\ x.client = win[h].client /\ x.visible = FALSE
  BY <1>1 DEF Window
<1>3. win' = u
  BY <1>1 DEF Hidden, SetTo, WindowsOK, Window
<1> HIDE DEF x
<1>4. Touches(win, u, {h}) /\ u[h] = x
  BY <1>1, <1>2, SetWindow
<1> HIDE DEF u
<1> QED
  BY <1>2, <1>3, <1>4

\* A call after which h is hidden and its WM_PAINT gone.
LEMMA HiddenKeeps ==
  ASSUME StateOK, NEW h \in Real(win), Hidden(h), NEW r, r = appQ',
         QueueOK(win, r), Ordered(win, appQ) => Ordered(win, r),
         PaintsOf(r) = PaintsOf(appQ) \ {h}
  PROVE  Kept /\ OrderKept /\ PaintsKept
<1> PICK v : v = win'
  OBVIOUS
<1>1. Touches(win, v, {h}) /\ v[h].visible = FALSE /\ v[h].client = win[h].client
  BY HiddenTouches
<1>2. Real(v) = Real(win) /\ \A k \in Real(win) : k # h => v[k] = win[k]
  BY <1>1, AlikeTree DEF Touches, StateOK
<1>3. PaintsDirty(win, appQ) => PaintsDirty(v, r)
  <2>1. PaintsOf(appQ) \subseteq Real(win)
    BY PaintsAreReal DEF StateOK
  <2> QED
    BY <1>1, <1>2, <2>1 DEF PaintsDirty
<1>4. NoneLost(win, appQ, v, r)
  BY <1>1, <1>2 DEF NoneLost
<1> QED
  BY <1>1, <1>3, <1>4, Touched DEF StateOK, Kept, OrderKept, PaintsKept

LEMMA HideWindowKeeps ==
  ASSUME StateOK, NEW h \in Real(win), HideWindow(h)
  PROVE  Kept /\ OrderKept /\ PaintsKept
<1> DEFINE r == RemovePaint(appQ, h)
<1>1. /\ QueueOK(win, r) /\ (Ordered(win, appQ) => Ordered(win, r))
      /\ PaintsOf(r) = PaintsOf(appQ) \ {h}
  BY RemovePaintKeeps DEF StateOK
<1>2. Hidden(h) /\ r = appQ'
  BY DEF HideWindow
<1> HIDE DEF r
<1> QED
  BY <1>1, <1>2, HiddenKeeps

LEMMA DestroyWindowKeeps ==
  ASSUME StateOK, NEW h \in Real(win), DestroyWindow(h)
  PROVE  Kept /\ OrderKept /\ PaintsKept
<1> DEFINE p == RemovePaint(appQ, h)
           e == [hwnd |-> h, msg |-> "DESTROY"]
           r == IF win[h].proc THEN Append(p, e) ELSE p
<1>1. /\ QueueOK(win, p) /\ (Ordered(win, appQ) => Ordered(win, p))
      /\ PaintsOf(p) = PaintsOf(appQ) \ {h}
  BY RemovePaintKeeps DEF StateOK
<1>2. Hidden(h) /\ r = appQ'
  BY RealWindows DEF DestroyWindow, StateOK
<1>3. e \in Message /\ e.msg # "PAINT"
  BY RealWindows DEF Message, StateOK
<1> HIDE DEF p, e
<1>4. /\ QueueOK(win, Append(p, e)) /\ (Ordered(win, p) => Ordered(win, Append(p, e)))
      /\ PaintsOf(Append(p, e)) = PaintsOf(p)
  BY <1>1, <1>3, AppendKeeps, AppendPaints
<1>5. /\ QueueOK(win, r) /\ (Ordered(win, appQ) => Ordered(win, r))
      /\ PaintsOf(r) = PaintsOf(appQ) \ {h}
  BY <1>1, <1>4
<1> HIDE DEF r
<1> QED
  BY <1>2, <1>5, HiddenKeeps

LEMMA EndDialogKeeps ==
  ASSUME StateOK, NEW h \in Real(win), EndDialog(h)
  PROVE  Kept /\ OrderKept /\ PaintsKept
<1> PICK v : v = win'
  OBVIOUS
<1>0. /\ WindowsOK(win) /\ Real(win) \subseteq Windows
      /\ \A k \in Real(win) : win[k] \in Window /\ Exists(win, k)
      /\ \A k \in Windows : k \notin Real(win) => win[k] = Absent /\ ~ Exists(win, k)
  BY RealWindows DEF StateOK
<1>1. v = [k \in Windows |-> IF Exists(win, k) /\ (k = h \/ win[k].parent = h)
                             THEN [win[k] EXCEPT !.visible = FALSE] ELSE win[k]]
      /\ appQ' = appQ
  BY DEF EndDialog
<1>2. ASSUME NEW k \in Real(win)
      PROVE  /\ v[k] \in Window /\ v[k].parent = win[k].parent /\ v[k].frame = win[k].frame
             /\ v[k].client = win[k].client /\ v[k].dirty = win[k].dirty
             /\ v[k].visible => win[k].visible
  <2>0. k \in Windows /\ win[k] \in Window
    BY <1>0
  <2> DEFINE y == [win[k] EXCEPT !.visible = FALSE]
  <2>1. v[k] = y \/ v[k] = win[k]
    BY <1>1, <2>0
  <2>2. /\ y \in Window /\ y.parent = win[k].parent /\ y.frame = win[k].frame
        /\ y.visible = FALSE /\ y.dirty = win[k].dirty /\ y.client = win[k].client
    BY <2>0, WindowFields
  <2> HIDE DEF y
  <2> QED
    BY <2>0, <2>1, <2>2
<1>3. \A k \in Windows : k \notin Real(win) => v[k] = Absent
  BY <1>0, <1>1
<1>4. WindowsOK(v)
  BY <1>0, <1>1, <1>2, <1>3 DEF WindowsOK
<1>5. \A k \in Windows : k \in Real(v) <=> k \in Real(win)
  BY <1>2, <1>3, AbsentIsNoWindow DEF Real, Exists
<1>6. Touches(win, v, Real(win)) /\ Real(v) = Real(win)
  BY <1>0, <1>2, <1>4, <1>5 DEF Touches, Alike, Real
<1>7. PaintsDirty(win, appQ) => PaintsDirty(v, appQ)
  <2>1. PaintsOf(appQ) \subseteq Real(win)
    BY PaintsAreReal DEF StateOK
  <2> QED
    BY <1>2, <1>6, <2>1 DEF PaintsDirty
<1>8. NoneLost(win, appQ, v, appQ)
  BY <1>2, <1>6 DEF NoneLost
<1>9. /\ Remains(win, appQ, v, appQ, Live)
      /\ Ordered(win, appQ) => Ordered(v, appQ)
  <2>1. WindowsOK(win) /\ TreeOK(win) /\ QueueOK(win, appQ)
    BY DEF StateOK
  <2> QED
    BY <1>6, <1>7, <2>1, Touched, Zenon
<1> QED
  BY <1>1, <1>8, <1>9 DEF Kept, OrderKept, PaintsKept

\* BeginPaint, ValidateRect and the like.
LEMMA PaintedKeeps ==
  ASSUME StateOK, NEW hs, Painted(hs)
  PROVE  Kept /\ OrderKept /\ PaintsKept
<1> PICK v, r : v = win' /\ r = appQ'
  OBVIOUS
<1>1. v = Validate(win, hs) /\ r = Without(appQ, {Paint(h) : h \in hs})
  BY DEF Painted
<1>2. /\ QueueOK(win, r) /\ (Ordered(win, appQ) => Ordered(win, r))
      /\ PaintsOf(r) = PaintsOf(appQ) \ hs
  <2> DEFINE p == Without(appQ, {Paint(h) : h \in hs})
  <2>1. /\ QueueOK(win, p) /\ (Ordered(win, appQ) => Ordered(win, p))
        /\ PaintsOf(p) = PaintsOf(appQ) \ hs
    BY PaintsLeave DEF StateOK
  <2>2. r = p
    BY <1>1
  <2> HIDE DEF p
  <2> QED
    BY <2>1, <2>2
<1>3. /\ Touches(win, v, hs)
      /\ \A k \in Real(win) : /\ v[k].visible = win[k].visible
                              /\ v[k].dirty = (win[k].dirty /\ k \notin hs)
                              /\ v[k].client = win[k].client
  <2> DEFINE u == Validate(win, hs)
  <2>1. /\ Touches(win, u, hs)
        /\ \A k \in Real(win) : /\ u[k].visible = win[k].visible
                                /\ u[k].dirty = (win[k].dirty /\ k \notin hs)
                                /\ u[k].client = win[k].client
    BY ValidateTouches DEF StateOK
  <2>2. v = u
    BY <1>1
  <2> HIDE DEF u
  <2> QED
    BY <2>1, <2>2
<1>4. Real(v) = Real(win) /\ PaintsOf(appQ) \subseteq Real(win)
  BY <1>3, AlikeTree, PaintsAreReal DEF Touches, StateOK
<1>5. PaintsDirty(win, appQ) => PaintsDirty(v, r)
  BY <1>2, <1>3, <1>4, Zenon DEF PaintsDirty
<1>6. NoneLost(win, appQ, v, r)
  BY <1>2, <1>3, <1>4, Zenon DEF NoneLost
<1> QED
  BY <1>2, <1>3, <1>5, <1>6, Touched DEF StateOK, Kept, OrderKept, PaintsKept

LEMMA MarkDDrawOwnedKeeps ==
  ASSUME StateOK, NEW h \in Real(win), MarkDDrawOwned(h)
  PROVE  Kept /\ OrderKept /\ win' = win /\ PaintsOf(appQ') = PaintsOf(appQ) \ {h}
<1> PICK r : r = appQ'
  OBVIOUS
<1>1. win' = win /\ r = RemovePaint(appQ, h)
  BY DEF MarkDDrawOwned
<1>2. /\ QueueOK(win, r) /\ (Ordered(win, appQ) => Ordered(win, r))
      /\ PaintsOf(r) = PaintsOf(appQ) \ {h}
  BY <1>1, RemovePaintKeeps DEF StateOK
<1>3. PaintsDirty(win, appQ) => PaintsDirty(win, r)
  BY <1>2 DEF PaintsDirty
<1>4. Touches(win, win, {})
  BY Itself DEF StateOK
<1> QED
  BY <1>1, <1>2, <1>3, <1>4, Touched DEF StateOK, Kept, OrderKept

LEMMA PostMessageKeeps ==
  ASSUME StateOK, NEW h \in Windows \cup {Desktop}, NEW m \in Posts[Mode], PostMessage(h, m)
  PROVE  Kept /\ OrderKept /\ PaintsKept
<1> DEFINE e == [hwnd |-> h, msg |-> m]
<1>1. e \in Message /\ e.msg # "PAINT"
  <2>1. m \in AppMsgs
    BY ModeIs DEF AppMsgs
  <2> QED
    BY <2>1, MessageAssumption DEF Message
<1>2. win' = win /\ appQ' = Append(appQ, e)
  BY DEF PostMessage
<1> HIDE DEF e
<1> PICK r : r = appQ'
  OBVIOUS
<1>3. /\ QueueOK(win, r) /\ (Ordered(win, appQ) => Ordered(win, r))
      /\ PaintsOf(r) = PaintsOf(appQ)
  BY <1>1, <1>2, AppendKeeps, AppendPaints DEF StateOK
<1>4. (PaintsDirty(win, appQ) => PaintsDirty(win, r)) /\ NoneLost(win, appQ, win, r)
  BY <1>3 DEF PaintsDirty, NoneLost
<1>5. Touches(win, win, {})
  BY Itself DEF StateOK
<1> QED
  BY <1>2, <1>3, <1>4, <1>5, Touched DEF StateOK, Kept, OrderKept, PaintsKept

(***************************************************************************)
(* Creation: a window h under p, a window that exists or none, and the     *)
(* controls C under h.                                                     *)
(***************************************************************************)
LEMMA NewTree ==
  ASSUME NEW w, WindowsOK(w), TreeOK(w), NEW q, QueueOK(w, q), NEW v, WindowsOK(v),
         NEW h \in Windows \ Real(w), NEW p \in Real(w) \cup {Desktop},
         NEW C \in SUBSET (Windows \ (Real(w) \cup {h})),
         Real(v) = Real(w) \cup {h} \cup C,
         \A k \in Real(w) : v[k].parent = w[k].parent,
         v[h].parent = p, \A c \in C : v[c].parent = h
  PROVE  TreeOK(v) /\ QueueOK(v, q) /\ (Ordered(w, q) => Ordered(v, q))
<1>1. /\ \A k \in Real(w) : Ancestors(v, k) \subseteq Ancestors(w, k)
      /\ UpClosed(v, Real(w)) /\ QueueOK(v, q) /\ (Ordered(w, q) => Ordered(v, q))
  BY GrownTree
<1>2. \A k \in Real(v) : v[k].parent \in Real(v) \cup {Desktop}
  BY DEF TreeOK
<1>3. ParentOf(v, h) = p /\ \A c \in C : ParentOf(v, c) = h
  BY DEF ParentOf
<1>4. \A k \in Real(w) : k \notin Ancestors(v, k)
  BY <1>1, RealWindows DEF TreeOK
<1>5. h \notin Ancestors(v, h)
  <2>1. Ancestors(v, h) \subseteq Real(w)
    BY <1>1, <1>3, AncestorsLeast, RealWindows
  <2> QED
    BY <2>1
<1>6. \A c \in C : c \notin Ancestors(v, c)
  <2>1. UpClosed(v, Real(w) \cup {h})
    BY <1>1, <1>3 DEF UpClosed
  <2>2. \A c \in C : Ancestors(v, c) \subseteq Real(w) \cup {h}
    <3>1. Real(w) \cup {h} \in SUBSET Windows
      BY RealWindows
    <3> QED
      BY <1>3, <2>1, <3>1, AncestorsLeast
  <2> QED
    BY <2>2
<1>7. \A k : k \notin Real(v) => k \notin Ancestors(v, k)
  <2>1. \A k : k \notin Real(v) => ParentOf(v, k) = Desktop
    BY DEF ParentOf
  <2>2. UpClosed(v, {})
    BY DEF UpClosed
  <2>3. {} \in SUBSET Windows
    OBVIOUS
  <2>4. \A k : k \notin Real(v) => Ancestors(v, k) \subseteq {}
    BY <2>1, <2>2, <2>3, AncestorsLeast
  <2> QED
    BY <2>4
<1> QED
  BY <1>1, <1>2, <1>4, <1>5, <1>6, <1>7 DEF TreeOK

\* What creation alone does; the queue is still the same.
Made(w, q, v, live) ==
  /\ Remains(w, q, v, q, live)
  /\ Ordered(w, q) => Ordered(v, q)
  /\ Real(w) \subseteq Real(v)
  /\ \A k \in Real(w) : v[k] = w[k]
  /\ \A k \in Real(v) \ Real(w) : v[k].dirty = FALSE

Creates(w, v, h, p, C, live) ==
  /\ WindowsOK(v)
  /\ h \in Windows \ Real(w) /\ p \in Real(w) \cup {Desktop}
  /\ C \in SUBSET (Windows \ (Real(w) \cup {h}))
  /\ \A k \in Windows \ (C \cup {h}) : v[k] = w[k]
  /\ v[h] \in Window /\ v[h].parent = p /\ v[h].dirty = FALSE
  /\ \A c \in C : v[c] \in Window /\ v[c].parent = h /\ v[c].dirty = FALSE
  /\ live => v[h].client /\ \A c \in C : v[c].client

LEMMA Creation ==
  ASSUME NEW w, WindowsOK(w), TreeOK(w), NEW q, QueueOK(w, q), NEW v,
         NEW h, NEW p, NEW C, NEW live, Creates(w, v, h, p, C, live)
  PROVE  Made(w, q, v, live)
<1>0. /\ WindowsOK(v) /\ h \in Windows \ Real(w) /\ p \in Real(w) \cup {Desktop}
      /\ C \in SUBSET (Windows \ (Real(w) \cup {h}))
      /\ v[h].parent = p /\ \A c \in C : v[c].parent = h
  BY DEF Creates
<1> USE DEF Creates
<1>1. \A k \in Windows : k \in Real(v) <=> k \in Real(w) \/ k = h \/ k \in C
  BY AbsentIsNoWindow DEF Real, Exists
<1>2. Real(v) = Real(w) \cup {h} \cup C
  BY <1>1 DEF Real
<1>3. \A k \in Real(w) : v[k] = w[k]
  BY RealWindows
<1>4. TreeOK(v) /\ QueueOK(v, q) /\ (Ordered(w, q) => Ordered(v, q))
  <2>1. \A k \in Real(w) : v[k].parent = w[k].parent
    BY <1>3
  <2> QED
    BY <1>0, <1>2, <2>1, NewTree
<1>5. live /\ PaintsDirty(w, q) => PaintsDirty(v, q)
  <2>1. PaintsOf(q) \subseteq Real(w)
    BY PaintsAreReal
  <2> QED
    BY <1>2, <1>3, <2>1 DEF PaintsDirty
<1> QED
  BY <1>2, <1>3, <1>4, <1>5 DEF Made, Remains

LEMMA CreateWindowExKeeps ==
  ASSUME StateOK, NEW h \in Windows, NEW p \in Real(win) \cup {Desktop},
         NEW visible \in BOOLEAN, NEW proc \in Procs[Mode], NEW client \in Hits[Mode],
         CreateWindowEx(h, p, visible, proc, client)
  PROVE  Kept /\ OrderKept /\ PaintsKept
<1> DEFINE x == Fresh(p, visible, proc, client)
           w == SetTo(win, h, x)
           q == QueueSize(w, appQ, h)
<1>1. /\ h \in Windows \ Real(win) /\ WindowsOK(win) /\ p \in Windows \cup {Desktop}
      /\ proc \in BOOLEAN /\ client \in BOOLEAN /\ (Live => client)
  BY RealWindows, ModeIs DEF StateOK, CreateWindowEx, Live
<1>2. /\ x \in Window /\ x # Absent /\ x.parent = p /\ x.dirty = FALSE
      /\ x.client = client
  <2>1. x \in Window
    BY <1>1, BoundAssumption DEF Fresh, Window
  <2> QED
    BY <2>1, AbsentIsNoWindow DEF Fresh
<1>3. \/ win' = Invalidate(w, h, TRUE) /\ appQ' = QueuePaint(win', q, h)
      \/ win' = w /\ appQ' = q
  BY DEF CreateWindowEx, SetTo
<1> HIDE DEF x
<1>4. WindowsOK(w) /\ w[h] = x /\ \A k \in Windows \ {h} : w[k] = win[k]
  BY <1>1, <1>2 DEF WindowsOK, SetTo
<1> HIDE DEF w
<1>5. Made(win, appQ, w, Live)
  <2>1. Creates(win, w, h, p, {}, Live)
    BY <1>1, <1>2, <1>4 DEF Creates
  <2> QED
    BY <2>1, Creation DEF StateOK
<1>6. /\ WindowsOK(w) /\ TreeOK(w) /\ QueueOK(w, appQ)
      /\ h \in Real(w) /\ (Ordered(win, appQ) => Ordered(w, appQ))
      /\ Live /\ PaintsDirty(win, appQ) => PaintsDirty(w, appQ)
  BY <1>1, <1>2, <1>4, <1>5 DEF Made, Remains, Real, Exists
<1>7. /\ QueueOK(w, q) /\ (Ordered(w, appQ) => Ordered(w, q))
      /\ PaintsOf(q) = PaintsOf(appQ)
  BY <1>1, <1>6, QueueSizeKeeps
<1> HIDE DEF q
<1> PICK v, r : v = win' /\ r = appQ'
  OBVIOUS
<1>8. /\ Remains(w, appQ, v, r, Live) /\ (Ordered(w, appQ) => Ordered(v, r))
      /\ NoneLost(w, appQ, v, r)
  <2>1. Touches(w, w, {h})
    BY <1>6, Itself
  <2>2. CASE win' = Invalidate(w, h, TRUE) /\ appQ' = QueuePaint(win', q, h)
    <3>1. v = Invalidate(w, h, TRUE) /\ r = QueuePaint(v, q, h)
      BY <2>2
    <3> QED
      BY <1>6, <1>7, <2>1, <3>1, Repainted
  <2>3. CASE win' = w /\ appQ' = q
    <3>1. v = w /\ r = q
      BY <2>3
    <3>2. (PaintsDirty(w, appQ) => PaintsDirty(v, r)) /\ NoneLost(w, appQ, v, r)
      BY <1>7, <3>1 DEF PaintsDirty, NoneLost
    <3> QED
      BY <1>6, <1>7, <2>1, <3>1, <3>2, Touched
  <2> QED
    BY <1>3, <2>2, <2>3
<1>9. Remains(win, appQ, v, r, Live)
  BY <1>5, <1>6, <1>8 DEF Made, Remains
<1>10. NoneLost(win, appQ, v, r)
  BY <1>5, <1>8, Zenon DEF Made, NoneLost
<1> QED
  BY <1>6, <1>8, <1>9, <1>10 DEF Kept, OrderKept, PaintsKept

LEMMA CreateDialogKeeps ==
  ASSUME StateOK, NEW h \in Windows, NEW p \in Real(win) \cup {Desktop},
         NEW proc \in Procs[Mode], NEW controls \in SUBSET Windows,
         NEW shown \in SUBSET controls, CreateDialog(h, p, proc, controls, shown)
  PROVE  Kept /\ OrderKept /\ PaintsKept
<1> DEFINE x == Fresh(p, TRUE, proc, TRUE)
           y(k) == Fresh(h, k \in shown, FALSE, TRUE)
<1>1. /\ h \in Windows \ Real(win) /\ p \in Windows \cup {Desktop} /\ WindowsOK(win)
      /\ controls \in SUBSET (Windows \ (Real(win) \cup {h})) /\ proc \in BOOLEAN
  BY RealWindows, ModeIs DEF StateOK, CreateDialog
<1>2. x \in Window /\ x.parent = p /\ x.dirty = FALSE /\ x.client = TRUE
  BY <1>1, BoundAssumption DEF Fresh, Window
<1>3. \A k \in controls : /\ y(k) \in Window /\ y(k).parent = h /\ y(k).dirty = FALSE
                          /\ y(k).client = TRUE
  <2> SUFFICES ASSUME NEW k \in controls
               PROVE  /\ y(k) \in Window /\ y(k).parent = h /\ y(k).dirty = FALSE
                      /\ y(k).client = TRUE
    OBVIOUS
  <2>1. (k \in shown) \in BOOLEAN
    OBVIOUS
  <2> QED
    BY <1>1, <2>1, BoundAssumption DEF Fresh, Window
<1> PICK v : v = win'
  OBVIOUS
<1>4. v = [k \in Windows |-> IF k = h THEN x ELSE IF k \in controls THEN y(k) ELSE win[k]]
      /\ appQ' = appQ
  BY DEF CreateDialog
<1> HIDE DEF x, y
<1>5. WindowsOK(v)
  BY <1>1, <1>2, <1>3, <1>4 DEF WindowsOK
<1>6. /\ v[h] = x /\ (\A k \in controls : v[k] = y(k))
      /\ \A k \in Windows \ (controls \cup {h}) : v[k] = win[k]
  BY <1>1, <1>4
<1>7. Made(win, appQ, v, Live)
  <2>1. Creates(win, v, h, p, controls, Live)
    BY <1>1, <1>2, <1>3, <1>5, <1>6 DEF Creates
  <2> QED
    BY <2>1, Creation DEF StateOK
<1>8. NoneLost(win, appQ, v, appQ)
  BY <1>7, Zenon DEF Made, NoneLost
<1> QED
  BY <1>4, <1>7, <1>8 DEF Made, Kept, OrderKept, PaintsKept

(***************************************************************************)
(* SetParent: no window gets above itself.                                 *)
(***************************************************************************)
LEMMA SetParentKeeps ==
  ASSUME StateOK, NEW h \in Real(win), NEW p \in Real(win) \cup {Desktop}, SetParent(h, p)
  PROVE  Kept /\ PaintsKept
<1> DEFINE x == [win[h] EXCEPT !.parent = p]
           T == (Ancestors(win, p) \cup {p}) \ {Desktop}
<1>1. /\ h \in Windows /\ win[h] \in Window /\ Exists(win, h) /\ WindowsOK(win) /\ TreeOK(win)
      /\ Real(win) \subseteq Windows /\ p \in Windows \cup {Desktop}
      /\ p # h /\ h \notin Ancestors(win, p) /\ Desktop \notin Windows
  BY RealWindows, HandleAssumption DEF StateOK, SetParent
<1>2. /\ x \in Window /\ x # Absent /\ x.parent = p /\ x.frame = win[h].frame
      /\ x.client = win[h].client /\ x.dirty = win[h].dirty /\ x.visible = win[h].visible
  <2>1. x \in Window /\ x.parent = p /\ x.frame = win[h].frame
        /\ x.client = win[h].client /\ x.dirty = win[h].dirty /\ x.visible = win[h].visible
    BY <1>1 DEF Window
  <2> QED
    BY <2>1, AbsentIsNoWindow
<1> PICK v : v = win'
  OBVIOUS
<1>3. v = SetTo(win, h, x) /\ appQ' = appQ
  BY <1>1 DEF SetParent, SetTo, WindowsOK
<1> HIDE DEF x
<1>4. WindowsOK(v) /\ v[h] = x /\ \A k \in Windows \ {h} : v[k] = win[k]
  BY <1>1, <1>2, <1>3 DEF WindowsOK, SetTo
<1>5. Real(v) = Real(win)
  BY <1>1, <1>2, <1>4 DEF Real, Exists
<1>6. ParentOf(v, h) = p /\ \A k : k # h => ParentOf(v, k) = ParentOf(win, k)
  BY <1>1, <1>2, <1>4, <1>5 DEF ParentOf
<1>7. T \in SUBSET Windows /\ h \notin T /\ UpClosed(v, T) /\ ParentOf(v, h) \in T \cup {Desktop}
  <2>1. /\ Ancestors(win, p) \subseteq Windows
        /\ ParentOf(win, p) \in Ancestors(win, p) \cup {Desktop}
        /\ UpClosed(win, Ancestors(win, p))
    BY <1>1, AncestorsClosed
  <2>2. \A k \in T : ParentOf(win, k) \in T \cup {Desktop} /\ k # h
    BY <1>1, <2>1 DEF UpClosed
  <2> QED
    BY <1>1, <1>6, <2>1, <2>2 DEF UpClosed
<1>8. \A k \in Windows : k \notin Ancestors(v, k)
  <2> SUFFICES ASSUME NEW k \in Windows PROVE k \notin Ancestors(v, k)
    OBVIOUS
  <2>0. /\ Ancestors(win, k) \subseteq Windows /\ k \notin Ancestors(win, k)
        /\ ParentOf(win, k) \in Ancestors(win, k) \cup {Desktop}
        /\ UpClosed(win, Ancestors(win, k))
    BY <1>1, AncestorsClosed DEF TreeOK
  <2>1. CASE k = h
    BY <1>7, <2>1, AncestorsLeast
  <2>2. CASE k # h /\ h \notin Ancestors(win, k)
    <3>1. UpClosed(v, Ancestors(win, k)) /\ ParentOf(v, k) \in Ancestors(win, k) \cup {Desktop}
      BY <1>6, <2>0, <2>2 DEF UpClosed
    <3> QED
      BY <2>0, <3>1, AncestorsLeast
  <2>3. CASE k # h /\ h \in Ancestors(win, k)
    <3> DEFINE U == Ancestors(win, k) \cup T
    <3>1. U \in SUBSET Windows
      BY <1>7, <2>0
    <3>2. UpClosed(v, U)
      BY <1>6, <1>7, <2>0, <2>3 DEF UpClosed
    <3>3. ParentOf(v, k) \in U \cup {Desktop}
      BY <1>6, <2>0, <2>3
    <3>4. k \notin T
      <4>1. ASSUME k \in Ancestors(win, p) PROVE FALSE
        BY <1>1, <2>3, <4>1, AncestorsTransitive
      <4>2. k # p
        BY <1>1, <2>3
      <4> QED
        BY <4>1, <4>2
    <3> HIDE DEF T, U
    <3>5. Ancestors(v, k) \subseteq U
      BY <3>1, <3>2, <3>3, AncestorsLeast
    <3> QED
      BY <2>0, <3>4, <3>5 DEF U
  <2> QED
    BY <2>1, <2>2, <2>3
<1>9. TreeOK(v)
  BY <1>1, <1>2, <1>4, <1>5, <1>8 DEF TreeOK
<1>10. \A k \in Real(win) : /\ v[k].frame = win[k].frame /\ v[k].client = win[k].client
                            /\ v[k].dirty = win[k].dirty /\ v[k].visible = win[k].visible
  BY <1>1, <1>2, <1>4
<1>11. PaintsDirty(win, appQ) => PaintsDirty(v, appQ)
  <2>1. PaintsOf(appQ) \subseteq Real(win)
    BY PaintsAreReal DEF StateOK
  <2> QED
    BY <1>5, <1>10, <2>1 DEF PaintsDirty
<1>12. NoneLost(win, appQ, v, appQ)
  BY <1>5, <1>10, Zenon DEF NoneLost
<1>13. QueueOK(v, appQ)
  BY <1>5 DEF QueueOK, PaintsReal, StateOK
<1> QED
  BY <1>3, <1>4, <1>5, <1>9, <1>10, <1>11, <1>12, <1>13 DEF Remains, Kept, PaintsKept

-----------------------------------------------------------------------------
(***************************************************************************)
(* All the calls, and the other steps.                                     *)
(***************************************************************************)
Moves == \E h \in Real(win), p \in Real(win) \cup {Desktop} : SetParent(h, p)
GivenAway(h) == MarkDDrawOwned(h) /\ win' = win /\ PaintsOf(appQ') = PaintsOf(appQ) \ {h}

CallKeeps ==
  Kept /\ (OrderKept \/ Moves) /\ (PaintsKept \/ \E h \in Real(win) : GivenAway(h))

LEMMA WindowCallKeeps ==
  ASSUME StateOK, WindowCall
  PROVE  CallKeeps
<1>1. ASSUME NEW h \in Windows, NEW p \in Real(win) \cup {Desktop}, NEW visible \in BOOLEAN,
             NEW proc \in Procs[Mode], NEW client \in Hits[Mode],
             CreateWindowEx(h, p, visible, proc, client)
      PROVE  CallKeeps
  BY <1>1, CreateWindowExKeeps DEF CallKeeps
<1>2. ASSUME NEW h \in Windows, NEW p \in Real(win) \cup {Desktop}, NEW proc \in Procs[Mode],
             NEW controls \in SUBSET Windows, NEW shown \in SUBSET controls,
             CreateDialog(h, p, proc, controls, shown)
      PROVE  CallKeeps
  BY <1>2, CreateDialogKeeps DEF CallKeeps
<1>3. ASSUME NEW h \in Real(win),
             ShowWindow(h) \/ HideWindow(h) \/ DestroyWindow(h) \/ EndDialog(h)
      PROVE  CallKeeps
  BY <1>3, ShowWindowKeeps, HideWindowKeeps, DestroyWindowKeeps, EndDialogKeeps DEF CallKeeps
<1>4. ASSUME NEW h \in Real(win), NEW client \in Hits[Mode],
             NEW show \in BOOLEAN, NEW hide \in BOOLEAN, NEW redraw \in BOOLEAN,
             SetWindowPos(h, client, show, hide, redraw)
      PROVE  CallKeeps
  BY <1>4, SetWindowPosKeeps DEF CallKeeps
<1>5. ASSUME NEW h \in Real(win), NEW client \in Hits[Mode], NEW repaint \in BOOLEAN,
             MoveWindow(h, client, repaint)
      PROVE  CallKeeps
  BY <1>4, <1>5 DEF MoveWindow
<1>6. ASSUME NEW h \in Real(win), NEW proc \in Procs[Mode], SetWindowProc(h, proc)
      PROVE  CallKeeps
  BY <1>6, SetWindowProcKeeps DEF CallKeeps
<1>7. ASSUME NEW h \in Real(win), NEW p \in Real(win) \cup {Desktop}, SetParent(h, p)
      PROVE  CallKeeps
  BY <1>7, SetParentKeeps DEF CallKeeps, Moves
<1>8. ASSUME NEW h \in Real(win), MarkDDrawOwned(h)
      PROVE  CallKeeps
  BY <1>8, MarkDDrawOwnedKeeps DEF CallKeeps, GivenAway
<1> QED
  BY <1>1, <1>2, <1>3, <1>4, <1>5, <1>6, <1>7, <1>8 DEF WindowCall

LEMMA PaintCallKeeps ==
  ASSUME StateOK, PaintCall
  PROVE  CallKeeps
<1>1. ASSUME NEW h \in Real(win), NEW hits \in Hits[Mode], InvalidateRect(h, hits)
      PROVE  CallKeeps
  BY <1>1, InvalidateRectKeeps DEF CallKeeps
<1>2. ASSUME NEW h \in Real(win), NEW hits \in Hits[Mode], NEW invalidate \in BOOLEAN,
             NEW updateNow \in BOOLEAN, RedrawWindow(h, hits, invalidate, updateNow)
      PROVE  CallKeeps
  BY <1>2, RedrawWindowKeeps DEF CallKeeps
<1>3. ASSUME NEW hs, Painted(hs) PROVE CallKeeps
  BY <1>3, PaintedKeeps DEF CallKeeps
<1> QED
  BY <1>1, <1>2, <1>3
     DEF PaintCall, ValidateRect, BeginPaint, DefWindowProcPaint, ButtonPaint, ValidateAll

LEMMA GuestCallKeeps ==
  ASSUME StateOK, GuestCall
  PROVE  CallKeeps
<1>1. ASSUME NEW h \in Windows \cup {Desktop}, NEW m \in Posts[Mode], PostMessage(h, m)
      PROVE  CallKeeps
  BY <1>1, PostMessageKeeps DEF CallKeeps
<1> QED
  BY <1>1, WindowCallKeeps, PaintCallKeeps DEF GuestCall

\* The windows when a WM_PAINT of h is handed out.
Stamped(w, h, t) == [w EXCEPT ![h].frame = t]

LEMMA FrameTouches ==
  ASSUME NEW w, WindowsOK(w), NEW h \in Real(w), NEW t \in 0 .. LastToken,
         NEW v, v = Stamped(w, h, t)
  PROVE  /\ Alike(w, v) /\ v[h].frame = t
         /\ \A k \in Real(w) : /\ v[k].visible = w[k].visible /\ v[k].dirty = w[k].dirty
                               /\ v[k].client = w[k].client
                               /\ k # h => v[k] = w[k]
<1> DEFINE x == [w[h] EXCEPT !.frame = t]
<1>1. /\ h \in Windows /\ w[h] \in Window /\ Real(w) \subseteq Windows
      /\ w \in [Windows -> Window \cup {Absent}]
  BY RealWindows DEF WindowsOK
<1>2. /\ x \in Window /\ x.parent = w[h].parent /\ x.frame = t
      /\ x.client = w[h].client /\ x.dirty = w[h].dirty /\ x.visible = w[h].visible
  BY <1>1 DEF Window
<1>3. v = [w EXCEPT ![h] = x]
  BY <1>1 DEF Stamped
<1> HIDE DEF x
<1>4. v \in [Windows -> Window \cup {Absent}] /\ v[h] = x /\ \A k \in Windows \ {h} : v[k] = w[k]
  BY <1>1, <1>2, <1>3
<1>5. \A k \in Windows : k \in Real(v) <=> k \in Real(w)
  BY <1>1, <1>2, <1>4, AbsentIsNoWindow DEF Real, Exists
<1>6. Alike(w, v)
  BY <1>1, <1>2, <1>4, <1>5 DEF Alike, WindowsOK
<1> QED
  BY <1>1, <1>2, <1>4, <1>6

\* What GetMessage and PeekMessage do; n is the place of the message they hand out.
Hands(n) ==
  LET m == appQ[n]
      counted == m.msg = "PAINT" /\ token # 0
  IN  /\ n \in DOMAIN appQ /\ ~ Suppressed(m)
      /\ win' = IF counted THEN [win EXCEPT ![m.hwnd].frame = token] ELSE win
      /\ appQ' = appQ \/ (m.msg # "PAINT" /\ appQ' = RemoveAt(appQ, n))
      /\ handed' = IF counted /\ handed[m.hwnd] < 2
                   THEN [handed EXCEPT ![m.hwnd] = @ + 1] ELSE handed

LEMMA PumpCallHands ==
  ASSUME StateOK, PumpCall
  PROVE  UNCHANGED token /\ \E n : Hands(n)
<1>1. ASSUME NEW f, NEW ids, NEW remove \in BOOLEAN, Poll(f, ids, remove)
      PROVE  \E n : Hands(n)
  <2> DEFINE n == Min(Matching(f, ids))
  <2>1. Matching(f, ids) \in SUBSET Nat /\ Matching(f, ids) # {}
    <3>1. DOMAIN appQ \subseteq Nat
      BY DEF StateOK, QueueOK
    <3> QED
      BY <1>1, <3>1 DEF Poll, Matching
  <2>2. n \in Matching(f, ids)
    BY <2>1, MinIsLeast
  <2>3. n \in DOMAIN appQ /\ ~ Suppressed(appQ[n])
    BY <2>2 DEF Matching
  <2>4. appQ[n].msg = "PAINT" => appQ[n].hwnd \in Real(win)
    BY <2>3 DEF StateOK, QueueOK, PaintsReal
  <2>5. /\ win' = IF (appQ[n].msg = "PAINT" /\ token # 0) /\ appQ[n].hwnd \in Real(win)
                   THEN [win EXCEPT ![appQ[n].hwnd].frame = token] ELSE win
        /\ appQ' = IF remove /\ appQ[n].msg # "PAINT" THEN RemoveAt(appQ, n) ELSE appQ
        /\ handed' = IF (appQ[n].msg = "PAINT" /\ token # 0) /\ handed[appQ[n].hwnd] < 2
                      THEN [handed EXCEPT ![appQ[n].hwnd] = @ + 1] ELSE handed
    BY <1>1 DEF Poll
  <2> HIDE DEF n
  <2>6. appQ' = appQ \/ (appQ[n].msg # "PAINT" /\ appQ' = RemoveAt(appQ, n))
    <3>1. CASE remove /\ appQ[n].msg # "PAINT"
      BY <2>5, <3>1
    <3>2. CASE ~ (remove /\ appQ[n].msg # "PAINT")
      <4>1. appQ' = IF remove /\ appQ[n].msg # "PAINT" THEN RemoveAt(appQ, n) ELSE appQ
        BY <2>5
      <4>2. appQ' = appQ
        BY <3>2, <4>1, Zenon
      <4> QED
        BY <4>2
    <3> QED
      BY <3>1, <3>2
  <2>7. win' = IF appQ[n].msg = "PAINT" /\ token # 0
               THEN [win EXCEPT ![appQ[n].hwnd].frame = token] ELSE win
    BY <2>4, <2>5
  <2>8. Hands(n)
    BY <2>3, <2>5, <2>6, <2>7, Zenon DEF Hands
  <2> QED
    BY <2>8
<1> QED
  BY <1>1 DEF PumpCall, GetMessage, PeekMessage

LEMMA HandsKeeps ==
  ASSUME StateOK, token \in 0 .. LastToken, NEW n, Hands(n)
  PROVE  /\ WindowsOK(win') /\ TreeOK(win') /\ QueueOK(win', appQ')
         /\ OrderKept /\ PaintsKept
         /\ PaintsOf(appQ') = PaintsOf(appQ)
         /\ PaintsDirty(win, appQ) => PaintsDirty(win', appQ')
         /\ \A k \in Real(win) :
              win'[k].frame = IF token # 0 /\ appQ[n] = Paint(k) THEN token ELSE win[k].frame
<1> PICK v, r : v = win' /\ r = appQ'
  OBVIOUS
<1> DEFINE m == appQ[n]
           counted == m.msg = "PAINT" /\ token # 0
<1>0. /\ n \in DOMAIN appQ /\ m \in Message /\ (m.msg = "PAINT" => m.hwnd \in Real(win))
      /\ Real(win) \subseteq Windows
  BY RealWindows DEF Hands, StateOK, QueueOK, PaintsReal
<1>1. /\ QueueOK(win, r) /\ (Ordered(win, appQ) => Ordered(win, r))
      /\ PaintsOf(r) = PaintsOf(appQ)
  <2>1. CASE r = appQ
    BY <2>1 DEF StateOK
  <2>2. CASE m.msg # "PAINT" /\ r = RemoveAt(appQ, n)
    <3>1. /\ QueueOK(win, r) /\ (Ordered(win, appQ) => Ordered(win, r))
          /\ \A e : IsQueued(r, e) => IsQueued(appQ, e)
          /\ \A e : IsQueued(appQ, e) /\ e # m => IsQueued(r, e)
      BY <1>0, <2>2, RemoveAtKeeps DEF StateOK
    <3>2. \A k \in Windows : Paint(k) # m
      BY <2>2, PaintIsMessage
    <3> QED
      BY <3>1, <3>2, Zenon DEF PaintsOf
  <2> QED
    BY <2>1, <2>2 DEF Hands
<1>2. /\ Alike(win, v)
      /\ \A k \in Real(win) : /\ v[k].visible = win[k].visible /\ v[k].dirty = win[k].dirty
                              /\ v[k].client = win[k].client
      /\ \A k \in Real(win) :
           v[k].frame = IF token # 0 /\ m = Paint(k) THEN token ELSE win[k].frame
  <2>1. \A k \in Real(win) : m = Paint(k) <=> m.msg = "PAINT" /\ m.hwnd = k
    BY <1>0 DEF Message, Paint
  <2>2. CASE counted
    <3> PICK h : h = m.hwnd
      OBVIOUS
    <3>1. WindowsOK(win) /\ h \in Real(win)
      BY <1>0, <2>2 DEF StateOK
    <3>2. v = Stamped(win, h, token)
      BY <2>2 DEF Hands, Stamped
    <3>3. /\ Alike(win, v) /\ v[h].frame = token
          /\ \A k \in Real(win) : /\ v[k].visible = win[k].visible /\ v[k].dirty = win[k].dirty
                                  /\ v[k].client = win[k].client
                                  /\ k # h => v[k] = win[k]
      BY <3>1, <3>2, FrameTouches
    <3> QED
      BY <2>1, <2>2, <3>3
  <2>3. CASE ~ counted
    <3>1. v = win
      BY <2>3 DEF Hands
    <3> QED
      BY <2>1, <2>3, <3>1 DEF Alike, StateOK
  <2> QED
    BY <2>2, <2>3
<1>3. /\ Real(v) = Real(win) /\ WindowsOK(v) /\ TreeOK(v) /\ QueueOK(v, r)
      /\ Ordered(win, r) => Ordered(v, r)
  BY <1>1, <1>2, AlikeTree DEF StateOK
<1>4. NoneLost(win, appQ, v, r)
  BY <1>1, <1>2, <1>3, Zenon DEF NoneLost
<1>5. PaintsDirty(win, appQ) => PaintsDirty(v, r)
  <2>1. PaintsOf(appQ) \subseteq Real(win)
    BY PaintsAreReal DEF StateOK
  <2> QED
    BY <1>1, <1>2, <1>3, <2>1 DEF PaintsDirty
<1> QED
  BY <1>1, <1>2, <1>3, <1>4, <1>5 DEF OrderKept, PaintsKept

-----------------------------------------------------------------------------
(***************************************************************************)
(* The invariants of the specification.                                    *)
(***************************************************************************)
IInv ==
  /\ StateOK
  /\ token \in 0 .. LastToken
  /\ handed \in [Windows -> 0 .. 2]

LEMMA InitIInv == Init => IInv
<1> SUFFICES ASSUME Init PROVE IInv
  OBVIOUS
<1>1. WindowsOK(win) /\ Real(win) = {}
  BY DEF Init, WindowsOK, Real, Exists
<1>2. \A h : Ancestors(win, h) = {}
  <2>1. \A h : ParentOf(win, h) = Desktop
    BY <1>1 DEF ParentOf
  <2>2. {} \in SUBSET Windows /\ UpClosed(win, {})
    BY DEF UpClosed
  <2>3. ASSUME NEW h PROVE Ancestors(win, h) \subseteq {}
    <3>1. ParentOf(win, h) \in {} \cup {Desktop}
      BY <2>1
    <3> QED
      BY <2>2, <3>1, AncestorsLeast
  <2> QED
    BY <2>3
<1>3. TreeOK(win)
  BY <1>1, <1>2 DEF TreeOK
<1>4. QueueOK(win, appQ)
  BY DEF Init, QueueOK, PaintsReal
<1> QED
  BY <1>1, <1>3, <1>4, BoundAssumption DEF Init, IInv, StateOK

LEMMA TallyType ==
  ASSUME handed \in [Windows -> 0 .. 2], Tally(handed)
  PROVE  /\ handed' \in [Windows -> 0 .. 2]
         /\ \A k \in Windows : handed'[k] # 0 => handed'[k] = handed[k] /\ k \in PaintsOf(appQ')
BY DEF Tally, PaintsOf

LEMMA NextIInv ==
  ASSUME IInv, [Next]_vars
  PROVE  IInv'
<1>0. StateOK' <=> WindowsOK(win') /\ TreeOK(win') /\ QueueOK(win', appQ')
  BY DEF StateOK
<1>1. CASE GuestCall
  <2>1. Kept
    BY <1>1, GuestCallKeeps DEF IInv, CallKeeps
  <2>2. StateOK'
    BY <1>0, <2>1 DEF Kept, Remains
  <2> QED
    BY <1>1, <2>2, TallyType DEF IInv, GuestCall
<1>2. CASE PumpCall
  <2>1. PICK n : Hands(n) /\ token' = token
    BY <1>2, PumpCallHands DEF IInv
  <2>2. StateOK'
    BY <1>0, <2>1, HandsKeeps DEF IInv
  <2>3. appQ[n].msg = "PAINT" => appQ[n].hwnd \in Windows
    BY <2>1, RealWindows DEF Hands, IInv, StateOK, QueueOK, PaintsReal
  <2>4. handed' \in [Windows -> 0 .. 2]
    BY <2>1, <2>3 DEF Hands, IInv
  <2> QED
    BY <2>1, <2>2, <2>4 DEF IInv
<1>3. CASE BeginFrame
  <2>1. StateOK'
    BY <1>0, <1>3 DEF IInv, StateOK, BeginFrame
  <2> QED
    BY <1>3, <2>1, BoundAssumption DEF IInv, BeginFrame
<1>4. CASE UNCHANGED vars
  BY <1>0, <1>4 DEF IInv, StateOK, vars
<1> QED
  BY <1>1, <1>2, <1>3, <1>4 DEF Next

LEMMA AlwaysIInv == Spec => []IInv
<1> QED
  BY InitIInv, NextIInv, PTL DEF Spec

(* Windows, queue, token and tally have their types, whatever the guest    *)
(* calls and however many frames the frontend begins.                      *)
THEOREM TypeCorrect == Spec => []TypeOK
<1>1. IInv => TypeOK
  BY DEF IInv, StateOK, WindowsOK, QueueOK, TypeOK
<1> QED
  BY <1>1, AlwaysIInv, PTL

(* Once the WM_PAINTs of ancestors are in front of those of their          *)
(* descendants (queue_paint_message), only SetParent ends that.            *)
THEOREM AncestorsAlwaysFirst == Spec => AncestorsFirst
<1>1. PaintsInOrder <=> Ordered(win, appQ)
  BY DEF PaintsInOrder, Ordered
<1>2. PaintsInOrder' <=> Ordered(win', appQ')
  BY DEF PaintsInOrder, Ordered
<1>3. ASSUME IInv, [Next]_vars, PaintsInOrder
      PROVE  PaintsInOrder' \/ Moves
  <2>1. CASE GuestCall
    BY <1>1, <1>2, <1>3, <2>1, GuestCallKeeps DEF IInv, CallKeeps, OrderKept
  <2>2. CASE PumpCall
    BY <1>1, <1>2, <1>3, <2>2, PumpCallHands, HandsKeeps DEF IInv, OrderKept
  <2>3. CASE BeginFrame
    BY <1>1, <1>2, <1>3, <2>3 DEF BeginFrame
  <2>4. CASE UNCHANGED vars
    BY <1>1, <1>2, <1>3, <2>4 DEF vars
  <2> QED
    BY <1>3, <2>1, <2>2, <2>3, <2>4 DEF Next
<1>4. IInv /\ [Next]_vars
        => [PaintsInOrder => \/ PaintsInOrder'
                             \/ \E h \in Real(win), p \in Real(win) \cup {Desktop} : SetParent(h, p)]_vars
  BY <1>3 DEF Moves
<1> QED
  BY <1>4, AlwaysIInv, PTL DEF Spec, AncestorsFirst

(* A visible window with a dirty region has its WM_PAINT coming, unless it *)
(* went to DirectDraw or became dirty while it was hidden.                 *)
THEOREM PaintsNeverLost == Spec => NoLostPaint
<1> DEFINE Excused(h) == \/ Owed(h)
                         \/ Exists(win, h) /\ ~win[h].visible /\ win[h].dirty
                         \/ MarkDDrawOwned(h)
<1>1. ASSUME IInv, [Next]_vars, NEW h \in Windows, Owed(h)'
      PROVE  Excused(h)
  <2>0. WindowsOK(win)
    BY <1>1 DEF IInv, StateOK
  <2>1. Owed(h)' <=> /\ Exists(win', h) /\ win'[h].visible /\ win'[h].dirty
                     /\ h \notin PaintsOf(appQ')
    BY DEF Owed, PaintsOf
  <2>2. Owed(h) <=> /\ Exists(win, h) /\ win[h].visible /\ win[h].dirty
                    /\ h \notin PaintsOf(appQ)
    BY DEF Owed, PaintsOf
  <2>3. h \in Real(win) => Exists(win, h) /\ win[h].visible \in BOOLEAN
    BY <2>0, RealWindows DEF Window
  <2>4. ASSUME PaintsKept PROVE Excused(h)
    <3>1. h \in Real(win')
      BY <1>1, <2>1 DEF Real
    <3>2. h \in Real(win) /\ win[h].dirty /\ (win[h].visible => h \notin PaintsOf(appQ))
      BY <1>1, <2>1, <2>4, <3>1 DEF PaintsKept, NoneLost
    <3> QED
      BY <2>2, <2>3, <3>2
  <2>5. ASSUME NEW k \in Real(win), GivenAway(k) PROVE Excused(h)
    <3>1. CASE h = k
      BY <2>5, <3>1 DEF GivenAway
    <3>2. CASE h # k
      BY <1>1, <2>1, <2>2, <2>5, <3>2 DEF GivenAway
    <3> QED
      BY <3>1, <3>2
  <2>6. ASSUME win' = win, appQ' = appQ PROVE Excused(h)
    BY <1>1, <2>1, <2>2, <2>6
  <2> HIDE DEF Excused
  <2>7. CASE GuestCall
    BY <1>1, <2>4, <2>5, <2>7, GuestCallKeeps DEF IInv, CallKeeps
  <2>8. CASE PumpCall
    BY <1>1, <2>4, <2>8, PumpCallHands, HandsKeeps DEF IInv
  <2>9. CASE BeginFrame
    BY <2>6, <2>9 DEF BeginFrame
  <2>10. CASE UNCHANGED vars
    BY <2>6, <2>10 DEF vars
  <2> QED
    BY <1>1, <2>7, <2>8, <2>9, <2>10 DEF Next
<1>2. IInv /\ [Next]_vars => [\A h \in Windows : Owed(h)' => Excused(h)]_vars
  BY <1>1
<1> QED
  BY <1>2, AlwaysIInv, PTL DEF Spec, NoLostPaint

(***************************************************************************)
(* The throttle.  It sees dirty windows only, so it needs invalidations    *)
(* that reach the client area; then, with a frontend, every window with a  *)
(* WM_PAINT is dirty, and one whose WM_PAINT has been handed out carries   *)
(* the token of the frame.                                                 *)
(***************************************************************************)
ThrottleInv ==
  /\ token = 0 => \A h \in Windows : handed[h] = 0
  /\ token # 0 => PaintsDirty(win, appQ)
  /\ \A h \in Windows :
       handed[h] # 0 => handed[h] = 1 /\ h \in PaintsOf(appQ) /\ win[h].frame = token

LEMMA InitThrottle == Init => ThrottleInv
<1> SUFFICES ASSUME Init PROVE ThrottleInv
  OBVIOUS
<1>1. Real(win) = {} /\ PaintsOf(appQ) = {}
  BY DEF Init, Real, Exists, PaintsOf, IsQueued
<1> QED
  BY <1>1 DEF Init, ThrottleInv, PaintsDirty

LEMMA NextThrottle ==
  ASSUME Hits["live"] = {TRUE}, IInv, ThrottleInv, [Next]_vars
  PROVE  ThrottleInv'
<1>0. /\ PaintsOf(appQ) \subseteq Real(win) /\ Real(win) \subseteq Windows
      /\ WindowsOK(win) /\ handed \in [Windows -> 0 .. 2] /\ token \in Nat
      /\ token # 0 => Live
  <2>1. WindowsOK(win) /\ QueueOK(win, appQ) /\ handed \in [Windows -> 0 .. 2] /\ token \in Nat
    BY BoundAssumption DEF IInv, StateOK
  <2>2. token # 0 => Live
    BY DEF Live, Mode
  <2> QED
    BY <2>1, <2>2, PaintsAreReal, RealWindows
<1>1. CASE GuestCall
  <2>1. Kept /\ token' = token
    BY <1>1, GuestCallKeeps DEF IInv, CallKeeps, GuestCall
  <2>2. token' # 0 => PaintsDirty(win', appQ')
    BY <1>0, <2>1 DEF Kept, Remains, ThrottleInv
  <2>3. \A k \in Windows : handed'[k] # 0 => handed'[k] = handed[k] /\ k \in PaintsOf(appQ')
    BY <1>0, <1>1, TallyType DEF GuestCall
  <2>4. \A k \in Real(win) : win'[k].frame = win[k].frame
    BY <2>1 DEF Kept, Remains
  <2>5. \A k \in Windows : handed'[k] # 0 =>
          handed'[k] = 1 /\ k \in PaintsOf(appQ') /\ win'[k].frame = token'
    BY <1>0, <2>1, <2>3, <2>4 DEF ThrottleInv
  <2>6. token' = 0 => \A k \in Windows : handed'[k] = 0
    BY <2>1, <2>3 DEF ThrottleInv
  <2> QED
    BY <2>2, <2>5, <2>6 DEF ThrottleInv
<1>2. CASE PumpCall
  <2>1. PICK n : Hands(n) /\ token' = token
    BY <1>2, PumpCallHands DEF IInv
  <2>2. /\ PaintsOf(appQ') = PaintsOf(appQ)
        /\ PaintsDirty(win, appQ) => PaintsDirty(win', appQ')
        /\ \A k \in Real(win) :
             win'[k].frame = IF token # 0 /\ appQ[n] = Paint(k) THEN token ELSE win[k].frame
    BY <2>1, HandsKeeps DEF IInv
  <2>3. CASE appQ[n].msg = "PAINT" /\ token # 0
    <3> PICK h : h = appQ[n].hwnd
      OBVIOUS
    <3>1. /\ h \in Real(win) /\ h \in Windows /\ appQ[n] = Paint(h) /\ h \in PaintsOf(appQ)
          /\ ~ Suppressed(appQ[n])
      <4>1. n \in DOMAIN appQ /\ appQ[n] \in Message /\ h \in Real(win) /\ ~ Suppressed(appQ[n])
        BY <2>1, <2>3 DEF Hands, IInv, StateOK, QueueOK, PaintsReal
      <4>2. appQ[n] = Paint(h)
        BY <2>3, <4>1 DEF Message, Paint
      <4> QED
        BY <1>0, <4>1, <4>2 DEF PaintsOf, IsQueued
    <3>2. win[h].dirty
      BY <2>3, <3>1 DEF ThrottleInv, PaintsDirty
    <3>3. win[h].frame # token
      BY <2>3, <3>1, <3>2 DEF Suppressed
    <3>4. handed[h] = 0
      BY <3>1, <3>3 DEF ThrottleInv
    <3>5. handed' = [handed EXCEPT ![h] = 1]
      <4>1. handed' = IF handed[h] < 2 THEN [handed EXCEPT ![h] = @ + 1] ELSE handed
        BY <2>1, <2>3, Zenon DEF Hands
      <4>2. handed[h] < 2 /\ handed[h] + 1 = 1
        BY <3>4
      <4>3. handed' = [handed EXCEPT ![h] = handed[h] + 1]
        BY <4>1, <4>2
      <4> QED
        BY <4>2, <4>3
    <3>6. \A k \in Windows : k # h => handed'[k] = handed[k]
      BY <1>0, <3>5
    <3>7. handed'[h] = 1 /\ win'[h].frame = token
      BY <1>0, <2>2, <2>3, <3>1, <3>5
    <3>8. \A k \in Real(win) : k # h => win'[k].frame = win[k].frame
      BY <1>0, <2>2, <3>1, PaintIsMessage
    <3>9. \A k \in Windows : handed'[k] # 0 =>
            handed'[k] = 1 /\ k \in PaintsOf(appQ') /\ win'[k].frame = token'
      BY <1>0, <2>1, <2>2, <3>1, <3>6, <3>7, <3>8 DEF ThrottleInv
    <3> QED
      BY <2>1, <2>2, <2>3, <3>9 DEF ThrottleInv
  <2>4. CASE ~ (appQ[n].msg = "PAINT" /\ token # 0)
    <3>1. handed' = handed
      BY <2>1, <2>4 DEF Hands
    <3>2. \A k \in Real(win) : win'[k].frame = win[k].frame
      <4>1. \A k \in Windows : token # 0 => appQ[n] # Paint(k)
        BY <2>4, PaintIsMessage
      <4> QED
        BY <1>0, <2>2, <4>1
    <3>3. \A k \in Windows : handed'[k] # 0 =>
            handed'[k] = 1 /\ k \in PaintsOf(appQ') /\ win'[k].frame = token'
      BY <1>0, <2>1, <2>2, <3>1, <3>2 DEF ThrottleInv
    <3> QED
      BY <2>1, <2>2, <3>1, <3>3 DEF ThrottleInv
  <2> QED
    BY <2>3, <2>4
<1>3. CASE BeginFrame
  <2>1. \A h \in Windows : handed'[h] = 0
    BY <1>3 DEF BeginFrame
  <2>2. win' = win /\ appQ' = appQ /\ token # 0
    BY <1>3 DEF BeginFrame
  <2> QED
    BY <2>1, <2>2 DEF ThrottleInv
<1>4. CASE UNCHANGED vars
  BY <1>4 DEF ThrottleInv, vars
<1> QED
  BY <1>1, <1>2, <1>3, <1>4 DEF Next

(* Where every invalidation reaches the client area, one generated         *)
(* WM_PAINT reaches the guest at most once a frame (Hle::begin_frame).     *)
THEOREM PaintsAlwaysThrottled ==
  Hits["live"] = {TRUE} => (Spec => []PaintThrottled)
<1> SUFFICES ASSUME Hits["live"] = {TRUE} PROVE Spec => []PaintThrottled
  OBVIOUS
<1>1. ThrottleInv /\ IInv => PaintThrottled
  BY DEF ThrottleInv, IInv, PaintThrottled
<1>2. ThrottleInv /\ IInv /\ [Next]_vars => ThrottleInv'
  BY NextThrottle
<1> QED
  BY <1>1, <1>2, InitThrottle, AlwaysIInv, PTL DEF Spec
=============================================================================
