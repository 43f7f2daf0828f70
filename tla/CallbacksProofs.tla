--------------------------- MODULE CallbacksProofs ---------------------------
(***************************************************************************)
(* Proofs about Callbacks: every call returns to its caller, owns what it  *)
(* made for drawing, and delivers the messages it promises, for every      *)
(* guest, however many windows it has and however deep its calls nest.     *)
(***************************************************************************)
EXTENDS Callbacks, DataLemmas, FiniteSetTheorems, TLAPS

-----------------------------------------------------------------------------
(***************************************************************************)
(* What the stack looks like.  A word is an argument, a return address -   *)
(* of a guest body or the thunk's - or a word that a body keeps there.     *)
(***************************************************************************)
Word == {Arg, Thunk} \cup ({"ret"} \X Nat) \cup ({"local"} \X Nat)

IsRet(w)  == w[1] = "ret"
IsAddr(w) == IsRet(w) \/ w = Thunk

\* Nothing but arguments lies between s and p.
Reaches(stk, p, s) ==
  /\ s \in 1 .. p - 1
  /\ stk[s] # Arg
  /\ \A q \in s + 1 .. p - 1 : stk[q] = Arg

\* The return address of an API call: no arguments are below it.
Bare(stk, p) == p \in 2 .. Len(stk) /\ IsAddr(stk[p]) /\ stk[p - 1] # Arg

\* A procedure's return address, and as many arguments as it pops.
Base(stk, b, pops) ==
  /\ b \in 1 .. Len(stk) /\ pops \in Nat \ {0}
  /\ IsAddr(stk[b])
  /\ Reaches(stk, b, b - 1 - pops)

(* What the first n activations left on the stack.  A guest body keeps its *)
(* own word on top of a return address; a button that asked its painter to *)
(* draw has left a bare return address, moved down by its four arguments.  *)
GuestKept(stk, a, k) ==
  /\ a.sp \in 1 .. Len(stk)
  /\ stk[a.sp] = Local(k)
  /\ k > 1 => Base(stk, a.sp - 1, a.pops)

ButtonKept(stk, a) ==
  /\ a.sp \in Nat
  /\ Bare(stk, a.sp - 4)

RetKept(stk, ac, n, p) ==
  /\ stk[p][2] \in 1 .. n
  /\ ac[stk[p][2]].own = 1
  /\ Reaches(stk, p, ac[stk[p][2]].sp)

ThunkKept(stk, ac, n, p) ==
  /\ \E s \in 1 .. p - 1 : Reaches(stk, p, s) /\ Bare(stk, s)
  /\ Bare(stk, p) => \E m \in 1 .. n : ac[m].own = 0 /\ ac[m].sp = p + 4

GuestsKept(stk, ac, n)  == \A k \in 1 .. n : ac[k].own = 1 => GuestKept(stk, ac[k], k)
ButtonsKept(stk, ac, n) == \A k \in 1 .. n : ac[k].own = 0 => ButtonKept(stk, ac[k])
RetsKept(stk, ac, n)    == \A p \in DOMAIN stk : IsRet(stk[p]) => RetKept(stk, ac, n, p)
ThunksKept(stk, ac, n)  == \A p \in DOMAIN stk : stk[p] = Thunk => ThunkKept(stk, ac, n, p)

Rising(ac, n) ==
  /\ \A k \in 1 .. n : ac[k].own \in {0, 1}
  /\ \A j, k \in 1 .. n : j < k => ac[j].sp < ac[k].sp
  /\ \A j, k \in 1 .. n : j < k /\ ac[j].own = 1 /\ ac[k].own = 0 => ac[j].sp < ac[k].sp - 4
  /\ ac[1].own = 1

Laid(stk, ac, n) ==
  /\ stk \in Seq(Word)
  /\ n \in Nat \ {0}
  /\ Rising(ac, n)
  /\ GuestsKept(stk, ac, n)
  /\ ButtonsKept(stk, ac, n)
  /\ RetsKept(stk, ac, n)
  /\ ThunksKept(stk, ac, n)

\* Where control is: in a guest body, in a button, or in the thunk.
InBody(e, stk, ac) ==
  /\ e = Ret(Len(ac))
  /\ Laid(stk, ac, Len(ac))
  /\ ac[Len(ac)].own = 1 /\ ac[Len(ac)].sp = Len(stk)

InButton(e, stk, ac) ==
  /\ e = Button /\ Len(ac) > 1
  /\ Laid(stk, ac, Len(ac) - 1)
  /\ ac[Len(ac)].own = 0 /\ ac[Len(ac)].sp = Len(stk) /\ ac[Len(ac)].pops = 4
  /\ Base(stk, Len(stk), 4)
  /\ \A k \in 1 .. Len(ac) - 1 : ac[k].sp < Len(stk)

InThunk(e, stk, ac) ==
  /\ e = Thunk /\ Len(ac) > 1
  /\ Laid(stk, ac, Len(ac) - 1)
  /\ Bare(stk, Len(stk))

IsSeq(s) == \E S : s \in Seq(S)

Placing(e, stk, ac) == InBody(e, stk, ac) \/ InButton(e, stk, ac) \/ InThunk(e, stk, ac)

LaidInv == IsSeq(acts) /\ Placing(eip, stack, acts)

(* The hypothesis of the theorem: no guest makes dialogs under a hook,     *)
(* whose frame is laid out for another call (run dialog_hook).             *)
NoHookedDialogs ==
  \A g \in Guests : "dialog" \in g.calls => ~g.hooked /\ "hook" \notin g.calls

HookInv == guest \in Guests /\ ("dialog" \in guest.calls => ~hooked)

-----------------------------------------------------------------------------
(***************************************************************************)
(* Words and positions.                                                    *)
(***************************************************************************)
LEMMA Words ==
  /\ Arg \in Word /\ Thunk \in Word /\ Arg # Thunk
  /\ ~IsAddr(Arg) /\ IsAddr(Thunk) /\ ~IsRet(Thunk)
  /\ Button # Thunk /\ ~IsRet(Button) /\ Button[1] = "button" /\ Thunk[1] = "async"
  /\ \A k \in Nat : /\ Ret(k) \in Word /\ IsRet(Ret(k)) /\ IsAddr(Ret(k)) /\ Ret(k)[2] = k
                    /\ Ret(k) # Thunk /\ Ret(k) # Arg /\ Ret(k) # Button /\ Ret(k)[1] = "ret"
                    /\ Local(k) \in Word /\ Local(k) # Arg /\ Local(k) # Thunk
                    /\ ~IsRet(Local(k)) /\ ~IsAddr(Local(k))
  /\ \A w \in Word : IsRet(w) => w[2] \in Nat /\ w = Ret(w[2])
  /\ \A w \in Word : IsAddr(w) => w # Arg
  BY DEF Word, IsAddr, IsRet, Arg, Thunk, Button, Ret, Local

\* A position is reached from one place only.
LEMMA ReachesOnce ==
  ASSUME NEW stk, NEW p \in Nat, NEW s, NEW t, Reaches(stk, p, s), Reaches(stk, p, t)
  PROVE  s = t
  BY DEF Reaches

\* Reaching depends on the words below.
LEMMA ReachesSame ==
  ASSUME NEW stk, NEW new, NEW p \in Nat, \A q \in 1 .. p - 1 : new[q] = stk[q], NEW s
  PROVE  Reaches(new, p, s) <=> Reaches(stk, p, s)
  BY DEF Reaches

\* Two stacks have the same words up to p.
Alike(stk, new, p) ==
  /\ p \in Nat /\ p <= Len(stk) /\ p <= Len(new)
  /\ Len(stk) \in Nat /\ Len(new) \in Nat
  /\ \A q \in 1 .. p : new[q] = stk[q]

LEMMA BareSame ==
  ASSUME NEW stk, NEW new, NEW p, Alike(stk, new, p)
  PROVE  Bare(new, p) <=> Bare(stk, p)
<1>1. p \in Nat /\ Len(stk) \in Nat /\ Len(new) \in Nat
      /\ p \in 2 .. Len(stk) <=> p \in 2 .. Len(new)
  BY DEF Alike
<1>2. p \in 2 .. Len(stk) => p \in 1 .. p /\ p - 1 \in 1 .. p
  BY <1>1
<1>3. p \in 2 .. Len(stk) => new[p] = stk[p] /\ new[p - 1] = stk[p - 1]
  BY <1>2 DEF Alike
<1> QED
  BY <1>1, <1>3 DEF Bare

LEMMA BaseSame ==
  ASSUME NEW stk, NEW new, NEW p, Alike(stk, new, p), NEW pops, Base(stk, p, pops)
  PROVE  Base(new, p, pops)
<1>1. p \in 1 .. Len(new) /\ p \in Nat /\ new[p] = stk[p]
  BY DEF Alike, Base
<1>2. \A q \in 1 .. p - 1 : new[q] = stk[q]
  <2>1. \A q \in 1 .. p - 1 : q \in 1 .. p
    BY <1>1
  <2> QED
    BY <2>1 DEF Alike
<1>3. Reaches(new, p, p - 1 - pops) <=> Reaches(stk, p, p - 1 - pops)
  BY <1>1, <1>2, ReachesSame
<1> QED
  BY <1>1, <1>2, <1>3 DEF Base

-----------------------------------------------------------------------------
(***************************************************************************)
(* The stack is cut off: the activations 1..j stay, the stack ends at L.   *)
(***************************************************************************)
LEMMA CutRising ==
  ASSUME NEW ac, NEW n \in Nat, Rising(ac, n), NEW j \in 1 .. n,
         NEW bs, \A k \in 1 .. j : bs[k] = ac[k]
  PROVE  Rising(bs, j)
<1>1. \A k \in 1 .. j : k \in 1 .. n /\ bs[k] = ac[k]
  OBVIOUS
<1> QED
  BY <1>1 DEF Rising

LEMMA CutGuests ==
  ASSUME NEW stk \in Seq(Word), NEW ac, NEW n \in Nat, GuestsKept(stk, ac, n),
         NEW new \in Seq(Word), Len(new) <= Len(stk),
         \A q \in 1 .. Len(new) : new[q] = stk[q],
         NEW j \in 1 .. n, NEW bs, \A k \in 1 .. j : bs[k] = ac[k],
         \A k \in 1 .. j : ac[k].own = 1 => ac[k].sp <= Len(new)
  PROVE  GuestsKept(new, bs, j)
<1> SUFFICES ASSUME NEW k \in 1 .. j, bs[k].own = 1
             PROVE  /\ bs[k].sp \in 1 .. Len(new) /\ new[bs[k].sp] = Local(k)
                    /\ k > 1 => Base(new, bs[k].sp - 1, bs[k].pops)
  BY DEF GuestsKept, GuestKept
<1>1. k \in 1 .. n /\ bs[k] = ac[k] /\ ac[k].own = 1 /\ ac[k].sp <= Len(new)
  OBVIOUS
<1> PICK sp : sp = ac[k].sp
  OBVIOUS
<1>2. sp \in 1 .. Len(stk) /\ stk[sp] = Local(k) /\ (k > 1 => Base(stk, sp - 1, ac[k].pops))
  BY <1>1 DEF GuestsKept, GuestKept
<1>3. sp \in 1 .. Len(new) /\ sp - 1 \in Nat /\ sp - 1 <= Len(new) /\ sp - 1 <= Len(stk)
  BY <1>1, <1>2
<1>4. Alike(stk, new, sp - 1)
  <2>1. \A q \in 1 .. sp - 1 : q \in 1 .. Len(new)
    BY <1>3
  <2> QED
    BY <1>3, <2>1 DEF Alike
<1>5. Base(stk, sp - 1, ac[k].pops) => Base(new, sp - 1, ac[k].pops)
  BY <1>4, BaseSame
<1> QED
  BY <1>1, <1>2, <1>3, <1>5

LEMMA CutButtons ==
  ASSUME NEW stk \in Seq(Word), NEW ac, NEW n \in Nat, ButtonsKept(stk, ac, n),
         NEW new \in Seq(Word), Len(new) <= Len(stk),
         \A q \in 1 .. Len(new) : new[q] = stk[q],
         NEW j \in 1 .. n, NEW bs, \A k \in 1 .. j : bs[k] = ac[k],
         \A k \in 1 .. j : ac[k].own = 0 => ac[k].sp - 4 <= Len(new)
  PROVE  ButtonsKept(new, bs, j)
<1> SUFFICES ASSUME NEW k \in 1 .. j, bs[k].own = 0
             PROVE  bs[k].sp \in Nat /\ Bare(new, bs[k].sp - 4)
  BY DEF ButtonsKept, ButtonKept
<1>1. k \in 1 .. n /\ bs[k] = ac[k] /\ ac[k].own = 0 /\ ac[k].sp - 4 <= Len(new)
  OBVIOUS
<1> PICK sp : sp = ac[k].sp
  OBVIOUS
<1>2. sp \in Nat /\ Bare(stk, sp - 4)
  BY <1>1 DEF ButtonsKept, ButtonKept
<1>3. sp - 4 \in Nat /\ sp - 4 >= 2 /\ sp - 4 <= Len(new) /\ sp - 4 <= Len(stk)
  BY <1>1, <1>2 DEF Bare
<1>4. Alike(stk, new, sp - 4)
  <2>1. \A q \in 1 .. sp - 4 : q \in 1 .. Len(new)
    BY <1>3
  <2> QED
    BY <1>3, <2>1 DEF Alike
<1>5. Bare(new, sp - 4)
  BY <1>2, <1>4, BareSame
<1> QED
  BY <1>1, <1>2, <1>5

LEMMA CutRets ==
  ASSUME NEW stk \in Seq(Word), NEW ac, NEW n \in Nat, RetsKept(stk, ac, n),
         NEW new \in Seq(Word), Len(new) <= Len(stk),
         \A q \in 1 .. Len(new) : new[q] = stk[q],
         NEW j \in 1 .. n, NEW bs, \A k \in 1 .. j : bs[k] = ac[k],
         \A p \in 1 .. Len(new) : IsRet(stk[p]) => stk[p][2] <= j
  PROVE  RetsKept(new, bs, j)
<1> SUFFICES ASSUME NEW p \in 1 .. Len(new), IsRet(new[p])
             PROVE  /\ new[p][2] \in 1 .. j /\ bs[new[p][2]].own = 1
                    /\ Reaches(new, p, bs[new[p][2]].sp)
  BY DEF RetsKept, RetKept
<1> PICK i : i = stk[p][2]
  OBVIOUS
<1>1. new[p] = stk[p] /\ p \in DOMAIN stk /\ p \in Nat /\ i <= j
  OBVIOUS
<1>2. i \in 1 .. n /\ ac[i].own = 1 /\ Reaches(stk, p, ac[i].sp)
  BY <1>1 DEF RetsKept, RetKept
<1>3. i \in 1 .. j /\ bs[i] = ac[i]
  BY <1>1, <1>2
<1>4. \A q \in 1 .. p - 1 : new[q] = stk[q]
  BY <1>1
<1>5. Reaches(new, p, ac[i].sp)
  BY <1>1, <1>2, <1>4, ReachesSame
<1> QED
  BY <1>1, <1>2, <1>3, <1>5

\* The condition on a thunk's return address looks at the words up to it only.
LEMMA ThunkSame ==
  ASSUME NEW stk \in Seq(Word), NEW new \in Seq(Word), NEW p \in Nat, p <= Len(stk), p <= Len(new),
         \A q \in 1 .. p : new[q] = stk[q],
         \E s \in 1 .. p - 1 : Reaches(stk, p, s) /\ Bare(stk, s)
  PROVE  \E s \in 1 .. p - 1 : Reaches(new, p, s) /\ Bare(new, s)
<1> PICK s \in 1 .. p - 1 : Reaches(stk, p, s) /\ Bare(stk, s)
  OBVIOUS
<1>1. Reaches(new, p, s)
  <2>1. \A q \in 1 .. p - 1 : new[q] = stk[q]
    OBVIOUS
  <2> QED
    BY <2>1, ReachesSame
<1>2. Bare(new, s)
  <2>1. s \in Nat /\ s <= Len(stk) /\ s <= Len(new) /\ \A q \in 1 .. s : new[q] = stk[q]
    OBVIOUS
  <2>2. Alike(stk, new, s)
    BY <2>1 DEF Alike
  <2> QED
    BY <2>2, BareSame
<1> QED
  BY <1>1, <1>2

LEMMA CutThunks ==
  ASSUME NEW stk \in Seq(Word), NEW ac, NEW n \in Nat, ThunksKept(stk, ac, n),
         NEW new \in Seq(Word), Len(new) <= Len(stk),
         \A q \in 1 .. Len(new) : new[q] = stk[q],
         NEW j \in 1 .. n, NEW bs, \A k \in 1 .. j : bs[k] = ac[k],
         \A p \in 1 .. Len(new), m \in 1 .. n :
           stk[p] = Thunk /\ ac[m].own = 0 /\ ac[m].sp = p + 4 => m <= j
  PROVE  ThunksKept(new, bs, j)
<1> SUFFICES ASSUME NEW p \in 1 .. Len(new), new[p] = Thunk
             PROVE  /\ \E s \in 1 .. p - 1 : Reaches(new, p, s) /\ Bare(new, s)
                    /\ Bare(new, p) => \E m \in 1 .. j : bs[m].own = 0 /\ bs[m].sp = p + 4
  BY DEF ThunksKept, ThunkKept
<1>1. stk[p] = Thunk /\ p \in DOMAIN stk /\ p \in Nat /\ p <= Len(stk) /\ p <= Len(new)
  OBVIOUS
<1>2. \A q \in 1 .. p : new[q] = stk[q]
  BY <1>1
<1>3. /\ \E s \in 1 .. p - 1 : Reaches(stk, p, s) /\ Bare(stk, s)
      /\ Bare(stk, p) => \E m \in 1 .. n : ac[m].own = 0 /\ ac[m].sp = p + 4
  BY <1>1 DEF ThunksKept, ThunkKept
<1>4. \E s \in 1 .. p - 1 : Reaches(new, p, s) /\ Bare(new, s)
  BY <1>1, <1>2, <1>3, ThunkSame
<1>5. ASSUME Bare(new, p) PROVE \E m \in 1 .. j : bs[m].own = 0 /\ bs[m].sp = p + 4
  <2>1. Bare(stk, p)
    <3>1. Alike(stk, new, p)
      BY <1>1, <1>2 DEF Alike
    <3> QED
      BY <1>5, <3>1, BareSame
  <2>2. PICK m \in 1 .. n : ac[m].own = 0 /\ ac[m].sp = p + 4
    BY <1>3, <2>1
  <2>3. m \in 1 .. j
    <3>1. m <= j
      BY <1>1, <2>2
    <3> QED
      BY <3>1
  <2> QED
    BY <2>2, <2>3
<1> QED
  BY <1>4, <1>5

\* Where the stack may be cut: at l, for the activations 1..j.
Cuts(stk, ac, n, l, j) ==
  /\ \A k \in 1 .. j : ac[k].own = 1 => ac[k].sp <= l
  /\ \A k \in 1 .. j : ac[k].own = 0 => ac[k].sp - 4 <= l
  /\ \A p \in 1 .. l : IsRet(stk[p]) => stk[p][2] <= j
  /\ \A p \in 1 .. l, m \in 1 .. n :
       stk[p] = Thunk /\ ac[m].own = 0 /\ ac[m].sp = p + 4 => m <= j

LEMMA Cut ==
  ASSUME NEW stk, NEW ac, NEW n, Laid(stk, ac, n),
         NEW new \in Seq(Word), Len(new) <= Len(stk),
         \A q \in 1 .. Len(new) : new[q] = stk[q],
         NEW j \in 1 .. n, NEW bs, \A k \in 1 .. j : bs[k] = ac[k],
         Cuts(stk, ac, n, Len(new), j)
  PROVE  Laid(new, bs, j)
<1>1. stk \in Seq(Word) /\ n \in Nat
  BY DEF Laid
<1>2. Rising(bs, j)
  BY <1>1, CutRising DEF Laid
<1>3. GuestsKept(new, bs, j)
  BY <1>1, CutGuests DEF Laid, Cuts
<1>4. ButtonsKept(new, bs, j)
  BY <1>1, CutButtons DEF Laid, Cuts
<1>5. RetsKept(new, bs, j)
  <2>1. RetsKept(stk, ac, n) /\ \A p \in 1 .. Len(new) : IsRet(stk[p]) => stk[p][2] <= j
    BY DEF Laid, Cuts
  <2> QED
    BY <1>1, <2>1, CutRets
<1>6. ThunksKept(new, bs, j)
  BY <1>1, CutThunks DEF Laid, Cuts
<1> QED
  BY <1>1, <1>2, <1>3, <1>4, <1>5, <1>6 DEF Laid

-----------------------------------------------------------------------------
(***************************************************************************)
(* The stack grows, and with it, by one at most, the activations.          *)
(***************************************************************************)
LEMMA GrowGuests ==
  ASSUME NEW stk \in Seq(Word), NEW ac, NEW n \in Nat, GuestsKept(stk, ac, n),
         NEW new \in Seq(Word), Len(stk) <= Len(new),
         \A q \in 1 .. Len(stk) : new[q] = stk[q],
         NEW j \in n .. n + 1, NEW bs, \A k \in 1 .. n : bs[k] = ac[k],
         j = n + 1 /\ bs[j].own = 1 => GuestKept(new, bs[j], j)
  PROVE  GuestsKept(new, bs, j)
<1> SUFFICES ASSUME NEW k \in 1 .. j, bs[k].own = 1 PROVE GuestKept(new, bs[k], k)
  BY DEF GuestsKept
<1>1. CASE k = n + 1
  <2>1. j = n + 1
    BY <1>1
  <2> QED
    BY <1>1, <2>1
<1>2. CASE k # n + 1
  <2>1. k \in 1 .. n
    BY <1>2
  <2>2. bs[k] = ac[k] /\ GuestKept(stk, ac[k], k)
    BY <2>1 DEF GuestsKept
  <2> PICK sp, pops : sp = ac[k].sp /\ pops = ac[k].pops
    OBVIOUS
  <2>3. sp \in 1 .. Len(stk) /\ stk[sp] = Local(k) /\ (k > 1 => Base(stk, sp - 1, pops))
    BY <2>2 DEF GuestKept
  <2>4. sp \in 1 .. Len(new) /\ new[sp] = stk[sp]
        /\ sp - 1 \in Nat /\ sp - 1 <= Len(new) /\ sp - 1 <= Len(stk)
    <3>1. sp \in 1 .. Len(new)
      BY <2>3
    <3>2. sp - 1 \in Nat /\ sp - 1 <= Len(new) /\ sp - 1 <= Len(stk)
      BY <2>3
    <3>3. new[sp] = stk[sp]
      BY <2>3
    <3> QED
      BY <3>1, <3>2, <3>3
  <2>5. Alike(stk, new, sp - 1)
    <3>1. \A q \in 1 .. sp - 1 : q \in 1 .. Len(stk)
      BY <2>4
    <3> QED
      BY <2>4, <3>1 DEF Alike
  <2>6. Base(stk, sp - 1, pops) => Base(new, sp - 1, pops)
    BY <2>5, BaseSame
  <2> QED
    BY <2>2, <2>3, <2>4, <2>6 DEF GuestKept
<1> QED
  BY <1>1, <1>2

LEMMA GrowButtons ==
  ASSUME NEW stk \in Seq(Word), NEW ac, NEW n \in Nat, ButtonsKept(stk, ac, n),
         NEW new \in Seq(Word), Len(stk) <= Len(new),
         \A q \in 1 .. Len(stk) : new[q] = stk[q],
         NEW j \in n .. n + 1, NEW bs, \A k \in 1 .. n : bs[k] = ac[k],
         j = n + 1 /\ bs[j].own = 0 => ButtonKept(new, bs[j])
  PROVE  ButtonsKept(new, bs, j)
<1> SUFFICES ASSUME NEW k \in 1 .. j, bs[k].own = 0 PROVE ButtonKept(new, bs[k])
  BY DEF ButtonsKept
<1>1. CASE k = n + 1
  <2>1. j = n + 1
    BY <1>1
  <2> QED
    BY <1>1, <2>1
<1>2. CASE k # n + 1
  <2>1. k \in 1 .. n
    BY <1>2
  <2>2. bs[k] = ac[k] /\ ButtonKept(stk, ac[k]) /\ ac[k].own = 0
    BY <2>1 DEF ButtonsKept
  <2> PICK sp : sp = ac[k].sp
    OBVIOUS
  <2>3. sp \in Nat /\ Bare(stk, sp - 4)
    BY <2>2 DEF ButtonKept
  <2>4. sp - 4 \in Nat /\ sp - 4 >= 2 /\ sp - 4 <= Len(stk) /\ sp - 4 <= Len(new)
    <3>1. sp - 4 \in 2 .. Len(stk) /\ Len(stk) \in Nat /\ Len(new) \in Nat
      BY <2>3 DEF Bare
    <3> QED
      BY <3>1
  <2>5. Alike(stk, new, sp - 4)
    <3>1. \A q \in 1 .. sp - 4 : q \in 1 .. Len(stk)
      BY <2>4
    <3> QED
      BY <2>4, <3>1 DEF Alike
  <2>6. Bare(new, sp - 4)
    BY <2>3, <2>5, BareSame
  <2> QED
    BY <2>2, <2>3, <2>6 DEF ButtonKept
<1> QED
  BY <1>1, <1>2

LEMMA GrowRets ==
  ASSUME NEW stk \in Seq(Word), NEW ac, NEW n \in Nat, RetsKept(stk, ac, n),
         NEW new \in Seq(Word), Len(stk) <= Len(new),
         \A q \in 1 .. Len(stk) : new[q] = stk[q],
         NEW j \in n .. n + 1, NEW bs, \A k \in 1 .. n : bs[k] = ac[k],
         \A p \in Len(stk) + 1 .. Len(new) : IsRet(new[p]) => RetKept(new, bs, j, p)
  PROVE  RetsKept(new, bs, j)
<1> SUFFICES ASSUME NEW p \in 1 .. Len(new), IsRet(new[p]) PROVE RetKept(new, bs, j, p)
  BY DEF RetsKept
<1>1. CASE p \in 1 .. Len(stk)
  <2> PICK i : i = stk[p][2]
    OBVIOUS
  <2>1. new[p] = stk[p] /\ p \in DOMAIN stk
    BY <1>1
  <2>2. i \in 1 .. n /\ ac[i].own = 1 /\ Reaches(stk, p, ac[i].sp)
    BY <2>1 DEF RetsKept, RetKept
  <2>3. i \in 1 .. j /\ bs[i] = ac[i]
    BY <2>2
  <2>4. \A q \in 1 .. p - 1 : new[q] = stk[q]
    BY <1>1
  <2>5. Reaches(new, p, ac[i].sp)
    BY <2>2, <2>4, ReachesSame
  <2> QED
    BY <2>1, <2>2, <2>3, <2>5 DEF RetKept
<1>2. CASE p \in Len(stk) + 1 .. Len(new)
  BY <1>2
<1> QED
  BY <1>1, <1>2

LEMMA GrowThunks ==
  ASSUME NEW stk \in Seq(Word), NEW ac, NEW n \in Nat, ThunksKept(stk, ac, n),
         NEW new \in Seq(Word), Len(stk) <= Len(new),
         \A q \in 1 .. Len(stk) : new[q] = stk[q],
         NEW j \in n .. n + 1, NEW bs, \A k \in 1 .. n : bs[k] = ac[k],
         \A p \in Len(stk) + 1 .. Len(new) : new[p] = Thunk => ThunkKept(new, bs, j, p)
  PROVE  ThunksKept(new, bs, j)
<1> SUFFICES ASSUME NEW p \in 1 .. Len(new), new[p] = Thunk PROVE ThunkKept(new, bs, j, p)
  BY DEF ThunksKept
<1>1. CASE p \in 1 .. Len(stk)
  <2>1. stk[p] = Thunk /\ p \in DOMAIN stk /\ p \in Nat /\ p <= Len(stk) /\ p <= Len(new)
    BY <1>1
  <2>2. \A q \in 1 .. p : new[q] = stk[q]
    BY <2>1
  <2>3. /\ \E s \in 1 .. p - 1 : Reaches(stk, p, s) /\ Bare(stk, s)
        /\ Bare(stk, p) => \E m \in 1 .. n : ac[m].own = 0 /\ ac[m].sp = p + 4
    BY <2>1 DEF ThunksKept, ThunkKept
  <2>4. \E s \in 1 .. p - 1 : Reaches(new, p, s) /\ Bare(new, s)
    BY <2>1, <2>2, <2>3, ThunkSame
  <2>5. ASSUME Bare(new, p) PROVE \E m \in 1 .. j : bs[m].own = 0 /\ bs[m].sp = p + 4
    <3>1. Bare(stk, p)
      <4>1. Alike(stk, new, p)
        BY <2>1, <2>2 DEF Alike
      <4> QED
        BY <2>5, <4>1, BareSame
    <3>2. PICK m \in 1 .. n : ac[m].own = 0 /\ ac[m].sp = p + 4
      BY <2>3, <3>1
    <3>3. m \in 1 .. j /\ bs[m] = ac[m]
      BY <3>2
    <3> QED
      BY <3>2, <3>3
  <2> QED
    BY <2>4, <2>5 DEF ThunkKept
<1>2. CASE p \in Len(stk) + 1 .. Len(new)
  BY <1>2
<1> QED
  BY <1>1, <1>2

LEMMA GrowRising ==
  ASSUME NEW ac, NEW n \in Nat \ {0}, Rising(ac, n),
         NEW j \in n .. n + 1, NEW bs, \A k \in 1 .. n : bs[k] = ac[k],
         j = n + 1 => /\ bs[j].own \in {0, 1}
                      /\ \A k \in 1 .. n : ac[k].sp < bs[j].sp
                      /\ bs[j].own = 0 => \A k \in 1 .. n : ac[k].own = 1 => ac[k].sp < bs[j].sp - 4
  PROVE  Rising(bs, j)
<1>1. CASE j = n
  BY <1>1 DEF Rising
<1>2. CASE j = n + 1
  <2>1. \A k \in 1 .. j : k \in 1 .. n \/ k = n + 1
    BY <1>2
  <2>2. \A k \in 1 .. j : bs[k].own \in {0, 1}
    BY <1>2, <2>1 DEF Rising
  <2>3. ASSUME NEW i \in 1 .. j, NEW k \in 1 .. j, i < k PROVE bs[i].sp < bs[k].sp
    <3>1. i \in 1 .. n
      BY <1>2, <2>3
    <3>2. CASE k \in 1 .. n
      BY <2>3, <3>1, <3>2 DEF Rising
    <3>3. CASE k = n + 1
      BY <1>2, <3>1, <3>3
    <3> QED
      BY <2>1, <3>2, <3>3
  <2>4. ASSUME NEW i \in 1 .. j, NEW k \in 1 .. j, i < k, bs[i].own = 1, bs[k].own = 0
        PROVE  bs[i].sp < bs[k].sp - 4
    <3>1. i \in 1 .. n
      BY <1>2, <2>4
    <3>2. CASE k \in 1 .. n
      BY <2>4, <3>1, <3>2 DEF Rising
    <3>3. CASE k = n + 1
      BY <1>2, <2>4, <3>1, <3>3
    <3> QED
      BY <2>1, <3>2, <3>3
  <2>5. bs[1].own = 1
    <3>1. 1 \in 1 .. n
      OBVIOUS
    <3> QED
      BY <3>1 DEF Rising
  <2> QED
    BY <2>2, <2>3, <2>4, <2>5 DEF Rising
<1> QED
  BY <1>1, <1>2

LEMMA Grow ==
  ASSUME NEW stk, NEW ac, NEW n, Laid(stk, ac, n),
         NEW new \in Seq(Word), Len(stk) <= Len(new),
         \A q \in 1 .. Len(stk) : new[q] = stk[q],
         NEW j \in n .. n + 1, NEW bs, \A k \in 1 .. n : bs[k] = ac[k],
         j = n + 1 => /\ bs[j].own \in {0, 1}
                      /\ \A k \in 1 .. n : ac[k].sp < bs[j].sp
                      /\ bs[j].own = 0 => \A k \in 1 .. n : ac[k].own = 1 => ac[k].sp < bs[j].sp - 4
                      /\ bs[j].own = 1 => GuestKept(new, bs[j], j)
                      /\ bs[j].own = 0 => ButtonKept(new, bs[j]),
         \A p \in Len(stk) + 1 .. Len(new) : IsRet(new[p]) => RetKept(new, bs, j, p),
         \A p \in Len(stk) + 1 .. Len(new) : new[p] = Thunk => ThunkKept(new, bs, j, p)
  PROVE  Laid(new, bs, j)
<1>1. stk \in Seq(Word) /\ n \in Nat \ {0}
  BY DEF Laid
<1>2. Rising(bs, j)
  BY <1>1, GrowRising DEF Laid
<1>3. GuestsKept(new, bs, j)
  BY <1>1, GrowGuests DEF Laid
<1>4. ButtonsKept(new, bs, j)
  BY <1>1, GrowButtons DEF Laid
<1>5. RetsKept(new, bs, j)
  BY <1>1, GrowRets DEF Laid
<1>6. ThunksKept(new, bs, j)
  BY <1>1, GrowThunks DEF Laid
<1> QED
  BY <1>1, <1>2, <1>3, <1>4, <1>5, <1>6 DEF Laid

\* The stack grows, the activations stay.
Extends(stk, ac, n, new) ==
  /\ new \in Seq(Word) /\ Len(stk) <= Len(new)
  /\ \A q \in 1 .. Len(stk) : new[q] = stk[q]
  /\ \A p \in Len(stk) + 1 .. Len(new) : IsRet(new[p]) => RetKept(new, ac, n, p)
  /\ \A p \in Len(stk) + 1 .. Len(new) : new[p] = Thunk => ThunkKept(new, ac, n, p)

LEMMA Extend ==
  ASSUME NEW stk, NEW ac, NEW n, Laid(stk, ac, n), NEW new, Extends(stk, ac, n, new)
  PROVE  Laid(new, ac, n)
<1>1. n \in n .. n + 1 /\ n # n + 1
  BY DEF Laid
<1> PICK j : j = n
  OBVIOUS
<1>2. j \in n .. n + 1 /\ ~(j = n + 1) /\ \A k \in 1 .. n : ac[k] = ac[k]
  BY <1>1
<1>3. Laid(new, ac, j)
  BY <1>2, Grow DEF Extends
<1> QED
  BY <1>3

-----------------------------------------------------------------------------
(***************************************************************************)
(* The frames that calls lay out.                                          *)
(***************************************************************************)
LEMMA Places ==
  ASSUME NEW stk, NEW ac, NEW n, Laid(stk, ac, n)
  PROVE  /\ stk \in Seq(Word) /\ Len(stk) \in Nat /\ n \in Nat \ {0}
         /\ \A k \in 1 .. n : ac[k].sp \in Nat /\ ac[k].own \in {0, 1}
<1>1. stk \in Seq(Word) /\ Len(stk) \in Nat /\ n \in Nat \ {0}
  BY DEF Laid
<1>2. ASSUME NEW k \in 1 .. n PROVE ac[k].sp \in Nat /\ ac[k].own \in {0, 1}
  <2>1. ac[k].own \in {0, 1}
    BY DEF Laid, Rising
  <2>2. ac[k].own = 1 => GuestKept(stk, ac[k], k)
    BY DEF Laid, GuestsKept
  <2>3. ac[k].own = 0 => ButtonKept(stk, ac[k])
    BY DEF Laid, ButtonsKept
  <2> QED
    BY <1>1, <2>1, <2>2, <2>3 DEF GuestKept, ButtonKept
<1> QED
  BY <1>1, <1>2

\* The place of an activation's word is not above the stack.
LEMMA Settled ==
  ASSUME NEW stk, NEW ac, NEW n, Laid(stk, ac, n), ac[n].own = 1, ac[n].sp = Len(stk)
  PROVE  /\ n \in 1 .. n /\ Len(stk) \in Nat \ {0} /\ stk[Len(stk)] = Local(n)
         /\ \A k \in 1 .. n : ac[k].sp \in Nat /\ ac[k].sp <= Len(stk)
<1>1. stk \in Seq(Word) /\ n \in Nat \ {0} /\ Len(stk) \in Nat
      /\ \A k \in 1 .. n : ac[k].sp \in Nat
  BY Places
<1>2. n \in 1 .. n
  BY <1>1
<1>3. GuestKept(stk, ac[n], n)
  BY <1>2 DEF Laid, GuestsKept
<1>4. Len(stk) \in Nat \ {0} /\ stk[Len(stk)] = Local(n)
  BY <1>1, <1>3 DEF GuestKept
<1>5. ASSUME NEW k \in 1 .. n PROVE ac[k].sp <= Len(stk)
  <2>1. CASE k = n
    BY <1>1, <2>1
  <2>2. CASE k < n
    <3>1. ac[k].sp < ac[n].sp
      BY <1>2, <2>2 DEF Laid, Rising
    <3> QED
      BY <1>1, <3>1
  <2> QED
    BY <1>1, <2>1, <2>2
<1> QED
  BY <1>1, <1>2, <1>4, <1>5

\* A call from a body: the body's return address, arguments, the thunk.
Framed(stk, new, n, pops) ==
  /\ new \in Seq(Word) /\ Len(new) = Len(stk) + pops + 2
  /\ \A q \in 1 .. Len(stk) : new[q] = stk[q]
  /\ new[Len(stk) + 1] = Ret(n)
  /\ \A q \in Len(stk) + 2 .. Len(stk) + pops + 1 : new[q] = Arg
  /\ new[Len(new)] = Thunk

LEMMA CallFrame ==
  ASSUME NEW stk, NEW ac, NEW n, Laid(stk, ac, n), ac[n].own = 1, ac[n].sp = Len(stk),
         NEW pops \in Nat \ {0}, NEW new, Framed(stk, new, n, pops)
  PROVE  /\ Laid(new, ac, n)
         /\ Base(new, Len(new), pops)
         /\ \A k \in 1 .. n : ac[k].sp < Len(new)
         /\ \A q \in Len(stk) + 1 .. Len(new) : new[q] = Thunk <=> q = Len(new)
<1> PICK L, T : L = Len(stk) /\ T = L + pops + 2
  OBVIOUS
<1>0. /\ new \in Seq(Word) /\ Len(new) = T
      /\ \A q \in 1 .. L : new[q] = stk[q]
      /\ new[L + 1] = Ret(n)
      /\ \A q \in L + 2 .. L + pops + 1 : new[q] = Arg
      /\ new[T] = Thunk
  BY DEF Framed
<1>1. stk \in Seq(Word) /\ n \in Nat \ {0} /\ L \in Nat \ {0} /\ T \in Nat /\ Len(new) = T
  BY <1>0, Settled DEF Laid
<1>2. /\ new[L + 1] = Ret(n) /\ new[T] = Thunk /\ new[T - 1] = Arg
      /\ \A q \in L + 2 .. T - 1 : new[q] = Arg
  BY <1>0, <1>1
<1>3. IsAddr(Ret(n)) /\ ~(Ret(n) = Thunk) /\ Ret(n) # Arg /\ Ret(n)[2] = n /\ Thunk # Arg
      /\ IsAddr(Thunk) /\ ~IsRet(Thunk) /\ ~IsRet(Arg) /\ ~IsAddr(Arg) /\ IsRet(Ret(n))
  BY <1>0, <1>1, Words DEF IsAddr
<1>4. new[L] # Arg
  <2>1. new[L] = Local(n)
    BY <1>0, <1>1, Settled
  <2> QED
    BY <1>0, <1>1, <2>1, Words
<1>5. Reaches(new, L + 1, L) /\ Reaches(new, T, L + 1)
  <2>1. Reaches(new, L + 1, L)
    BY <1>0, <1>1, <1>4 DEF Reaches
  <2>2. Reaches(new, T, L + 1)
    BY <1>0, <1>1, <1>2, <1>3 DEF Reaches
  <2> QED
    BY <2>1, <2>2
<1>6. Bare(new, L + 1) /\ ~Bare(new, T)
  BY <1>0, <1>1, <1>2, <1>3, <1>4 DEF Bare
<1>7. \A p \in L + 1 .. T : p = L + 1 \/ p = T \/ p \in L + 2 .. T - 1
  BY <1>0, <1>1
<1>8. ASSUME NEW p \in L + 1 .. T, IsRet(new[p]) PROVE RetKept(new, ac, n, p)
  <2>1. p = L + 1
    BY <1>2, <1>3, <1>7, <1>8
  <2> QED
    BY <1>0, <1>1, <1>2, <1>3, <1>5, <2>1 DEF RetKept
<1>9. ASSUME NEW p \in L + 1 .. T, new[p] = Thunk PROVE ThunkKept(new, ac, n, p)
  <2>1. p = T
    BY <1>2, <1>3, <1>7, <1>9
  <2>2. L + 1 \in 1 .. T - 1
    BY <1>0, <1>1
  <2> QED
    BY <1>5, <1>6, <2>1, <2>2 DEF ThunkKept
<1>10. \A k \in 1 .. n : ac[k].sp \in Nat /\ ac[k].sp <= L
  BY Settled
<1>11. Laid(new, ac, n)
  <2>1. Len(stk) <= Len(new)
    BY <1>0, <1>1
  <2>2. Extends(stk, ac, n, new)
    BY <1>0, <1>1, <1>8, <1>9, <2>1 DEF Extends
  <2> QED
    BY <2>2, Extend
<1>12. Base(new, T, pops)
  <2>1. T - 1 - pops = L + 1 /\ T \in 1 .. Len(new)
    BY <1>0, <1>1
  <2>2. Reaches(new, T, T - 1 - pops) /\ IsAddr(new[T])
    BY <1>2, <1>3, <1>5, <2>1
  <2> QED
    BY <2>1, <2>2 DEF Base
<1>13. \A k \in 1 .. n : ac[k].sp < T
  BY <1>0, <1>1, <1>10
<1>14. \A q \in L + 1 .. T : new[q] = Thunk <=> q = T
  BY <1>0, <1>1, <1>2, <1>3, <1>7
<1> QED
  BY <1>0, <1>1, <1>11, <1>12, <1>13, <1>14

\* Four arguments and a return address on top of the stack.
Topped(stk, new, w) ==
  /\ new \in Seq(Word) /\ Len(new) = Len(stk) + 5
  /\ \A q \in 1 .. Len(stk) : new[q] = stk[q]
  /\ \A q \in Len(stk) + 1 .. Len(stk) + 4 : new[q] = Arg
  /\ new[Len(new)] = w

\* A call that jumps into a procedure, which returns to the body.
LEMMA TailFrame ==
  ASSUME NEW stk, NEW ac, NEW n, Laid(stk, ac, n), ac[n].own = 1, ac[n].sp = Len(stk),
         NEW new, Topped(stk, new, Ret(n))
  PROVE  /\ Laid(new, ac, n)
         /\ Base(new, Len(new), 4)
         /\ \A k \in 1 .. n : ac[k].sp < Len(new)
         /\ \A q \in Len(stk) + 1 .. Len(new) : new[q] # Thunk
<1> PICK L, T : L = Len(stk) /\ T = L + 5
  OBVIOUS
<1>0. /\ new \in Seq(Word) /\ Len(new) = T /\ new[T] = Ret(n)
      /\ \A q \in 1 .. L : new[q] = stk[q]
      /\ \A q \in L + 1 .. L + 4 : new[q] = Arg
  BY DEF Topped
<1>1. stk \in Seq(Word) /\ n \in Nat \ {0} /\ L \in Nat \ {0} /\ T \in Nat /\ Len(new) = T
  BY <1>0, Settled DEF Laid
<1>2. new[T] = Ret(n) /\ \A q \in L + 1 .. T - 1 : new[q] = Arg
  BY <1>0, <1>1
<1>3. IsAddr(Ret(n)) /\ Ret(n) # Thunk /\ Ret(n)[2] = n /\ Thunk # Arg /\ ~IsRet(Arg)
  BY <1>0, <1>1, Words DEF IsAddr
<1>4. new[L] # Arg
  <2>1. new[L] = Local(n)
    BY <1>0, <1>1, Settled
  <2> QED
    BY <1>0, <1>1, <2>1, Words
<1>5. Reaches(new, T, L)
  BY <1>0, <1>1, <1>2, <1>4 DEF Reaches
<1>6. \A p \in L + 1 .. T : p = T \/ p \in L + 1 .. T - 1
  BY <1>0, <1>1
<1>7. ASSUME NEW p \in L + 1 .. T, IsRet(new[p]) PROVE RetKept(new, ac, n, p)
  <2>1. p = T
    BY <1>2, <1>3, <1>6, <1>7
  <2> QED
    BY <1>0, <1>1, <1>2, <1>3, <1>5, <2>1 DEF RetKept
<1>8. \A p \in L + 1 .. T : new[p] # Thunk
  BY <1>2, <1>3, <1>6
<1>9. \A k \in 1 .. n : ac[k].sp \in Nat /\ ac[k].sp <= L
  BY Settled
<1>10. Laid(new, ac, n)
  <2>1. Len(stk) <= Len(new)
    BY <1>0, <1>1
  <2>2. Extends(stk, ac, n, new)
    BY <1>0, <1>1, <1>7, <1>8, <2>1 DEF Extends
  <2> QED
    BY <2>2, Extend
<1>11. Base(new, T, 4)
  <2>1. T - 1 - 4 = L /\ T \in 1 .. Len(new) /\ 4 \in Nat \ {0}
    BY <1>0, <1>1
  <2>2. Reaches(new, T, T - 1 - 4) /\ IsAddr(new[T])
    BY <1>2, <1>3, <1>5, <2>1
  <2> QED
    BY <2>1, <2>2 DEF Base
<1>12. \A k \in 1 .. n : ac[k].sp < T
  BY <1>0, <1>1, <1>9
<1> QED
  BY <1>0, <1>1, <1>8, <1>10, <1>11, <1>12

\* No word of an activation lies more than four above the stack.
LEMMA Reaching ==
  ASSUME NEW stk, NEW ac, NEW n, Laid(stk, ac, n), NEW k \in 1 .. n
  PROVE  /\ ac[k].sp \in Nat
         /\ ac[k].own = 1 => ac[k].sp <= Len(stk)
         /\ ac[k].own = 0 => ac[k].sp - 4 <= Len(stk)
<1>1. stk \in Seq(Word) /\ Len(stk) \in Nat /\ ac[k].sp \in Nat
  BY Places
<1>2. ac[k].own = 1 => GuestKept(stk, ac[k], k)
  BY DEF Laid, GuestsKept
<1>3. ac[k].own = 0 => ButtonKept(stk, ac[k])
  BY DEF Laid, ButtonsKept
<1> QED
  BY <1>1, <1>2, <1>3 DEF GuestKept, ButtonKept, Bare

\* The thunk sends again: arguments, the thunk, above the return address of a call.
LEMMA NextFrame ==
  ASSUME NEW stk, NEW ac, NEW n, Laid(stk, ac, n), Bare(stk, Len(stk)),
         NEW new, Topped(stk, new, Thunk)
  PROVE  /\ Laid(new, ac, n)
         /\ Base(new, Len(new), 4)
         /\ \A k \in 1 .. n : ac[k].sp < Len(new)
         /\ \A q \in Len(stk) + 1 .. Len(new) : new[q] = Thunk <=> q = Len(new)
<1> PICK L, T : L = Len(stk) /\ T = L + 5
  OBVIOUS
<1>0. /\ new \in Seq(Word) /\ Len(new) = T /\ new[T] = Thunk
      /\ \A q \in 1 .. L : new[q] = stk[q]
      /\ \A q \in L + 1 .. L + 4 : new[q] = Arg
  BY DEF Topped
<1>1. stk \in Seq(Word) /\ n \in Nat \ {0} /\ L \in Nat \ {0} /\ T \in Nat /\ Len(new) = T
  BY <1>0 DEF Laid, Bare
<1>2. new[T] = Thunk /\ new[T - 1] = Arg /\ \A q \in L + 1 .. T - 1 : new[q] = Arg
  BY <1>0, <1>1
<1>3. IsAddr(Thunk) /\ ~IsRet(Thunk) /\ Thunk # Arg /\ ~IsRet(Arg)
  BY Words DEF IsAddr
<1>4. Bare(new, L)
  <2>1. Alike(stk, new, L)
    BY <1>0, <1>1 DEF Alike
  <2> QED
    BY <2>1, BareSame
<1>5. new[L] # Arg
  <2>1. new[L] = stk[L] /\ stk[L] \in Word /\ IsAddr(stk[L])
    BY <1>0, <1>1 DEF Bare
  <2> QED
    BY <2>1, Words
<1>6. Reaches(new, T, L)
  BY <1>0, <1>1, <1>2, <1>5 DEF Reaches
<1>7. ~Bare(new, T)
  BY <1>2 DEF Bare
<1>8. \A p \in L + 1 .. T : p = T \/ p \in L + 1 .. T - 1
  BY <1>0, <1>1
<1>9. \A p \in L + 1 .. T : ~IsRet(new[p])
  BY <1>2, <1>3, <1>8
<1>10. ASSUME NEW p \in L + 1 .. T, new[p] = Thunk PROVE ThunkKept(new, ac, n, p)
  <2>1. p = T
    BY <1>2, <1>3, <1>8, <1>10
  <2>2. L \in 1 .. T - 1
    BY <1>0, <1>1
  <2> QED
    BY <1>4, <1>6, <1>7, <2>1, <2>2 DEF ThunkKept
<1>11. \A k \in 1 .. n : ac[k].sp \in Nat /\ ac[k].sp <= L + 4
  <2> SUFFICES ASSUME NEW k \in 1 .. n PROVE ac[k].sp \in Nat /\ ac[k].sp <= L + 4
    OBVIOUS
  <2>1. ac[k].own \in {0, 1}
    BY Places
  <2> QED
    BY <1>0, <1>1, <2>1, Reaching
<1>12. \A k \in 1 .. n : ac[k].sp < T
  BY <1>0, <1>1, <1>11
<1>13. Laid(new, ac, n)
  <2>1. Len(stk) <= Len(new)
    BY <1>0, <1>1
  <2>2. \A p \in Len(stk) + 1 .. Len(new) : IsRet(new[p]) => RetKept(new, ac, n, p)
    BY <1>0, <1>1, <1>9
  <2>3. \A p \in Len(stk) + 1 .. Len(new) : new[p] = Thunk => ThunkKept(new, ac, n, p)
    BY <1>0, <1>1, <1>10
  <2>4. Extends(stk, ac, n, new)
    BY <1>0, <2>1, <2>2, <2>3 DEF Extends
  <2> QED
    BY <2>4, Extend
<1>14. Base(new, T, 4)
  <2>1. T - 1 - 4 = L /\ T \in 1 .. Len(new) /\ 4 \in Nat \ {0}
    BY <1>0, <1>1
  <2>2. Reaches(new, T, T - 1 - 4) /\ IsAddr(new[T])
    BY <1>2, <1>3, <1>6, <2>1
  <2> QED
    BY <2>1, <2>2 DEF Base
<1>15. \A q \in L + 1 .. T : new[q] = Thunk <=> q = T
  BY <1>0, <1>1, <1>2, <1>3, <1>8
<1> QED
  BY <1>0, <1>1, <1>12, <1>13, <1>14, <1>15

-----------------------------------------------------------------------------
(***************************************************************************)
(* Leaving a procedure and returning to a body.                            *)
(***************************************************************************)
LEMMA CutOff ==
  ASSUME NEW stk \in Seq(Word), NEW l \in 1 .. Len(stk)
  PROVE  /\ SubSeq(stk, 1, l) \in Seq(Word) /\ Len(SubSeq(stk, 1, l)) = l
         /\ \A q \in 1 .. l : SubSeq(stk, 1, l)[q] = stk[q]
  OBVIOUS

\* The words that activations keep are not among the arguments below an address.
LEMMA Clear ==
  ASSUME NEW stk, NEW ac, NEW n, Laid(stk, ac, n),
         NEW b, NEW pops, Base(stk, b, pops),
         NEW k \in 1 .. n, ac[k].sp <= b
  PROVE  /\ ac[k].own = 1 => ac[k].sp <= b - 1 - pops
         /\ ac[k].own = 0 => ac[k].sp - 4 <= b - 1 - pops
<1> PICK l, sp : l = b - 1 - pops /\ sp = ac[k].sp
  OBVIOUS
<1>1. /\ stk \in Seq(Word) /\ sp \in Nat /\ b \in 1 .. Len(stk) /\ pops \in Nat \ {0}
      /\ l \in 1 .. b - 1 /\ IsAddr(stk[b]) /\ n \in Nat \ {0}
      /\ \A q \in l + 1 .. b - 1 : stk[q] = Arg
  BY Places DEF Base, Reaches
<1>2. \A q \in 1 .. b : q <= l \/ q = b \/ q \in l + 1 .. b - 1
  BY <1>1
<1>3. ASSUME ac[k].own = 1 PROVE sp <= l
  <2>1. sp \in 1 .. Len(stk) /\ stk[sp] = Local(k)
    BY <1>3 DEF Laid, GuestsKept, GuestKept
  <2>2. stk[sp] # Arg /\ ~IsAddr(stk[sp])
    <3>1. k \in Nat
      BY <1>1
    <3> QED
      BY <2>1, <3>1, Words
  <2>3. sp \in 1 .. b
    BY <1>1, <2>1
  <2> QED
    BY <1>1, <1>2, <2>2, <2>3
<1>4. ASSUME ac[k].own = 0 PROVE sp - 4 <= l
  <2>1. Bare(stk, sp - 4)
    BY <1>4 DEF Laid, ButtonsKept, ButtonKept
  <2>2. sp - 4 \in 1 .. b /\ sp - 4 # b
    <3>1. sp - 4 \in 2 .. Len(stk)
      BY <2>1 DEF Bare
    <3>2. sp <= b /\ sp \in Nat /\ b \in Nat
      BY <1>1
    <3> QED
      BY <3>1, <3>2, SMTT(30)
  <2>3. stk[sp - 4] # Arg
    <3>1. stk[sp - 4] \in Word /\ IsAddr(stk[sp - 4])
      BY <1>1, <2>1 DEF Bare
    <3> QED
      BY <3>1, Words
  <2> QED
    BY <1>1, <1>2, <2>2, <2>3
<1> QED
  BY <1>3, <1>4

\* The activations 1..j that stay when the last, or none, leaves through b.
Stays(ac, n, b, j) ==
  /\ j \in 1 .. n
  /\ j = n \/ (j = n - 1 /\ ac[n].own = 1 /\ ac[n].sp > b)
  /\ \A k \in 1 .. j : ac[k].sp <= b

LEMMA LeaveCut ==
  ASSUME NEW stk, NEW ac, NEW n, Laid(stk, ac, n),
         NEW b, NEW pops, Base(stk, b, pops),
         NEW j, Stays(ac, n, b, j),
         NEW new \in Seq(Word), Len(new) = b - 1 - pops, \A q \in 1 .. Len(new) : new[q] = stk[q]
  PROVE  Laid(new, ac, j)
<1> PICK l : l = b - 1 - pops
  OBVIOUS
<1>0. /\ j \in 1 .. n /\ \A k \in 1 .. j : ac[k].sp <= b
      /\ j = n \/ (j = n - 1 /\ ac[n].own = 1 /\ ac[n].sp > b)
      /\ Len(new) = l /\ \A q \in 1 .. l : new[q] = stk[q]
  BY DEF Stays
<1>1. /\ stk \in Seq(Word) /\ n \in Nat \ {0} /\ b \in 1 .. Len(stk) /\ Len(stk) \in Nat
      /\ l \in 1 .. b - 1 /\ l \in 1 .. Len(stk) /\ l < b
  BY Places DEF Base, Reaches
<1>2. Len(new) <= Len(stk) /\ \A q \in 1 .. Len(new) : new[q] = stk[q]
  BY <1>0, <1>1
<1>3. \A k \in 1 .. j : k \in 1 .. n /\ ac[k].sp <= b
  BY <1>0, <1>1
<1>4. \A k \in 1 .. j : ac[k].own = 1 => ac[k].sp <= l
  BY <1>0, <1>3, Clear
<1>5. \A k \in 1 .. j : ac[k].own = 0 => ac[k].sp - 4 <= l
  BY <1>0, <1>3, Clear
<1>6. ASSUME NEW p \in 1 .. l, IsRet(stk[p]) PROVE stk[p][2] <= j
  <2> PICK i : i = stk[p][2]
    OBVIOUS
  <2>1. RetKept(stk, ac, n, p)
    <3>1. p \in DOMAIN stk
      BY <1>0, <1>1
    <3> QED
      BY <1>6, <3>1 DEF Laid, RetsKept
  <2>2. i \in 1 .. n /\ ac[i].sp \in 1 .. p - 1
    BY <2>1 DEF RetKept, Reaches
  <2>3. ac[i].sp < b
    <3>1. p \in Nat /\ b \in Nat /\ p < b
      BY <1>1
    <3> QED
      BY <2>2, <3>1
  <2>4. ~(i = n /\ ac[n].sp > b)
    BY <1>0, <1>1, <2>2, <2>3
  <2> QED
    BY <1>0, <1>1, <2>2, <2>4
<1>7. ASSUME NEW p \in 1 .. l, NEW m \in 1 .. n, ac[m].own = 0 PROVE m <= j
  <2>1. ~(m = n /\ ac[n].own = 1)
    BY <1>7
  <2> QED
    BY <1>0, <1>1, <2>1
<1>8. Cuts(stk, ac, n, Len(new), j)
  BY <1>0, <1>4, <1>5, <1>6, <1>7 DEF Cuts
<1> QED
  BY <1>0, <1>2, <1>8, Cut

\* A return to the body of activation i.
BodyCut(stk, ac, i, new, bs) ==
  /\ new \in Seq(Word) /\ Len(new) = ac[i].sp
  /\ \A q \in 1 .. Len(new) : new[q] = stk[q]
  /\ \A k \in 1 .. i : bs[k] = ac[k]

LEMMA ReturnToBody ==
  ASSUME NEW stk, NEW ac, NEW n, Laid(stk, ac, n), NEW i \in 1 .. n, ac[i].own = 1,
         NEW new, NEW bs, BodyCut(stk, ac, i, new, bs)
  PROVE  Laid(new, bs, i)
<1> PICK l : l = ac[i].sp
  OBVIOUS
<1>0. /\ new \in Seq(Word) /\ Len(new) = l /\ \A q \in 1 .. l : new[q] = stk[q]
      /\ \A k \in 1 .. i : bs[k] = ac[k]
  BY DEF BodyCut
<1>1. /\ stk \in Seq(Word) /\ n \in Nat \ {0} /\ Len(stk) \in Nat
      /\ l \in 1 .. Len(stk) /\ stk[l] = Local(i)
  BY Places DEF Laid, GuestsKept, GuestKept
<1>2. Len(new) <= Len(stk) /\ \A q \in 1 .. Len(new) : new[q] = stk[q]
  BY <1>0, <1>1
<1>3. stk[l] # Arg /\ stk[l] # Thunk
  <2>1. i \in Nat
    BY <1>1
  <2> QED
    BY <1>1, <2>1, Words
<1>4. \A k \in 1 .. n : ac[k].sp \in Nat
  BY Places
<1>5. \A k \in 1 .. n : k > i => ac[k].sp > l
  BY <1>1, <1>4 DEF Laid, Rising
<1>6. \A k \in 1 .. i : ac[k].sp <= l
  <2> SUFFICES ASSUME NEW k \in 1 .. i PROVE ac[k].sp <= l
    OBVIOUS
  <2>1. k \in 1 .. n
    BY <1>1
  <2>2. k < i => ac[k].sp < ac[i].sp
    BY <2>1 DEF Laid, Rising
  <2>3. k < i \/ k = i
    OBVIOUS
  <2> QED
    BY <1>1, <1>4, <2>1, <2>2, <2>3
<1>7. ASSUME NEW p \in 1 .. l, IsRet(stk[p]) PROVE stk[p][2] <= i
  <2> PICK m : m = stk[p][2]
    OBVIOUS
  <2>1. RetKept(stk, ac, n, p)
    <3>1. p \in DOMAIN stk
      BY <1>1
    <3> QED
      BY <1>7, <3>1 DEF Laid, RetsKept
  <2>2. m \in 1 .. n /\ ac[m].sp \in 1 .. p - 1
    BY <2>1 DEF RetKept, Reaches
  <2> SUFFICES ASSUME m > i PROVE FALSE
    BY <1>1, <2>2
  <2>3. ac[m].sp > l
    BY <1>5, <2>2
  <2> QED
    BY <1>1, <2>2, <2>3
<1>8. ASSUME NEW p \in 1 .. l, NEW m \in 1 .. n, stk[p] = Thunk, ac[m].own = 0, ac[m].sp = p + 4
      PROVE  m <= i
  <2> SUFFICES ASSUME m > i PROVE FALSE
    BY <1>1
  <2>1. l < ac[m].sp - 4
    BY <1>1, <1>8 DEF Laid, Rising
  <2> QED
    BY <1>1, <1>8, <2>1
<1>9. Laid(new, bs, i)
  <2>1. \A k \in 1 .. i : ac[k].own = 1 => ac[k].sp <= l
    BY <1>6
  <2>2. \A k \in 1 .. i : ac[k].own = 0 => ac[k].sp - 4 <= l
    <3> SUFFICES ASSUME NEW k \in 1 .. i PROVE ac[k].sp - 4 <= l
      OBVIOUS
    <3>1. k \in 1 .. n /\ ac[k].sp \in Nat /\ ac[k].sp <= l
      BY <1>1, <1>4, <1>6
    <3> QED
      BY <1>1, <3>1
  <2>3. Cuts(stk, ac, n, Len(new), i)
    BY <1>0, <1>7, <1>8, <2>1, <2>2 DEF Cuts
  <2> QED
    BY <1>0, <1>2, <2>3, Cut
<1> QED
  BY <1>9

\* The thunk that a button's painter came back to returns to the thunk.
LEMMA ThunkAgain ==
  ASSUME NEW stk, NEW ac, NEW n, Laid(stk, ac, n), Bare(stk, Len(stk)), stk[Len(stk)] = Thunk,
         NEW bs, \A k \in 1 .. n - 1 : bs[k] = ac[k],
         NEW new \in Seq(Word), Len(new) = Len(stk) - 1, \A q \in 1 .. Len(new) : new[q] = stk[q]
  PROVE  /\ n > 1
         /\ Laid(new, bs, n - 1)
         /\ Bare(new, Len(new))
<1> PICK L : L = Len(stk)
  OBVIOUS
<1>1. /\ stk \in Seq(Word) /\ n \in Nat \ {0} /\ L \in Nat /\ L >= 2
      /\ stk[L] = Thunk /\ stk[L - 1] # Arg /\ L \in DOMAIN stk
  BY Places DEF Bare
<1>2. ThunkKept(stk, ac, n, L)
  BY <1>1 DEF Laid, ThunksKept
<1>3. PICK m \in 1 .. n : ac[m].own = 0 /\ ac[m].sp = L + 4
  BY <1>2 DEF ThunkKept
<1>4. PICK s \in 1 .. L - 1 : Reaches(stk, L, s) /\ Bare(stk, s)
  BY <1>2 DEF ThunkKept
<1>5. s = L - 1
  BY <1>1, <1>4 DEF Reaches
<1>6. Bare(new, L - 1)
  <2>1. L - 1 \in Nat /\ L - 1 <= Len(stk) /\ L - 1 <= Len(new)
    BY <1>1
  <2>2. \A q \in 1 .. L - 1 : new[q] = stk[q]
    OBVIOUS
  <2> QED
    <3>1. Alike(stk, new, L - 1)
      BY <2>1, <2>2 DEF Alike
    <3> QED
      BY <1>4, <1>5, <3>1, BareSame
<1>7. \A k \in 1 .. n : /\ ac[k].sp \in Nat /\ ac[k].sp <= L + 4
                        /\ ac[k].own = 1 => ac[k].sp <= L
  <2> SUFFICES ASSUME NEW k \in 1 .. n
               PROVE  /\ ac[k].sp \in Nat /\ ac[k].sp <= L + 4
                      /\ ac[k].own = 1 => ac[k].sp <= L
    OBVIOUS
  <2>1. ac[k].own \in {0, 1}
    BY Places
  <2>2. /\ ac[k].sp \in Nat
        /\ ac[k].own = 1 => ac[k].sp <= L
        /\ ac[k].own = 0 => ac[k].sp - 4 <= L
    BY Reaching
  <2>3. L \in Nat
    BY <1>1
  <2> QED
    BY <2>1, <2>2, <2>3
<1>8. m = n
  <2> SUFFICES ASSUME m < n PROVE FALSE
    BY <1>1
  <2>1. n \in 1 .. n
    BY <1>1
  <2>2. ac[m].sp < ac[n].sp
    BY <2>1 DEF Laid, Rising
  <2> QED
    BY <1>1, <1>3, <1>7, <2>1, <2>2
<1>9. n > 1
  <2>1. ac[1].own = 1
    BY DEF Laid, Rising
  <2> QED
    BY <1>1, <1>3, <1>8, <2>1
<1>10. n - 1 \in 1 .. n /\ \A k \in 1 .. n - 1 : k \in 1 .. n /\ k < n
  BY <1>1, <1>9
<1>11. Cuts(stk, ac, n, L - 1, n - 1)
  <2>1. ASSUME NEW k \in 1 .. n - 1, ac[k].own = 1 PROVE ac[k].sp <= L - 1
    <3>1. stk[ac[k].sp] = Local(k) /\ k \in Nat
      BY <1>10, <2>1 DEF Laid, GuestsKept, GuestKept
    <3>2. ac[k].sp # L
      BY <1>1, <3>1, Words
    <3>3. ac[k].sp \in Nat /\ ac[k].sp <= L
      BY <1>7, <1>10, <2>1
    <3> QED
      BY <1>1, <3>2, <3>3
  <2>2. ASSUME NEW k \in 1 .. n - 1 PROVE ac[k].sp - 4 <= L - 1
    <3>1. n \in 1 .. n /\ k \in 1 .. n /\ k < n
      BY <1>1, <1>10
    <3>2. ac[k].sp < ac[n].sp
      BY <3>1 DEF Laid, Rising
    <3>3. ac[k].sp \in Nat
      BY <1>7, <3>1
    <3> QED
      BY <1>1, <1>3, <1>8, <3>2, <3>3
  <2>3. ASSUME NEW p \in 1 .. L - 1, IsRet(stk[p]) PROVE stk[p][2] <= n - 1
    <3>1. RetKept(stk, ac, n, p)
      <4>1. p \in DOMAIN stk
        BY <1>1
      <4> QED
        BY <2>3, <4>1 DEF Laid, RetsKept
    <3>2. stk[p][2] \in 1 .. n /\ stk[p][2] # n
      BY <1>3, <1>8, <3>1 DEF RetKept
    <3> QED
      BY <1>1, <3>2
  <2>4. ASSUME NEW p \in 1 .. L - 1, NEW i \in 1 .. n, ac[i].sp = p + 4 PROVE i <= n - 1
    <3>1. i # n
      BY <1>1, <1>3, <1>8, <2>4
    <3> QED
      BY <1>1, <3>1
  <2> QED
    BY <2>1, <2>2, <2>3, <2>4 DEF Cuts
<1>12. Len(new) = L - 1 /\ Len(new) <= Len(stk)
  BY <1>1
<1>13. Laid(new, bs, n - 1)
  <2> PICK j : j = n - 1
    OBVIOUS
  <2>1. Cuts(stk, ac, n, Len(new), j) /\ j \in 1 .. n /\ \A k \in 1 .. j : bs[k] = ac[k]
    BY <1>10, <1>11, <1>12
  <2>2. Laid(new, bs, j)
    BY <1>12, <2>1, Cut
  <2> QED
    BY <2>2
<1> QED
  BY <1>6, <1>9, <1>12, <1>13

\* The stack below the frame of a button.
LEMMA ButtonCut ==
  ASSUME NEW stk, NEW ac, NEW n, Laid(stk, ac, n),
         NEW l \in Nat, Len(stk) = l + 5,
         Base(stk, l + 5, 4), \A k \in 1 .. n : ac[k].sp < l + 5
  PROVE  /\ \A k \in 1 .. n : /\ ac[k].sp \in Nat /\ ac[k].sp < l + 5 /\ ac[k].own \in {0, 1}
                              /\ ac[k].own = 1 => ac[k].sp <= l
         /\ \E mid \in Seq(Word) : /\ Len(mid) = l /\ \A q \in 1 .. l : mid[q] = stk[q]
                                  /\ Laid(mid, ac, n)
<1> PICK b, pops : b = l + 5 /\ pops = 4
  OBVIOUS
<1>1. l = b - 1 - pops /\ Base(stk, b, pops) /\ n \in Nat \ {0} /\ n \in 1 .. n /\ stk \in Seq(Word)
  BY Places
<1>2. \A k \in 1 .. n : ac[k].sp \in Nat /\ ac[k].own \in {0, 1} /\ ac[k].sp <= b
  BY <1>1, Places
<1>3. \A k \in 1 .. n : ac[k].own = 1 => ac[k].sp <= l
  BY <1>1, <1>2, Clear
<1>4. l \in 1 .. Len(stk)
  BY <1>1 DEF Base, Reaches
<1>5. PICK mid \in Seq(Word) : Len(mid) = l /\ \A q \in 1 .. l : mid[q] = stk[q]
  BY <1>1, <1>4, CutOff
<1>6. Laid(mid, ac, n)
  <2>1. Stays(ac, n, b, n)
    BY <1>1, <1>2 DEF Stays
  <2> QED
    BY <1>1, <1>5, <2>1, LeaveCut
<1> QED
  BY <1>2, <1>3, <1>5, <1>6

\* A button asks its painter to draw: its return address moves down, the thunk is on top.
Lowered(stk, new, l) ==
  /\ new \in Seq(Word) /\ Len(new) = l + 6
  /\ \A q \in 1 .. l : new[q] = stk[q]
  /\ new[l + 1] = stk[l + 5]
  /\ \A q \in l + 2 .. l + 5 : new[q] = Arg
  /\ new[l + 6] = Thunk

LEMMA ButtonFrame ==
  ASSUME NEW stk, NEW ac, NEW n, Laid(stk, ac, n),
         NEW l \in Nat, Len(stk) = l + 5,
         Base(stk, l + 5, 4), \A k \in 1 .. n : ac[k].sp < l + 5,
         ac[n + 1].own = 0, ac[n + 1].sp = l + 5,
         NEW new, Lowered(stk, new, l)
  PROVE  /\ Laid(new, ac, n + 1)
         /\ Base(new, Len(new), 4)
         /\ \A k \in 1 .. n + 1 : ac[k].sp < Len(new)
<1>1. l + 5 - 1 - 4 = l /\ stk \in Seq(Word) /\ n \in Nat \ {0}
  BY Places
<1>2. \A p \in l + 1 .. l + 6 : p = l + 1 \/ p = l + 6 \/ p \in l + 2 .. l + 5
  OBVIOUS
<1>3. /\ new \in Seq(Word) /\ Len(new) = l + 6
      /\ \A q \in 1 .. l : new[q] = stk[q]
      /\ new[l + 1] = stk[l + 5]
      /\ \A q \in l + 2 .. l + 5 : new[q] = Arg
      /\ new[l + 6] = Thunk
  BY DEF Lowered
<1> USE <1>3
<1>4. /\ stk \in Seq(Word) /\ n \in Nat \ {0} /\ l \in Nat \ {0}
      /\ IsAddr(stk[l + 5]) /\ stk[l] # Arg /\ stk[l + 5] \in Word
      /\ \A q \in l + 1 .. l + 4 : stk[q] = Arg
      /\ Reaches(stk, l + 5, l) /\ l + 5 \in DOMAIN stk
  <2>1. IsAddr(stk[l + 5]) /\ Reaches(stk, l + 5, l) /\ l + 5 \in 1 .. Len(stk)
    BY <1>1 DEF Base
  <2>2. l \in Nat \ {0} /\ stk[l] # Arg /\ \A q \in l + 1 .. l + 4 : stk[q] = Arg
    BY <2>1 DEF Reaches
  <2>3. l + 5 \in DOMAIN stk /\ stk[l + 5] \in Word
    BY <1>1, <2>1
  <2> QED
    BY <1>1, <2>1, <2>2, <2>3
<1>5. PICK mid \in Seq(Word) : /\ Len(mid) = l /\ \A q \in 1 .. l : mid[q] = stk[q]
                               /\ Laid(mid, ac, n)
  BY ButtonCut
<1>6. \A k \in 1 .. n : /\ ac[k].sp \in Nat /\ ac[k].sp < l + 5 /\ ac[k].own \in {0, 1}
                        /\ ac[k].own = 1 => ac[k].sp <= l
  BY ButtonCut
<1>7. Thunk # Arg /\ ~IsRet(Thunk) /\ IsAddr(Thunk) /\ ~IsRet(Arg) /\ stk[l + 5] # Arg
  BY <1>4, Words DEF IsAddr
<1>8. Bare(new, l + 1)
  <2>1. l + 1 \in 2 .. Len(new) /\ l + 1 - 1 = l /\ l \in 1 .. l
    BY <1>4
  <2>2. IsAddr(new[l + 1]) /\ new[l + 1 - 1] # Arg
    BY <1>4, <2>1
  <2> QED
    BY <2>1, <2>2 DEF Bare
<1>9. Reaches(new, l + 1, l) /\ Reaches(new, l + 6, l + 1)
  <2>1. Reaches(new, l + 1, l)
    BY <1>4 DEF Reaches
  <2>2. Reaches(new, l + 6, l + 1)
    BY <1>4, <1>7 DEF Reaches
  <2> QED
    BY <2>1, <2>2
<1>10. \A k \in 1 .. n : k \in 1 .. n + 1
  BY <1>4
<1>11. ASSUME NEW p \in l + 1 .. l + 6, IsRet(new[p]) PROVE RetKept(new, ac, n + 1, p)
  <2>1. p = l + 1
    BY <1>7, <1>2, <1>11
  <2> PICK i : i = stk[l + 5][2]
    OBVIOUS
  <2>2. RetKept(stk, ac, n, l + 5)
    BY <1>4, <1>11, <2>1 DEF Laid, RetsKept
  <2>3. i \in 1 .. n /\ ac[i].own = 1 /\ Reaches(stk, l + 5, ac[i].sp)
    BY <2>2 DEF RetKept
  <2>4. Reaches(stk, l + 5, l) /\ l + 5 \in Nat
    BY <1>4
  <2>5. ac[i].sp = l
    BY <2>3, <2>4, ReachesOnce
  <2> QED
    BY <1>9, <1>10, <2>1, <2>3, <2>5 DEF RetKept
<1>12. ASSUME NEW p \in l + 1 .. l + 6, new[p] = Thunk PROVE ThunkKept(new, ac, n + 1, p)
  <2>1. CASE p = l + 6
    <3>1. ~Bare(new, l + 6)
      <4>1. l + 6 - 1 = l + 5 /\ l + 5 \in l + 2 .. l + 5
        BY <1>4
      <4>2. new[l + 6 - 1] = Arg
        BY <4>1
      <4> QED
        BY <4>2 DEF Bare
    <3>2. l + 1 \in 1 .. l + 5
      OBVIOUS
    <3> QED
      BY <1>4, <1>8, <1>9, <2>1, <3>1, <3>2 DEF ThunkKept
  <2>2. CASE p = l + 1
    <3>1. ThunkKept(stk, ac, n, l + 5)
      BY <1>4, <1>12, <2>2 DEF Laid, ThunksKept
    <3>2. PICK s \in 1 .. l + 4 : Reaches(stk, l + 5, s) /\ Bare(stk, s)
      BY <3>1 DEF ThunkKept
    <3>3. s = l
      <4>1. Reaches(stk, l + 5, l) /\ l + 5 \in Nat
        BY <1>4
      <4> QED
        BY <3>2, <4>1, ReachesOnce
    <3>4. Bare(new, l)
      <4>1. l \in Nat /\ l <= Len(stk) /\ l <= Len(new)
        BY <1>4
      <4> QED
        <5>1. Alike(stk, new, l)
          BY <4>1 DEF Alike
        <5> QED
          BY <3>2, <3>3, <5>1, BareSame
    <3>5. n + 1 \in 1 .. n + 1 /\ ac[n + 1].own = 0 /\ ac[n + 1].sp = p + 4
      BY <1>4, <2>2
    <3>6. l \in 1 .. p - 1
      BY <1>4, <2>2
    <3> QED
      BY <1>9, <2>2, <3>4, <3>5, <3>6 DEF ThunkKept
  <2> QED
    BY <1>7, <1>2, <1>12, <2>1, <2>2
<1>13. Laid(new, ac, n + 1)
  <2> PICK j : j = n + 1
    OBVIOUS
  <2>1. j \in n .. n + 1 /\ ac[j].own = 0 /\ ac[j].sp = l + 5 /\ ac[j].own \in {0, 1} /\ ac[j].own # 1
    BY <1>4
  <2>2. ButtonKept(new, ac[j])
    <3>1. ac[j].sp \in Nat /\ ac[j].sp - 4 = l + 1
      BY <1>4, <2>1
    <3> QED
      BY <1>8, <3>1 DEF ButtonKept
  <2>3. \A k \in 1 .. n : ac[k].sp < ac[j].sp
    BY <1>6, <2>1
  <2>4. \A k \in 1 .. n : ac[k].own = 1 => ac[k].sp < ac[j].sp - 4
    BY <1>4, <1>6, <2>1
  <2>5. \A p \in Len(mid) + 1 .. Len(new) : IsRet(new[p]) => RetKept(new, ac, j, p)
    BY <1>5, <1>11
  <2>6. \A p \in Len(mid) + 1 .. Len(new) : new[p] = Thunk => ThunkKept(new, ac, j, p)
    BY <1>5, <1>12
  <2>7. Len(mid) <= Len(new) /\ \A q \in 1 .. Len(mid) : new[q] = mid[q]
    BY <1>4, <1>5
  <2>8. Laid(new, ac, j)
    BY <1>5, <2>1, <2>2, <2>3, <2>4, <2>5, <2>6, <2>7, Grow
  <2> QED
    BY <2>8
<1>14. Base(new, Len(new), 4)
  <2>1. Len(new) - 1 - 4 = l + 1 /\ Len(new) \in 1 .. Len(new)
    BY <1>4
  <2>2. Reaches(new, Len(new), Len(new) - 1 - 4) /\ IsAddr(new[Len(new)])
    BY <1>7, <1>9, <2>1
  <2> QED
    BY <2>1, <2>2 DEF Base
<1>15. \A k \in 1 .. n + 1 : ac[k].sp < Len(new)
  <2>1. \A k \in 1 .. n + 1 : k \in 1 .. n \/ k = n + 1
    BY <1>4
  <2> QED
    BY <1>4, <1>6, <2>1
<1> QED
  BY <1>13, <1>14, <1>15

-----------------------------------------------------------------------------
(***************************************************************************)
(* Entering a procedure.                                                   *)
(***************************************************************************)
Thunks(stk) == {p \in DOMAIN stk : stk[p] = Thunk}

\* The word that a body pushes, and its activation.
Pushes(stk, n, new) ==
  /\ new \in Seq(Word) /\ Len(new) = Len(stk) + 1
  /\ \A q \in 1 .. Len(stk) : new[q] = stk[q]
  /\ new[Len(new)] = Local(n + 1)

Activates(ac, n, bs, sp, pops) ==
  /\ \A k \in 1 .. n : bs[k] = ac[k]
  /\ bs[n + 1].own = 1 /\ bs[n + 1].sp = sp /\ bs[n + 1].pops = pops

LEMMA GuestEnters ==
  ASSUME NEW stk, NEW ac, NEW n, Laid(stk, ac, n),
         NEW pops, Base(stk, Len(stk), pops),
         \A k \in 1 .. n : ac[k].sp < Len(stk),
         NEW new, Pushes(stk, n, new),
         NEW bs, Activates(ac, n, bs, Len(new), pops)
  PROVE  Laid(new, bs, n + 1)
<1> PICK T : T = Len(stk)
  OBVIOUS
<1>0. /\ new \in Seq(Word) /\ Len(new) = T + 1 /\ \A q \in 1 .. T : new[q] = stk[q]
      /\ new[T + 1] = Local(n + 1) /\ \A k \in 1 .. n : bs[k] = ac[k]
      /\ bs[n + 1].own = 1 /\ bs[n + 1].sp = T + 1 /\ bs[n + 1].pops = pops
  BY DEF Pushes, Activates
<1>1. stk \in Seq(Word) /\ T \in Nat /\ n \in Nat \ {0}
      /\ \A k \in 1 .. n : ac[k].sp \in Nat
  BY Places
<1> PICK j : j = n + 1
  OBVIOUS
<1>2. j \in n .. n + 1 /\ j \in Nat /\ bs[j].own = 1 /\ bs[j].own \in {0, 1} /\ bs[j].own # 0
  BY <1>0, <1>1
<1>3. \A k \in 1 .. n : ac[k].sp < bs[j].sp
  BY <1>0, <1>1
<1>4. GuestKept(new, bs[j], j)
  <2>1. T \in Nat /\ T <= Len(stk) /\ T <= Len(new) /\ T + 1 \in 1 .. Len(new) /\ T + 1 - 1 = T
    BY <1>0, <1>1
  <2>2. Base(new, T, pops)
    <3>1. Alike(stk, new, T)
      BY <1>0, <1>1, <2>1 DEF Alike
    <3> QED
      BY <1>0, <1>1, <3>1, BaseSame
  <2> QED
    BY <1>0, <2>1, <2>2 DEF GuestKept
<1>5. \A p \in T + 1 .. T + 1 : new[p] = Local(j)
  BY <1>0, <1>1
<1>6. ~IsRet(Local(j)) /\ Local(j) # Thunk
  BY <1>2, Words
<1>7. Len(stk) <= Len(new)
  BY <1>0, <1>1
<1>8. Laid(new, bs, j)
  BY <1>0, <1>2, <1>3, <1>4, <1>5, <1>6, <1>7, Grow
<1> QED
  BY <1>8

LEMMA AppendSeq ==
  ASSUME NEW s, IsSeq(s), NEW x
  PROVE  /\ IsSeq(Append(s, x))
         /\ Len(s) \in Nat /\ Len(Append(s, x)) = Len(s) + 1
         /\ Append(s, x)[Len(s) + 1] = x
         /\ \A k \in 1 .. Len(s) : Append(s, x)[k] = s[k]
<1>1. PICK S : s \in Seq(S)
  BY DEF IsSeq
<1> PICK T : T = S \cup {x}
  OBVIOUS
<1>2. s \in Seq(T) /\ x \in T
  BY <1>1
<1>3. Append(s, x) \in Seq(T)
  BY <1>2
<1> QED
  BY <1>2, <1>3 DEF IsSeq

LEMMA CutSeq ==
  ASSUME NEW s, IsSeq(s), NEW l \in 0 .. Len(s)
  PROVE  /\ IsSeq(SubSeq(s, 1, l)) /\ Len(SubSeq(s, 1, l)) = l
         /\ \A k \in 1 .. l : SubSeq(s, 1, l)[k] = s[k]
<1>1. PICK S : s \in Seq(S)
  BY DEF IsSeq
<1>2. SubSeq(s, 1, l) \in Seq(S)
  BY <1>1
<1> QED
  BY <1>1, <1>2 DEF IsSeq

LEMMA FrontSeq ==
  ASSUME NEW s, IsSeq(s), Len(s) > 0
  PROVE  /\ Front(s) = SubSeq(s, 1, Len(s) - 1) /\ Len(s) - 1 \in 0 .. Len(s)
         /\ IsSeq(Front(s)) /\ Len(Front(s)) = Len(s) - 1
         /\ \A k \in 1 .. Len(s) - 1 : Front(s)[k] = s[k]
<1>1. Len(s) - 1 \in 0 .. Len(s)
  BY DEF IsSeq
<1>2. Front(s) = SubSeq(s, 1, Len(s) - 1)
  BY DEF Front
<1> QED
  BY <1>1, <1>2, CutSeq

LEMMA Enters ==
  ASSUME NEW ac, IsSeq(ac), NEW stk, Laid(stk, ac, Len(ac)),
         NEW pops, Base(stk, Len(stk), pops),
         \A k \in 1 .. Len(ac) : ac[k].sp < Len(stk),
         NEW proc, NEW m, proc = "button" => pops = 4,
         Run(ac, stk, proc, m, pops)
  PROVE  /\ IsSeq(acts') /\ Placing(eip', stack', acts')
         /\ eip' # Thunk /\ Thunks(stack') = Thunks(stk)
<1> PICK n, T : n = Len(ac) /\ T = Len(stk)
  OBVIOUS
<1>1. stk \in Seq(Word) /\ T \in Nat /\ n \in Nat \ {0}
  BY Places
<1> PICK rec : rec = [sp |-> Len(stk \o (IF proc = "button" THEN <<>> ELSE <<Local(n + 1)>>)),
                      own |-> Len(IF proc = "button" THEN <<>> ELSE <<Local(n + 1)>>), msg |-> m, pops |-> pops,
                      back |-> stk[Len(stk)] = Thunk]
  OBVIOUS
<1>2. /\ acts' = Append(ac, rec)
      /\ stack' = stk \o (IF proc = "button" THEN <<>> ELSE <<Local(n + 1)>>)
      /\ eip' = IF proc = "button" THEN Button ELSE Ret(n + 1)
  BY DEF Run
<1>3. /\ IsSeq(acts') /\ Len(acts') = n + 1 /\ acts'[n + 1] = rec
      /\ \A k \in 1 .. n : acts'[k] = ac[k]
  BY <1>2, AppendSeq
<1>4. CASE proc = "button"
  <2>1. stack' = stk /\ rec.sp = T /\ rec.own = 0 /\ rec.pops = 4 /\ eip' = Button
    BY <1>1, <1>2, <1>4
  <2>2. Laid(stk, acts', n)
    <3>1. n \in 1 .. n /\ Len(stk) <= Len(stk)
      BY <1>1
    <3>2. Cuts(stk, ac, n, Len(stk), n)
      <4>1. \A k \in 1 .. n : ac[k].sp \in Nat /\ ac[k].sp < T
        BY <1>1, Places
      <4>2. \A p \in 1 .. T : IsRet(stk[p]) => stk[p][2] \in 1 .. n
        BY <1>1 DEF Laid, RetsKept, RetKept
      <4> QED
        BY <1>1, <4>1, <4>2 DEF Cuts
    <3> QED
      BY <1>1, <1>3, <3>1, <3>2, Cut
  <2>3. Len(acts') > 1 /\ Len(acts') - 1 = n
    BY <1>1, <1>3
  <2>4. \A k \in 1 .. n : acts'[k].sp < Len(stk)
    BY <1>3
  <2>5. InButton(eip', stack', acts')
    BY <1>3, <1>4, <2>1, <2>2, <2>3, <2>4 DEF InButton
  <2> QED
    BY <1>3, <2>1, <2>5, Words DEF Placing
<1>5. CASE proc # "button"
  <2>1. stack' = Append(stk, Local(n + 1)) /\ eip' = Ret(n + 1)
    BY <1>1, <1>2, <1>5
  <2>2. Local(n + 1) \in Word /\ Local(n + 1) # Thunk /\ Ret(n + 1) # Thunk /\ n + 1 \in Nat
    BY <1>1, Words
  <2>3. /\ stack' \in Seq(Word) /\ Len(stack') = T + 1 /\ stack'[T + 1] = Local(n + 1)
        /\ \A q \in 1 .. T : stack'[q] = stk[q]
    BY <1>1, <2>1, <2>2
  <2>4. rec.sp = T + 1 /\ rec.own = 1 /\ rec.pops = pops
    BY <1>1, <1>5
  <2>5. Laid(stack', acts', n + 1)
    <3>1. Pushes(stk, n, stack')
      BY <2>3 DEF Pushes
    <3>2. Activates(ac, n, acts', Len(stack'), pops)
      BY <1>3, <2>3, <2>4 DEF Activates
    <3> QED
      BY <3>1, <3>2, GuestEnters
  <2>6. InBody(eip', stack', acts')
    BY <1>3, <2>1, <2>3, <2>4, <2>5 DEF InBody
  <2>7. Thunks(stack') = Thunks(stk)
    <3>1. DOMAIN stk = 1 .. T /\ DOMAIN stack' = 1 .. T + 1
      BY <1>1, <2>3
    <3>2. \A q \in 1 .. T + 1 : q \in 1 .. T \/ q = T + 1
      BY <1>1
    <3>3. \A q \in 1 .. T : q \in 1 .. T + 1
      BY <1>1
    <3> QED
      BY <2>2, <2>3, <3>1, <3>2, <3>3 DEF Thunks
  <2> QED
    BY <1>3, <2>1, <2>2, <2>6, <2>7 DEF Placing
<1> QED
  BY <1>4, <1>5

-----------------------------------------------------------------------------
(***************************************************************************)
(* The calls, on the stack of the state.                                   *)
(***************************************************************************)
Fits(stk, l, words, top) ==
  /\ words \in Seq(Word) /\ l \in Nat /\ top = l + Len(words)
  /\ \A p \in 1 .. l : stk[p] \in Word

\* The words `words`, from the top down, on the first l words of `stk`.
Stacked(stk, l, words, new) ==
  /\ new \in Seq(Word) /\ Len(new) = l + Len(words)
  /\ \A p \in 1 .. l : new[p] = stk[p]
  /\ \A i \in 1 .. Len(words) : new[l + i] = words[Len(words) + 1 - i]

LEMMA PlacedSeq ==
  ASSUME NEW stk, NEW l, NEW words, NEW top, Fits(stk, l, words, top)
  PROVE  Stacked(stk, l, words, Placed(stk, top, words))
<1>1. words \in Seq(Word) /\ Len(words) \in Nat /\ top \in Nat /\ top - Len(words) = l
      /\ l \in Nat /\ \A p \in 1 .. l : stk[p] \in Word
  BY DEF Fits
<1>2. ASSUME NEW p \in 1 .. top
      PROVE  (IF p > top - Len(words) THEN words[top - p + 1] ELSE stk[p]) \in Word
  <2>1. p > l => top - p + 1 \in 1 .. Len(words)
    BY <1>1
  <2>2. ~(p > l) => p \in 1 .. l
    BY <1>1
  <2> QED
    BY <1>1, <2>1, <2>2
<1>3. Placed(stk, top, words) \in Seq(Word) /\ Len(Placed(stk, top, words)) = top
  BY <1>1, <1>2 DEF Placed
<1>4. \A p \in 1 .. l : p \in 1 .. top /\ ~(p > top - Len(words))
  BY <1>1
<1>5. \A i \in 1 .. Len(words) : /\ l + i \in 1 .. top /\ l + i > top - Len(words)
                                 /\ top - (l + i) + 1 = Len(words) + 1 - i
  BY <1>1
<1> QED
  <2>1. /\ \A p \in 1 .. l : Placed(stk, top, words)[p] = stk[p]
        /\ \A i \in 1 .. Len(words) : Placed(stk, top, words)[l + i] = words[Len(words) + 1 - i]
    BY <1>4, <1>5 DEF Placed
  <2>2. top = l + Len(words)
    BY <1>1
  <2> QED
    BY <1>3, <2>1, <2>2 DEF Stacked

LEMMA CalledStack ==
  ASSUME stack \in Seq(Word), NEW n \in Nat
  PROVE  /\ Len(Called(n)) = Len(stack) + n + 1
         /\ \A q \in 1 .. Len(stack) : Called(n)[q] = stack[q]
<1> PICK more : more = [i \in 1 .. n |-> Arg]
  OBVIOUS
<1>1. more \in Seq({Arg}) /\ Len(more) = n
  OBVIOUS
<1> PICK T, r : T = Word \cup {Arg, Ret(Len(acts))} /\ r = Ret(Len(acts))
  OBVIOUS
<1>2. stack \in Seq(T) /\ more \in Seq(T) /\ r \in T
  BY <1>1
<1>3. Called(n) = (stack \o more) \o <<r>>
  BY DEF Called
<1>4. stack \o more \in Seq(T) /\ Len(stack \o more) = Len(stack) + n
      /\ \A q \in 1 .. Len(stack) : (stack \o more)[q] = stack[q]
  BY <1>1, <1>2
<1> PICK s : s = stack \o more
  OBVIOUS
<1>5. s \o <<r>> = Append(s, r)
  BY <1>2, <1>4
<1> QED
  BY <1>2, <1>3, <1>4, <1>5

\* There is one return address of the thunk more.
OneMore(stk, new) == \E p : p \notin Thunks(stk) /\ Thunks(new) = Thunks(stk) \cup {p}

LEMMA TopThunk ==
  ASSUME NEW stk \in Seq(Word), NEW new \in Seq(Word), Len(stk) < Len(new),
         \A q \in 1 .. Len(stk) : new[q] = stk[q],
         \A q \in Len(stk) + 1 .. Len(new) : new[q] = Thunk <=> q = Len(new)
  PROVE  OneMore(stk, new)
<1>1. DOMAIN stk = 1 .. Len(stk) /\ DOMAIN new = 1 .. Len(new)
  OBVIOUS
<1>2. \A q \in 1 .. Len(new) : q \in 1 .. Len(stk) \/ q \in Len(stk) + 1 .. Len(new)
  OBVIOUS
<1>3. Len(new) \in Len(stk) + 1 .. Len(new) /\ Len(new) \notin 1 .. Len(stk)
  OBVIOUS
<1>4. \A q \in 1 .. Len(stk) : q \in 1 .. Len(new)
  OBVIOUS
<1>5. \A q \in Len(stk) + 1 .. Len(new) : q \in 1 .. Len(new)
  OBVIOUS
<1>6. Len(new) \notin Thunks(stk)
  BY <1>1, <1>3 DEF Thunks
<1>7. Thunks(new) = Thunks(stk) \cup {Len(new)}
  BY <1>1, <1>2, <1>3, <1>4, <1>5 DEF Thunks
<1> QED
  BY <1>6, <1>7 DEF OneMore

LEMMA FourArgsSeq ==
  /\ FourArgs \in Seq(Word) /\ Len(FourArgs) = 5 /\ FourArgs[1] = Thunk
  /\ \A i \in 2 .. 5 : FourArgs[i] = Arg
  /\ \A w \in Word : /\ Append(FourArgs, w) \in Seq(Word) /\ Len(Append(FourArgs, w)) = 6
                     /\ Append(FourArgs, w)[1] = Thunk /\ Append(FourArgs, w)[6] = w
                     /\ \A i \in 2 .. 5 : Append(FourArgs, w)[i] = Arg
<1>1. FourArgs \in Seq(Word) /\ Len(FourArgs) = 5 /\ FourArgs[1] = Thunk
  BY Words DEF FourArgs
<1>2. FourArgs[2] = Arg /\ FourArgs[3] = Arg /\ FourArgs[4] = Arg /\ FourArgs[5] = Arg
  BY DEF FourArgs
<1>3. \A i \in 2 .. 5 : i = 2 \/ i = 3 \/ i = 4 \/ i = 5
  OBVIOUS
<1>4. \A i \in 2 .. 5 : FourArgs[i] = Arg
  BY <1>2, <1>3
<1>5. ASSUME NEW w \in Word
      PROVE  /\ Append(FourArgs, w) \in Seq(Word) /\ Len(Append(FourArgs, w)) = 6
             /\ Append(FourArgs, w)[1] = Thunk /\ Append(FourArgs, w)[6] = w
             /\ \A i \in 2 .. 5 : Append(FourArgs, w)[i] = Arg
  <2>1. Append(FourArgs, w) \in Seq(Word)
    BY Words DEF FourArgs
  <2>2. Len(Append(FourArgs, w)) = 6
    BY DEF FourArgs
  <2>3. Append(FourArgs, w)[1] = Thunk /\ Append(FourArgs, w)[6] = w
    BY DEF FourArgs
  <2>4. /\ Append(FourArgs, w)[2] = Arg /\ Append(FourArgs, w)[3] = Arg
        /\ Append(FourArgs, w)[4] = Arg /\ Append(FourArgs, w)[5] = Arg
    BY DEF FourArgs
  <2> QED
    BY <1>3, <2>1, <2>2, <2>3, <2>4
<1> QED
  BY <1>1, <1>4, <1>5

\* Of a guest body: what is known of its return address.
LEMMA BodyFacts ==
  ASSUME IsSeq(acts), InBody(eip, stack, acts)
  PROVE  /\ stack \in Seq(Word) /\ Len(stack) \in Nat /\ Len(acts) \in Nat \ {0}
         /\ Laid(stack, acts, Len(acts)) /\ Ret(Len(acts)) \in Word
         /\ acts[Len(acts)].own = 1 /\ acts[Len(acts)].sp = Len(stack)
         /\ \A q \in 1 .. Len(stack) : stack[q] \in Word
<1>1. Laid(stack, acts, Len(acts)) /\ acts[Len(acts)].own = 1 /\ acts[Len(acts)].sp = Len(stack)
  BY DEF InBody
<1>2. stack \in Seq(Word) /\ Len(stack) \in Nat /\ Len(acts) \in Nat \ {0}
  BY <1>1, Places
<1>3. Ret(Len(acts)) \in Word
  BY <1>2, Words
<1> QED
  BY <1>1, <1>2, <1>3

\* What becomes of a step that enters a procedure.
Arrived == IsSeq(acts') /\ Placing(eip', stack', acts') /\ eip' # Thunk

\* The words of a frame, from the top down.
FrameWords(words, w, pops) ==
  /\ words \in Seq(Word) /\ Len(words) = pops + 2
  /\ words[1] = Thunk /\ words[pops + 2] = w
  /\ \A i \in 2 .. pops + 1 : words[i] = Arg

LEMMA FrameStacked ==
  ASSUME NEW stk \in Seq(Word), NEW L, L = Len(stk), NEW from, \A q \in 1 .. L : from[q] = stk[q],
         NEW n, NEW pops \in Nat \ {0}, NEW words, FrameWords(words, Ret(n), pops),
         NEW new, Stacked(from, L, words, new)
  PROVE  Framed(stk, new, n, pops)
<1> PICK w : w = Ret(n)
  OBVIOUS
<1>1. L \in Nat
  OBVIOUS
<1>2. /\ new \in Seq(Word) /\ Len(new) = L + (pops + 2)
      /\ \A q \in 1 .. L : new[q] = stk[q]
      /\ \A i \in 1 .. pops + 2 : new[L + i] = words[pops + 2 + 1 - i]
  BY <1>1 DEF Stacked, FrameWords
<1>3. new[L + 1] = w /\ new[L + pops + 2] = Thunk
  <2>1. /\ 1 \in 1 .. pops + 2 /\ pops + 2 + 1 - 1 = pops + 2
        /\ pops + 2 \in 1 .. pops + 2 /\ pops + 2 + 1 - (pops + 2) = 1
        /\ L + (pops + 2) = L + pops + 2
    BY <1>1
  <2>2. new[L + 1] = words[pops + 2] /\ new[L + (pops + 2)] = words[1]
    BY <1>2, <2>1
  <2> QED
    BY <2>1, <2>2 DEF FrameWords
<1>4. ASSUME NEW q \in L + 2 .. L + pops + 1 PROVE new[q] = Arg
  <2> PICK i : i = q - L
    OBVIOUS
  <2>1. i \in 1 .. pops + 2 /\ pops + 2 + 1 - i \in 2 .. pops + 1 /\ q = L + i
    BY <1>1
  <2>2. new[q] = words[pops + 2 + 1 - i]
    BY <1>2, <2>1
  <2> QED
    BY <2>1, <2>2 DEF FrameWords
<1>5. Len(new) = L + pops + 2
  BY <1>1, <1>2
<1> QED
  BY <1>2, <1>3, <1>4, <1>5 DEF Framed

LEMMA SendFrame ==
  ASSUME IsSeq(acts), InBody(eip, stack, acts), NEW n \in Nat \ {0}
  PROVE  Framed(stack, Placed(Called(n), Len(Called(n)) - n + 5, Append(FourArgs, Ret(Len(acts)))),
                Len(acts), 4)
<1>1. stack \in Seq(Word) /\ Len(stack) \in Nat /\ Ret(Len(acts)) \in Word
  BY BodyFacts
<1>2. Len(Called(n)) = Len(stack) + n + 1 /\ \A q \in 1 .. Len(stack) : Called(n)[q] = stack[q]
  BY <1>1, CalledStack
<1>3. FrameWords(Append(FourArgs, Ret(Len(acts))), Ret(Len(acts)), 4)
  BY <1>1, FourArgsSeq DEF FrameWords
<1>4. Len(Called(n)) - n + 5 = Len(stack) + 4 + 2 /\ 4 \in Nat \ {0}
  BY <1>1, <1>2
<1>5. Fits(Called(n), Len(stack), Append(FourArgs, Ret(Len(acts))), Len(Called(n)) - n + 5)
  BY <1>1, <1>2, <1>3, <1>4 DEF FrameWords, Fits
<1>6. Stacked(Called(n), Len(stack), Append(FourArgs, Ret(Len(acts))),
              Placed(Called(n), Len(Called(n)) - n + 5, Append(FourArgs, Ret(Len(acts)))))
  BY <1>5, PlacedSeq
<1> QED
  BY <1>1, <1>2, <1>3, <1>4, <1>6, FrameStacked

\* A procedure entered on a frame of its own.
LEMMA FramedRun ==
  ASSUME IsSeq(acts), InBody(eip, stack, acts), NEW pops \in Nat \ {0},
         NEW new, Framed(stack, new, Len(acts), pops),
         NEW proc, NEW m, proc = "button" => pops = 4, Run(acts, new, proc, m, pops)
  PROVE  Arrived /\ OneMore(stack, stack')
<1>1. /\ stack \in Seq(Word) /\ Len(stack) \in Nat /\ Laid(stack, acts, Len(acts))
      /\ acts[Len(acts)].own = 1 /\ acts[Len(acts)].sp = Len(stack)
  BY BodyFacts
<1>2. /\ new \in Seq(Word) /\ Len(stack) < Len(new)
      /\ \A q \in 1 .. Len(stack) : new[q] = stack[q]
  BY <1>1 DEF Framed
<1>3. /\ Laid(new, acts, Len(acts)) /\ Base(new, Len(new), pops)
      /\ \A k \in 1 .. Len(acts) : acts[k].sp < Len(new)
      /\ \A q \in Len(stack) + 1 .. Len(new) : new[q] = Thunk <=> q = Len(new)
  BY <1>1, CallFrame
<1>4. Arrived /\ Thunks(stack') = Thunks(new)
  BY <1>3, Enters DEF Arrived
<1>5. OneMore(stack, new)
  BY <1>1, <1>2, <1>3, TopThunk
<1> QED
  BY <1>4, <1>5 DEF OneMore

LEMMA Sends ==
  ASSUME IsSeq(acts), InBody(eip, stack, acts), NEW n \in Nat \ {0}, NEW proc, NEW m,
         SendFrom(n, proc, m)
  PROVE  Arrived /\ OneMore(stack, stack')
<1>1. 4 \in Nat \ {0}
  OBVIOUS
<1> QED
  BY <1>1, SendFrame, FramedRun DEF SendFrom

LEMMA HookFrame ==
  ASSUME IsSeq(acts), InBody(eip, stack, acts)
  PROVE  Framed(stack, Placed(Called(12), Len(Called(12)) - HookArgs, <<Thunk, Arg, Arg, Arg, Ret(Len(acts))>>),
                Len(acts), 3)
<1> PICK w, words : w = Ret(Len(acts)) /\ words = <<Thunk, Arg, Arg, Arg, w>>
  OBVIOUS
<1>1. stack \in Seq(Word) /\ Len(stack) \in Nat /\ w \in Word
  BY BodyFacts
<1>2. Len(Called(12)) = Len(stack) + 12 + 1 /\ \A q \in 1 .. Len(stack) : Called(12)[q] = stack[q]
  <2>1. 12 \in Nat
    OBVIOUS
  <2> QED
    BY <1>1, <2>1, CalledStack
<1>3. FrameWords(words, w, 3)
  <2>1. words \in Seq(Word) /\ Len(words) = 5 /\ words[1] = Thunk /\ words[5] = w
        /\ words[2] = Arg /\ words[3] = Arg /\ words[4] = Arg
    BY <1>1, Words
  <2>2. \A i \in 2 .. 4 : i = 2 \/ i = 3 \/ i = 4
    OBVIOUS
  <2>3. \A i \in 2 .. 4 : words[i] = Arg
    BY <2>1, <2>2
  <2> QED
    BY <2>1, <2>3 DEF FrameWords
<1>4. Len(Called(12)) - HookArgs = Len(stack) + 3 + 2 /\ 3 \in Nat \ {0}
  BY <1>1, <1>2 DEF HookArgs
<1>5. Fits(Called(12), Len(stack), words, Len(Called(12)) - HookArgs)
  BY <1>1, <1>2, <1>3, <1>4 DEF FrameWords, Fits
<1>6. Stacked(Called(12), Len(stack), words, Placed(Called(12), Len(Called(12)) - HookArgs, words))
  BY <1>5, PlacedSeq
<1> QED
  BY <1>1, <1>2, <1>3, <1>4, <1>6, FrameStacked

LEMMA SendsHook ==
  ASSUME IsSeq(acts), InBody(eip, stack, acts), NEW h, SendHook(12, h)
  PROVE  Arrived /\ OneMore(stack, stack')
<1>1. Framed(stack, Placed(Called(12), Len(Called(12)) - HookArgs, <<Thunk, Arg, Arg, Arg, Ret(Len(acts))>>),
             Len(acts), 3)
  BY HookFrame
<1>2. Run(acts, Placed(Called(12), Len(Called(12)) - HookArgs, <<Thunk, Arg, Arg, Arg, Ret(Len(acts))>>),
          "app", Msg(h, "HOOK"), 3)
  BY DEF SendHook
<1>3. 3 \in Nat \ {0}
  OBVIOUS
<1> QED
  BY <1>1, <1>2, <1>3, FramedRun

LEMMA Tails ==
  ASSUME IsSeq(acts), InBody(eip, stack, acts), NEW proc, NEW m,
         Run(acts, stack \o <<Arg, Arg, Arg, Arg, Ret(Len(acts))>>, proc, m, 4)
  PROVE  Arrived /\ Thunks(stack') = Thunks(stack)
<1> PICK w, words, new : /\ w = Ret(Len(acts)) /\ words = <<Arg, Arg, Arg, Arg, w>>
                         /\ new = stack \o words
  OBVIOUS
<1>1. /\ stack \in Seq(Word) /\ Len(stack) \in Nat /\ w \in Word
      /\ Laid(stack, acts, Len(acts)) /\ acts[Len(acts)].own = 1 /\ acts[Len(acts)].sp = Len(stack)
  BY BodyFacts
<1>2. /\ words \in Seq(Word) /\ Len(words) = 5
      /\ words[1] = Arg /\ words[2] = Arg /\ words[3] = Arg /\ words[4] = Arg /\ words[5] = w
  BY <1>1, Words
<1>3. /\ new \in Seq(Word) /\ Len(new) = Len(stack) + 5
      /\ \A q \in 1 .. Len(stack) : new[q] = stack[q]
      /\ \A i \in 1 .. 5 : new[Len(stack) + i] = words[i]
  BY <1>1, <1>2
<1>4. ASSUME NEW q \in Len(stack) + 1 .. Len(stack) + 4 PROVE new[q] = Arg
  <2> PICK i \in 1 .. 4 : q = Len(stack) + i
    <3>1. q - Len(stack) \in 1 .. 4 /\ q = Len(stack) + (q - Len(stack))
      BY <1>1
    <3> QED
      BY <3>1
  <2>1. i \in 1 .. 5 /\ (i = 1 \/ i = 2 \/ i = 3 \/ i = 4)
    OBVIOUS
  <2>2. new[q] = words[i]
    BY <1>3, <2>1
  <2> QED
    BY <1>2, <2>1, <2>2
<1>5. new[Len(new)] = Ret(Len(acts))
  <2>1. 5 \in 1 .. 5
    OBVIOUS
  <2> QED
    BY <1>2, <1>3, <2>1
<1>6. /\ Laid(new, acts, Len(acts)) /\ Base(new, Len(new), 4)
      /\ \A i \in 1 .. Len(acts) : acts[i].sp < Len(new)
      /\ \A q \in Len(stack) + 1 .. Len(new) : new[q] # Thunk
  <2>1. Topped(stack, new, Ret(Len(acts)))
    BY <1>3, <1>4, <1>5 DEF Topped
  <2> QED
    BY <1>1, <2>1, TailFrame
<1>7. Arrived /\ Thunks(stack') = Thunks(new)
  BY <1>6, Enters DEF Arrived
<1>8. Thunks(new) = Thunks(stack)
  <2>1. DOMAIN stack = 1 .. Len(stack) /\ DOMAIN new = 1 .. Len(new)
    BY <1>1, <1>3
  <2>2. \A q \in 1 .. Len(new) : q \in 1 .. Len(stack) \/ q \in Len(stack) + 1 .. Len(new)
    BY <1>1, <1>3
  <2>3. \A q \in 1 .. Len(stack) : q \in 1 .. Len(new)
    BY <1>1, <1>3
  <2>4. \A q : q \in DOMAIN new /\ new[q] = Thunk <=> q \in DOMAIN stack /\ stack[q] = Thunk
    <3>1. ASSUME NEW q, q \in 1 .. Len(new), new[q] = Thunk
          PROVE  q \in 1 .. Len(stack) /\ stack[q] = Thunk
      BY <1>3, <1>6, <2>2, <3>1
    <3>2. ASSUME NEW q, q \in 1 .. Len(stack), stack[q] = Thunk
          PROVE  q \in 1 .. Len(new) /\ new[q] = Thunk
      BY <1>3, <2>3, <3>2
    <3> QED
      BY <2>1, <3>1, <3>2
  <2> QED
    BY <2>4 DEF Thunks
<1> QED
  BY <1>7, <1>8

LEMMA LaidSame ==
  ASSUME NEW stk, NEW ac, NEW n, Laid(stk, ac, n), NEW bs, \A k \in 1 .. n : bs[k] = ac[k]
  PROVE  Laid(stk, bs, n)
<1>1. stk \in Seq(Word) /\ Len(stk) \in Nat /\ n \in Nat \ {0} /\ n \in 1 .. n
  BY Places
<1>2. Cuts(stk, ac, n, Len(stk), n)
  <2>1. \A k \in 1 .. n : ac[k].own = 1 => ac[k].sp <= Len(stk)
    BY Reaching
  <2>2. \A k \in 1 .. n : ac[k].own = 0 => ac[k].sp - 4 <= Len(stk)
    BY Reaching
  <2>3. \A p \in 1 .. Len(stk) : IsRet(stk[p]) => stk[p][2] \in 1 .. n
    BY <1>1 DEF Laid, RetsKept, RetKept
  <2> QED
    BY <1>1, <2>1, <2>2, <2>3 DEF Cuts
<1> QED
  BY <1>1, <1>2, Cut

\* Where the thunk runs: a call's return address is on top.
LEMMA ThunkFacts ==
  ASSUME IsSeq(acts), InThunk(eip, stack, acts)
  PROVE  /\ stack \in Seq(Word) /\ Len(stack) \in Nat /\ Len(stack) >= 2
         /\ \A q \in 1 .. Len(stack) : stack[q] \in Word
         /\ Laid(stack, Front(acts), Len(acts) - 1) /\ Bare(stack, Len(stack))
         /\ IsSeq(Front(acts)) /\ Len(Front(acts)) = Len(acts) - 1 /\ Len(acts) - 1 \in Nat \ {0}
<1>1. Laid(stack, acts, Len(acts) - 1) /\ Bare(stack, Len(stack)) /\ Len(acts) > 1
  BY DEF InThunk
<1>2. stack \in Seq(Word) /\ Len(stack) \in Nat /\ Len(acts) - 1 \in Nat \ {0}
  BY <1>1, Places
<1>3. Len(acts) > 0
  BY <1>1 DEF IsSeq
<1>4. /\ IsSeq(Front(acts)) /\ Len(Front(acts)) = Len(acts) - 1
      /\ \A k \in 1 .. Len(acts) - 1 : Front(acts)[k] = acts[k]
  BY <1>3, FrontSeq
<1>5. Laid(stack, Front(acts), Len(acts) - 1)
  BY <1>1, <1>4, LaidSame
<1>6. Len(stack) >= 2
  BY <1>1, <1>2 DEF Bare
<1> QED
  BY <1>1, <1>2, <1>4, <1>5, <1>6

LEMMA SendsNext ==
  ASSUME IsSeq(acts), InThunk(eip, stack, acts), NEW proc, NEW m, SendNext(proc, m)
  PROVE  Arrived /\ OneMore(stack, stack')
<1> PICK L, ac, n, new : /\ L = Len(stack) /\ ac = Front(acts) /\ n = Len(acts) - 1
                         /\ new = Placed(stack, Len(stack) + 5, FourArgs)
  OBVIOUS
<1>1. /\ stack \in Seq(Word) /\ L \in Nat /\ \A q \in 1 .. L : stack[q] \in Word
      /\ Laid(stack, ac, n) /\ Bare(stack, L) /\ IsSeq(ac) /\ Len(ac) = n
  BY ThunkFacts
<1>2. Fits(stack, L, FourArgs, L + 5)
  BY <1>1, FourArgsSeq DEF Fits
<1>3. /\ new \in Seq(Word) /\ Len(new) = L + 5
      /\ \A p \in 1 .. L : new[p] = stack[p]
      /\ \A i \in 1 .. 5 : new[L + i] = FourArgs[5 + 1 - i]
  <2>1. Stacked(stack, L, FourArgs, new)
    BY <1>2, PlacedSeq
  <2> QED
    BY <2>1, FourArgsSeq DEF Stacked
<1>4. new[Len(new)] = Thunk
  <2>1. 5 \in 1 .. 5 /\ 5 + 1 - 5 = 1
    OBVIOUS
  <2> QED
    BY <1>3, <2>1, FourArgsSeq
<1>5. ASSUME NEW q \in L + 1 .. L + 4 PROVE new[q] = Arg
  <2> PICK i : i = q - L
    OBVIOUS
  <2>1. i \in 1 .. 5 /\ 5 + 1 - i \in 2 .. 5 /\ q = L + i
    BY <1>1
  <2> QED
    <3>1. new[L + i] = FourArgs[5 + 1 - i]
      BY <1>3, <2>1
    <3>2. FourArgs[5 + 1 - i] = Arg
      BY <2>1, FourArgsSeq
    <3> QED
      BY <2>1, <3>1, <3>2
<1>6. /\ Laid(new, ac, n) /\ Base(new, Len(new), 4)
      /\ \A i \in 1 .. n : ac[i].sp < Len(new)
      /\ \A q \in L + 1 .. Len(new) : new[q] = Thunk <=> q = Len(new)
  <2>1. Topped(stack, new, Thunk)
    BY <1>3, <1>4, <1>5 DEF Topped
  <2> QED
    BY <1>1, <2>1, NextFrame
<1>7. Run(ac, new, proc, m, 4)
  BY DEF SendNext
<1>8. Arrived /\ Thunks(stack') = Thunks(new)
  BY <1>1, <1>6, <1>7, Enters DEF Arrived
<1>9. OneMore(stack, new)
  <2>1. Len(stack) < Len(new)
    BY <1>1, <1>3
  <2> QED
    BY <1>1, <1>3, <1>6, <2>1, TopThunk
<1> QED
  BY <1>8, <1>9 DEF OneMore

\* What becomes of a step that leaves a procedure, for the thunk or for a body.
Departed ==
  /\ IsSeq(acts') /\ Placing(eip', stack', acts')
  /\ \/ eip' = Thunk /\ OneMore(stack', stack)
     \/ eip' # Thunk /\ Thunks(stack') = Thunks(stack)

LEMMA CutThunkSet ==
  ASSUME NEW stk \in Seq(Word), NEW l \in 1 .. Len(stk), NEW b \in l + 1 .. Len(stk),
         NEW new \in Seq(Word), Len(new) = l, \A q \in 1 .. l : new[q] = stk[q],
         \A q \in l + 1 .. Len(stk) : q # b => stk[q] # Thunk
  PROVE  /\ stk[b] = Thunk => OneMore(new, stk)
         /\ stk[b] # Thunk => Thunks(new) = Thunks(stk)
<1>1. DOMAIN stk = 1 .. Len(stk) /\ DOMAIN new = 1 .. l /\ Len(stk) \in Nat
  OBVIOUS
<1>2. \A q \in 1 .. Len(stk) : q \in 1 .. l \/ q \in l + 1 .. Len(stk)
  OBVIOUS
<1>3. b \in 1 .. Len(stk) /\ b \notin 1 .. l /\ \A q \in 1 .. l : q \in 1 .. Len(stk)
  OBVIOUS
<1>4. ASSUME stk[b] = Thunk PROVE b \notin Thunks(new) /\ Thunks(stk) = Thunks(new) \cup {b}
  <2>1. b \notin Thunks(new)
    BY <1>1, <1>3 DEF Thunks
  <2>2. Thunks(stk) \subseteq Thunks(new) \cup {b}
    BY <1>1, <1>2 DEF Thunks
  <2>3. Thunks(new) \cup {b} \subseteq Thunks(stk)
    BY <1>1, <1>3, <1>4 DEF Thunks
  <2> QED
    BY <2>1, <2>2, <2>3
<1>5. ASSUME stk[b] # Thunk PROVE Thunks(new) = Thunks(stk)
  <2>1. Thunks(stk) \subseteq Thunks(new)
    BY <1>1, <1>2, <1>5 DEF Thunks
  <2>2. Thunks(new) \subseteq Thunks(stk)
    BY <1>1, <1>3 DEF Thunks
  <2> QED
    BY <2>1, <2>2
<1> QED
  BY <1>4, <1>5 DEF OneMore

\* The last activation leaves through the return address at b.
Through(stk, ac, e, new, bs, b, pops) ==
  /\ e = stk[b]
  /\ new = SubSeq(stk, 1, b - 1 - pops)
  /\ bs = Left(stk[b], ac)

LEMMA LeavesThrough ==
  ASSUME NEW stk, NEW ac, IsSeq(ac), Len(ac) > 1,
         NEW n, Laid(stk, ac, n), n \in {Len(ac) - 1, Len(ac)},
         NEW b, NEW pops, Base(stk, b, pops), Stays(ac, n, b, Len(ac) - 1),
         NEW e, NEW new, NEW bs, Through(stk, ac, e, new, bs, b, pops)
  PROVE  /\ IsSeq(bs) /\ Placing(e, new, bs)
         /\ e = Thunk \/ IsRet(e)
<1> PICK l, w : l = b - 1 - pops /\ w = stk[b]
  OBVIOUS
<1>1. /\ stk \in Seq(Word) /\ Len(stk) \in Nat /\ n \in Nat \ {0} /\ Len(ac) \in Nat
      /\ b \in 1 .. Len(stk) /\ b \in DOMAIN stk /\ l \in 1 .. b - 1 /\ l \in 1 .. Len(stk)
      /\ IsAddr(w) /\ w \in Word /\ Reaches(stk, b, l) /\ b \in Nat /\ n <= Len(ac)
  <2>1. stk \in Seq(Word) /\ Len(stk) \in Nat /\ n \in Nat \ {0} /\ Len(ac) \in Nat
    BY Places DEF IsSeq
  <2>2. b \in 1 .. Len(stk) /\ IsAddr(w) /\ Reaches(stk, b, l)
    BY DEF Base
  <2>3. n <= Len(ac)
    BY <2>1
  <2> QED
    BY <2>1, <2>2, <2>3 DEF Reaches
<1>2. /\ new \in Seq(Word) /\ Len(new) = l /\ \A q \in 1 .. l : new[q] = stk[q]
      /\ e = w /\ bs = Left(w, ac)
  BY <1>1, CutOff DEF Through
<1>3. CASE IsRet(w)
  <2> PICK i : i = w[2]
    OBVIOUS
  <2>1. w = Ret(i) /\ i \in Nat
    BY <1>1, <1>3, Words
  <2>2. i \in 1 .. n /\ ac[i].own = 1 /\ ac[i].sp = l
    <3>1. RetKept(stk, ac, n, b)
      BY <1>1, <1>3 DEF Laid, RetsKept
    <3>2. i \in 1 .. n /\ ac[i].own = 1 /\ Reaches(stk, b, ac[i].sp)
      BY <3>1 DEF RetKept
    <3> QED
      BY <1>1, <3>2, ReachesOnce
  <2>3. bs = SubSeq(ac, 1, i)
    BY <1>2, <1>3, <2>1 DEF Left, IsRet
  <2>4. IsSeq(bs) /\ Len(bs) = i /\ \A k \in 1 .. i : bs[k] = ac[k]
    <3>1. i \in 0 .. Len(ac)
      BY <1>1, <2>2
    <3> QED
      BY <2>3, <3>1, CutSeq
  <2>5. Laid(new, bs, i)
    <3>1. BodyCut(stk, ac, i, new, bs)
      BY <1>2, <2>2, <2>4 DEF BodyCut
    <3> QED
      BY <2>2, <3>1, ReturnToBody
  <2>6. i \in 1 .. i
    BY <1>1, <2>2
  <2>7. InBody(e, new, bs)
    BY <1>2, <2>1, <2>2, <2>4, <2>5, <2>6 DEF InBody
  <2> QED
    BY <1>2, <1>3, <2>4, <2>7 DEF Placing
<1>4. CASE w = Thunk
  <2>1. bs = ac
    BY <1>2, <1>4, Words DEF Left, IsRet
  <2>2. Laid(new, ac, Len(ac) - 1)
    BY <1>2, LeaveCut
  <2>3. ThunkKept(stk, ac, n, b)
    BY <1>1, <1>4 DEF Laid, ThunksKept
  <2>4. PICK s \in 1 .. b - 1 : Reaches(stk, b, s) /\ Bare(stk, s)
    BY <2>3 DEF ThunkKept
  <2>5. s = l
    BY <1>1, <2>4, ReachesOnce
  <2>6. Bare(new, l)
    <3>1. l \in Nat /\ l <= Len(stk) /\ l <= Len(new)
      BY <1>1, <1>2
    <3> QED
      <4>1. Alike(stk, new, l)
        BY <1>1, <1>2, <3>1 DEF Alike
      <4> QED
        BY <2>4, <2>5, <4>1, BareSame
  <2>7. InThunk(e, new, bs)
    BY <1>2, <1>4, <2>1, <2>2, <2>6 DEF InThunk
  <2> QED
    BY <1>2, <1>4, <2>1, <2>7 DEF Placing
<1> QED
  BY <1>1, <1>3, <1>4 DEF IsAddr

LEMMA GuestLeaves ==
  ASSUME IsSeq(acts), InBody(eip, stack, acts), Len(acts) > 1, LeaveBody(1)
  PROVE  Departed
<1> PICK N, b, pops, l : N = Len(acts) /\ b = Len(stack) - 1 /\ pops = acts[N].pops /\ l = b - 1 - pops
  OBVIOUS
<1>1. /\ stack \in Seq(Word) /\ Len(stack) \in Nat /\ N \in Nat /\ N > 1 /\ N \in 1 .. N
      /\ Laid(stack, acts, N) /\ acts[N].own = 1 /\ acts[N].sp = Len(stack)
  BY BodyFacts
<1>2. stack[Len(stack)] = Local(N) /\ Base(stack, b, pops)
  <2>1. GuestKept(stack, acts[N], N)
    BY <1>1 DEF Laid, GuestsKept
  <2> QED
    BY <1>1, <2>1 DEF GuestKept
<1>3. /\ b \in 1 .. Len(stack) /\ l \in 1 .. b - 1 /\ b + 1 = Len(stack)
      /\ \A q \in l + 1 .. b - 1 : stack[q] = Arg
  <2>1. b \in 1 .. Len(stack) /\ Reaches(stack, b, l)
    BY <1>2 DEF Base
  <2> QED
    BY <1>1, <2>1 DEF Reaches
<1>4. Stays(acts, N, b, N - 1)
  <2>1. N - 1 \in 1 .. N /\ acts[N].sp > b
    BY <1>1, <1>3
  <2>2. ASSUME NEW k \in 1 .. N - 1 PROVE acts[k].sp <= b
    <3>1. k \in 1 .. N /\ k < N
      BY <1>1
    <3>2. acts[k].sp < acts[N].sp
      BY <1>1, <3>1 DEF Laid, Rising
    <3>3. acts[k].sp \in Nat
      BY <1>1, <3>1, Places
    <3> QED
      BY <1>1, <1>3, <3>2, <3>3
  <2> QED
    BY <1>1, <2>1, <2>2 DEF Stays
<1>5. Through(stack, acts, eip', stack', acts', b, pops)
  BY <1>1 DEF Through, LeaveBody, Last
<1>6. IsSeq(acts') /\ Placing(eip', stack', acts') /\ (eip' = Thunk \/ IsRet(eip'))
  BY <1>1, <1>2, <1>4, <1>5, LeavesThrough
<1>7. /\ eip' = stack[b] /\ stack' \in Seq(Word) /\ Len(stack') = l
      /\ \A q \in 1 .. l : stack'[q] = stack[q]
  <2>1. l \in 1 .. Len(stack)
    BY <1>1, <1>3
  <2> QED
    BY <1>1, <1>5, <2>1, CutOff DEF Through
<1>8. ASSUME NEW q \in l + 1 .. Len(stack), q # b PROVE stack[q] # Thunk
  <2>1. q \in l + 1 .. b - 1 \/ q = Len(stack)
    BY <1>1, <1>3, <1>8
  <2>2. Local(N) # Thunk /\ Arg # Thunk
    BY <1>1, Words
  <2> QED
    BY <1>2, <1>3, <2>1, <2>2
<1>9. /\ eip' = Thunk => OneMore(stack', stack)
      /\ eip' # Thunk => Thunks(stack') = Thunks(stack)
  <2>1. l \in 1 .. Len(stack) /\ b \in l + 1 .. Len(stack)
    BY <1>1, <1>3
  <2> QED
    BY <1>1, <1>7, <1>8, <2>1, CutThunkSet
<1> QED
  BY <1>6, <1>9 DEF Departed

LEMMA ButtonLeaves ==
  ASSUME IsSeq(acts), InButton(eip, stack, acts), LeaveBody(0)
  PROVE  Departed
<1> PICK N, b, pops, l : N = Len(acts) /\ b = Len(stack) /\ pops = 4 /\ l = b - 1 - pops
  OBVIOUS
<1>1. /\ Laid(stack, acts, N - 1) /\ acts[N].pops = pops /\ Base(stack, b, pops) /\ N > 1
      /\ \A k \in 1 .. N - 1 : acts[k].sp < b
  BY DEF InButton
<1>2. /\ stack \in Seq(Word) /\ b \in Nat /\ N - 1 \in Nat \ {0} /\ N \in Nat
      /\ \A k \in 1 .. N - 1 : acts[k].sp \in Nat
  <2> PICK n : n = N - 1
    OBVIOUS
  <2>1. stack \in Seq(Word) /\ b \in Nat /\ n \in Nat \ {0} /\ \A k \in 1 .. n : acts[k].sp \in Nat
    BY <1>1, Places
  <2>2. N \in Nat
    BY DEF IsSeq
  <2> QED
    BY <2>1, <2>2
<1>3. /\ b \in 1 .. b /\ l \in 1 .. b - 1
      /\ \A q \in l + 1 .. b - 1 : stack[q] = Arg
  <2>1. b \in 1 .. Len(stack) /\ Reaches(stack, b, l)
    BY <1>1 DEF Base
  <2> QED
    BY <1>2, <2>1 DEF Reaches
<1>4. Stays(acts, N - 1, b, N - 1)
  BY <1>1, <1>2 DEF Stays
<1>5. Through(stack, acts, eip', stack', acts', b, pops)
  BY <1>1, <1>2 DEF Through, LeaveBody, Last
<1>6. IsSeq(acts') /\ Placing(eip', stack', acts') /\ (eip' = Thunk \/ IsRet(eip'))
  BY <1>1, <1>4, <1>5, LeavesThrough
<1>7. /\ eip' = stack[b] /\ stack' \in Seq(Word) /\ Len(stack') = l
      /\ \A q \in 1 .. l : stack'[q] = stack[q]
  <2>1. l \in 1 .. Len(stack)
    BY <1>2, <1>3
  <2> QED
    BY <1>2, <1>5, <2>1, CutOff DEF Through
<1>8. ASSUME NEW q \in l + 1 .. Len(stack), q # b PROVE stack[q] # Thunk
  <2>1. q \in l + 1 .. b - 1
    BY <1>2, <1>3, <1>8
  <2> QED
    BY <1>3, <2>1, Words
<1>9. /\ eip' = Thunk => OneMore(stack', stack)
      /\ eip' # Thunk => Thunks(stack') = Thunks(stack)
  <2>1. l \in 1 .. Len(stack) /\ b \in l + 1 .. Len(stack)
    BY <1>2, <1>3
  <2> QED
    BY <1>2, <1>7, <1>8, <2>1, CutThunkSet
<1> QED
  BY <1>6, <1>9 DEF Departed

LEMMA Finishes ==
  ASSUME IsSeq(acts), InThunk(eip, stack, acts), NEW value, FinishCall(value)
  PROVE  Departed
<1> PICK L, ac, n, w : L = Len(stack) /\ ac = Front(acts) /\ n = Len(acts) - 1 /\ w = stack[L]
  OBVIOUS
<1>1. /\ stack \in Seq(Word) /\ L \in Nat /\ L >= 2 /\ w \in Word
      /\ Laid(stack, ac, n) /\ Bare(stack, L) /\ IsSeq(ac) /\ Len(ac) = n /\ n \in Nat \ {0}
  <2>1. L \in 1 .. L
    BY ThunkFacts
  <2> QED
    BY <2>1, ThunkFacts
<1>2. IsAddr(w) /\ stack[L - 1] # Arg /\ L - 1 \in 1 .. L
  BY <1>1 DEF Bare
<1>3. eip' = w /\ stack' = Front(stack) /\ acts' = Left(w, ac)
  BY DEF FinishCall
<1>4. stack' \in Seq(Word) /\ Len(stack') = L - 1 /\ \A q \in 1 .. L - 1 : stack'[q] = stack[q]
  BY <1>1, <1>2, <1>3, CutOff DEF Front
<1>5. /\ w = Thunk => OneMore(stack', stack)
      /\ w # Thunk => Thunks(stack') = Thunks(stack)
  <2>1. L - 1 \in 1 .. Len(stack) /\ L \in L - 1 + 1 .. Len(stack)
    BY <1>1, <1>2
  <2>2. \A q \in L - 1 + 1 .. Len(stack) : q = L
    BY <1>1
  <2> QED
    BY <1>1, <1>4, <2>1, <2>2, CutThunkSet
<1>6. CASE IsRet(w)
  <2> PICK i : i = w[2]
    OBVIOUS
  <2>1. w = Ret(i) /\ i \in Nat /\ w # Thunk
    BY <1>1, <1>6, Words
  <2>2. i \in 1 .. n /\ ac[i].own = 1 /\ ac[i].sp = L - 1
    <3>1. RetKept(stack, ac, n, L)
      <4>1. L \in DOMAIN stack
        BY <1>1
      <4> QED
        BY <1>1, <1>6, <4>1 DEF Laid, RetsKept
    <3>2. i \in 1 .. n /\ ac[i].own = 1 /\ Reaches(stack, L, ac[i].sp)
      BY <3>1 DEF RetKept
    <3>3. Reaches(stack, L, L - 1)
      <4>1. L - 1 \in 1 .. L - 1 /\ ~\E q : q \in L - 1 + 1 .. L - 1
        BY <1>1
      <4> QED
        BY <1>2, <4>1 DEF Reaches
    <3>4. L \in Nat
      BY <1>1
    <3> QED
      BY <3>2, <3>3, <3>4, ReachesOnce
  <2>3. acts' = SubSeq(ac, 1, i)
    BY <1>3, <1>6, <2>1 DEF Left, IsRet
  <2>4. IsSeq(acts') /\ Len(acts') = i /\ \A k \in 1 .. i : acts'[k] = ac[k]
    <3>1. i \in 0 .. Len(ac)
      BY <1>1, <2>2
    <3> QED
      BY <1>1, <2>3, <3>1, CutSeq
  <2>5. Laid(stack', acts', i)
    <3>1. BodyCut(stack, ac, i, stack', acts')
      BY <1>4, <2>2, <2>4 DEF BodyCut
    <3> QED
      BY <1>1, <2>2, <3>1, ReturnToBody
  <2>6. i \in 1 .. i
    BY <1>1, <2>2
  <2>7. InBody(eip', stack', acts')
    BY <1>3, <1>4, <2>1, <2>2, <2>4, <2>5, <2>6 DEF InBody
  <2> QED
    BY <1>3, <1>5, <2>1, <2>4, <2>7 DEF Placing, Departed
<1>7. CASE w = Thunk
  <2>1. acts' = ac
    BY <1>3, <1>7, Words DEF Left, IsRet
  <2>2. n > 1 /\ Laid(stack', ac, n - 1) /\ Bare(stack', Len(stack'))
    BY <1>1, <1>4, <1>7, ThunkAgain
  <2>3. InThunk(eip', stack', acts')
    BY <1>1, <1>3, <1>7, <2>1, <2>2 DEF InThunk
  <2> QED
    BY <1>1, <1>3, <1>5, <1>7, <2>1, <2>3 DEF Placing, Departed
<1> QED
  BY <1>2, <1>6, <1>7 DEF IsAddr

LEMMA StackedLow ==
  ASSUME NEW stk, NEW l \in Nat, NEW words, FrameWords(words, stk[l + 5], 4),
         NEW new, Stacked(stk, l, words, new)
  PROVE  Lowered(stk, new, l)
<1>1. /\ Len(words) = 6 /\ words[1] = Thunk /\ words[6] = stk[l + 5]
      /\ \A i \in 2 .. 5 : words[i] = Arg
  BY DEF FrameWords
<1>2. /\ new \in Seq(Word) /\ Len(new) = l + 6 /\ \A p \in 1 .. l : new[p] = stk[p]
      /\ \A i \in 1 .. 6 : new[l + i] = words[6 + 1 - i]
  BY <1>1 DEF Stacked
<1>3. new[l + 1] = stk[l + 5] /\ new[l + 6] = Thunk
  <2>1. 1 \in 1 .. 6 /\ 6 + 1 - 1 = 6 /\ 6 \in 1 .. 6 /\ 6 + 1 - 6 = 1
    OBVIOUS
  <2> QED
    BY <1>1, <1>2, <2>1
<1>4. ASSUME NEW q \in l + 2 .. l + 5 PROVE new[q] = Arg
  <2> PICK i : i = q - l
    OBVIOUS
  <2>1. i \in 1 .. 6 /\ 6 + 1 - i \in 2 .. 5 /\ q = l + i
    OBVIOUS
  <2> QED
    BY <1>1, <1>2, <2>1
<1> QED
  BY <1>2, <1>3, <1>4 DEF Lowered

LEMMA LoweredPlaced ==
  ASSUME NEW stk \in Seq(Word), NEW l \in Nat, Len(stk) = l + 5,
         NEW words, FrameWords(words, stk[l + 5], 4), NEW top, top = l + 6
  PROVE  Lowered(stk, Placed(stk, top, words), l)
<1>1. \A p \in 1 .. l : stk[p] \in Word
  OBVIOUS
<1>2. Fits(stk, l, words, top)
  BY <1>1 DEF Fits, FrameWords
<1>3. Stacked(stk, l, words, Placed(stk, top, words))
  BY <1>2, PlacedSeq
<1> QED
  BY <1>3, StackedLow

LEMMA ButtonDraws ==
  ASSUME IsSeq(acts), InButton(eip, stack, acts), NEW proc, NEW m,
         Run(acts, Placed(stack, Len(stack) + 1, Append(FourArgs, stack[Len(stack)])), proc, m, 4)
  PROVE  /\ Arrived
         /\ \E s \in Seq(Word), l \in Nat : /\ Len(stack) = l + 5 /\ Lowered(stack, s, l)
                                            /\ stack \in Seq(Word) /\ Base(stack, l + 5, 4)
                                            /\ Thunks(stack') = Thunks(s)
<1>1. /\ Laid(stack, acts, Len(acts) - 1) /\ Len(acts) > 1
      /\ acts[Len(acts)].own = 0 /\ acts[Len(acts)].sp = Len(stack)
      /\ Base(stack, Len(stack), 4) /\ \A k \in 1 .. Len(acts) - 1 : acts[k].sp < Len(stack)
  BY DEF InButton
<1>2. stack \in Seq(Word) /\ Len(stack) \in Nat /\ Len(acts) \in Nat
  <2>1. stack \in Seq(Word) /\ Len(stack) \in Nat
    BY <1>1, Places
  <2> QED
    BY <2>1 DEF IsSeq
<1> PICK n \in Nat \ {0} : Len(acts) = n + 1
  <2>1. Len(acts) - 1 \in Nat \ {0} /\ Len(acts) = (Len(acts) - 1) + 1
    BY <1>1, <1>2
  <2> QED
    BY <2>1
<1> PICK l \in Nat \ {0} : Len(stack) = l + 5
  <2>1. Reaches(stack, Len(stack), Len(stack) - 1 - 4)
    BY <1>1 DEF Base
  <2>2. Len(stack) - 5 \in Nat \ {0} /\ Len(stack) = (Len(stack) - 5) + 5
    BY <1>2, <2>1 DEF Reaches
  <2> QED
    BY <2>2
<1>3. Len(acts) - 1 = n
  OBVIOUS
<1> PICK w, new : w = stack[l + 5] /\ new = Placed(stack, Len(stack) + 1, Append(FourArgs, w))
  OBVIOUS
<1>4. w \in Word
  <2>1. l + 5 \in 1 .. Len(stack)
    OBVIOUS
  <2> QED
    BY <1>2, <2>1
<1>5. FrameWords(Append(FourArgs, w), w, 4)
  BY <1>4, FourArgsSeq DEF FrameWords
<1>6. Len(stack) + 1 = l + 6 /\ l \in Nat
  OBVIOUS
<1>7. Lowered(stack, new, l)
  BY <1>2, <1>5, <1>6, LoweredPlaced
<1>8. /\ Laid(new, acts, Len(acts)) /\ Base(new, Len(new), 4)
      /\ \A k \in 1 .. Len(acts) : acts[k].sp < Len(new)
  <2>1. /\ Laid(stack, acts, n) /\ Base(stack, l + 5, 4)
        /\ \A k \in 1 .. n : acts[k].sp < l + 5
        /\ acts[n + 1].own = 0 /\ acts[n + 1].sp = l + 5
    BY <1>1, <1>3
  <2> QED
    BY <1>6, <1>7, <2>1, ButtonFrame
<1>9. Arrived /\ Thunks(stack') = Thunks(new)
  BY <1>8, Enters DEF Arrived
<1>10. l \in Nat /\ Base(stack, l + 5, 4)
  BY <1>1, <1>3
<1> QED
  BY <1>2, <1>3, <1>7, <1>9, <1>10 DEF Lowered

-----------------------------------------------------------------------------
(***************************************************************************)
(* Counting.                                                               *)
(***************************************************************************)
LEMMA ThunksFinite ==
  ASSUME NEW stk \in Seq(Word)
  PROVE  IsFiniteSet(Thunks(stk)) /\ Cardinality(Thunks(stk)) \in Nat
<1>1. Thunks(stk) \subseteq 1 .. Len(stk) /\ Len(stk) \in Nat
  BY DEF Thunks
<1>2. IsFiniteSet(1 .. Len(stk))
  BY <1>1, FS_Interval
<1>3. IsFiniteSet(Thunks(stk))
  BY <1>1, <1>2, FS_Subset
<1> QED
  BY <1>3, FS_CardinalityType

LEMMA OneMoreCounts ==
  ASSUME NEW stk \in Seq(Word), NEW new, OneMore(stk, new)
  PROVE  Cardinality(Thunks(new)) = Cardinality(Thunks(stk)) + 1
<1>1. PICK p : p \notin Thunks(stk) /\ Thunks(new) = Thunks(stk) \cup {p}
  BY DEF OneMore
<1>2. IsFiniteSet(Thunks(stk))
  BY ThunksFinite
<1> QED
  BY <1>1, <1>2, FS_AddElement

LEMMA LoweredCounts ==
  ASSUME NEW stk \in Seq(Word), NEW new \in Seq(Word), NEW l \in Nat, Len(stk) = l + 5,
         Base(stk, l + 5, 4), Lowered(stk, new, l)
  PROVE  Cardinality(Thunks(new)) = Cardinality(Thunks(stk)) + 1
<1> PICK low : low = {p \in 1 .. l : stk[p] = Thunk}
  OBVIOUS
<1>1. IsFiniteSet(low)
  <2>1. IsFiniteSet(1 .. l)
    BY FS_Interval
  <2> QED
    BY <2>1, FS_Subset
<1>2. l + 1 \notin low /\ l + 5 \notin low /\ l + 6 \notin low
  OBVIOUS
<1>3. \A q \in l + 1 .. l + 4 : stk[q] = Arg
  <2>1. l + 5 - 1 - 4 = l
    OBVIOUS
  <2> QED
    BY <2>1 DEF Base, Reaches
<1>4. Arg # Thunk
  BY Words
<1>5. DOMAIN stk = 1 .. l + 5 /\ DOMAIN new = 1 .. l + 6
  BY DEF Lowered
<1>6. \A q \in 1 .. l + 5 : q \in 1 .. l \/ q \in l + 1 .. l + 4 \/ q = l + 5
  OBVIOUS
<1>7. \A q \in 1 .. l + 6 : q \in 1 .. l \/ q = l + 1 \/ q \in l + 2 .. l + 5 \/ q = l + 6
  OBVIOUS
<1>8. /\ \A q \in 1 .. l : q \in 1 .. l + 5 /\ q \in 1 .. l + 6
      /\ l + 1 \in 1 .. l + 6 /\ l + 6 \in 1 .. l + 6 /\ l + 5 \in 1 .. l + 5 /\ l + 1 # l + 6
  OBVIOUS
<1>9. CASE stk[l + 5] = Thunk
  <2>1. Thunks(stk) = low \cup {l + 5}
    BY <1>3, <1>4, <1>5, <1>6, <1>8, <1>9 DEF Thunks
  <2>2. Thunks(new) = (low \cup {l + 1}) \cup {l + 6}
    BY <1>4, <1>5, <1>7, <1>8, <1>9 DEF Thunks, Lowered
  <2>3. IsFiniteSet(low \cup {l + 1}) /\ Cardinality(low \cup {l + 1}) = Cardinality(low) + 1
    BY <1>1, <1>2, FS_AddElement
  <2>4. l + 6 \notin low \cup {l + 1}
    BY <1>2, <1>8
  <2>5. Cardinality((low \cup {l + 1}) \cup {l + 6}) = Cardinality(low \cup {l + 1}) + 1
    BY <2>3, <2>4, FS_AddElement
  <2>6. Cardinality(low \cup {l + 5}) = Cardinality(low) + 1
    BY <1>1, <1>2, FS_AddElement
  <2> QED
    BY <2>1, <2>2, <2>3, <2>5, <2>6
<1>10. CASE stk[l + 5] # Thunk
  <2>1. Thunks(stk) = low
    BY <1>3, <1>4, <1>5, <1>6, <1>8, <1>10 DEF Thunks
  <2>2. Thunks(new) = low \cup {l + 6}
    BY <1>4, <1>5, <1>7, <1>8, <1>10 DEF Thunks, Lowered
  <2>3. Cardinality(low \cup {l + 6}) = Cardinality(low) + 1
    BY <1>1, <1>2, FS_AddElement
  <2> QED
    BY <2>1, <2>2, <2>3
<1> QED
  BY <1>9, <1>10

-----------------------------------------------------------------------------
(***************************************************************************)
(* The frames: one for every word of the thunk on the stack, and one more  *)
(* while the thunk runs.                                                   *)
(***************************************************************************)
Counted(e, stk, fs) == IsSeq(fs) /\ Len(fs) = Cardinality(Thunks(stk)) + Bit(e = Thunk)

Sound(e, stk, ac, fs) == IsSeq(ac) /\ Placing(e, stk, ac) /\ Counted(e, stk, fs)

LEMMA PlacingStack ==
  ASSUME NEW e, NEW stk, NEW ac, Placing(e, stk, ac)
  PROVE  stk \in Seq(Word) /\ Cardinality(Thunks(stk)) \in Nat
<1>1. \E n : Laid(stk, ac, n)
  BY DEF Placing, InBody, InButton, InThunk
<1>2. stk \in Seq(Word)
  BY <1>1 DEF Laid
<1> QED
  BY <1>2, ThunksFinite

LEMMA CountsOnce ==
  ASSUME NEW e, NEW stk, NEW ac, Placing(e, stk, ac), NEW new, OneMore(stk, new)
  PROVE  Cardinality(Thunks(new)) = Cardinality(Thunks(stk)) + 1 /\ Cardinality(Thunks(stk)) \in Nat
<1>1. stk \in Seq(Word) /\ Cardinality(Thunks(stk)) \in Nat
  BY PlacingStack
<1> QED
  BY <1>1, OneMoreCounts

\* While the thunk runs, the frame on top is its own.
LEMMA PoppedFrames ==
  ASSUME Sound(eip, stack, acts, frames), eip = Thunk
  PROVE  IsSeq(Popped) /\ Len(Popped) = Cardinality(Thunks(stack)) /\ Cardinality(Thunks(stack)) \in Nat
<1>1. IsSeq(frames) /\ Len(frames) = Cardinality(Thunks(stack)) + 1
  BY DEF Sound, Counted, Bit
<1>2. Cardinality(Thunks(stack)) \in Nat
  BY PlacingStack DEF Sound
<1>3. Len(frames) > 0
  BY <1>1, <1>2
<1>4. frames # <<>>
  BY <1>3
<1>5. IsSeq(Front(frames)) /\ Len(Front(frames)) = Len(frames) - 1
  BY <1>1, <1>3, FrontSeq
<1> QED
  BY <1>1, <1>2, <1>4, <1>5 DEF Popped

\* A procedure is entered that comes back to the thunk: `fs` are the frames below its own.
LEMMA Calling ==
  ASSUME Sound(eip, stack, acts, frames), Arrived,
         Cardinality(Thunks(stack')) = Cardinality(Thunks(stack)) + 1,
         NEW fs, IsSeq(fs), Len(fs) = Cardinality(Thunks(stack)), NEW f, frames' = Append(fs, f)
  PROVE  Sound(eip', stack', acts', frames')
<1>1. Cardinality(Thunks(stack)) \in Nat
  BY PlacingStack DEF Sound
<1>2. IsSeq(frames') /\ Len(frames') = Cardinality(Thunks(stack')) /\ Cardinality(Thunks(stack')) \in Nat
  BY <1>1, AppendSeq
<1>3. Bit(eip' = Thunk) = 0
  BY DEF Arrived, Bit
<1>4. Counted(eip', stack', frames')
  BY <1>2, <1>3 DEF Counted
<1> QED
  BY <1>4 DEF Sound, Arrived

\* A procedure is left, on the frames `fs` of those that still come back to the thunk.
LEMMA Leaving ==
  ASSUME Sound(eip, stack, acts, frames), Departed,
         IsSeq(frames'), Len(frames') = Cardinality(Thunks(stack))
  PROVE  Sound(eip', stack', acts', frames')
<1>1. IsSeq(acts') /\ Placing(eip', stack', acts')
  BY DEF Departed
<1>2. CASE eip' = Thunk /\ OneMore(stack', stack)
  <2>1. Cardinality(Thunks(stack)) = Cardinality(Thunks(stack')) + 1
    BY <1>1, <1>2, CountsOnce
  <2>2. Bit(eip' = Thunk) = 1
    BY <1>2 DEF Bit
  <2>3. Counted(eip', stack', frames')
    BY <2>1, <2>2 DEF Counted
  <2> QED
    BY <1>1, <2>3 DEF Sound
<1>3. CASE eip' # Thunk /\ Thunks(stack') = Thunks(stack)
  <2>1. Bit(eip' = Thunk) = 0
    BY <1>3 DEF Bit
  <2>2. Cardinality(Thunks(stack)) \in Nat
    BY PlacingStack DEF Sound
  <2>3. Counted(eip', stack', frames')
    BY <1>3, <2>1, <2>2 DEF Counted
  <2> QED
    BY <1>1, <2>3 DEF Sound
<1> QED
  BY <1>2, <1>3 DEF Departed

\* Of a step of a guest body.
LEMMA BodyRuns ==
  ASSUME Sound(eip, stack, acts, frames), Running
  PROVE  /\ IsSeq(acts) /\ InBody(eip, stack, acts) /\ eip # Thunk
         /\ IsSeq(frames) /\ Len(frames) = Cardinality(Thunks(stack))
<1>1. IsSeq(acts) /\ IsSeq(frames) /\ Len(frames) = Cardinality(Thunks(stack)) + Bit(eip = Thunk)
  BY DEF Sound, Counted
<1>2. eip # Thunk /\ eip # Button
  BY DEF Running, Thunk, Button
<1>3. InBody(eip, stack, acts)
  BY <1>2 DEF Sound, Placing, InButton, InThunk
<1>4. Bit(eip = Thunk) = 0
  BY <1>2 DEF Bit
<1>5. Cardinality(Thunks(stack)) \in Nat
  BY PlacingStack DEF Sound
<1> QED
  BY <1>1, <1>2, <1>3, <1>4, <1>5

\* A call that sends.
LEMMA SendKeeps ==
  ASSUME Sound(eip, stack, acts, frames), Running, Arrived, OneMore(stack, stack'),
         NEW f, frames' = Append(frames, f)
  PROVE  Sound(eip', stack', acts', frames')
<1>1. IsSeq(frames) /\ Len(frames) = Cardinality(Thunks(stack))
  BY BodyRuns
<1>2. Cardinality(Thunks(stack')) = Cardinality(Thunks(stack)) + 1
  BY CountsOnce DEF Sound
<1> QED
  BY <1>1, <1>2, Calling

LEMMA SendFromKeeps ==
  ASSUME Sound(eip, stack, acts, frames), Running, NEW n \in Nat \ {0}, NEW proc, NEW m,
         SendFrom(n, proc, m), NEW f, frames' = Append(frames, f)
  PROVE  Sound(eip', stack', acts', frames')
<1>1. IsSeq(acts) /\ InBody(eip, stack, acts)
  BY BodyRuns
<1>2. Arrived /\ OneMore(stack, stack')
  BY <1>1, Sends
<1> QED
  BY <1>2, SendKeeps

\* A call that goes on in a procedure, which returns to the call's caller.
LEMMA TailKeeps ==
  ASSUME Sound(eip, stack, acts, frames), Running, NEW proc, NEW m, TailCall(proc, m)
  PROVE  Sound(eip', stack', acts', frames')
<1>1. /\ IsSeq(acts) /\ InBody(eip, stack, acts)
      /\ IsSeq(frames) /\ Len(frames) = Cardinality(Thunks(stack))
  BY BodyRuns
<1>2. Run(acts, stack \o <<Arg, Arg, Arg, Arg, Ret(Len(acts))>>, proc, m, 4) /\ frames' = frames
  BY DEF TailCall
<1>3. Arrived /\ Thunks(stack') = Thunks(stack)
  BY <1>1, <1>2, Tails
<1>4. Bit(eip' = Thunk) = 0 /\ Cardinality(Thunks(stack)) \in Nat
  BY <1>3, PlacingStack DEF Sound, Arrived, Bit
<1>5. Counted(eip', stack', frames')
  BY <1>1, <1>2, <1>3, <1>4 DEF Counted
<1> QED
  BY <1>3, <1>5 DEF Sound, Arrived

LEMMA SameKeeps ==
  ASSUME Sound(eip, stack, acts, frames), UNCHANGED <<stack, eip, acts, frames>>
  PROVE  Sound(eip', stack', acts', frames')
  OBVIOUS

LEMMA ReturnedKeeps ==
  ASSUME Sound(eip, stack, acts, frames), NEW value, Returned(value)
  PROVE  Sound(eip', stack', acts', frames')
  BY DEF Returned

LEMMA CreatesKeep ==
  ASSUME Sound(eip, stack, acts, frames), Running, NEW n \in Nat \ {0}, hooked => n = 12,
         NEW h, NEW kind, NEW proc, NEW creates, SendCreates(n, h, kind, proc, creates)
  PROVE  Sound(eip', stack', acts', frames')
<1>1. CASE hooked
  <2>1. SendHook(12, h) /\ frames' = Append(frames, More(h, kind, proc, creates))
    BY <1>1 DEF SendCreates
  <2>2. IsSeq(acts) /\ InBody(eip, stack, acts)
    BY BodyRuns
  <2>3. Arrived /\ OneMore(stack, stack')
    BY <2>1, <2>2, SendsHook
  <2> QED
    BY <2>1, <2>3, SendKeeps
<1>2. CASE ~hooked /\ creates # <<>>
  <2>1. /\ SendFrom(n, proc, Head(creates))
        /\ frames' = Append(frames, More(h, kind, proc, Tail(creates)))
    BY <1>2 DEF SendCreates
  <2> QED
    BY <2>1, SendFromKeeps
<1>3. CASE ~hooked /\ ~(creates # <<>>)
  <2>1. UNCHANGED <<stack, eip, acts, frames>>
    BY <1>3 DEF SendCreates
  <2> QED
    BY <2>1, SameKeeps
<1> QED
  BY <1>1, <1>2, <1>3

-----------------------------------------------------------------------------
(***************************************************************************)
(* The invariant, and one case for every action.                           *)
(***************************************************************************)
IInv == Sound(eip, stack, acts, frames) /\ HookInv

LEMMA InitSound == NoHookedDialogs /\ Init => IInv
<1> SUFFICES ASSUME NoHookedDialogs, Init PROVE IInv
  OBVIOUS
<1>1. /\ stack = [i \in 1 .. 8 |-> Local(1)] /\ eip = Ret(1) /\ frames = <<>>
      /\ acts = <<[sp |-> 8, own |-> 1, msg |-> Msg(0, "none"), pops |-> 0, back |-> FALSE]>>
      /\ guest \in Guests /\ hooked = guest.hooked
  BY DEF Init, MainWords
<1>2. /\ stack \in Seq(Word) /\ Len(stack) = 8 /\ DOMAIN stack = 1 .. 8
      /\ \A p \in 1 .. 8 : stack[p] = Local(1)
  BY <1>1, Words
<1>3. /\ Len(acts) = 1 /\ acts[1].sp = 8 /\ acts[1].own = 1
      /\ IsSeq(acts)
  <2>1. PICK r : r = [sp |-> 8, own |-> 1, msg |-> Msg(0, "none"), pops |-> 0, back |-> FALSE]
    OBVIOUS
  <2>2. acts = <<r>> /\ r.sp = 8 /\ r.own = 1
    BY <1>1, <2>1
  <2>3. acts \in Seq({r}) /\ Len(acts) = 1 /\ acts[1] = r
    BY <2>2
  <2> QED
    BY <2>2, <2>3 DEF IsSeq
<1>4. Rising(acts, 1)
  <2>1. \A k \in 1 .. 1 : k = 1
    OBVIOUS
  <2> QED
    BY <1>3, <2>1 DEF Rising
<1>5. GuestsKept(stack, acts, 1) /\ ButtonsKept(stack, acts, 1)
  <2>1. \A k \in 1 .. 1 : k = 1
    OBVIOUS
  <2>2. GuestKept(stack, acts[1], 1)
    BY <1>2, <1>3 DEF GuestKept
  <2> QED
    BY <1>3, <2>1, <2>2 DEF GuestsKept, ButtonsKept
<1>6. \A p \in DOMAIN stack : ~IsRet(stack[p]) /\ stack[p] # Thunk
  BY <1>2, Words
<1>7. RetsKept(stack, acts, 1) /\ ThunksKept(stack, acts, 1)
  BY <1>6 DEF RetsKept, ThunksKept
<1>8. Laid(stack, acts, 1)
  BY <1>2, <1>4, <1>5, <1>7 DEF Laid
<1>9. InBody(eip, stack, acts)
  BY <1>1, <1>2, <1>3, <1>8 DEF InBody
<1>10. Counted(eip, stack, frames)
  <2>1. Thunks(stack) = {}
    BY <1>6 DEF Thunks
  <2>2. Cardinality(Thunks(stack)) = 0
    BY <2>1, FS_EmptySet
  <2>3. Bit(eip = Thunk) = 0
    BY <1>1, Words DEF Bit
  <2>4. IsSeq(frames) /\ Len(frames) = 0
    BY <1>1 DEF IsSeq
  <2> QED
    BY <2>2, <2>3, <2>4 DEF Counted
<1>11. HookInv
  BY <1>1 DEF HookInv, NoHookedDialogs
<1> QED
  BY <1>3, <1>9, <1>10, <1>11 DEF IInv, Sound, Placing

\* The guest stays the same, and only SetHook installs a hook.
LEMMA HookStays ==
  ASSUME HookInv, UNCHANGED <<guest, hooked>>
  PROVE  HookInv'
  BY DEF HookInv

LEMMA CreateWindowKeeps ==
  ASSUME IInv, NEW parent, NEW proc, NEW draw, CreateWindow(parent, proc, draw)
  PROVE  IInv'
<1>1. /\ Running /\ UNCHANGED <<guest, hooked>>
      /\ SendCreates(12, Min(FreeHandles), "window", proc,
           IF proc = "none" THEN <<>>
           ELSE <<Msg(Min(FreeHandles), "NCCREATE"), Msg(Min(FreeHandles), "CREATE")>>)
  BY DEF CreateWindow
<1>2. 12 \in Nat \ {0}
  OBVIOUS
<1> QED
  BY <1>1, <1>2, CreatesKeep, HookStays DEF IInv

LEMMA CreateDialogKeeps ==
  ASSUME IInv, NEW parent, NEW proc, CreateDialog(parent, proc)
  PROVE  IInv'
<1>1. /\ Running /\ UNCHANGED <<guest, hooked>> /\ "dialog" \in guest.calls
      /\ SendCreates(5, Min(FreeHandles), "dialog", proc,
           IF proc = "none" THEN <<>> ELSE <<Msg(Min(FreeHandles), "INITDIALOG")>>)
  BY DEF CreateDialog
<1>2. 5 \in Nat \ {0} /\ ~hooked
  BY <1>1 DEF IInv, HookInv
<1> QED
  BY <1>1, <1>2, CreatesKeep, HookStays DEF IInv

LEMMA SetHookKeeps ==
  ASSUME NoHookedDialogs, IInv, SetHook
  PROVE  IInv'
<1>1. "hook" \in guest.calls /\ guest' = guest /\ Returned(1)
  BY DEF SetHook
<1>2. HookInv'
  BY <1>1 DEF IInv, HookInv, NoHookedDialogs
<1> QED
  BY <1>1, <1>2, ReturnedKeeps DEF IInv

LEMMA ShowKeeps ==
  ASSUME IInv, NEW h, NEW activates, Show(h, activates)
  PROVE  IInv'
<1>1. Running /\ UNCHANGED <<guest, hooked>>
  BY DEF Show
<1>2. \/ Returned(Bit(win[h].visible))
      \/ \E f : SendFrom(2, win[h].proc, Head(Activation(h))) /\ frames' = Append(frames, f)
  BY DEF Show
<1>3. 2 \in Nat \ {0}
  OBVIOUS
<1>4. Sound(eip', stack', acts', frames')
  BY <1>1, <1>2, <1>3, ReturnedKeeps, SendFromKeeps DEF IInv
<1> QED
  BY <1>1, <1>4, HookStays DEF IInv

LEMMA UpdateWindowKeeps ==
  ASSUME IInv, NEW h, UpdateWindow(h)
  PROVE  IInv'
<1>1. Running /\ UNCHANGED <<guest, hooked>>
  BY DEF UpdateWindow, user
<1>2. \/ Returned(1)
      \/ SendFrom(1, win[h].proc, Msg(h, "PAINT")) /\ frames' = Append(frames, Plain(1))
  BY DEF UpdateWindow
<1>3. 1 \in Nat \ {0}
  OBVIOUS
<1>4. Sound(eip', stack', acts', frames')
  BY <1>1, <1>2, <1>3, ReturnedKeeps, SendFromKeeps DEF IInv
<1> QED
  BY <1>1, <1>4, HookStays DEF IInv

LEMMA EndPaintKeeps ==
  ASSUME IInv, NEW h, EndPaint(h)
  PROVE  IInv'
<1>1. Running /\ UNCHANGED <<guest, hooked>>
  BY DEF EndPaint
<1>2. \/ Returned(1)
      \/ \E m, f : SendFrom(2, win[h].proc, m) /\ frames' = Append(frames, f)
  BY DEF EndPaint, DrawItem
<1>3. 2 \in Nat \ {0}
  OBVIOUS
<1>4. Sound(eip', stack', acts', frames')
  BY <1>1, <1>2, <1>3, ReturnedKeeps, SendFromKeeps DEF IInv
<1> QED
  BY <1>1, <1>4, HookStays DEF IInv

LEMMA GuestReturnsKeeps ==
  ASSUME IInv, GuestReturns
  PROVE  IInv'
<1>1. Running /\ Len(acts) > 1 /\ LeaveBody(1) /\ UNCHANGED <<guest, hooked, frames>>
  BY DEF GuestReturns, user
<1>2. /\ IsSeq(acts) /\ InBody(eip, stack, acts)
      /\ IsSeq(frames') /\ Len(frames') = Cardinality(Thunks(stack))
  BY <1>1, BodyRuns DEF IInv
<1>3. Departed
  BY <1>1, <1>2, GuestLeaves
<1>4. Sound(eip', stack', acts', frames')
  BY <1>2, <1>3, Leaving DEF IInv
<1> QED
  BY <1>1, <1>4, HookStays DEF IInv

\* Of a step of the button's procedure.
LEMMA ButtonRuns ==
  ASSUME Sound(eip, stack, acts, frames), eip = Button
  PROVE  /\ IsSeq(acts) /\ InButton(eip, stack, acts)
         /\ IsSeq(frames) /\ Len(frames) = Cardinality(Thunks(stack))
<1>1. eip # Thunk /\ eip # Ret(Len(acts))
  BY DEF Thunk, Button, Ret
<1>2. InButton(eip, stack, acts)
  BY <1>1 DEF Sound, Placing, InBody, InThunk
<1>3. Bit(eip = Thunk) = 0 /\ Cardinality(Thunks(stack)) \in Nat
  BY <1>1, PlacingStack DEF Bit, Sound
<1> QED
  BY <1>2, <1>3 DEF Sound, Counted

LEMMA ButtonProcKeeps ==
  ASSUME IInv, ButtonProc
  PROVE  IInv'
<1>1. UNCHANGED <<guest, hooked>> /\ eip = Button
  BY DEF ButtonProc
<1>2. /\ IsSeq(acts) /\ InButton(eip, stack, acts)
      /\ IsSeq(frames) /\ Len(frames) = Cardinality(Thunks(stack))
  BY <1>1, ButtonRuns DEF IInv
<1>3. \/ \E proc, m, f :
           /\ Run(acts, Placed(stack, Len(stack) + 1, Append(FourArgs, stack[Len(stack)])), proc, m, 4)
           /\ frames' = Append(frames, f)
      \/ LeaveBody(0) /\ frames' = frames
  BY DEF ButtonProc, DrawItem, ButtonReturns
<1>4. ASSUME NEW proc, NEW m, NEW f, frames' = Append(frames, f),
             Run(acts, Placed(stack, Len(stack) + 1, Append(FourArgs, stack[Len(stack)])), proc, m, 4)
      PROVE  Sound(eip', stack', acts', frames')
  <2>1. Arrived
    BY <1>2, <1>4, ButtonDraws
  <2>2. PICK s \in Seq(Word), l \in Nat : /\ Len(stack) = l + 5 /\ Lowered(stack, s, l)
                                          /\ stack \in Seq(Word) /\ Base(stack, l + 5, 4)
                                          /\ Thunks(stack') = Thunks(s)
    BY <1>2, <1>4, ButtonDraws
  <2>3. Cardinality(Thunks(s)) = Cardinality(Thunks(stack)) + 1
    BY <2>2, LoweredCounts
  <2> QED
    BY <1>2, <1>4, <2>1, <2>2, <2>3, Calling DEF IInv
<1>5. ASSUME LeaveBody(0), frames' = frames
      PROVE  Sound(eip', stack', acts', frames')
  <2>1. LeaveBody(0) /\ IsSeq(frames') /\ Len(frames') = Cardinality(Thunks(stack))
    BY <1>2, <1>5
  <2>2. Departed
    BY <1>2, <2>1, ButtonLeaves
  <2> QED
    BY <2>1, <2>2, Leaving DEF IInv
<1>6. Sound(eip', stack', acts', frames')
  BY <1>3, <1>4, <1>5
<1> QED
  BY <1>1, <1>6, HookStays DEF IInv

\* The thunk sends one more message, or returns to the caller of the call.
LEMMA ThunkSends ==
  ASSUME Sound(eip, stack, acts, frames), eip = Thunk, NEW proc, NEW m, SendNext(proc, m),
         NEW f, frames' = Append(Popped, f)
  PROVE  Sound(eip', stack', acts', frames')
<1>1. IsSeq(acts) /\ InThunk(eip, stack, acts)
  <2>1. eip # Ret(Len(acts)) /\ eip # Button
    BY DEF Thunk, Button, Ret
  <2> QED
    BY <2>1 DEF Sound, Placing, InBody, InButton
<1>2. Arrived /\ OneMore(stack, stack')
  BY <1>1, SendsNext
<1>3. Cardinality(Thunks(stack')) = Cardinality(Thunks(stack)) + 1
  BY <1>2, CountsOnce DEF Sound
<1>4. IsSeq(Popped) /\ Len(Popped) = Cardinality(Thunks(stack))
  BY PoppedFrames
<1> QED
  BY <1>2, <1>3, <1>4, Calling

LEMMA ThunkReturns ==
  ASSUME Sound(eip, stack, acts, frames), eip = Thunk, NEW value, FinishCall(value), frames' = Popped
  PROVE  Sound(eip', stack', acts', frames')
<1>1. IsSeq(acts) /\ InThunk(eip, stack, acts)
  <2>1. eip # Ret(Len(acts)) /\ eip # Button
    BY DEF Thunk, Button, Ret
  <2> QED
    BY <2>1 DEF Sound, Placing, InBody, InButton
<1>2. Departed
  BY <1>1, Finishes
<1>3. IsSeq(Popped) /\ Len(Popped) = Cardinality(Thunks(stack))
  BY PoppedFrames
<1> QED
  BY <1>2, <1>3, Leaving

LEMMA AsyncKeeps ==
  ASSUME IInv, AsyncSends \/ AsyncFinishes \/ AsyncDraws
  PROVE  IInv'
<1>1. eip = Thunk /\ UNCHANGED <<guest, hooked>>
  BY DEF AsyncSends, AsyncFinishes, AsyncDraws, user
<1>2. CASE AsyncSends
  <2>1. /\ SendNext(NextProc, Head(Top.todo))
        /\ frames' = Append(Popped, More(Top.value, Top.kind, NextProc, Tail(Top.todo)))
    BY <1>2 DEF AsyncSends
  <2>2. Sound(eip', stack', acts', frames')
    BY <1>1, <2>1, ThunkSends DEF IInv
  <2> QED
    BY <1>1, <2>2, HookStays DEF IInv
<1>3. CASE AsyncFinishes
  <2>1. FinishCall(Top.value) /\ frames' = Popped
    BY <1>3 DEF AsyncFinishes
  <2>2. Sound(eip', stack', acts', frames')
    BY <1>1, <2>1, ThunkReturns DEF IInv
  <2> QED
    BY <1>1, <2>2, HookStays DEF IInv
<1>4. CASE AsyncDraws
  <2>1. \/ \E proc, m, f : SendNext(proc, m) /\ frames' = Append(Popped, f)
        \/ \E value : FinishCall(value) /\ frames' = Popped
    BY <1>4 DEF AsyncDraws, DrawItem
  <2>2. Sound(eip', stack', acts', frames')
    BY <1>1, <2>1, ThunkSends, ThunkReturns DEF IInv
  <2> QED
    BY <1>1, <2>2, HookStays DEF IInv
<1> QED
  BY <1>2, <1>3, <1>4

\* The calls that send nothing.
LEMMA QuietKeeps ==
  ASSUME IInv, NEW value, Returned(value), UNCHANGED <<guest, hooked>>
  PROVE  IInv'
  BY ReturnedKeeps, HookStays DEF IInv

LEMMA TailCallKeeps ==
  ASSUME IInv, Running, NEW proc, NEW m, TailCall(proc, m)
  PROVE  IInv'
<1>1. UNCHANGED <<guest, hooked>>
  BY DEF TailCall, user
<1> QED
  BY <1>1, TailKeeps, HookStays DEF IInv

LEMMA NextKeeps == NoHookedDialogs /\ IInv /\ [Next]_vars => IInv'
<1> SUFFICES ASSUME NoHookedDialogs, IInv, [Next]_vars PROVE IInv'
  OBVIOUS
<1>1. ASSUME NEW parent, NEW proc, NEW draw, CreateWindow(parent, proc, draw) PROVE IInv'
  BY <1>1, CreateWindowKeeps
<1>2. ASSUME NEW parent, NEW proc, CreateDialog(parent, proc) PROVE IInv'
  BY <1>2, CreateDialogKeeps
<1>3. CASE SetHook
  BY <1>3, SetHookKeeps
<1>4. ASSUME NEW h, NEW proc, SetProc(h, proc) PROVE IInv'
  BY <1>4, QuietKeeps DEF SetProc
<1>5. ASSUME NEW h, NEW activates, Show(h, activates) PROVE IInv'
  BY <1>5, ShowKeeps
<1>6. ASSUME NEW h, NEW destroy, Hide(h, destroy) PROVE IInv'
  BY <1>6, QuietKeeps DEF Hide
<1>7. ASSUME NEW h, Invalidate(h) PROVE IInv'
  BY <1>7, QuietKeeps DEF Invalidate
<1>8. ASSUME NEW h, EndDialog(h) PROVE IInv'
  BY <1>8, QuietKeeps DEF EndDialog
<1>9. ASSUME NEW h, UpdateWindow(h) PROVE IInv'
  BY <1>9, UpdateWindowKeeps
<1>10. ASSUME NEW h, NEW m, Dispatch(h, m) PROVE IInv'
  BY <1>10, TailCallKeeps DEF Dispatch
<1>11. ASSUME NEW proc, NEW h, NEW m, CallWindowProc(proc, h, m) PROVE IInv'
  BY <1>11, TailCallKeeps DEF CallWindowProc
<1>12. ASSUME NEW h, EndPaint(h) PROVE IInv'
  BY <1>12, EndPaintKeeps
<1>13. CASE GuestReturns
  BY <1>13, GuestReturnsKeeps
<1>14. CASE ButtonProc
  BY <1>14, ButtonProcKeeps
<1>15. CASE AsyncSends \/ AsyncFinishes \/ AsyncDraws
  BY <1>15, AsyncKeeps
<1>16. CASE UNCHANGED vars
  <2>1. UNCHANGED <<stack, eip, acts, frames, guest, hooked>>
    BY <1>16 DEF vars, user
  <2> QED
    BY <2>1, SameKeeps, HookStays DEF IInv
<1> QED
  BY <1>1, <1>2, <1>3, <1>4, <1>5, <1>6, <1>7, <1>8, <1>9, <1>10, <1>11, <1>12, <1>13, <1>14, <1>15,
     <1>16 DEF Next

-----------------------------------------------------------------------------
(***************************************************************************)
(* What the invariant says of a call.                                      *)
(***************************************************************************)
LEMMA KeptWords ==
  ASSUME NEW n, Laid(stack, acts, n), NEW k \in 1 .. n, acts[k].own = 1
  PROVE  acts[k].sp <= Len(stack) /\ stack[acts[k].sp] = Local(k)
<1>1. GuestKept(stack, acts[k], k) /\ stack \in Seq(Word)
  BY DEF Laid, GuestsKept
<1> QED
  BY <1>1 DEF GuestKept

LEMMA LastIs ==
  ASSUME NEW s, IsSeq(s), Len(s) > 0
  PROVE  Last(s) = s[Len(s)]
  BY DEF Last

LEMMA SoundReturns == IInv => CallsReturn
<1> SUFFICES ASSUME IInv PROVE CallsReturn
  OBVIOUS
<1>1. IsSeq(acts) /\ Placing(eip, stack, acts) /\ Len(acts) \in Nat
  BY DEF IInv, Sound, IsSeq
<1>2. Len(frames) = Cardinality(Awaiting) + Bit(eip = Thunk)
  BY DEF IInv, Sound, Counted, Thunks, Awaiting
<1>3. CASE InBody(eip, stack, acts)
  <2>1. /\ eip = Ret(Len(acts)) /\ Laid(stack, acts, Len(acts))
        /\ acts[Len(acts)].own = 1 /\ acts[Len(acts)].sp = Len(stack) /\ Len(acts) \in Nat \ {0}
    BY <1>1, <1>3, BodyFacts DEF InBody
  <2>2. eip[1] = "ret" /\ eip[2] = Len(acts) /\ eip # Thunk
    BY <2>1, Words
  <2>3. Last(acts) = acts[Len(acts)]
    BY <1>1, <2>1, LastIs
  <2>4. Len(acts) - Bit(eip = Thunk) = Len(acts)
    BY <1>1, <2>2 DEF Bit
  <2>5. \A k \in 1 .. Len(acts) : acts[k].own = 1 => acts[k].sp <= Len(stack) /\ stack[acts[k].sp] = Local(k)
    BY <2>1, KeptWords
  <2> QED
    BY <1>2, <2>1, <2>2, <2>3, <2>4, <2>5 DEF CallsReturn
<1>4. CASE InButton(eip, stack, acts)
  <2>1. /\ eip = Button /\ Laid(stack, acts, Len(acts) - 1) /\ acts[Len(acts)].own = 0
    BY <1>4 DEF InButton
  <2>2. eip[1] = "button" /\ eip # Thunk
    BY <2>1, Words
  <2>3. Len(acts) - Bit(eip = Thunk) = Len(acts)
    BY <1>1, <2>2 DEF Bit
  <2>4. ASSUME NEW k \in 1 .. Len(acts), acts[k].own = 1
        PROVE  acts[k].sp <= Len(stack) /\ stack[acts[k].sp] = Local(k)
    <3>1. k # Len(acts)
      BY <2>1, <2>4
    <3>2. k \in 1 .. Len(acts) - 1
      BY <1>1, <3>1
    <3> QED
      BY <2>1, <2>4, <3>2, KeptWords
  <2> QED
    BY <1>2, <2>2, <2>3, <2>4 DEF CallsReturn
<1>5. CASE InThunk(eip, stack, acts)
  <2>1. eip = Thunk /\ Laid(stack, acts, Len(acts) - 1)
    BY <1>5 DEF InThunk
  <2>2. eip[1] = "async" /\ eip[1] # "ret"
    BY <2>1, Words
  <2>3. Len(acts) - Bit(eip = Thunk) = Len(acts) - 1
    BY <2>1 DEF Bit
  <2>4. \A k \in 1 .. Len(acts) - 1 :
          acts[k].own = 1 => acts[k].sp <= Len(stack) /\ stack[acts[k].sp] = Local(k)
    BY <2>1, KeptWords
  <2> QED
    BY <1>2, <2>2, <2>3, <2>4 DEF CallsReturn
<1> QED
  BY <1>1, <1>3, <1>4, <1>5 DEF Placing

-----------------------------------------------------------------------------
(* For any set of window handles and any guests, of any depth, in which no *)
(* guest that makes dialogs has a WH_CBT hook: the frames that             *)
(* call_stdcall_now_returning and its relatives build on the guest's       *)
(* stack, and hle_async_return takes down, bring every call back to the    *)
(* procedure that made it, with the stack pointer and the words of every   *)
(* unfinished procedure as they were, and with one callback frame for      *)
(* every procedure that will come back to the thunk.                       *)
THEOREM CallsAlwaysReturn ==
  ASSUME NoHookedDialogs
  PROVE  Spec => []CallsReturn
<1>1. Init => IInv
  BY InitSound
<1>2. IInv /\ [Next]_vars => IInv'
  BY NextKeeps
<1>3. IInv => CallsReturn
  BY SoundReturns
<1> QED
  BY <1>1, <1>2, <1>3, PTL DEF Spec

-----------------------------------------------------------------------------
(***************************************************************************)
(* How deep calls nest.  There is a procedure in progress for every word   *)
(* of the thunk; and when control comes back to the body k, whose word is  *)
(* the last of the stack then, the words of the thunk below it belong to   *)
(* the k - 1 procedures before it.                                         *)
(***************************************************************************)
ThunksTo(stk, l) == {p \in Thunks(stk) : p <= l}

\* The activations that have not ended.
Going(e, ac) == Len(ac) - Bit(e = Thunk)

Deep(e, stk, ac) ==
  /\ Cardinality(Thunks(stk)) <= Going(e, ac) - 1
  /\ \A k \in 1 .. Going(e, ac) : ac[k].own = 1 => Cardinality(ThunksTo(stk, ac[k].sp)) <= k - 1

\* A body that has not ended has its word on the stack.
LEMMA BodyWord ==
  ASSUME NEW e, NEW stk, NEW ac, IsSeq(ac), Placing(e, stk, ac),
         NEW k \in 1 .. Going(e, ac), ac[k].own = 1
  PROVE  /\ stk \in Seq(Word) /\ k \in Nat \ {0}
         /\ ac[k].sp \in 1 .. Len(stk) /\ stk[ac[k].sp] = Local(k)
<1>1. Len(ac) \in Nat
  BY DEF IsSeq
<1>2. PICK n : Laid(stk, ac, n) /\ k \in 1 .. n
  <2>1. CASE InBody(e, stk, ac)
    <3>1. e # Thunk /\ Laid(stk, ac, Len(ac))
      BY <1>1, <2>1, Words DEF InBody
    <3> QED
      BY <1>1, <3>1 DEF Going, Bit
  <2>2. CASE InButton(e, stk, ac)
    <3>1. e # Thunk /\ Laid(stk, ac, Len(ac) - 1) /\ ac[Len(ac)].own = 0
      BY <2>2, Words DEF InButton
    <3>2. k \in 1 .. Len(ac) /\ k # Len(ac)
      BY <1>1, <3>1 DEF Going, Bit
    <3>3. k \in 1 .. Len(ac) - 1
      BY <1>1, <3>2
    <3> QED
      BY <3>1, <3>3
  <2>3. CASE InThunk(e, stk, ac)
    <3>1. e = Thunk /\ Laid(stk, ac, Len(ac) - 1)
      BY <2>3 DEF InThunk
    <3> QED
      BY <1>1, <3>1 DEF Going, Bit
  <2> QED
    BY <2>1, <2>2, <2>3 DEF Placing
<1>3. GuestKept(stk, ac[k], k) /\ stk \in Seq(Word)
  BY <1>2 DEF Laid, GuestsKept
<1> QED
  BY <1>2, <1>3 DEF GuestKept

LEMMA ThunksToSame ==
  ASSUME NEW stk \in Seq(Word), NEW new \in Seq(Word), NEW l \in 1 .. Len(stk), l <= Len(new),
         \A q \in 1 .. l : new[q] = stk[q]
  PROVE  ThunksTo(new, l) = ThunksTo(stk, l)
<1>1. DOMAIN stk = 1 .. Len(stk) /\ DOMAIN new = 1 .. Len(new) /\ Len(stk) \in Nat /\ Len(new) \in Nat
  OBVIOUS
<1>2. \A p : p \in 1 .. Len(stk) /\ p <= l <=> p \in 1 .. Len(new) /\ p <= l
  BY <1>1
<1>3. \A p \in 1 .. Len(stk) : p <= l => p \in 1 .. l
  BY <1>1
<1>4. \A p : p \in ThunksTo(new, l) <=> p \in ThunksTo(stk, l)
  BY <1>1, <1>2, <1>3 DEF ThunksTo, Thunks
<1> QED
  BY <1>4 DEF ThunksTo

LEMMA ThunksToAll ==
  ASSUME NEW stk \in Seq(Word)
  PROVE  ThunksTo(stk, Len(stk)) = Thunks(stk)
<1>1. \A p \in DOMAIN stk : p <= Len(stk)
  OBVIOUS
<1> QED
  BY <1>1 DEF ThunksTo, Thunks

\* A body that stays keeps what is below its word.
LEMMA DeepStays ==
  ASSUME NEW e, NEW stk, NEW ac, IsSeq(ac), Placing(e, stk, ac), Deep(e, stk, ac),
         NEW new \in Seq(Word), NEW k \in 1 .. Going(e, ac), ac[k].own = 1, ac[k].sp <= Len(new),
         \A q \in 1 .. ac[k].sp : new[q] = stk[q]
  PROVE  Cardinality(ThunksTo(new, ac[k].sp)) <= k - 1
<1>1. stk \in Seq(Word) /\ ac[k].sp \in 1 .. Len(stk)
  BY BodyWord
<1> PICK l : l = ac[k].sp
  OBVIOUS
<1>2. ThunksTo(new, l) = ThunksTo(stk, l)
  BY <1>1, ThunksToSame
<1> QED
  BY <1>2 DEF Deep

\* A procedure is entered.  The stack stays as it is up to l, which is above all words of bodies.
LEMMA DeepEnters ==
  ASSUME Sound(eip, stack, acts, frames), Deep(eip, stack, acts), Arrived,
         NEW n, n = Going(eip, acts), Len(acts') = n + 1, \A k \in 1 .. n : acts'[k] = acts[k],
         NEW l \in 1 .. Len(stack), \A q \in 1 .. l : stack'[q] = stack[q],
         \A k \in 1 .. n : acts[k].own = 1 => acts[k].sp <= l,
         Cardinality(Thunks(stack')) <= Cardinality(Thunks(stack)) + 1
  PROVE  Deep(eip', stack', acts')
<1>1. IsSeq(acts) /\ Placing(eip, stack, acts) /\ n \in Int /\ Cardinality(Thunks(stack)) \in Nat
  BY PlacingStack DEF Sound, IsSeq, Going, Bit
<1>2. IsSeq(acts') /\ Placing(eip', stack', acts') /\ Going(eip', acts') = n + 1
      /\ stack' \in Seq(Word) /\ Cardinality(Thunks(stack')) \in Nat
  BY <1>1, PlacingStack DEF Arrived, Going, Bit
<1>3. Cardinality(Thunks(stack')) <= n
  BY <1>1, <1>2 DEF Deep
<1>4. ASSUME NEW k \in 1 .. n + 1, acts'[k].own = 1
      PROVE  Cardinality(ThunksTo(stack', acts'[k].sp)) <= k - 1
  <2>1. k \in Nat \ {0} /\ acts'[k].sp \in 1 .. Len(stack')
    BY <1>2, <1>4, BodyWord
  <2>2. CASE k \in 1 .. n
    <3>1. acts'[k] = acts[k] /\ acts[k].sp <= l
      BY <1>4, <2>2
    <3>2. acts[k].sp \in 1 .. Len(stack) /\ acts[k].sp <= Len(stack')
      BY <1>1, <1>4, <2>1, <2>2, <3>1, BodyWord
    <3>3. \A q \in 1 .. acts[k].sp : q \in 1 .. l
      BY <3>1, <3>2
    <3>4. Cardinality(ThunksTo(stack', acts[k].sp)) <= k - 1
      BY <1>1, <1>2, <1>4, <2>2, <3>1, <3>2, <3>3, DeepStays
    <3> QED
      BY <3>1, <3>4
  <2>3. CASE k = n + 1
    <3>1. ~InThunk(eip', stack', acts') /\ ~InButton(eip', stack', acts')
      BY <1>4, <2>3 DEF Arrived, InThunk, InButton
    <3>2. acts'[k].sp = Len(stack')
      BY <1>2, <2>3, <3>1 DEF Placing, InBody
    <3>3. ThunksTo(stack', acts'[k].sp) = Thunks(stack')
      BY <1>2, <3>2, ThunksToAll
    <3> QED
      BY <1>1, <1>3, <2>3, <3>3
  <2> QED
    BY <1>1, <2>2, <2>3
<1> QED
  BY <1>1, <1>2, <1>3, <1>4 DEF Deep

\* Control passes to a return address of the stack: to the thunk, or to a body.
LEMMA DeepLeaves ==
  ASSUME Sound(eip, stack, acts, frames), Deep(eip, stack, acts), Departed,
         NEW inner, IsSeq(inner), Len(inner) = Going(eip, acts),
         \A k \in 1 .. Len(inner) : inner[k] = acts[k],
         NEW b \in 1 .. Len(stack), eip' = stack[b], acts' = Left(eip', inner),
         IsRet(eip') => eip'[2] \in 1 .. Len(inner),
         NEW m \in 0 .. Len(stack), stack' = SubSeq(stack, 1, m)
  PROVE  Deep(eip', stack', acts')
<1> PICK n : n = Len(inner)
  OBVIOUS
<1>1. /\ IsSeq(acts) /\ Placing(eip, stack, acts) /\ n = Going(eip, acts) /\ n \in Nat
      /\ stack \in Seq(Word) /\ Cardinality(Thunks(stack)) \in Nat
  BY PlacingStack DEF Sound, IsSeq
<1>2. /\ IsSeq(acts') /\ Placing(eip', stack', acts')
      /\ stack' \in Seq(Word) /\ Cardinality(Thunks(stack')) \in Nat
  BY PlacingStack DEF Departed
<1>3. Len(stack') = m /\ \A q \in 1 .. m : stack'[q] = stack[q]
  BY <1>1
<1>4. ASSUME NEW k \in 1 .. n, k \in 1 .. Going(eip', acts'), acts'[k] = acts[k], acts'[k].own = 1
      PROVE  Cardinality(ThunksTo(stack', acts'[k].sp)) <= k - 1
  <2>1. acts'[k].sp \in 1 .. Len(stack')
    BY <1>2, <1>4, BodyWord
  <2>2. \A q \in 1 .. acts[k].sp : q \in 1 .. m
    BY <1>1, <1>3, <1>4, <2>1
  <2>3. /\ k \in 1 .. Going(eip, acts) /\ acts[k].own = 1 /\ acts[k].sp <= Len(stack')
        /\ \A q \in 1 .. acts[k].sp : stack'[q] = stack[q]
    BY <1>1, <1>3, <1>4, <2>1, <2>2
  <2>4. Cardinality(ThunksTo(stack', acts[k].sp)) <= k - 1
    BY <1>1, <1>2, <2>3, DeepStays
  <2> QED
    BY <1>4, <2>4
<1>5. CASE eip' = Thunk /\ OneMore(stack', stack)
  <2>1. acts' = inner /\ Going(eip', acts') = n - 1
    BY <1>1, <1>5, Words DEF Left, IsRet, Going, Bit
  <2>2. Cardinality(Thunks(stack)) = Cardinality(Thunks(stack')) + 1
    BY <1>2, <1>5, CountsOnce
  <2>3. Cardinality(Thunks(stack')) <= Going(eip', acts') - 1
    BY <1>1, <1>2, <2>1, <2>2 DEF Deep
  <2>4. \A k \in 1 .. n - 1 : k \in 1 .. n
    BY <1>1
  <2> QED
    BY <1>4, <2>1, <2>3, <2>4 DEF Deep
<1>6. CASE eip' # Thunk /\ Thunks(stack') = Thunks(stack)
  <2>1. IsRet(eip')
    <3>1. b \in DOMAIN stack /\ stack[b] \in Word
      BY <1>1
    <3>2. \A w : w = Button => w[1] = "button"
      BY DEF Button
    <3>3. eip' # Button
      BY <3>1 DEF Word, Button, Arg, Thunk
    <3>4. InBody(eip', stack', acts')
      BY <1>2, <1>6, <3>3 DEF Placing, InButton, InThunk
    <3> QED
      BY <3>4 DEF InBody, IsRet, Ret
  <2> PICK i : i = eip'[2]
    OBVIOUS
  <2>2. i \in 1 .. n /\ acts' = SubSeq(inner, 1, i)
    BY <2>1 DEF Left, IsRet
  <2>3. Len(acts') = i /\ \A k \in 1 .. i : acts'[k] = acts[k]
    <3>1. i \in 0 .. Len(inner) /\ \A k \in 1 .. i : k \in 1 .. n
      BY <1>1, <2>2
    <3> QED
      BY <2>2, <3>1, CutSeq
  <2>4. Going(eip', acts') = i /\ i \in 1 .. i
    BY <1>1, <1>6, <2>2, <2>3 DEF Going, Bit
  <2>5. InBody(eip', stack', acts')
    BY <1>2, <1>6, <2>1 DEF Placing, InButton, InThunk, IsRet, Button
  <2>6. acts'[i].own = 1 /\ acts'[i].sp = Len(stack')
    BY <2>3, <2>5 DEF InBody
  <2>7. \A k \in 1 .. i : k \in 1 .. n
    BY <1>1, <2>2
  <2>8. \A k \in 1 .. Going(eip', acts') :
          acts'[k].own = 1 => Cardinality(ThunksTo(stack', acts'[k].sp)) <= k - 1
    BY <1>4, <2>3, <2>4, <2>7
  <2>9. ThunksTo(stack', acts'[i].sp) = Thunks(stack')
    BY <1>2, <2>6, ThunksToAll
  <2>10. Cardinality(Thunks(stack')) <= Going(eip', acts') - 1
    BY <2>4, <2>6, <2>8, <2>9
  <2> QED
    BY <2>8, <2>10 DEF Deep
<1> QED
  BY <1>5, <1>6 DEF Departed

\* Return addresses name procedures that have not ended.
LEMMA RetNames ==
  ASSUME IsSeq(acts), NEW n, Laid(stack, acts, n), NEW b \in DOMAIN stack, IsRet(stack[b])
  PROVE  stack[b][2] \in 1 .. n
  BY DEF Laid, RetsKept, RetKept

LEMMA GuestDeep ==
  ASSUME Sound(eip, stack, acts, frames), Deep(eip, stack, acts), InBody(eip, stack, acts),
         Len(acts) > 1, LeaveBody(1)
  PROVE  Deep(eip', stack', acts')
<1>1. /\ stack \in Seq(Word) /\ Len(stack) \in Nat /\ Len(acts) \in Nat \ {0} /\ IsSeq(acts)
      /\ Laid(stack, acts, Len(acts)) /\ acts[Len(acts)].own = 1 /\ acts[Len(acts)].sp = Len(stack)
  BY BodyFacts DEF Sound
<1>2. Departed
  BY <1>1, GuestLeaves
<1> PICK N, pops, b : N = Len(acts) /\ pops = acts[N].pops /\ b = Len(stack) - 1
  OBVIOUS
<1>3. Base(stack, b, pops)
  <2>1. GuestKept(stack, acts[N], N) /\ N > 1
    BY <1>1 DEF Laid, GuestsKept
  <2> QED
    BY <1>1, <2>1 DEF GuestKept
<1>4. b \in 1 .. Len(stack) /\ b - 1 - pops \in 0 .. Len(stack)
  BY <1>1, <1>3 DEF Base, Reaches
<1>5. eip' = stack[b] /\ stack' = SubSeq(stack, 1, b - 1 - pops) /\ acts' = Left(eip', acts)
  BY <1>1 DEF LeaveBody, Last
<1>6. Going(eip, acts) = Len(acts)
  BY <1>1, Words DEF Going, Bit, InBody
<1>7. IsRet(eip') => eip'[2] \in 1 .. Len(acts)
  BY <1>1, <1>4, <1>5, RetNames
<1> QED
  BY <1>1, <1>2, <1>4, <1>5, <1>6, <1>7, DeepLeaves

LEMMA ButtonDeep ==
  ASSUME Sound(eip, stack, acts, frames), Deep(eip, stack, acts), InButton(eip, stack, acts), LeaveBody(0)
  PROVE  Deep(eip', stack', acts')
<1>1. /\ Laid(stack, acts, Len(acts) - 1) /\ Len(acts) > 1 /\ acts[Len(acts)].pops = 4
      /\ Base(stack, Len(stack), 4) /\ eip = Button /\ IsSeq(acts)
  BY DEF InButton, Sound
<1>2. stack \in Seq(Word) /\ Len(stack) \in Nat /\ Len(acts) \in Nat
  BY <1>1, Places DEF IsSeq
<1>3. Departed
  BY <1>1, ButtonLeaves
<1> PICK b : b = Len(stack)
  OBVIOUS
<1>4. b \in 1 .. Len(stack) /\ b - 1 - 4 \in 0 .. Len(stack)
  BY <1>1, <1>2 DEF Base, Reaches
<1>5. eip' = stack[b] /\ stack' = SubSeq(stack, 1, b - 1 - 4) /\ acts' = Left(eip', acts)
  BY <1>1, <1>2 DEF LeaveBody, Last
<1>6. Going(eip, acts) = Len(acts)
  BY <1>1, <1>2, Words DEF Going, Bit
<1>7. IsRet(eip') => eip'[2] \in 1 .. Len(acts)
  <2>1. IsRet(eip') => eip'[2] \in 1 .. Len(acts) - 1
    BY <1>1, <1>2, <1>4, <1>5, RetNames
  <2> QED
    BY <1>2, <2>1
<1> QED
  BY <1>1, <1>2, <1>3, <1>4, <1>5, <1>6, <1>7, DeepLeaves

LEMMA FinishDeep ==
  ASSUME Sound(eip, stack, acts, frames), Deep(eip, stack, acts), InThunk(eip, stack, acts),
         NEW value, FinishCall(value)
  PROVE  Deep(eip', stack', acts')
<1>1. /\ stack \in Seq(Word) /\ Len(stack) \in Nat /\ Len(stack) >= 2 /\ IsSeq(acts)
      /\ Laid(stack, acts, Len(acts) - 1) /\ Len(acts) > 1 /\ eip = Thunk
      /\ IsSeq(Front(acts)) /\ Len(Front(acts)) = Len(acts) - 1 /\ Len(acts) - 1 \in Nat \ {0}
  BY ThunkFacts DEF Sound, InThunk
<1>2. Departed
  BY <1>1, Finishes
<1>3. \A k \in 1 .. Len(acts) - 1 : Front(acts)[k] = acts[k]
  BY <1>1, FrontSeq
<1> PICK b : b = Len(stack)
  OBVIOUS
<1>4. b \in 1 .. Len(stack) /\ b - 1 \in 0 .. Len(stack)
  BY <1>1
<1>5. eip' = stack[b] /\ stack' = SubSeq(stack, 1, b - 1) /\ acts' = Left(eip', Front(acts))
  BY DEF FinishCall, Front
<1>6. Going(eip, acts) = Len(Front(acts))
  BY <1>1, Words DEF Going, Bit
<1>7. IsRet(eip') => eip'[2] \in 1 .. Len(Front(acts))
  BY <1>1, <1>4, <1>5, RetNames
<1> QED
  BY <1>1, <1>2, <1>3, <1>4, <1>5, <1>6, <1>7, DeepLeaves

\* A procedure that Run enters comes after those that go on.
LEMMA RunAppends ==
  ASSUME NEW inner, IsSeq(inner), NEW stk, NEW proc, NEW m, NEW pops, Run(inner, stk, proc, m, pops)
  PROVE  /\ Len(inner) \in Nat /\ Len(inner) < guest.depth /\ Len(acts') = Len(inner) + 1
         /\ \A k \in 1 .. Len(inner) : acts'[k] = inner[k]
<1>1. \E r : acts' = Append(inner, r)
  BY DEF Run
<1>2. Len(inner) < guest.depth
  BY DEF Run
<1> QED
  BY <1>1, <1>2, AppendSeq

LEMMA RunStack ==
  ASSUME NEW inner, NEW stk \in Seq(Word), NEW proc, NEW m, NEW pops, Run(inner, stk, proc, m, pops),
         Len(inner) \in Nat
  PROVE  \A q \in 1 .. Len(stk) : stack'[q] = stk[q]
<1>1. \E own \in Seq(Word) : stack' = stk \o own
  <2>1. <<>> \in Seq(Word) /\ <<Local(Len(inner) + 1)>> \in Seq(Word)
    BY Words
  <2> QED
    BY <2>1 DEF Run
<1> QED
  BY <1>1

\* A body sends: the stack stays, with one word of the thunk more, or none.
LEMMA BodyDeep ==
  ASSUME Sound(eip, stack, acts, frames), Deep(eip, stack, acts), InBody(eip, stack, acts), Arrived,
         NEW new \in Seq(Word), Len(stack) <= Len(new), \A q \in 1 .. Len(stack) : new[q] = stack[q],
         NEW proc, NEW m, NEW pops, Run(acts, new, proc, m, pops),
         OneMore(stack, stack') \/ Thunks(stack') = Thunks(stack)
  PROVE  Deep(eip', stack', acts')
<1>1. /\ stack \in Seq(Word) /\ Len(stack) \in Nat /\ Len(acts) \in Nat \ {0} /\ IsSeq(acts)
      /\ Laid(stack, acts, Len(acts)) /\ acts[Len(acts)].own = 1 /\ acts[Len(acts)].sp = Len(stack)
  BY BodyFacts DEF Sound
<1>2. Going(eip, acts) = Len(acts)
  BY <1>1, Words DEF Going, Bit, InBody
<1>3. Len(acts') = Len(acts) + 1 /\ \A k \in 1 .. Len(acts) : acts'[k] = acts[k]
  BY <1>1, RunAppends
<1>4. \A q \in 1 .. Len(stack) : stack'[q] = stack[q]
  <2>1. \A q \in 1 .. Len(new) : stack'[q] = new[q]
    BY <1>1, RunStack
  <2>2. \A q \in 1 .. Len(stack) : q \in 1 .. Len(new)
    BY <1>1
  <2> QED
    BY <2>1, <2>2
<1>5. /\ Len(stack) \in 1 .. Len(stack)
      /\ \A k \in 1 .. Len(acts) : acts[k].own = 1 => acts[k].sp <= Len(stack)
  BY <1>1, Settled
<1>6. Cardinality(Thunks(stack')) <= Cardinality(Thunks(stack)) + 1
  <2>1. Cardinality(Thunks(stack)) \in Nat
    BY <1>1, ThunksFinite
  <2> QED
    BY <1>1, <2>1, OneMoreCounts
<1> QED
  BY <1>2, <1>3, <1>4, <1>5, <1>6, DeepEnters

LEMMA SendDeep ==
  ASSUME Sound(eip, stack, acts, frames), Deep(eip, stack, acts), Running, guest \in Guests,
         NEW n \in Nat \ {0}, NEW proc, NEW m, SendFrom(n, proc, m)
  PROVE  Deep(eip', stack', acts') /\ Len(frames) < guest.depth
<1>1. /\ IsSeq(acts) /\ InBody(eip, stack, acts) /\ IsSeq(frames)
      /\ Len(frames) = Cardinality(Thunks(stack)) /\ eip # Thunk
  BY BodyRuns
<1>2. Arrived /\ OneMore(stack, stack')
  BY <1>1, Sends
<1> PICK new : new = Placed(Called(n), Len(Called(n)) - n + 5, Append(FourArgs, Ret(Len(acts))))
  OBVIOUS
<1>3. Framed(stack, new, Len(acts), 4) /\ stack \in Seq(Word) /\ Len(stack) \in Nat
  BY <1>1, SendFrame, BodyFacts
<1>4. new \in Seq(Word) /\ Len(stack) <= Len(new) /\ \A q \in 1 .. Len(stack) : new[q] = stack[q]
  BY <1>3 DEF Framed
<1>5. Run(acts, new, proc, m, 4)
  BY DEF SendFrom
<1>6. Deep(eip', stack', acts')
  BY <1>1, <1>2, <1>4, <1>5, BodyDeep
<1>7. Len(frames) < Len(acts) /\ Len(acts) < guest.depth /\ Len(frames) \in Nat /\ Len(acts) \in Nat
  BY <1>1, <1>3, <1>5, ThunksFinite, RunAppends DEF Deep, Going, Bit
<1>8. guest.depth \in Nat
  BY DepthsAreNumbers
<1> QED
  BY <1>6, <1>7, <1>8

LEMMA HookDeep ==
  ASSUME Sound(eip, stack, acts, frames), Deep(eip, stack, acts), Running, NEW h, SendHook(12, h)
  PROVE  Deep(eip', stack', acts')
<1>1. IsSeq(acts) /\ InBody(eip, stack, acts)
  BY BodyRuns
<1>2. Arrived /\ OneMore(stack, stack')
  BY <1>1, SendsHook
<1> DEFINE new == Placed(Called(12), Len(Called(12)) - HookArgs, <<Thunk, Arg, Arg, Arg, Ret(Len(acts))>>)
<1>3. Framed(stack, new, Len(acts), 3) /\ stack \in Seq(Word) /\ Len(stack) \in Nat
  <2>1. Framed(stack, new, Len(acts), 3)
    BY <1>1, HookFrame
  <2>2. stack \in Seq(Word) /\ Len(stack) \in Nat
    BY <1>1, BodyFacts
  <2> QED
    BY <2>1, <2>2
<1>5. Run(acts, new, "app", Msg(h, "HOOK"), 3)
  BY DEF SendHook
<1> HIDE DEF new
<1>4. new \in Seq(Word) /\ Len(stack) <= Len(new) /\ \A q \in 1 .. Len(stack) : new[q] = stack[q]
  BY <1>3 DEF Framed
<1> QED
  BY <1>1, <1>2, <1>4, <1>5, BodyDeep

LEMMA TailDeep ==
  ASSUME Sound(eip, stack, acts, frames), Deep(eip, stack, acts), Running, NEW proc, NEW m, TailCall(proc, m)
  PROVE  Deep(eip', stack', acts')
<1> PICK new : new = stack \o <<Arg, Arg, Arg, Arg, Ret(Len(acts))>>
  OBVIOUS
<1>1. IsSeq(acts) /\ InBody(eip, stack, acts)
  BY BodyRuns
<1>2. Run(acts, new, proc, m, 4)
  BY DEF TailCall
<1>3. Arrived /\ Thunks(stack') = Thunks(stack)
  BY <1>1, <1>2, Tails
<1>4. stack \in Seq(Word) /\ Ret(Len(acts)) \in Word /\ Arg \in Word
  BY <1>1, BodyFacts, Words
<1>5. new \in Seq(Word) /\ Len(stack) <= Len(new) /\ \A q \in 1 .. Len(stack) : new[q] = stack[q]
  BY <1>4
<1> QED
  BY <1>1, <1>2, <1>3, <1>5, BodyDeep

LEMMA NextDeep ==
  ASSUME Sound(eip, stack, acts, frames), Deep(eip, stack, acts), eip = Thunk, guest \in Guests,
         NEW proc, NEW m, SendNext(proc, m)
  PROVE  Deep(eip', stack', acts') /\ Len(Popped) + 1 < guest.depth
<1>1. IsSeq(acts) /\ InThunk(eip, stack, acts)
  <2>1. eip # Ret(Len(acts)) /\ eip # Button
    BY DEF Thunk, Button, Ret
  <2> QED
    BY <2>1 DEF Sound, Placing, InBody, InButton
<1>2. Arrived /\ OneMore(stack, stack')
  BY <1>1, SendsNext
<1> PICK L, inner, n, new : /\ L = Len(stack) /\ inner = Front(acts) /\ n = Len(acts) - 1
                            /\ new = Placed(stack, L + 5, FourArgs)
  OBVIOUS
<1>3. /\ stack \in Seq(Word) /\ L \in Nat /\ L >= 2 /\ \A q \in 1 .. L : stack[q] \in Word
      /\ IsSeq(inner) /\ Len(inner) = n /\ n \in Nat \ {0} /\ Len(acts) \in Nat /\ Len(acts) > 1
      /\ Going(eip, acts) = n
  <2>1. Len(acts) \in Nat /\ Len(acts) > 1
    BY <1>1 DEF InThunk, IsSeq
  <2> QED
    BY <1>1, <2>1, ThunkFacts DEF Going, Bit
<1>4. \A k \in 1 .. n : inner[k] = acts[k]
  BY <1>1, <1>3, FrontSeq
<1>5. Run(inner, new, proc, m, 4)
  BY DEF SendNext
<1>6. Len(acts') = n + 1 /\ n < guest.depth /\ \A k \in 1 .. n : acts'[k] = acts[k]
  BY <1>3, <1>4, <1>5, RunAppends
<1>7. \A q \in 1 .. L : stack'[q] = stack[q]
  <2>1. Fits(stack, L, FourArgs, L + 5)
    BY <1>3, FourArgsSeq DEF Fits
  <2>2. new \in Seq(Word) /\ Len(new) = L + 5 /\ \A q \in 1 .. L : new[q] = stack[q]
    <3>1. Stacked(stack, L, FourArgs, new)
      BY <2>1, PlacedSeq
    <3> QED
      BY <3>1, FourArgsSeq DEF Stacked
  <2>3. \A q \in 1 .. Len(new) : stack'[q] = new[q]
    BY <1>3, <1>5, <2>2, RunStack
  <2>4. \A q \in 1 .. L : q \in 1 .. Len(new)
    BY <1>3, <2>2
  <2> QED
    BY <2>2, <2>3, <2>4
<1>8. L \in 1 .. Len(stack) /\ \A k \in 1 .. n : acts[k].own = 1 => acts[k].sp <= L
  <2>1. Laid(stack, acts, n)
    BY <1>1 DEF InThunk
  <2> QED
    BY <1>3, <2>1, Reaching
<1>9. /\ Cardinality(Thunks(stack)) \in Nat
      /\ Cardinality(Thunks(stack')) <= Cardinality(Thunks(stack)) + 1
  <2>1. Cardinality(Thunks(stack)) \in Nat
    BY <1>3, ThunksFinite
  <2> QED
    BY <1>2, <1>3, <2>1, OneMoreCounts
<1>10. Deep(eip', stack', acts')
  BY <1>2, <1>3, <1>6, <1>7, <1>8, <1>9, DeepEnters
<1>11. Len(Popped) <= n - 1 /\ Len(Popped) \in Nat
  BY <1>3, PoppedFrames DEF Deep
<1>12. guest.depth \in Nat
  BY DepthsAreNumbers
<1> QED
  BY <1>3, <1>6, <1>10, <1>11, <1>12

LEMMA DrawDeep ==
  ASSUME Sound(eip, stack, acts, frames), Deep(eip, stack, acts), eip = Button, guest \in Guests,
         NEW proc, NEW m,
         Run(acts, Placed(stack, Len(stack) + 1, Append(FourArgs, stack[Len(stack)])), proc, m, 4)
  PROVE  Deep(eip', stack', acts') /\ Len(frames) < guest.depth
<1>1. /\ IsSeq(acts) /\ InButton(eip, stack, acts) /\ Len(frames) = Cardinality(Thunks(stack))
  BY ButtonRuns
<1>2. Arrived
  BY <1>1, ButtonDraws
<1>3. PICK s \in Seq(Word), l \in Nat : /\ Len(stack) = l + 5 /\ Lowered(stack, s, l)
                                        /\ stack \in Seq(Word) /\ Base(stack, l + 5, 4)
                                        /\ Thunks(stack') = Thunks(s)
  BY <1>1, ButtonDraws
<1>4. Cardinality(Thunks(stack')) = Cardinality(Thunks(stack)) + 1 /\ Cardinality(Thunks(stack)) \in Nat
  BY <1>3, LoweredCounts, ThunksFinite
<1>5. /\ Laid(stack, acts, Len(acts) - 1) /\ Len(acts) > 1 /\ Len(acts) \in Nat
      /\ acts[Len(acts)].own = 0 /\ \A k \in 1 .. Len(acts) - 1 : acts[k].sp < Len(stack)
  BY <1>1 DEF InButton, IsSeq
<1>6. Going(eip, acts) = Len(acts)
  BY <1>5, Words DEF Going, Bit
<1>7. /\ Len(acts') = Len(acts) + 1 /\ Len(acts) < guest.depth
      /\ \A k \in 1 .. Len(acts) : acts'[k] = acts[k]
  BY <1>1, RunAppends
<1> PICK w, new : w = stack[Len(stack)] /\ new = Placed(stack, Len(stack) + 1, Append(FourArgs, w))
  OBVIOUS
<1>8. l \in 1 .. Len(stack) /\ \A q \in 1 .. l : stack'[q] = stack[q]
  <2>1. l + 5 \in 1 .. Len(stack) /\ Len(stack) + 1 = l + 6 /\ w = stack[l + 5]
    BY <1>3
  <2>2. w \in Word
    BY <1>3, <2>1
  <2>3. FrameWords(Append(FourArgs, w), w, 4)
    BY <2>2, FourArgsSeq DEF FrameWords
  <2>4. Lowered(stack, new, l)
    BY <1>3, <2>1, <2>3, LoweredPlaced
  <2>5. new \in Seq(Word) /\ Len(new) = l + 6 /\ \A q \in 1 .. l : new[q] = stack[q]
    BY <2>4 DEF Lowered
  <2>6. \A q \in 1 .. Len(new) : stack'[q] = new[q]
    BY <1>5, <2>5, RunStack
  <2>7. \A q \in 1 .. l : q \in 1 .. Len(new)
    BY <2>5
  <2>8. l \in 1 .. Len(stack)
    <3>1. l + 5 - 1 - 4 = l
      OBVIOUS
    <3>2. l \in 1 .. l + 5 - 1
      BY <1>3, <3>1 DEF Base, Reaches
    <3> QED
      BY <1>3, <3>2
  <2> QED
    BY <2>5, <2>6, <2>7, <2>8
<1>9. ASSUME NEW k \in 1 .. Len(acts), acts[k].own = 1 PROVE acts[k].sp <= l
  <2> PICK n : n = Len(acts) - 1
    OBVIOUS
  <2>1. k \in 1 .. n /\ Laid(stack, acts, n)
    <3>1. k # Len(acts)
      BY <1>5, <1>9
    <3> QED
      BY <1>5, <3>1
  <2> PICK b : b = l + 5
    OBVIOUS
  <2>2. b = Len(stack) /\ b \in Nat /\ b - 1 - 4 = l /\ Base(stack, b, 4)
    BY <1>3
  <2>3. acts[k].sp \in Nat
    BY <2>1, Places
  <2>4. acts[k].sp < b
    BY <1>5, <2>1, <2>2
  <2>5. acts[k].sp <= b
    BY <2>2, <2>3, <2>4
  <2>6. acts[k].sp <= b - 1 - 4
    BY <1>9, <2>1, <2>2, <2>5, Clear
  <2> QED
    BY <2>2, <2>3, <2>6
<1>10. Deep(eip', stack', acts')
  <2> PICK n : n = Len(acts)
    OBVIOUS
  <2>1. /\ n = Going(eip, acts) /\ Len(acts') = n + 1 /\ \A k \in 1 .. n : acts'[k] = acts[k]
        /\ \A k \in 1 .. n : acts[k].own = 1 => acts[k].sp <= l
    BY <1>6, <1>7, <1>9
  <2>2. Cardinality(Thunks(stack')) <= Cardinality(Thunks(stack)) + 1
    BY <1>4
  <2> QED
    BY <1>2, <1>8, <2>1, <2>2, DeepEnters
<1>11. guest.depth \in Nat
  BY DepthsAreNumbers
<1> QED
  BY <1>1, <1>4, <1>5, <1>6, <1>7, <1>10, <1>11 DEF Deep

-----------------------------------------------------------------------------
(***************************************************************************)
(* Draw items and contexts: those of the frames, each of one frame.  There *)
(* are fewer frames than there are numbers for items, so a fresh one can   *)
(* always be found.                                                        *)
(***************************************************************************)
Drawn(fs) == {i \in DOMAIN fs : fs[i].kind = "draw"}

Owned(fs, its, cs) ==
  /\ its = {fs[i].item : i \in Drawn(fs)}
  /\ cs = {fs[i].hdc : i \in Drawn(fs)} \ {0}
  /\ \A i, j \in Drawn(fs) : i # j =>
       /\ fs[i].item # fs[j].item
       /\ fs[i].hdc # fs[j].hdc \/ fs[i].hdc = 0

LEMMA OwnedIs == Owned(frames, items, dcs) <=> ItemsOwned
  BY DEF Owned, ItemsOwned, Drawn, Owners

LEMMA OneToOne ==
  ASSUME NEW D, NEW N, IsFiniteSet(N), NEW f \in [D -> N], \A u, v \in D : f[u] = f[v] => u = v
  PROVE  Cardinality(D) <= Cardinality(N)
<1>1. f \in Injection(D, N)
  BY DEF Injection, IsInjective
<1> QED
  BY <1>1, FS_Injection

LEMMA FreshIs ==
  ASSUME guest.depth \in Nat, NEW used, NEW n \in Nat, n < guest.depth,
         NEW g, \A u \in used : \E i \in 1 .. n : g[i] = u
  PROVE  Fresh(used) \in 1 .. guest.depth /\ Fresh(used) \notin used
<1> PICK d \in Nat : d = guest.depth
  OBVIOUS
<1>1. (1 .. d) \ used # {}
  <2> SUFFICES ASSUME \A u \in 1 .. d : u \in used PROVE FALSE
    OBVIOUS
  <2> PICK D, N : D = 1 .. d /\ N = 1 .. n
    OBVIOUS
  <2>1. /\ IsFiniteSet(N) /\ Cardinality(D) = d /\ Cardinality(N) = n
    <3>1. 1 \in Int /\ d \in Int /\ n \in Int /\ ~(1 > d)
      OBVIOUS
    <3>2. (IF 1 > n THEN 0 ELSE n - 1 + 1) = n /\ (IF 1 > d THEN 0 ELSE d - 1 + 1) = d
      OBVIOUS
    <3> QED
      BY <3>1, <3>2, FS_Interval
  <2>2. PICK f \in [D -> N] : \A u \in D : g[f[u]] = u
    <3>1. \A u \in D : \E i \in N : g[i] = u
      OBVIOUS
    <3>2. [u \in D |-> CHOOSE i \in N : g[i] = u] \in [D -> N]
      BY <3>1
    <3> QED
      BY <3>1, <3>2
  <2>3. \A u, v \in D : f[u] = f[v] => u = v
    BY <2>2
  <2>4. Cardinality(D) <= Cardinality(N)
    BY <2>1, <2>3, OneToOne, Zenon
  <2> QED
    BY <2>1, <2>4
<1>2. (1 .. d) \ used \in SUBSET Nat
  OBVIOUS
<1>3. Min((1 .. d) \ used) \in (1 .. d) \ used
  BY <1>1, <1>2, MinIsLeast
<1> QED
  BY <1>3 DEF Fresh

\* The numbers of the draw items and contexts that a sequence of frames names are not all.
LEMMA FreshItems ==
  ASSUME guest.depth \in Nat, NEW fs, IsSeq(fs), Len(fs) < guest.depth, NEW its, NEW cs, Owned(fs, its, cs)
  PROVE  /\ Fresh(its) \notin its
         /\ Fresh(cs) \notin cs /\ Fresh(cs) # 0
<1>1. Len(fs) \in Nat /\ DOMAIN fs = 1 .. Len(fs)
  BY DEF IsSeq
<1> DEFINE g == [i \in 1 .. Len(fs) |-> fs[i].item]
           h == [i \in 1 .. Len(fs) |-> fs[i].hdc]
<1>2. \A u \in its : \E i \in 1 .. Len(fs) : g[i] = u
  BY <1>1 DEF Owned, Drawn
<1>3. \A u \in cs : \E i \in 1 .. Len(fs) : h[i] = u
  BY <1>1 DEF Owned, Drawn
<1> HIDE DEF g, h
<1>4. Fresh(its) \notin its
  BY <1>1, <1>2, FreshIs
<1>5. Fresh(cs) \in 1 .. guest.depth /\ Fresh(cs) \notin cs
  BY <1>1, <1>3, FreshIs
<1> QED
  BY <1>4, <1>5

\* The n frames of `new` are the frames of `fs` and the frame f.
Joined(fs, f, n, new) == new = Append(fs, f) /\ n = Len(fs) + 1

LEMMA AppendDrawn ==
  ASSUME NEW fs, IsSeq(fs), NEW f, NEW n, NEW new, Joined(fs, f, n, new)
  PROVE  /\ n \notin Drawn(fs) /\ new[n] = f
         /\ f.kind # "draw" => Drawn(new) = Drawn(fs)
         /\ f.kind = "draw" => Drawn(new) = Drawn(fs) \cup {n}
         /\ \A i \in Drawn(fs) : new[i] = fs[i]
<1>1. IsSeq(new) /\ Len(new) = n /\ new[n] = f /\ \A k \in 1 .. Len(fs) : new[k] = fs[k]
  BY AppendSeq DEF Joined
<1>2. Len(fs) \in Nat /\ DOMAIN fs = 1 .. Len(fs) /\ DOMAIN new = 1 .. n
  BY <1>1 DEF IsSeq, Joined
<1>3. /\ \A i : i \in 1 .. n <=> i \in 1 .. Len(fs) \/ i = n
      /\ n \notin 1 .. Len(fs)
  BY <1>2 DEF Joined
<1>4. \A i : i \in Drawn(new) <=> i \in Drawn(fs) \/ (i = n /\ f.kind = "draw")
  BY <1>1, <1>2, <1>3 DEF Drawn
<1>5. n \notin Drawn(fs) /\ \A i \in Drawn(fs) : new[i] = fs[i]
  BY <1>1, <1>2, <1>3 DEF Drawn
<1>6. f.kind # "draw" => Drawn(new) = Drawn(fs)
  BY <1>4
<1>7. f.kind = "draw" => Drawn(new) = Drawn(fs) \cup {n}
  BY <1>4
<1> QED
  BY <1>1, <1>5, <1>6, <1>7

\* Owned, said of the members.
LEMMA OwnedMeans ==
  ASSUME NEW fs, NEW its, NEW cs
  PROVE  Owned(fs, its, cs) <=>
           /\ \A u : u \in its <=> \E i \in Drawn(fs) : u = fs[i].item
           /\ \A u : u \in cs <=> u # 0 /\ \E i \in Drawn(fs) : u = fs[i].hdc
           /\ \A i, j \in Drawn(fs) : i # j =>
                /\ fs[i].item # fs[j].item
                /\ fs[i].hdc # fs[j].hdc \/ fs[i].hdc = 0
<1>1. its = {fs[i].item : i \in Drawn(fs)} <=> \A u : u \in its <=> \E i \in Drawn(fs) : u = fs[i].item
  OBVIOUS
<1>2. cs = {fs[i].hdc : i \in Drawn(fs)} \ {0}
        <=> \A u : u \in cs <=> u # 0 /\ \E i \in Drawn(fs) : u = fs[i].hdc
  OBVIOUS
<1> QED
  BY <1>1, <1>2 DEF Owned

LEMMA OwnedAdds ==
  ASSUME NEW fs, IsSeq(fs), NEW its, NEW cs, Owned(fs, its, cs), NEW f, f.kind # "draw"
  PROVE  Owned(Append(fs, f), its, cs)
<1> PICK n, new : Joined(fs, f, n, new)
  BY DEF Joined
<1>1. Drawn(new) = Drawn(fs) /\ \A i \in Drawn(fs) : new[i] = fs[i]
  BY AppendDrawn
<1>2. /\ \A u : u \in its <=> \E i \in Drawn(fs) : u = fs[i].item
      /\ \A u : u \in cs <=> u # 0 /\ \E i \in Drawn(fs) : u = fs[i].hdc
      /\ \A i, j \in Drawn(fs) : i # j => /\ fs[i].item # fs[j].item
                                          /\ fs[i].hdc # fs[j].hdc \/ fs[i].hdc = 0
  BY OwnedMeans
<1>3. Owned(new, its, cs)
  BY <1>1, <1>2, OwnedMeans
<1> QED
  BY <1>3 DEF Joined

LEMMA OwnedDraws ==
  ASSUME NEW fs, IsSeq(fs), NEW its, NEW cs, Owned(fs, its, cs), NEW f, f.kind = "draw",
         f.item \notin its, f.hdc = 0 \/ f.hdc \notin cs
  PROVE  Owned(Append(fs, f), its \cup {f.item}, cs \cup ({f.hdc} \ {0}))
<1> PICK n, new : Joined(fs, f, n, new)
  BY DEF Joined
<1>1. /\ n \notin Drawn(fs) /\ Drawn(new) = Drawn(fs) \cup {n}
      /\ new[n] = f /\ \A i \in Drawn(fs) : new[i] = fs[i]
  BY AppendDrawn
<1>2. /\ \A u : u \in its <=> \E i \in Drawn(fs) : u = fs[i].item
      /\ \A u : u \in cs <=> u # 0 /\ \E i \in Drawn(fs) : u = fs[i].hdc
      /\ \A i, j \in Drawn(fs) : i # j => /\ fs[i].item # fs[j].item
                                          /\ fs[i].hdc # fs[j].hdc \/ fs[i].hdc = 0
  BY OwnedMeans
<1> PICK a, b : a = f.item /\ b = f.hdc
  OBVIOUS
<1>3. \A u : (\E i \in Drawn(new) : u = new[i].item) <=> (\E i \in Drawn(fs) : u = fs[i].item) \/ u = a
  BY <1>1
<1>4. \A u : (\E i \in Drawn(new) : u = new[i].hdc) <=> (\E i \in Drawn(fs) : u = fs[i].hdc) \/ u = b
  BY <1>1
<1>5. \A i \in Drawn(fs) : fs[i].item # a /\ (fs[i].hdc # b \/ b = 0)
  BY <1>2
<1>6. \A i, j \in Drawn(new) : i # j => /\ new[i].item # new[j].item
                                        /\ new[i].hdc # new[j].hdc \/ new[i].hdc = 0
  BY <1>1, <1>2, <1>5
<1>7. Owned(new, its \cup {a}, cs \cup ({b} \ {0}))
  <2>1. \A u : u \in its \cup {a} <=> \E i \in Drawn(new) : u = new[i].item
    <3> SUFFICES ASSUME NEW u PROVE u \in its \cup {a} <=> \E i \in Drawn(new) : u = new[i].item
      OBVIOUS
    <3>1. u \in its <=> \E i \in Drawn(fs) : u = fs[i].item
      BY <1>2
    <3>2. (\E i \in Drawn(new) : u = new[i].item) <=> (\E i \in Drawn(fs) : u = fs[i].item) \/ u = a
      BY <1>3
    <3> QED
      BY <3>1, <3>2
  <2>2. \A u : u \in cs \cup ({b} \ {0}) <=> u # 0 /\ \E i \in Drawn(new) : u = new[i].hdc
    <3> SUFFICES ASSUME NEW u
                 PROVE  u \in cs \cup ({b} \ {0}) <=> u # 0 /\ \E i \in Drawn(new) : u = new[i].hdc
      OBVIOUS
    <3>1. u \in cs <=> u # 0 /\ \E i \in Drawn(fs) : u = fs[i].hdc
      BY <1>2
    <3>2. (\E i \in Drawn(new) : u = new[i].hdc) <=> (\E i \in Drawn(fs) : u = fs[i].hdc) \/ u = b
      BY <1>4
    <3> QED
      BY <3>1, <3>2
  <2> PICK its2, cs2 : its2 = its \cup {a} /\ cs2 = cs \cup ({b} \ {0})
    OBVIOUS
  <2>3. Owned(new, its2, cs2)
    BY <1>6, <2>1, <2>2, OwnedMeans
  <2> QED
    BY <2>3
<1> QED
  BY <1>7 DEF Joined

LEMMA FrontDrawn ==
  ASSUME NEW fs, IsSeq(fs), Len(fs) > 0
  PROVE  /\ Drawn(Front(fs)) = Drawn(fs) \ {Len(fs)}
         /\ \A i \in Drawn(Front(fs)) : Front(fs)[i] = fs[i]
         /\ Last(fs) = fs[Len(fs)] /\ Len(fs) \in DOMAIN fs
<1>1. Len(fs) \in Nat /\ DOMAIN fs = 1 .. Len(fs) /\ DOMAIN Front(fs) = 1 .. Len(fs) - 1
  <2>1. IsSeq(Front(fs)) /\ Len(Front(fs)) = Len(fs) - 1
    BY FrontSeq
  <2> QED
    BY <2>1 DEF IsSeq
<1>2. \A i : i \in 1 .. Len(fs) - 1 <=> i \in 1 .. Len(fs) /\ i # Len(fs)
  BY <1>1
<1>3. \A k \in 1 .. Len(fs) - 1 : Front(fs)[k] = fs[k]
  BY FrontSeq
<1>4. \A i : i \in Drawn(Front(fs)) <=> i \in Drawn(fs) /\ i # Len(fs)
  BY <1>1, <1>2, <1>3 DEF Drawn
<1>5. \A i \in Drawn(Front(fs)) : i \in 1 .. Len(fs) - 1
  BY <1>1 DEF Drawn
<1>6. Last(fs) = fs[Len(fs)] /\ Len(fs) \in 1 .. Len(fs)
  BY <1>1, LastIs
<1> QED
  BY <1>1, <1>3, <1>4, <1>5, <1>6

LEMMA OwnedDrops ==
  ASSUME NEW fs, IsSeq(fs), Len(fs) > 0, NEW its, NEW cs, Owned(fs, its, cs), Last(fs).kind # "draw"
  PROVE  Owned(Front(fs), its, cs)
<1>1. Len(fs) \notin Drawn(fs)
  BY FrontDrawn DEF Drawn
<1>2. Drawn(Front(fs)) = Drawn(fs) /\ \A i \in Drawn(fs) : Front(fs)[i] = fs[i]
  BY <1>1, FrontDrawn
<1> QED
  BY <1>2 DEF Owned

LEMMA OwnedEnds ==
  ASSUME NEW fs, IsSeq(fs), Len(fs) > 0, NEW its, NEW cs, Owned(fs, its, cs), Last(fs).kind = "draw"
  PROVE  Owned(Front(fs), its \ {Last(fs).item}, cs \ {Last(fs).hdc})
<1> PICK n, old, f : n = Len(fs) /\ old = Front(fs) /\ f = Last(fs)
  OBVIOUS
<1>1. /\ n \in Drawn(fs) /\ fs[n] = f /\ Drawn(old) = Drawn(fs) \ {n}
      /\ \A i \in Drawn(old) : old[i] = fs[i]
  BY FrontDrawn DEF Drawn
<1>2. \A i \in Drawn(old) : fs[i].item # f.item /\ (fs[i].hdc # f.hdc \/ fs[i].hdc = 0)
  BY <1>1 DEF Owned
<1>3. its \ {f.item} = {old[i].item : i \in Drawn(old)}
  BY <1>1, <1>2 DEF Owned
<1>4. cs \ {f.hdc} = {old[i].hdc : i \in Drawn(old)} \ {0}
  BY <1>1, <1>2 DEF Owned
<1> QED
  BY <1>1, <1>3, <1>4 DEF Owned

-----------------------------------------------------------------------------
(***************************************************************************)
(* The invariant with the draw items, and one case for every action.       *)
(***************************************************************************)
AInv == IInv /\ Deep(eip, stack, acts) /\ Owned(frames, items, dcs)
KeepsItems == Deep(eip', stack', acts') /\ Owned(frames', items', dcs')

LEMMA DepthIs ==
  ASSUME AInv
  PROVE  guest \in Guests /\ guest.depth \in Nat
  BY DepthsAreNumbers DEF AInv, IInv, HookInv

\* Frames that no draw item belongs to.
LEMMA OtherKinds ==
  ASSUME NEW value, NEW kind, kind # "draw", NEW proc, NEW todo
  PROVE  More(value, kind, proc, todo).kind # "draw" /\ Plain(value).kind # "draw"
<1>1. Plain(value).kind = "plain"
  BY DEF Plain, Frame
<1>2. Frame(value, kind, proc, todo).kind = kind
  BY DEF Frame
<1> QED
  BY <1>1, <1>2 DEF More

\* A frame with a draw item comes on top of `fs`.
LEMMA DrawsOne ==
  ASSUME guest.depth \in Nat, NEW fs, IsSeq(fs), Len(fs) < guest.depth,
         NEW its, NEW cs, Owned(fs, its, cs),
         NEW h, NEW foreign, NEW value, NEW todo, DrawItem(h, foreign, value, todo, fs, its, cs)
  PROVE  Owned(frames', items', dcs')
<1> PICK item, hdc : item = Fresh(its) /\ hdc = IF foreign THEN 0 ELSE Fresh(cs)
  OBVIOUS
<1>1. item \notin its /\ (hdc = 0 \/ hdc \notin cs)
  BY FreshItems
<1> PICK f : f = [Frame(value, "draw", "none", todo) EXCEPT !.item = item, !.hdc = hdc]
  OBVIOUS
<1>2. f.kind = "draw" /\ f.item = item /\ f.hdc = hdc
  BY DEF Frame
<1>3. frames' = Append(fs, f) /\ items' = its \cup {item} /\ dcs' = cs \cup ({hdc} \ {0})
  BY DEF DrawItem
<1>4. Owned(Append(fs, f), its \cup {f.item}, cs \cup ({f.hdc} \ {0}))
  BY <1>1, <1>2, OwnedDraws
<1> QED
  BY <1>2, <1>3, <1>4

LEMMA ReturnedItems ==
  ASSUME AInv, NEW value, Returned(value)
  PROVE  KeepsItems
  BY DEF Returned, AInv, KeepsItems

\* A call that sends leaves a frame of another kind.
LEMMA SendItems ==
  ASSUME AInv, Running, NEW n \in Nat \ {0}, NEW proc, NEW m, SendFrom(n, proc, m),
         NEW f, f.kind # "draw", frames' = Append(frames, f), Nothing
  PROVE  KeepsItems
<1>1. Deep(eip', stack', acts')
  BY DepthIs, SendDeep DEF AInv, IInv
<1>2. IsSeq(frames)
  BY DEF AInv, IInv, Sound, Counted
<1>3. Owned(Append(frames, f), items, dcs)
  BY <1>2, OwnedAdds DEF AInv
<1> QED
  BY <1>1, <1>3 DEF KeepsItems, Nothing

LEMMA CreateItems ==
  ASSUME AInv, Running, Nothing, NEW n \in Nat \ {0}, hooked => n = 12,
         NEW h, NEW kind, kind # "draw", NEW proc, NEW creates, SendCreates(n, h, kind, proc, creates)
  PROVE  KeepsItems
<1>1. CASE hooked
  <2>1. SendHook(12, h) /\ frames' = Append(frames, More(h, kind, proc, creates))
    BY <1>1 DEF SendCreates
  <2>2. Deep(eip', stack', acts')
    BY <2>1, HookDeep DEF AInv, IInv
  <2>3. IsSeq(frames)
    BY DEF AInv, IInv, Sound, Counted
  <2>4. Owned(frames', items, dcs)
    BY <2>1, <2>3, OtherKinds, OwnedAdds DEF AInv
  <2> QED
    BY <2>2, <2>4 DEF KeepsItems, Nothing
<1>2. CASE ~hooked /\ creates # <<>>
  <2>1. /\ SendFrom(n, proc, Head(creates))
        /\ frames' = Append(frames, More(h, kind, proc, Tail(creates)))
    BY <1>2 DEF SendCreates
  <2> QED
    BY <2>1, OtherKinds, SendItems
<1>3. CASE ~hooked /\ ~(creates # <<>>)
  <2>1. UNCHANGED <<stack, eip, acts, frames>>
    BY <1>3 DEF SendCreates
  <2> QED
    BY <2>1 DEF AInv, KeepsItems, Nothing
<1> QED
  BY <1>1, <1>2, <1>3

LEMMA CreateWindowItems ==
  ASSUME AInv, NEW parent, NEW proc, NEW draw, CreateWindow(parent, proc, draw)
  PROVE  KeepsItems
<1>1. /\ Running /\ Nothing
      /\ SendCreates(12, Min(FreeHandles), "window", proc,
           IF proc = "none" THEN <<>>
           ELSE <<Msg(Min(FreeHandles), "NCCREATE"), Msg(Min(FreeHandles), "CREATE")>>)
  BY DEF CreateWindow
<1>2. 12 \in Nat \ {0} /\ "window" # "draw"
  OBVIOUS
<1> QED
  BY <1>1, <1>2, CreateItems

LEMMA CreateDialogItems ==
  ASSUME AInv, NEW parent, NEW proc, CreateDialog(parent, proc)
  PROVE  KeepsItems
<1>1. /\ Running /\ Nothing /\ "dialog" \in guest.calls
      /\ SendCreates(5, Min(FreeHandles), "dialog", proc,
           IF proc = "none" THEN <<>> ELSE <<Msg(Min(FreeHandles), "INITDIALOG")>>)
  BY DEF CreateDialog
<1>2. 5 \in Nat \ {0} /\ ~hooked /\ "dialog" # "draw"
  BY <1>1 DEF AInv, IInv, HookInv
<1> QED
  BY <1>1, <1>2, CreateItems

LEMMA ShowItems ==
  ASSUME AInv, NEW h, NEW activates, Show(h, activates)
  PROVE  KeepsItems
<1>1. Running
  BY DEF Show
<1>2. \/ Returned(Bit(win[h].visible))
      \/ /\ SendFrom(2, win[h].proc, Head(Activation(h))) /\ Nothing
         /\ frames' = Append(frames, More(Bit(win[h].visible), "window", win[h].proc, Tail(Activation(h))))
  BY DEF Show
<1>3. 2 \in Nat \ {0} /\ "window" # "draw"
  OBVIOUS
<1> QED
  BY <1>1, <1>2, <1>3, OtherKinds, ReturnedItems, SendItems

LEMMA UpdateWindowItems ==
  ASSUME AInv, NEW h, UpdateWindow(h)
  PROVE  KeepsItems
<1>1. Running
  BY DEF UpdateWindow
<1>2. \/ Returned(1)
      \/ SendFrom(1, win[h].proc, Msg(h, "PAINT")) /\ frames' = Append(frames, Plain(1)) /\ Nothing
  BY DEF UpdateWindow
<1>3. 1 \in Nat \ {0} /\ Plain(1).kind # "draw"
  BY DEF Plain, Frame
<1> QED
  BY <1>1, <1>2, <1>3, ReturnedItems, SendItems

\* EndPaint sends for the first of the buttons that are to be drawn.
LEMMA EndPaintItems ==
  ASSUME AInv, NEW h, EndPaint(h)
  PROVE  KeepsItems
<1>1. Running
  BY DEF EndPaint
<1>2. \/ Returned(1)
      \/ \E k, todo, m : DrawItem(k, FALSE, 1, todo, frames, items, dcs) /\ SendFrom(2, win[h].proc, m)
  BY DEF EndPaint
<1>3. ASSUME NEW k, NEW todo, NEW m,
             DrawItem(k, FALSE, 1, todo, frames, items, dcs), SendFrom(2, win[h].proc, m)
      PROVE  KeepsItems
  <2>1. 2 \in Nat \ {0} /\ IsSeq(frames) /\ guest \in Guests /\ guest.depth \in Nat
    BY DepthIs DEF AInv, IInv, Sound, Counted
  <2>2. Deep(eip', stack', acts') /\ Len(frames) < guest.depth
    BY <1>1, <1>3, <2>1, SendDeep DEF AInv, IInv
  <2>3. Owned(frames', items', dcs')
    BY <1>3, <2>1, <2>2, DrawsOne DEF AInv
  <2> QED
    BY <2>2, <2>3 DEF KeepsItems
<1> QED
  BY <1>2, <1>3, ReturnedItems

LEMMA GuestReturnsItems ==
  ASSUME AInv, GuestReturns
  PROVE  KeepsItems
<1>1. Running /\ Len(acts) > 1 /\ LeaveBody(1) /\ UNCHANGED <<frames, items, dcs>>
  BY DEF GuestReturns
<1>2. InBody(eip, stack, acts)
  BY <1>1, BodyRuns DEF AInv, IInv
<1>3. Deep(eip', stack', acts')
  BY <1>1, <1>2, GuestDeep DEF AInv, IInv
<1> QED
  BY <1>1, <1>3 DEF AInv, KeepsItems

LEMMA ButtonProcItems ==
  ASSUME AInv, ButtonProc
  PROVE  KeepsItems
<1>1. /\ eip = Button /\ guest \in Guests /\ guest.depth \in Nat
      /\ IsSeq(frames) /\ InButton(eip, stack, acts)
  <2>1. eip = Button
    BY DEF ButtonProc
  <2> QED
    BY <2>1, DepthIs, ButtonRuns DEF AInv, IInv
<1>2. \/ \E k, foreign, proc, m :
           /\ DrawItem(k, foreign, 0, <<>>, frames, items, dcs)
           /\ Run(acts, Placed(stack, Len(stack) + 1, Append(FourArgs, stack[Len(stack)])), proc, m, 4)
      \/ LeaveBody(0) /\ UNCHANGED <<frames, items, dcs>>
  BY DEF ButtonProc, ButtonReturns
<1>3. ASSUME NEW k, NEW foreign, NEW proc, NEW m, DrawItem(k, foreign, 0, <<>>, frames, items, dcs),
             Run(acts, Placed(stack, Len(stack) + 1, Append(FourArgs, stack[Len(stack)])), proc, m, 4)
      PROVE  KeepsItems
  <2>1. Deep(eip', stack', acts') /\ Len(frames) < guest.depth
    BY <1>1, <1>3, DrawDeep DEF AInv, IInv
  <2>2. Owned(frames', items', dcs')
    BY <1>1, <1>3, <2>1, DrawsOne DEF AInv
  <2> QED
    BY <2>1, <2>2 DEF KeepsItems
<1>4. ASSUME LeaveBody(0), UNCHANGED <<frames, items, dcs>>
      PROVE  KeepsItems
  <2>1. Deep(eip', stack', acts')
    BY <1>1, <1>4, ButtonDeep DEF AInv, IInv
  <2> QED
    BY <1>4, <2>1 DEF AInv, KeepsItems
<1> QED
  BY <1>2, <1>3, <1>4

\* While the thunk runs, the frame on top is that of the call.
LEMMA OnThunk ==
  ASSUME AInv, eip = Thunk
  PROVE  /\ InThunk(eip, stack, acts) /\ guest \in Guests /\ guest.depth \in Nat
         /\ IsSeq(frames) /\ Len(frames) > 0 /\ Top = Last(frames) /\ Popped = Front(frames)
         /\ IsSeq(Popped) /\ Len(Popped) \in Nat
<1>1. Sound(eip, stack, acts, frames)
  BY DEF AInv, IInv
<1>2. eip # Ret(Len(acts)) /\ eip # Button
  BY DEF Thunk, Button, Ret
<1>3. InThunk(eip, stack, acts)
  BY <1>1, <1>2 DEF Sound, Placing, InBody, InButton
<1>4. IsSeq(Popped) /\ Len(Popped) = Cardinality(Thunks(stack)) /\ Cardinality(Thunks(stack)) \in Nat
  BY <1>1, PoppedFrames
<1>5. IsSeq(frames) /\ Len(frames) = Cardinality(Thunks(stack)) + 1
  BY <1>1 DEF Sound, Counted, Bit
<1>6. Len(frames) > 0
  BY <1>4, <1>5
<1>7. frames # <<>>
  BY <1>6
<1> QED
  BY <1>3, <1>4, <1>5, <1>6, <1>7, DepthIs DEF Top, Popped

LEMMA AsyncSendsItems ==
  ASSUME AInv, AsyncSends
  PROVE  KeepsItems
<1> PICK f : f = More(Top.value, Top.kind, NextProc, Tail(Top.todo))
  OBVIOUS
<1>1. /\ eip = Thunk /\ Top.kind \in {"window", "dialog"} /\ UNCHANGED <<items, dcs>>
      /\ SendNext(NextProc, Head(Top.todo)) /\ frames' = Append(Popped, f)
  BY DEF AsyncSends
<1>2. Deep(eip', stack', acts')
  BY <1>1, OnThunk, NextDeep DEF AInv, IInv
<1>3. Top.kind # "draw" /\ f.kind # "draw"
  <2>1. Top.kind # "draw"
    BY <1>1
  <2> QED
    BY <2>1, OtherKinds
<1>4. Owned(Popped, items, dcs)
  BY <1>1, <1>3, OnThunk, OwnedDrops DEF AInv
<1>5. Owned(Append(Popped, f), items, dcs)
  BY <1>1, <1>3, <1>4, OnThunk, OwnedAdds
<1> QED
  BY <1>1, <1>2, <1>5 DEF KeepsItems

LEMMA AsyncFinishesItems ==
  ASSUME AInv, AsyncFinishes
  PROVE  KeepsItems
<1>1. /\ eip = Thunk /\ Top.kind = "plain" /\ UNCHANGED <<items, dcs>>
      /\ FinishCall(Top.value) /\ frames' = Popped
  BY DEF AsyncFinishes
<1>2. Deep(eip', stack', acts')
  BY <1>1, OnThunk, FinishDeep DEF AInv, IInv
<1>3. Top.kind # "draw"
  BY <1>1
<1>4. Owned(Popped, items, dcs)
  BY <1>1, <1>3, OnThunk, OwnedDrops DEF AInv
<1> QED
  BY <1>1, <1>2, <1>4 DEF KeepsItems

\* The item and the context of the message before are gone when the next are made.
LEMMA AsyncDrawsItems ==
  ASSUME AInv, AsyncDraws
  PROVE  KeepsItems
<1> PICK its, cs : its = items \ {Top.item} /\ cs = dcs \ {Top.hdc}
  OBVIOUS
<1>1. eip = Thunk /\ Top.kind = "draw"
  BY DEF AsyncDraws
<1>2. Owned(Popped, its, cs)
  BY <1>1, OnThunk, OwnedEnds DEF AInv
<1>3. \/ \E k, value, todo, proc, m : DrawItem(k, FALSE, value, todo, Popped, its, cs) /\ SendNext(proc, m)
      \/ /\ items' = its /\ dcs' = cs /\ frames' = Popped
         /\ FinishCall(Top.value)
  BY DEF AsyncDraws
<1>4. ASSUME NEW k, NEW value, NEW todo, NEW proc, NEW m,
             DrawItem(k, FALSE, value, todo, Popped, its, cs), SendNext(proc, m)
      PROVE  KeepsItems
  <2>1. Deep(eip', stack', acts') /\ Len(Popped) + 1 < guest.depth
    BY <1>1, <1>4, OnThunk, NextDeep DEF AInv, IInv
  <2>2. IsSeq(Popped) /\ Len(Popped) < guest.depth /\ guest.depth \in Nat
    BY <1>1, <2>1, OnThunk
  <2>3. Owned(frames', items', dcs')
    BY <1>2, <1>4, <2>2, DrawsOne
  <2> QED
    BY <2>1, <2>3 DEF KeepsItems
<1>5. ASSUME items' = its, dcs' = cs, frames' = Popped, FinishCall(Top.value)
      PROVE  KeepsItems
  <2>1. Deep(eip', stack', acts')
    BY <1>1, <1>5, OnThunk, FinishDeep DEF AInv, IInv
  <2> QED
    BY <1>2, <1>5, <2>1 DEF KeepsItems
<1> QED
  BY <1>3, <1>4, <1>5

LEMMA TailCallItems ==
  ASSUME AInv, Running, NEW proc, NEW m, TailCall(proc, m)
  PROVE  KeepsItems
<1>1. UNCHANGED <<frames, items, dcs>>
  BY DEF TailCall
<1>2. Deep(eip', stack', acts')
  BY TailDeep DEF AInv, IInv
<1> QED
  BY <1>1, <1>2 DEF AInv, KeepsItems

LEMMA NextItems == AInv /\ [Next]_vars => KeepsItems
<1> SUFFICES ASSUME AInv, [Next]_vars PROVE KeepsItems
  OBVIOUS
<1>1. ASSUME NEW parent, NEW proc, NEW draw, CreateWindow(parent, proc, draw) PROVE KeepsItems
  BY <1>1, CreateWindowItems
<1>2. ASSUME NEW parent, NEW proc, CreateDialog(parent, proc) PROVE KeepsItems
  BY <1>2, CreateDialogItems
<1>3. CASE SetHook
  BY <1>3, ReturnedItems DEF SetHook
<1>4. ASSUME NEW h, NEW proc, SetProc(h, proc) PROVE KeepsItems
  BY <1>4, ReturnedItems DEF SetProc
<1>5. ASSUME NEW h, NEW activates, Show(h, activates) PROVE KeepsItems
  BY <1>5, ShowItems
<1>6. ASSUME NEW h, NEW destroy, Hide(h, destroy) PROVE KeepsItems
  BY <1>6, ReturnedItems DEF Hide
<1>7. ASSUME NEW h, Invalidate(h) PROVE KeepsItems
  BY <1>7, ReturnedItems DEF Invalidate
<1>8. ASSUME NEW h, EndDialog(h) PROVE KeepsItems
  BY <1>8, ReturnedItems DEF EndDialog
<1>9. ASSUME NEW h, UpdateWindow(h) PROVE KeepsItems
  BY <1>9, UpdateWindowItems
<1>10. ASSUME NEW h, NEW m, Dispatch(h, m) PROVE KeepsItems
  BY <1>10, TailCallItems DEF Dispatch
<1>11. ASSUME NEW proc, NEW h, NEW m, CallWindowProc(proc, h, m) PROVE KeepsItems
  BY <1>11, TailCallItems DEF CallWindowProc
<1>12. ASSUME NEW h, EndPaint(h) PROVE KeepsItems
  BY <1>12, EndPaintItems
<1>13. CASE GuestReturns
  BY <1>13, GuestReturnsItems
<1>14. CASE ButtonProc
  BY <1>14, ButtonProcItems
<1>15. CASE AsyncSends \/ AsyncFinishes \/ AsyncDraws
  BY <1>15, AsyncSendsItems, AsyncFinishesItems, AsyncDrawsItems
<1>16. CASE UNCHANGED vars
  <2>1. UNCHANGED <<stack, eip, acts, frames, items, dcs>>
    BY <1>16 DEF vars
  <2> QED
    BY <2>1 DEF AInv, KeepsItems
<1> QED
  BY <1>1, <1>2, <1>3, <1>4, <1>5, <1>6, <1>7, <1>8, <1>9, <1>10, <1>11, <1>12, <1>13, <1>14, <1>15,
     <1>16 DEF Next

LEMMA InitItems == NoHookedDialogs /\ Init => AInv
<1> SUFFICES ASSUME NoHookedDialogs, Init PROVE AInv
  OBVIOUS
<1>1. IInv
  BY InitSound
<1>2. /\ stack = [i \in 1 .. 8 |-> Local(1)] /\ eip = Ret(1) /\ frames = <<>> /\ items = {} /\ dcs = {}
      /\ Len(acts) = 1
  BY DEF Init, MainWords
<1>3. Thunks(stack) = {}
  BY <1>2, Words DEF Thunks
<1>4. Going(eip, acts) = 1
  BY <1>2, Words DEF Going, Bit
<1>5. Deep(eip, stack, acts)
  <2>1. Cardinality({}) = 0 /\ \A l : ThunksTo(stack, l) = {}
    BY <1>3, FS_EmptySet DEF ThunksTo
  <2>2. \A k \in 1 .. 1 : k = 1
    OBVIOUS
  <2> QED
    BY <1>3, <1>4, <2>1, <2>2 DEF Deep
<1>6. Drawn(frames) = {}
  BY <1>2 DEF Drawn
<1>7. Owned(frames, items, dcs)
  BY <1>2, <1>6 DEF Owned
<1> QED
  BY <1>1, <1>5, <1>7 DEF AInv

(* For any set of window handles and any guests in which no guest that     *)
(* makes dialogs has a WH_CBT hook: of the draw items and device contexts  *)
(* that dispatch_owner_draw_button_at makes for WM_DRAWITEM, each belongs  *)
(* to one call in progress, never to two that are nested, and is gone when *)
(* hle_async_return has finished the call.                                 *)
THEOREM ItemsAlwaysOwned ==
  ASSUME NoHookedDialogs
  PROVE  Spec => []ItemsOwned
<1>1. Init => AInv
  BY InitItems
<1>2. AInv /\ [Next]_vars => AInv'
  BY NextKeeps, NextItems DEF AInv, KeepsItems
<1>3. AInv => ItemsOwned
  BY OwnedIs DEF AInv
<1> QED
  BY <1>1, <1>2, <1>3, PTL DEF Spec

-----------------------------------------------------------------------------
(***************************************************************************)
(* The refinement: the callbacks implement what the calls promise          *)
(* (SentMessages).                                                         *)
(*                                                                         *)
(* The abstract calls are the callback frames; a frame waits for the       *)
(* procedure of its rank among those that come back to the thunk.  The     *)
(* invariant says that a procedure comes back to the thunk exactly when    *)
(* its return address on the stack is the thunk, that frames and such      *)
(* procedures are paired, and what a frame of each kind still has to send. *)
(* A procedure entered on top, or left, does not change the rank of those  *)
(* below, so every step of Callbacks sends, delivers or finishes the last  *)
(* call and leaves the others alone.                                       *)
(***************************************************************************)

-----------------------------------------------------------------------------
(***************************************************************************)
(* The calls that SentMessages sees.  The rank of a procedure counts the   *)
(* procedures, itself included, that were entered no later and come back   *)
(* to the thunk: the i-th frame waits for the one of rank i.               *)
(***************************************************************************)
Before(ac, k) == {j \in 1 .. k : ac[j].back}
Rank(ac, k) == Cardinality(Before(ac, k))

\* The procedure of rank i.
Opens(ac, k, i) == k \in DOMAIN ac /\ ac[k].back /\ Rank(ac, k) = i
Opened(ac, i) == CHOOSE k \in DOMAIN ac : ac[k].back /\ Rank(ac, k) = i

\* Calls, as a function of the procedures and the frames.
CallsOf(ac, fs) ==
  [i \in DOMAIN fs |-> [value |-> fs[i].value, now |-> ac[Opened(ac, i)].msg, todo |-> fs[i].todo]]

\* Every frame has its procedure, and every procedure that comes back a frame.
Paired(ac, fs) ==
  /\ Rank(ac, Len(ac)) = Len(fs)
  /\ \A i \in 1 .. Len(fs) : \E k : Opens(ac, k, i)

LEMMA CallsAre == Calls = CallsOf(acts, frames) /\ Calls' = CallsOf(acts', frames')
BY DEF Calls, CallsOf, Entered, Opened, Rank, Before

\* Two sequences of the same length and elements are the same.
LEMMA SameSeq ==
  ASSUME NEW s, IsSeq(s), NEW t, IsSeq(t), Len(s) = Len(t), \A k \in 1 .. Len(s) : s[k] = t[k]
  PROVE  s = t
<1>1. PICK S : s \in Seq(S)
  BY DEF IsSeq
<1>2. PICK T : t \in Seq(T)
  BY DEF IsSeq
<1>3. Len(s) \in Nat /\ DOMAIN s = 1 .. Len(s) /\ DOMAIN t = 1 .. Len(s)
  BY <1>1, <1>2
<1>4. s \in [1 .. Len(s) -> S] /\ t \in [1 .. Len(s) -> T]
  BY <1>1, <1>2, <1>3
<1> QED
  BY <1>3, <1>4

\* A function on 1 .. n is a sequence.
LEMMA FunctionSeq ==
  ASSUME NEW n \in Nat, NEW f, f = [i \in 1 .. n |-> f[i]]
  PROVE  IsSeq(f) /\ Len(f) = n
<1> PICK S : S = {f[i] : i \in 1 .. n}
  OBVIOUS
<1>1. f \in [1 .. n -> S]
  OBVIOUS
<1>2. f \in Seq(S) /\ Len(f) = n
  BY <1>1
<1> QED
  BY <1>2 DEF IsSeq

LEMMA RankNatural ==
  ASSUME NEW ac, NEW k \in Nat
  PROVE  IsFiniteSet(Before(ac, k)) /\ Rank(ac, k) \in Nat
<1>1. IsFiniteSet(1 .. k)
  BY FS_Interval
<1>2. Before(ac, k) \in SUBSET (1 .. k)
  BY DEF Before
<1>3. IsFiniteSet(Before(ac, k))
  BY <1>1, <1>2, FS_Subset
<1> QED
  BY <1>3, FS_CardinalityType DEF Rank

LEMMA RankRises ==
  ASSUME NEW ac, NEW j \in Nat, NEW k \in Nat, j < k, ac[k].back
  PROVE  Rank(ac, j) < Rank(ac, k)
<1>1. Before(ac, j) \in SUBSET Before(ac, k) /\ k \in Before(ac, k) /\ k \notin Before(ac, j)
  BY DEF Before
<1>2. Cardinality(Before(ac, j)) <= Cardinality(Before(ac, k))
      /\ Cardinality(Before(ac, j)) # Cardinality(Before(ac, k))
  BY <1>1, RankNatural, FS_Subset
<1> QED
  BY <1>2, RankNatural DEF Rank

LEMMA RankSame ==
  ASSUME NEW ac, NEW bs, NEW k \in Nat, \A q \in 1 .. k : bs[q] = ac[q]
  PROVE  Rank(bs, k) = Rank(ac, k)
<1>1. Before(bs, k) = Before(ac, k)
  BY DEF Before
<1> QED
  BY <1>1 DEF Rank

LEMMA RankNext ==
  ASSUME NEW ac, NEW k \in Nat
  PROVE  Rank(ac, k + 1) = IF ac[k + 1].back THEN Rank(ac, k) + 1 ELSE Rank(ac, k)
<1>1. k + 1 \notin Before(ac, k)
  BY DEF Before
<1>2. CASE ac[k + 1].back
  <2>1. Before(ac, k + 1) = Before(ac, k) \cup {k + 1}
    BY <1>2 DEF Before
  <2> QED
    BY <1>1, <1>2, <2>1, RankNatural, FS_AddElement DEF Rank
<1>3. CASE ~ac[k + 1].back
  <2>1. Before(ac, k + 1) = Before(ac, k)
    BY <1>3 DEF Before
  <2> QED
    BY <1>3, <2>1 DEF Rank
<1> QED
  BY <1>2, <1>3

LEMMA OpenedIs ==
  ASSUME NEW ac, IsSeq(ac), NEW k, NEW i, Opens(ac, k, i)
  PROVE  Opened(ac, i) = k
<1>1. DOMAIN ac \subseteq Nat
  BY DEF IsSeq
<1>2. ASSUME NEW j, Opens(ac, j, i) PROVE j = k
  <2>1. j \in Nat /\ k \in Nat /\ ac[j].back /\ ac[k].back /\ Rank(ac, j) = Rank(ac, k)
    BY <1>1, <1>2 DEF Opens
  <2>2. Rank(ac, j) \in Nat
    BY <2>1, RankNatural
  <2>3. ~(j < k) /\ ~(k < j)
    BY <2>1, <2>2, RankRises
  <2> QED
    BY <2>1, <2>3
<1> QED
  BY <1>2 DEF Opens, Opened

\* The first l procedures are the same.
Shares(ac, bs, l) ==
  /\ l \in Nat /\ l <= Len(ac) /\ l <= Len(bs)
  /\ \A q \in 1 .. l : bs[q] = ac[q]

LEMMA SharedCall ==
  ASSUME NEW ac, IsSeq(ac), NEW bs, IsSeq(bs), NEW l, Shares(ac, bs, l),
         NEW fs, Paired(ac, fs), NEW i \in 1 .. Len(fs), i <= Rank(ac, l)
  PROVE  /\ \E k : Opens(bs, k, i)
         /\ bs[Opened(bs, i)] = ac[Opened(ac, i)]
<1>1. PICK k : Opens(ac, k, i)
  BY DEF Paired
<1>2. l \in Nat /\ Len(ac) \in Nat /\ Len(bs) \in Nat /\ DOMAIN ac = 1 .. Len(ac) /\ DOMAIN bs = 1 .. Len(bs)
      /\ l <= Len(ac) /\ l <= Len(bs)
  BY DEF Shares, IsSeq
<1>3. k \in 1 .. Len(ac) /\ ac[k].back /\ Rank(ac, k) = i
  BY <1>1, <1>2 DEF Opens
<1>4. k <= l
  <2> SUFFICES ASSUME l < k PROVE FALSE
    BY <1>2, <1>3
  <2>1. Rank(ac, l) < Rank(ac, k) /\ Rank(ac, l) \in Nat
    BY <1>2, <1>3, RankRises, RankNatural
  <2> QED
    BY <1>3, <2>1
<1>5. k \in 1 .. l /\ k \in DOMAIN bs /\ bs[k] = ac[k] /\ \A q \in 1 .. k : bs[q] = ac[q]
  BY <1>2, <1>3, <1>4 DEF Shares
<1>6. Rank(bs, k) = i
  BY <1>3, <1>5, RankSame
<1>7. Opens(bs, k, i)
  BY <1>3, <1>5, <1>6 DEF Opens
<1>8. Opened(bs, i) = k /\ Opened(ac, i) = k
  BY <1>1, <1>7, OpenedIs
<1> QED
  BY <1>5, <1>7, <1>8

\* The calls are a sequence as long as the frames.
LEMMA CallsSeq ==
  ASSUME NEW ac, NEW fs, IsSeq(fs)
  PROVE  /\ IsSeq(CallsOf(ac, fs)) /\ Len(CallsOf(ac, fs)) = Len(fs) /\ Len(fs) \in Nat
         /\ DOMAIN fs = 1 .. Len(fs)
         /\ \A i \in 1 .. Len(fs) :
              CallsOf(ac, fs)[i] = [value |-> fs[i].value, now |-> ac[Opened(ac, i)].msg, todo |-> fs[i].todo]
<1>1. Len(fs) \in Nat /\ DOMAIN fs = 1 .. Len(fs)
  BY DEF IsSeq
<1>2. \A i \in 1 .. Len(fs) :
        CallsOf(ac, fs)[i] = [value |-> fs[i].value, now |-> ac[Opened(ac, i)].msg, todo |-> fs[i].todo]
  BY <1>1 DEF CallsOf
<1>3. CallsOf(ac, fs) = [i \in 1 .. Len(fs) |-> CallsOf(ac, fs)[i]]
  BY <1>1 DEF CallsOf
<1> QED
  BY <1>1, <1>2, <1>3, FunctionSeq

LEMMA SeqLength ==
  ASSUME NEW s, IsSeq(s)
  PROVE  Len(s) \in Nat /\ DOMAIN s = 1 .. Len(s)
BY DEF IsSeq

\* The calls are the same when every frame has the same procedure.
LEMMA CallsSame ==
  ASSUME NEW ac, NEW bs, NEW fs, IsSeq(fs),
         \A i \in 1 .. Len(fs) : bs[Opened(bs, i)] = ac[Opened(ac, i)]
  PROVE  CallsOf(bs, fs) = CallsOf(ac, fs)
<1>1. DOMAIN fs = 1 .. Len(fs)
  BY CallsSeq
<1> QED
  BY <1>1 DEF CallsOf

\* Procedures that do not come back to the thunk, above j, are over: the calls stay.
LEMMA CallsCut ==
  ASSUME NEW ac, IsSeq(ac), NEW fs, IsSeq(fs), Paired(ac, fs),
         NEW bs, IsSeq(bs), NEW j, Shares(ac, bs, j), Len(bs) = j, Rank(ac, j) = Rank(ac, Len(ac))
  PROVE  Paired(bs, fs) /\ CallsOf(bs, fs) = CallsOf(ac, fs)
<1>1. Rank(ac, j) = Len(fs) /\ Len(fs) \in Nat /\ j \in Nat
  BY SeqLength DEF Paired, Shares
<1>2. Rank(bs, Len(bs)) = Len(fs)
  BY <1>1, RankSame DEF Shares
<1>3. \A i \in 1 .. Len(fs) : (\E k : Opens(bs, k, i)) /\ bs[Opened(bs, i)] = ac[Opened(ac, i)]
  BY <1>1, SharedCall
<1>4. Paired(bs, fs)
  BY <1>2, <1>3 DEF Paired
<1> QED
  BY <1>3, <1>4, CallsSame

\* A procedure that does not come back to the thunk is entered: the calls stay.
LEMMA CallsTail ==
  ASSUME NEW ac, IsSeq(ac), NEW fs, IsSeq(fs), Paired(ac, fs), NEW x, ~x.back
  PROVE  Paired(Append(ac, x), fs) /\ CallsOf(Append(ac, x), fs) = CallsOf(ac, fs)
<1>0. PICK bs, n : bs = Append(ac, x) /\ n = Len(ac)
  OBVIOUS
<1>1. IsSeq(bs) /\ n \in Nat /\ Len(ac) = n /\ Len(bs) = n + 1 /\ bs[n + 1] = x /\ \A k \in 1 .. n : bs[k] = ac[k]
  BY <1>0, AppendSeq
<1>2. Shares(ac, bs, n)
  BY <1>1 DEF Shares
<1>3. Rank(bs, n + 1) = Rank(ac, n) /\ Rank(ac, n) = Len(fs) /\ Len(fs) \in Nat
  <2>1. Rank(bs, n) = Rank(ac, n)
    BY <1>1, RankSame
  <2>2. Rank(bs, n + 1) = Rank(bs, n)
    BY <1>1, RankNext
  <2> QED
    BY <1>0, <2>1, <2>2, SeqLength DEF Paired
<1>4. \A i \in 1 .. Len(fs) : (\E k : Opens(bs, k, i)) /\ bs[Opened(bs, i)] = ac[Opened(ac, i)]
  BY <1>1, <1>2, <1>3, SharedCall
<1>5. Paired(bs, fs)
  BY <1>1, <1>3, <1>4 DEF Paired
<1> QED
  BY <1>0, <1>4, <1>5, CallsSame

CallOf(f, x) == [value |-> f.value, now |-> x.msg, todo |-> f.todo]

\* A procedure that comes back to the thunk is entered: one more call.
LEMMA CallsSend ==
  ASSUME NEW ac, IsSeq(ac), NEW fs, IsSeq(fs), Paired(ac, fs), NEW x, x.back, NEW f
  PROVE  /\ Paired(Append(ac, x), Append(fs, f))
         /\ CallsOf(Append(ac, x), Append(fs, f)) = Append(CallsOf(ac, fs), CallOf(f, x))
<1>0. PICK bs, n, gs, m : bs = Append(ac, x) /\ n = Len(ac) /\ gs = Append(fs, f) /\ m = Len(fs)
  OBVIOUS
<1>1. IsSeq(bs) /\ n \in Nat /\ Len(ac) = n /\ Len(bs) = n + 1 /\ bs[n + 1] = x /\ \A k \in 1 .. n : bs[k] = ac[k]
  BY <1>0, AppendSeq
<1>2. IsSeq(gs) /\ m \in Nat /\ Len(fs) = m /\ Len(gs) = m + 1 /\ gs[m + 1] = f /\ \A k \in 1 .. m : gs[k] = fs[k]
  BY <1>0, AppendSeq
<1>3. Shares(ac, bs, n)
  BY <1>1 DEF Shares
<1>4. Rank(bs, n + 1) = m + 1 /\ Rank(ac, n) = m
  <2>1. Rank(bs, n) = Rank(ac, n) /\ Rank(ac, n) = m
    BY <1>0, <1>1, RankSame DEF Paired
  <2>2. Rank(bs, n + 1) = Rank(bs, n) + 1
    BY <1>1, RankNext
  <2> QED
    BY <2>1, <2>2
<1>5. \A i \in 1 .. m : (\E k : Opens(bs, k, i)) /\ bs[Opened(bs, i)] = ac[Opened(ac, i)]
  BY <1>1, <1>2, <1>3, <1>4, SharedCall
<1>6. Opens(bs, n + 1, m + 1)
  <2>1. n + 1 \in DOMAIN bs
    BY <1>1, SeqLength
  <2> QED
    BY <1>1, <1>4, <2>1 DEF Opens
<1>7. Opened(bs, m + 1) = n + 1
  BY <1>1, <1>6, OpenedIs
<1>8. \A i \in 1 .. m + 1 : i \in 1 .. m \/ i = m + 1
  BY <1>2
<1>9. Paired(bs, gs)
  BY <1>1, <1>2, <1>4, <1>5, <1>6, <1>8 DEF Paired
<1>10. CallsOf(bs, gs) = Append(CallsOf(ac, fs), CallOf(f, x))
  <2>0. PICK cs, ds : cs = CallsOf(ac, fs) /\ ds = Append(cs, CallOf(f, x))
    OBVIOUS
  <2>1. IsSeq(cs) /\ Len(cs) = m
    BY <1>0, <2>0, CallsSeq
  <2>2. IsSeq(ds) /\ Len(ds) = m + 1 /\ ds[m + 1] = CallOf(f, x) /\ \A i \in 1 .. m : ds[i] = cs[i]
    BY <2>0, <2>1, AppendSeq
  <2>3. IsSeq(CallsOf(bs, gs)) /\ Len(CallsOf(bs, gs)) = m + 1
    BY <1>2, CallsSeq
  <2>4. m + 1 \in 1 .. m + 1 /\ \A i \in 1 .. m : i \in 1 .. m + 1
    BY <1>2
  <2>5. CallsOf(bs, gs)[m + 1] = ds[m + 1]
    BY <1>1, <1>2, <1>7, <2>2, <2>4, CallsSeq DEF CallOf
  <2>6. ASSUME NEW i \in 1 .. m PROVE CallsOf(bs, gs)[i] = ds[i]
    <3>1. CallsOf(bs, gs)[i] = [value |-> gs[i].value, now |-> bs[Opened(bs, i)].msg, todo |-> gs[i].todo]
      BY <1>2, <2>4, CallsSeq
    <3>2. cs[i] = [value |-> fs[i].value, now |-> ac[Opened(ac, i)].msg, todo |-> fs[i].todo]
      BY <1>0, <2>0, CallsSeq
    <3> QED
      BY <1>2, <1>5, <2>2, <3>1, <3>2
  <2>7. \A i \in 1 .. m + 1 : CallsOf(bs, gs)[i] = ds[i]
    BY <1>8, <2>5, <2>6
  <2>8. CallsOf(bs, gs) = ds
    <3>1. PICK es : es = CallsOf(bs, gs)
      OBVIOUS
    <3>2. IsSeq(es) /\ IsSeq(ds) /\ Len(es) = m + 1 /\ Len(ds) = m + 1
      BY <2>2, <2>3, <3>1
    <3>3. \A i \in 1 .. Len(es) : es[i] = ds[i]
      BY <2>7, <3>1, <3>2
    <3>4. es = ds
      BY <3>2, <3>3, SameSeq
    <3> QED
      BY <3>1, <3>4
  <2> QED
    BY <2>0, <2>8
<1> QED
  BY <1>0, <1>9, <1>10

\* The last procedure that comes back to the thunk is over: its call goes.
LEMMA CallsEnd ==
  ASSUME NEW ac, IsSeq(ac), Len(ac) > 0, NEW fs, IsSeq(fs), Paired(ac, fs), ac[Len(ac)].back
  PROVE  /\ Len(fs) > 0
         /\ Paired(Front(ac), Front(fs))
         /\ CallsOf(Front(ac), Front(fs)) = Front(CallsOf(ac, fs))
         /\ CallsOf(ac, fs)[Len(fs)] = CallOf(fs[Len(fs)], ac[Len(ac)])
<1>0. PICK bs, n, gs, m : bs = Front(ac) /\ n = Len(ac) - 1 /\ gs = Front(fs) /\ m = Len(fs) - 1
  OBVIOUS
<1>1. IsSeq(bs) /\ n \in Nat /\ Len(ac) = n + 1 /\ Len(bs) = n /\ \A k \in 1 .. n : bs[k] = ac[k]
  BY <1>0, SeqLength, FrontSeq
<1>2. Rank(ac, n + 1) = Rank(ac, n) + 1 /\ Rank(ac, n) \in Nat /\ Rank(ac, n + 1) = Len(fs) /\ Len(fs) \in Nat
  BY <1>1, RankNext, RankNatural, SeqLength DEF Paired
<1>3. Len(fs) > 0 /\ m \in Nat /\ Len(fs) = m + 1 /\ Rank(ac, n) = m
  BY <1>0, <1>2
<1>4. IsSeq(gs) /\ Len(gs) = m /\ \A k \in 1 .. m : gs[k] = fs[k]
  BY <1>0, <1>3, FrontSeq
<1>5. Shares(ac, bs, n)
  BY <1>1 DEF Shares
<1>6. \A i \in 1 .. m : i \in 1 .. Len(fs) /\ i <= Rank(ac, n)
  BY <1>3
<1>7. \A i \in 1 .. m : (\E k : Opens(bs, k, i)) /\ bs[Opened(bs, i)] = ac[Opened(ac, i)]
  BY <1>1, <1>5, <1>6, SharedCall
<1>8. Rank(bs, n) = m
  BY <1>1, <1>3, RankSame
<1>9. Paired(bs, gs)
  BY <1>1, <1>4, <1>7, <1>8 DEF Paired
<1>10. CallsOf(bs, gs) = Front(CallsOf(ac, fs))
  <2>0. PICK cs, ds : cs = CallsOf(ac, fs) /\ ds = Front(cs)
    OBVIOUS
  <2>1. IsSeq(cs) /\ Len(cs) = m + 1
    BY <1>3, <2>0, CallsSeq
  <2>2. IsSeq(ds) /\ Len(ds) = m /\ \A i \in 1 .. m : ds[i] = cs[i]
    <3>1. Len(cs) > 0 /\ Len(cs) - 1 = m
      BY <1>3, <2>1
    <3> QED
      BY <2>0, <2>1, <3>1, FrontSeq
  <2>3. IsSeq(CallsOf(bs, gs)) /\ Len(CallsOf(bs, gs)) = m
    BY <1>4, CallsSeq
  <2>4. ASSUME NEW i \in 1 .. m PROVE CallsOf(bs, gs)[i] = ds[i]
    <3>1. CallsOf(bs, gs)[i] = [value |-> gs[i].value, now |-> bs[Opened(bs, i)].msg, todo |-> gs[i].todo]
      BY <1>4, CallsSeq
    <3>2. cs[i] = [value |-> fs[i].value, now |-> ac[Opened(ac, i)].msg, todo |-> fs[i].todo]
      BY <1>6, <2>0, CallsSeq
    <3> QED
      BY <1>4, <1>7, <2>2, <3>1, <3>2
  <2> QED
    BY <2>0, <2>2, <2>3, <2>4, SameSeq
<1>11. CallsOf(ac, fs)[Len(fs)] = CallOf(fs[Len(fs)], ac[Len(ac)])
  <2>1. Len(ac) \in DOMAIN ac /\ Rank(ac, Len(ac)) = Len(fs)
    BY <1>1, <1>2, SeqLength
  <2>2. Opened(ac, Len(fs)) = Len(ac)
    BY <2>1, OpenedIs DEF Opens
  <2>3. Len(fs) \in 1 .. Len(fs)
    BY <1>3
  <2> QED
    BY <2>2, <2>3, CallsSeq DEF CallOf
<1> QED
  BY <1>0, <1>3, <1>9, <1>10, <1>11

-----------------------------------------------------------------------------
(***************************************************************************)
(* A procedure comes back to the thunk when its return address says so; on *)
(* the stack that address stays where the procedure was entered.           *)
(***************************************************************************)
TagKept(stk, a) ==
  /\ a.own = 1 => (a.back <=> stk[a.sp - 1] = Thunk)
  /\ a.own = 0 => (a.back <=> stk[a.sp - 4] = Thunk)

TagsKept(stk, ac, n) == ~ac[1].back /\ \A k \in 2 .. n : TagKept(stk, ac[k])

\* The procedures whose words are on the stack, but for the one that is on its way.
OnStack(e, ac) == IF e = Button \/ e = Thunk THEN Len(ac) - 1 ELSE Len(ac)

Tagged(e, stk, ac) ==
  /\ TagsKept(stk, ac, OnStack(e, ac))
  /\ e = Button => (ac[Len(ac)].back <=> stk[Len(stk)] = Thunk)
  /\ e = Thunk => ac[Len(ac)].back

\* Where the return address of a procedure is.
LEMMA TagPlaces ==
  ASSUME NEW stk, NEW ac, NEW n, Laid(stk, ac, n), NEW k \in 2 .. n
  PROVE  /\ k \in 1 .. n /\ ac[k].own \in {0, 1} /\ ac[k].sp \in Nat
         /\ ac[k].own = 1 => ac[k].sp - 1 \in 1 .. Len(stk) /\ ac[k].sp \in 1 .. Len(stk)
         /\ ac[k].own = 0 => ac[k].sp - 4 \in 1 .. Len(stk)
<1>1. n \in Nat \ {0} /\ k \in 1 .. n /\ k > 1 /\ Len(stk) \in Nat /\ ac[k].own \in {0, 1} /\ ac[k].sp \in Nat
  BY Places
<1>2. ASSUME ac[k].own = 1 PROVE ac[k].sp - 1 \in 1 .. Len(stk) /\ ac[k].sp \in 1 .. Len(stk)
  <2>1. GuestKept(stk, ac[k], k)
    BY <1>1, <1>2 DEF Laid, GuestsKept
  <2> QED
    BY <1>1, <2>1 DEF GuestKept, Base
<1>3. ASSUME ac[k].own = 0 PROVE ac[k].sp - 4 \in 1 .. Len(stk)
  <2>1. ButtonKept(stk, ac[k])
    BY <1>1, <1>3 DEF Laid, ButtonsKept
  <2> QED
    BY <1>1, <2>1 DEF ButtonKept, Bare
<1> QED
  BY <1>1, <1>2, <1>3

\* The first l words and the first j procedures are left alone.
Spares(stk, new, l, ac, bs, j) ==
  /\ \A q \in 1 .. l : new[q] = stk[q]
  /\ \A k \in 1 .. j : bs[k] = ac[k]
  /\ \A k \in 2 .. j : /\ ac[k].own = 1 => ac[k].sp - 1 <= l
                       /\ ac[k].own = 0 => ac[k].sp - 4 <= l

LEMMA TagsHold ==
  ASSUME NEW stk, NEW ac, NEW n, Laid(stk, ac, n), TagsKept(stk, ac, n),
         NEW new, NEW l \in Nat, NEW j \in 1 .. n, NEW bs, Spares(stk, new, l, ac, bs, j)
  PROVE  TagsKept(new, bs, j)
<1>1. n \in Nat /\ j \in Nat /\ 1 \in 1 .. j /\ \A k \in 2 .. j : k \in 2 .. n /\ k \in 1 .. j
  BY Places
<1>2. ~bs[1].back
  BY <1>1 DEF TagsKept, Spares
<1>3. ASSUME NEW k \in 2 .. j PROVE TagKept(new, bs[k])
  <2>1. bs[k] = ac[k] /\ TagKept(stk, ac[k])
    BY <1>1 DEF TagsKept, Spares
  <2>2. ASSUME ac[k].own = 1 PROVE new[ac[k].sp - 1] = stk[ac[k].sp - 1]
    <3>1. ac[k].sp - 1 \in 1 .. Len(stk) /\ ac[k].sp - 1 <= l
      BY <1>1, <2>2, TagPlaces DEF Spares
    <3>2. ac[k].sp - 1 \in 1 .. l
      BY <3>1
    <3> QED
      BY <3>2 DEF Spares
  <2>3. ASSUME ac[k].own = 0 PROVE new[ac[k].sp - 4] = stk[ac[k].sp - 4]
    <3>1. ac[k].sp - 4 \in 1 .. Len(stk) /\ ac[k].sp - 4 <= l
      BY <1>1, <2>3, TagPlaces DEF Spares
    <3>2. ac[k].sp - 4 \in 1 .. l
      BY <3>1
    <3> QED
      BY <3>2 DEF Spares
  <2> QED
    BY <2>1, <2>2, <2>3 DEF TagKept
<1> QED
  BY <1>2, <1>3 DEF TagsKept

\* Growing the stack spares all there was.
LEMMA TagsGrow ==
  ASSUME NEW stk, NEW ac, NEW n, Laid(stk, ac, n), TagsKept(stk, ac, n),
         NEW new, \A q \in 1 .. Len(stk) : new[q] = stk[q], NEW bs, \A k \in 1 .. n : bs[k] = ac[k]
  PROVE  TagsKept(new, bs, n)
<1>1. n \in 1 .. n /\ Len(stk) \in Nat
  BY Places
<1>2. \A k \in 2 .. n : /\ ac[k].own = 1 => ac[k].sp - 1 <= Len(stk)
                        /\ ac[k].own = 0 => ac[k].sp - 4 <= Len(stk)
  BY TagPlaces
<1>3. Spares(stk, new, Len(stk), ac, bs, n)
  BY <1>2 DEF Spares
<1> QED
  BY <1>1, <1>3, TagsHold

\* A procedure is entered above `inner` for the message m; b: it comes back to the thunk.
Entering(inner, m, b) == \E x : acts' = Append(inner, x) /\ x.msg = m /\ (x.back <=> b)

LEMMA RunTags ==
  ASSUME NEW inner, IsSeq(inner), NEW stk, Laid(stk, inner, Len(inner)), TagsKept(stk, inner, Len(inner)),
         Len(stk) > 0, NEW proc, NEW m, NEW pops, Run(inner, stk, proc, m, pops)
  PROVE  /\ Entering(inner, m, stk[Len(stk)] = Thunk)
         /\ Tagged(eip', stack', acts')
<1>0. PICK n, own, x : /\ n = Len(inner)
                       /\ own = (IF proc = "button" THEN <<>> ELSE <<Local(n + 1)>>)
                       /\ x = [sp |-> Len(stk \o own), own |-> Len(own), msg |-> m, pops |-> pops,
                               back |-> stk[Len(stk)] = Thunk]
  OBVIOUS
<1>1. /\ stk \in Seq(Word) /\ Len(stk) \in Nat /\ Len(stk) \in 1 .. Len(stk)
      /\ n \in Nat \ {0} /\ n \in 1 .. n
  BY <1>0, Places
<1>2. /\ eip' = IF proc = "button" THEN Button ELSE Ret(n + 1)
      /\ stack' = stk \o own /\ acts' = Append(inner, x)
  BY <1>0 DEF Run
<1>3. x.msg = m /\ (x.back <=> stk[Len(stk)] = Thunk) /\ x.own = Len(own) /\ x.sp = Len(stk \o own)
  BY <1>0
<1>4. Len(acts') = n + 1 /\ acts'[n + 1] = x /\ \A k \in 1 .. n : acts'[k] = inner[k]
  BY <1>0, <1>2, AppendSeq
<1>5. \A q \in 1 .. Len(stk) : stack'[q] = stk[q]
  BY <1>0, <1>1, RunStack
<1>6. TagsKept(stack', acts', n)
  BY <1>0, <1>4, <1>5, TagsGrow
<1>7. CASE proc = "button"
  <2>1. eip' = Button /\ stack' = stk
    BY <1>0, <1>1, <1>2, <1>7
  <2>2. OnStack(eip', acts') = n
    BY <1>1, <1>4, <2>1 DEF OnStack
  <2> QED
    BY <1>2, <1>3, <1>4, <1>6, <2>1, <2>2, Words DEF Tagged, Entering
<1>8. CASE proc # "button"
  <2>1. own = <<Local(n + 1)>> /\ eip' = Ret(n + 1)
    BY <1>0, <1>2, <1>8
  <2>2. x.own = 1 /\ x.sp = Len(stk) + 1
    BY <1>1, <1>3, <2>1, Words
  <2>3. eip' # Button /\ eip' # Thunk
    BY <1>1, <2>1, Words
  <2>4. TagKept(stack', x)
    <3>1. x.sp - 1 = Len(stk) /\ stack'[Len(stk)] = stk[Len(stk)]
      BY <1>1, <1>5, <2>2
    <3> QED
      BY <1>3, <2>2, <3>1 DEF TagKept
  <2>5. \A k \in 2 .. n + 1 : k \in 2 .. n \/ k = n + 1
    BY <1>1
  <2>6. TagsKept(stack', acts', n + 1)
    BY <1>4, <1>6, <2>4, <2>5 DEF TagsKept
  <2>7. OnStack(eip', acts') = n + 1
    BY <1>4, <2>3 DEF OnStack
  <2> QED
    BY <1>2, <1>3, <2>3, <2>6, <2>7 DEF Tagged, Entering
<1> QED
  BY <1>7, <1>8

\* A guest body that ends leaves through the return address below its own word.
LEMMA GuestThrough ==
  ASSUME IsSeq(acts), InBody(eip, stack, acts), Len(acts) > 1, LeaveBody(1),
         NEW N, N = Len(acts), NEW b, b = Len(stack) - 1
  PROVE  /\ Base(stack, b, acts[N].pops) /\ Stays(acts, N, b, N - 1)
         /\ Through(stack, acts, eip', stack', acts', b, acts[N].pops)
<1>1. /\ stack \in Seq(Word) /\ Len(stack) \in Nat /\ N \in Nat /\ N > 1 /\ N \in 1 .. N
      /\ Laid(stack, acts, N) /\ acts[N].own = 1 /\ acts[N].sp = Len(stack)
  BY BodyFacts
<1>2. GuestKept(stack, acts[N], N)
  BY <1>1 DEF Laid, GuestsKept
<1>3. Base(stack, b, acts[N].pops)
  BY <1>1, <1>2 DEF GuestKept
<1>4. Stays(acts, N, b, N - 1)
  <2>1. N - 1 \in 1 .. N /\ acts[N].sp > b /\ b \in Nat
    BY <1>1, <1>3 DEF Base
  <2>2. ASSUME NEW k \in 1 .. N - 1 PROVE acts[k].sp <= b
    <3>1. k \in 1 .. N /\ k < N
      BY <1>1
    <3>2. acts[k].sp < acts[N].sp
      BY <1>1, <3>1 DEF Laid, Rising
    <3>3. acts[k].sp \in Nat
      BY <1>1, <3>1, Places
    <3> QED
      BY <1>1, <2>1, <3>2, <3>3
  <2> QED
    BY <1>1, <2>1, <2>2 DEF Stays
<1>5. Through(stack, acts, eip', stack', acts', b, acts[N].pops)
  BY <1>1 DEF Through, LeaveBody, Last
<1> QED
  BY <1>3, <1>4, <1>5

\* The procedure of buttons leaves through its return address, on top.
LEMMA ButtonThrough ==
  ASSUME IsSeq(acts), InButton(eip, stack, acts), LeaveBody(0), NEW N, N = Len(acts)
  PROVE  /\ Base(stack, Len(stack), 4) /\ Stays(acts, N - 1, Len(stack), N - 1)
         /\ Through(stack, acts, eip', stack', acts', Len(stack), 4)
<1>1. /\ Laid(stack, acts, N - 1) /\ acts[N].pops = 4 /\ Base(stack, Len(stack), 4) /\ N > 1
      /\ \A k \in 1 .. N - 1 : acts[k].sp < Len(stack)
  BY DEF InButton
<1>2. stack \in Seq(Word) /\ Len(stack) \in Nat /\ N \in Nat /\ DOMAIN acts = 1 .. N
  BY <1>1, Places DEF IsSeq
<1>3. Stays(acts, N - 1, Len(stack), N - 1)
  <2>1. \A k \in 1 .. N - 1 : acts[k].sp \in Nat
    BY <1>1, Places
  <2> QED
    BY <1>1, <1>2, <2>1 DEF Stays
<1>4. Last(acts) = acts[N]
  BY <1>1 DEF Last
<1>5. Through(stack, acts, eip', stack', acts', Len(stack), 4)
  BY <1>1, <1>2, <1>4 DEF Through, LeaveBody
<1> QED
  BY <1>1, <1>3, <1>5

\* Frames of procedures that do not come back to the thunk are not counted.
LEMMA RankFlat ==
  ASSUME NEW ac, NEW j \in Nat, NEW n \in Nat, j <= n, \A k \in j + 1 .. n : ~ac[k].back
  PROVE  Rank(ac, j) = Rank(ac, n)
<1>1. \A k \in 1 .. n : k \in 1 .. j \/ k \in j + 1 .. n
  OBVIOUS
<1>2. \A k \in 1 .. j : k \in 1 .. n
  OBVIOUS
<1>3. Before(ac, j) = Before(ac, n)
  BY <1>1, <1>2 DEF Before
<1> QED
  BY <1>3 DEF Rank

\* `bs` is `ac` without some procedures on top that do not come back to the thunk.
Over(ac, bs) == Shares(ac, bs, Len(bs)) /\ Rank(ac, Len(bs)) = Rank(ac, Len(ac))

LEMMA TagsCut ==
  ASSUME NEW stk, NEW ac, NEW n, Laid(stk, ac, n), TagsKept(stk, ac, n),
         NEW new, NEW bs, NEW j \in 1 .. n, Laid(new, bs, j),
         \A q \in 1 .. Len(new) : new[q] = stk[q], \A k \in 1 .. j : bs[k] = ac[k]
  PROVE  TagsKept(new, bs, j)
<1>1. Len(new) \in Nat
  BY Places
<1>2. \A k \in 2 .. j : /\ bs[k] = ac[k]
                        /\ bs[k].own = 1 => bs[k].sp - 1 <= Len(new)
                        /\ bs[k].own = 0 => bs[k].sp - 4 <= Len(new)
  BY <1>1, TagPlaces
<1>3. Spares(stk, new, Len(new), ac, bs, j)
  BY <1>2 DEF Spares
<1> QED
  BY <1>1, <1>3, TagsHold

\* What lies where between a procedure that is returned to and the address used.
LEMMA Adjoining ==
  ASSUME NEW stk, NEW ac, NEW n, Laid(stk, ac, n), NEW b \in 1 .. Len(stk), IsAddr(stk[b]),
         NEW i \in 1 .. n, ac[i].own = 1, Reaches(stk, b, ac[i].sp), NEW k \in i + 1 .. n
  PROVE  ac[k].sp > b /\ (ac[k].own = 0 => ac[k].sp - 4 >= b)
<1>1. /\ n \in Nat /\ k \in 1 .. n /\ i < k /\ k > 1 /\ ac[k].own \in {0, 1} /\ ac[k].sp \in Nat /\ ac[i].sp \in Nat
      /\ b \in Nat /\ k \in Nat
  BY Places
<1>2. ac[i].sp < ac[k].sp /\ (ac[k].own = 0 => ac[i].sp < ac[k].sp - 4)
  BY <1>1 DEF Laid, Rising
<1>3. ASSUME NEW q \in Nat, ac[i].sp < q, q <= b PROVE stk[q] = Arg \/ (q = b /\ IsAddr(stk[q]))
  BY <1>1, <1>3 DEF Reaches
<1>4. CASE ac[k].own = 1
  <2>1. stk[ac[k].sp] = Local(k)
    BY <1>1, <1>4 DEF Laid, GuestsKept, GuestKept
  <2>2. Local(k) # Arg /\ ~IsAddr(Local(k))
    BY <1>1, Words
  <2>3. ~(ac[k].sp <= b)
    BY <1>1, <1>2, <1>3, <2>1, <2>2
  <2> QED
    BY <1>1, <1>4, <2>3
<1>5. CASE ac[k].own = 0
  <2>1. Bare(stk, ac[k].sp - 4)
    BY <1>1, <1>5 DEF Laid, ButtonsKept, ButtonKept
  <2>2. IsAddr(stk[ac[k].sp - 4]) /\ ac[k].sp - 4 \in Nat
    BY <2>1 DEF Bare
  <2>3. ~(ac[k].sp - 4 < b)
    <3> SUFFICES ASSUME ac[k].sp - 4 < b PROVE FALSE
      OBVIOUS
    <3>0. PICK q : q = ac[k].sp - 4
      OBVIOUS
    <3>1. q \in Nat /\ ac[i].sp < q /\ q < b /\ IsAddr(stk[q])
      BY <1>2, <1>5, <2>2, <3>0
    <3>2. stk[q] = Arg
      BY <1>1, <1>3, <3>1
    <3> QED
      BY <3>1, <3>2, Words
  <2>4. ac[k].sp \in Nat /\ b \in Nat /\ ac[k].sp - 4 >= b
    BY <1>1, <2>2, <2>3
  <2> QED
    BY <2>4
<1> QED
  BY <1>1, <1>4, <1>5

\* A procedure that returns the way it was entered: the tags stay, no call ends.
LEMMA ThroughTags ==
  ASSUME NEW stk, NEW ac, IsSeq(ac), Len(ac) > 1,
         NEW n, Laid(stk, ac, n), n \in {Len(ac) - 1, Len(ac)},
         NEW b, NEW pops, Base(stk, b, pops), Stays(ac, n, b, Len(ac) - 1),
         NEW e, NEW new, NEW bs, Through(stk, ac, e, new, bs, b, pops),
         TagsKept(stk, ac, n), ac[Len(ac)].back <=> stk[b] = Thunk
  PROVE  Tagged(e, new, bs) /\ Over(ac, bs) /\ IsSeq(bs)
<1> PICK l, w, N : l = b - 1 - pops /\ w = stk[b] /\ N = Len(ac)
  OBVIOUS
<1>1. /\ stk \in Seq(Word) /\ Len(stk) \in Nat /\ n \in Nat \ {0} /\ N \in Nat /\ N > 1
      /\ b \in 1 .. Len(stk) /\ b \in DOMAIN stk /\ l \in 1 .. b - 1 /\ l \in 1 .. Len(stk)
      /\ IsAddr(w) /\ w \in Word /\ Reaches(stk, b, l) /\ b \in Nat /\ n <= N
  <2>1. stk \in Seq(Word) /\ Len(stk) \in Nat /\ n \in Nat \ {0} /\ Len(ac) \in Nat
    BY Places DEF IsSeq
  <2>2. b \in 1 .. Len(stk) /\ IsAddr(w) /\ Reaches(stk, b, l)
    BY DEF Base
  <2>3. n <= Len(ac)
    BY <2>1
  <2> QED
    BY <2>1, <2>2, <2>3 DEF Reaches
<1>2. /\ new \in Seq(Word) /\ Len(new) = l /\ \A q \in 1 .. l : new[q] = stk[q]
      /\ e = w /\ bs = Left(w, ac)
  BY <1>1, CutOff DEF Through
<1>3. IsSeq(bs) /\ Placing(e, new, bs)
  BY LeavesThrough
<1>4. N - 1 \in 1 .. n
  BY DEF Stays
<1>5. CASE IsRet(w)
  <2>0. PICK i : i = w[2]
    OBVIOUS
  <2>1. w = Ret(i) /\ i \in Nat /\ w # Thunk /\ w # Button
    BY <1>1, <1>5, <2>0, Words
  <2>2. i \in 1 .. n /\ ac[i].own = 1 /\ Reaches(stk, b, ac[i].sp) /\ ac[i].sp = l
    <3>1. RetKept(stk, ac, n, b)
      BY <1>1, <1>5 DEF Laid, RetsKept
    <3>2. i \in 1 .. n /\ ac[i].own = 1 /\ Reaches(stk, b, ac[i].sp)
      BY <2>0, <3>1 DEF RetKept
    <3> QED
      BY <1>1, <3>2, ReachesOnce
  <2>3. i = N - 1
    <3>1. ~(i < N - 1)
      <4> SUFFICES ASSUME i < N - 1 PROVE FALSE
        OBVIOUS
      <4>1. N - 1 \in i + 1 .. n
        BY <1>1, <1>4, <2>1
      <4>2. ac[N - 1].sp > b
        BY <1>1, <2>2, <4>1, Adjoining
      <4>3. N - 1 \in 1 .. N - 1
        BY <1>1
      <4>4. ac[N - 1].sp <= b /\ ac[N - 1].sp \in Nat
        BY <1>4, <4>3, Places DEF Stays
      <4> QED
        BY <1>1, <4>2, <4>4
    <3>2. i # N
      <4> SUFFICES ASSUME i = N PROVE FALSE
        OBVIOUS
      <4>1. n = N
        BY <1>1, <2>2
      <4>2. ac[N].sp > b
        BY <1>1, <4>1 DEF Stays
      <4> QED
        BY <1>1, <2>2, <4>2
    <3> QED
      BY <1>1, <2>1, <2>2, <3>1, <3>2
  <2>4. bs = SubSeq(ac, 1, N - 1)
    <3>1. bs = SubSeq(ac, 1, i)
      BY <1>2, <1>5, <2>0 DEF Left, IsRet
    <3> QED
      BY <2>3, <3>1
  <2>5. Len(bs) = N - 1 /\ \A k \in 1 .. N - 1 : bs[k] = ac[k]
    <3>1. N - 1 \in 0 .. Len(ac)
      BY <1>1
    <3> QED
      BY <2>4, <3>1, CutSeq
  <2>6. Laid(new, bs, N - 1)
    BY <1>2, <1>3, <2>1, <2>5 DEF Placing, InBody, InButton, InThunk
  <2>7. TagsKept(new, bs, N - 1)
    BY <1>2, <1>4, <2>5, <2>6, TagsCut
  <2>8. Tagged(e, new, bs)
    BY <1>2, <2>1, <2>5, <2>7 DEF Tagged, OnStack
  <2>9. Over(ac, bs)
    <3>1. Rank(ac, N - 1) = Rank(ac, N)
      <4>1. \A k \in N - 1 + 1 .. N : ~ac[k].back
        BY <1>1, <2>1
      <4> QED
        BY <1>1, <4>1, RankFlat
    <3>2. Shares(ac, bs, N - 1)
      BY <1>1, <2>5 DEF Shares
    <3> QED
      BY <2>5, <3>1, <3>2 DEF Over
  <2> QED
    BY <1>3, <2>8, <2>9
<1>6. CASE w = Thunk
  <2>1. bs = ac /\ e # Button
    BY <1>2, <1>6, Words DEF Left, IsRet
  <2>2. Laid(new, bs, N - 1)
    BY <1>2, <1>3, <1>6, <2>1, Words DEF Placing, InBody, InButton, InThunk
  <2>3. TagsKept(new, bs, N - 1)
    BY <1>2, <1>4, <2>1, <2>2, TagsCut
  <2>4. Tagged(e, new, bs)
    BY <1>2, <1>6, <2>1, <2>3 DEF Tagged, OnStack
  <2>5. Over(ac, bs)
    BY <1>1, <2>1 DEF Over, Shares
  <2> QED
    BY <1>3, <2>4, <2>5
<1> QED
  BY <1>1, <1>5, <1>6 DEF IsAddr

LEMMA GuestTags ==
  ASSUME IsSeq(acts), InBody(eip, stack, acts), Len(acts) > 1, LeaveBody(1), Tagged(eip, stack, acts)
  PROVE  Tagged(eip', stack', acts') /\ Over(acts, acts') /\ IsSeq(acts')
<1>0. PICK N, b : N = Len(acts) /\ b = Len(stack) - 1
  OBVIOUS
<1>1. /\ stack \in Seq(Word) /\ Len(stack) \in Nat /\ N \in Nat /\ N > 1
      /\ Laid(stack, acts, N) /\ acts[N].own = 1 /\ acts[N].sp = Len(stack) /\ eip = Ret(N)
  BY <1>0, BodyFacts DEF InBody
<1>2. Base(stack, b, acts[N].pops) /\ Stays(acts, N, b, N - 1)
      /\ Through(stack, acts, eip', stack', acts', b, acts[N].pops)
  BY <1>0, GuestThrough
<1>3. TagsKept(stack, acts, N)
  BY <1>0, <1>1, Words DEF Tagged, OnStack
<1>4. acts[N].back <=> stack[b] = Thunk
  <2>1. N \in 2 .. N
    BY <1>1
  <2> QED
    BY <1>0, <1>1, <1>3, <2>1 DEF TagsKept, TagKept
<1> QED
  BY <1>0, <1>1, <1>2, <1>3, <1>4, ThroughTags

LEMMA ButtonTags ==
  ASSUME IsSeq(acts), InButton(eip, stack, acts), LeaveBody(0), Tagged(eip, stack, acts)
  PROVE  Tagged(eip', stack', acts') /\ Over(acts, acts') /\ IsSeq(acts')
<1>0. PICK N, b : N = Len(acts) /\ b = Len(stack)
  OBVIOUS
<1>1. N > 1 /\ Laid(stack, acts, N - 1) /\ eip = Button
  BY <1>0 DEF InButton
<1>2. Base(stack, b, 4) /\ Stays(acts, N - 1, b, N - 1)
      /\ Through(stack, acts, eip', stack', acts', b, 4)
  BY <1>0, ButtonThrough
<1>3. TagsKept(stack, acts, N - 1) /\ (acts[N].back <=> stack[b] = Thunk)
  BY <1>0, <1>1 DEF Tagged, OnStack
<1> QED
  BY <1>0, <1>1, <1>2, <1>3, ThroughTags

\* A call that finishes from the thunk: one call ends, and no other.
LEMMA FinishTags ==
  ASSUME IsSeq(acts), InThunk(eip, stack, acts), NEW value, FinishCall(value), Tagged(eip, stack, acts)
  PROVE  /\ Tagged(eip', stack', acts') /\ IsSeq(acts')
         /\ Len(acts) > 0 /\ acts[Len(acts)].back /\ Over(Front(acts), acts')
<1>0. PICK L, ac, n, w : L = Len(stack) /\ ac = Front(acts) /\ n = Len(acts) - 1 /\ w = stack[L]
  OBVIOUS
<1>1. /\ stack \in Seq(Word) /\ L \in Nat /\ L >= 2 /\ w \in Word
      /\ Laid(stack, ac, n) /\ Bare(stack, L) /\ IsSeq(ac) /\ Len(ac) = n /\ n \in Nat \ {0}
  <2>1. L \in 1 .. L
    BY <1>0, ThunkFacts
  <2> QED
    BY <1>0, <2>1, ThunkFacts
<1>2. IsAddr(w) /\ stack[L - 1] # Arg /\ L - 1 \in 1 .. L /\ L \in 1 .. Len(stack)
  BY <1>0, <1>1 DEF Bare
<1>3. eip' = w /\ stack' = Front(stack) /\ acts' = Left(w, ac)
  BY <1>0 DEF FinishCall
<1>4. stack' \in Seq(Word) /\ Len(stack') = L - 1 /\ \A q \in 1 .. L - 1 : stack'[q] = stack[q]
  BY <1>0, <1>1, <1>2, <1>3, CutOff DEF Front
<1>5. IsSeq(acts') /\ Placing(eip', stack', acts')
  BY Finishes DEF Departed
<1>6. acts[Len(acts)].back /\ Len(acts) > 0 /\ \A k \in 1 .. n : ac[k] = acts[k]
  <2>1. eip = Thunk /\ Len(acts) > 1
    BY DEF InThunk
  <2> QED
    BY <1>0, <1>1, <2>1, FrontSeq DEF Tagged
<1>7. TagsKept(stack, ac, n)
  <2>1. TagsKept(stack, acts, n)
    BY <1>0 DEF Tagged, OnStack, InThunk
  <2>2. 1 \in 1 .. n /\ \A k \in 2 .. n : k \in 1 .. n
    BY <1>1
  <2> QED
    BY <1>6, <2>1, <2>2 DEF TagsKept
<1>8. CASE IsRet(w)
  <2>0. PICK i : i = w[2]
    OBVIOUS
  <2>1. w = Ret(i) /\ i \in Nat /\ w # Thunk /\ w # Button
    BY <1>1, <1>8, <2>0, Words
  <2>2. i \in 1 .. n /\ ac[i].own = 1 /\ Reaches(stack, L, ac[i].sp)
    <3>1. RetKept(stack, ac, n, L)
      <4>1. L \in DOMAIN stack
        BY <1>0, <1>1
      <4> QED
        BY <1>0, <1>1, <1>8, <4>1 DEF Laid, RetsKept
    <3> QED
      BY <1>0, <2>0, <3>1 DEF RetKept
  <2>3. acts' = SubSeq(ac, 1, i)
    BY <1>3, <1>8, <2>0 DEF Left, IsRet
  <2>4. Len(acts') = i /\ \A k \in 1 .. i : acts'[k] = ac[k]
    <3>1. i \in 0 .. Len(ac)
      BY <1>1, <2>2
    <3> QED
      BY <1>1, <2>3, <3>1, CutSeq
  <2>5. Laid(stack', acts', i)
    BY <1>3, <1>5, <2>1, <2>4 DEF Placing, InBody, InButton, InThunk
  <2>6. Tagged(eip', stack', acts')
    <3>1. TagsKept(stack', acts', i)
      BY <1>1, <1>4, <1>7, <2>2, <2>4, <2>5, TagsCut
    <3> QED
      BY <1>3, <2>1, <2>4, <3>1 DEF Tagged, OnStack
  <2>7. ASSUME NEW k \in i + 1 .. n PROVE ~ac[k].back
    <3>1. ac[k].sp > L /\ (ac[k].own = 0 => ac[k].sp - 4 >= L)
      BY <1>0, <1>1, <1>2, <2>2, Adjoining
    <3>2. k \in 2 .. n
      BY <1>1, <2>1, <2>2
    <3>3. ac[k].own \in {0, 1} /\ ac[k].sp \in Nat
          /\ (ac[k].own = 1 => ac[k].sp \in 1 .. L) /\ (ac[k].own = 0 => ac[k].sp - 4 \in 1 .. L)
      BY <1>0, <1>1, <3>2, TagPlaces
    <3>4. ac[k].own = 0 /\ ac[k].sp - 4 = L
      BY <1>1, <3>1, <3>3
    <3>5. TagKept(stack, ac[k])
      BY <1>7, <3>2 DEF TagsKept
    <3>6. ac[k].back <=> stack[L] = Thunk
      BY <3>4, <3>5 DEF TagKept
    <3>7. stack[L] # Thunk
      BY <1>0, <2>1
    <3> QED
      BY <3>6, <3>7
  <2>8. Over(ac, acts')
    <3>1. Rank(ac, i) = Rank(ac, n)
      BY <1>1, <2>2, <2>7, RankFlat
    <3>2. Shares(ac, acts', i)
      BY <1>1, <2>1, <2>2, <2>4 DEF Shares
    <3> QED
      BY <1>1, <2>4, <3>1, <3>2 DEF Over
  <2> QED
    BY <1>0, <1>5, <1>6, <2>6, <2>8
<1>9. CASE w = Thunk
  <2>1. acts' = ac /\ eip' = Thunk /\ eip' # Button
    <3>1. acts' = ac
      BY <1>3, <1>9, Words DEF Left, IsRet
    <3> QED
      BY <1>3, <1>9, <3>1, Words
  <2>2. n > 1 /\ Laid(stack', ac, n - 1)
    <3>1. Laid(stack, ac, n) /\ Bare(stack, Len(stack)) /\ stack[Len(stack)] = Thunk
      BY <1>0, <1>1, <1>9
    <3>2. stack' \in Seq(Word) /\ Len(stack') = Len(stack) - 1
          /\ \A q \in 1 .. Len(stack') : stack'[q] = stack[q]
      BY <1>0, <1>4
    <3>3. \A k \in 1 .. n - 1 : ac[k] = ac[k]
      OBVIOUS
    <3> QED
      BY <3>1, <3>2, <3>3, ThunkAgain
  <2>3. TagsKept(stack', ac, n - 1)
    <3>1. n - 1 \in 1 .. n /\ \A k \in 1 .. n - 1 : ac[k] = ac[k]
      BY <1>1, <2>2
    <3> QED
      BY <1>1, <1>4, <1>7, <2>2, <3>1, TagsCut
  <2>4. ac[n].back
    <3>1. ThunkKept(stack, ac, n, L)
      <4>1. L \in DOMAIN stack
        BY <1>0, <1>1
      <4> QED
        BY <1>0, <1>1, <1>9, <4>1 DEF Laid, ThunksKept
    <3>2. PICK m \in 1 .. n : ac[m].own = 0 /\ ac[m].sp = L + 4
      BY <1>1, <3>1 DEF ThunkKept
    <3>3. m = n
      <4> SUFFICES ASSUME m < n PROVE FALSE
        BY <1>1
      <4>1. n \in 2 .. n
        BY <1>1, <2>2
      <4>2. ac[n].own \in {0, 1} /\ ac[n].sp \in Nat
            /\ (ac[n].own = 1 => ac[n].sp \in 1 .. L) /\ (ac[n].own = 0 => ac[n].sp - 4 \in 1 .. L)
        BY <1>0, <1>1, <4>1, TagPlaces
      <4>3. ac[m].sp < ac[n].sp
        BY <1>1, <2>2 DEF Laid, Rising
      <4> QED
        BY <1>1, <3>2, <4>2, <4>3
    <3>4. n \in 2 .. n /\ ac[n].sp - 4 = L
      BY <1>1, <2>2, <3>2, <3>3
    <3>5. TagKept(stack, ac[n])
      BY <1>7, <3>4 DEF TagsKept
    <3>6. ac[n].own = 0
      BY <3>2, <3>3
    <3>7. ac[n].back <=> stack[L] = Thunk
      BY <3>4, <3>5, <3>6 DEF TagKept
    <3>8. stack[L] = Thunk
      BY <1>0, <1>9
    <3> QED
      BY <3>7, <3>8
  <2>5. Tagged(eip', stack', acts')
    BY <1>1, <2>1, <2>3, <2>4 DEF Tagged, OnStack
  <2>6. Over(ac, acts')
    BY <1>1, <2>1 DEF Over, Shares
  <2> QED
    BY <1>0, <1>5, <1>6, <2>5, <2>6
<1> QED
  BY <1>2, <1>8, <1>9 DEF IsAddr

\* Entering from a body: the frame of a call.
LEMMA FramedTags ==
  ASSUME IsSeq(acts), InBody(eip, stack, acts), Tagged(eip, stack, acts), NEW pops \in Nat \ {0},
         NEW new, Framed(stack, new, Len(acts), pops), NEW proc, NEW m, Run(acts, new, proc, m, pops)
  PROVE  Entering(acts, m, TRUE) /\ Tagged(eip', stack', acts')
<1>1. /\ stack \in Seq(Word) /\ Len(stack) \in Nat /\ Laid(stack, acts, Len(acts))
      /\ acts[Len(acts)].own = 1 /\ acts[Len(acts)].sp = Len(stack) /\ Len(acts) \in Nat
  BY BodyFacts
<1>2. Len(new) > 0 /\ new[Len(new)] = Thunk /\ \A q \in 1 .. Len(stack) : new[q] = stack[q]
  BY <1>1 DEF Framed
<1>3. Laid(new, acts, Len(acts))
  BY <1>1, CallFrame
<1>4. TagsKept(stack, acts, Len(acts))
  BY <1>1, Words DEF Tagged, OnStack, InBody
<1>5. TagsKept(new, acts, Len(acts))
  BY <1>1, <1>2, <1>4, TagsGrow
<1>6. Entering(acts, m, new[Len(new)] = Thunk) /\ Tagged(eip', stack', acts')
  BY <1>2, <1>3, <1>5, RunTags
<1> QED
  BY <1>2, <1>6 DEF Entering

LEMMA SendTags ==
  ASSUME IsSeq(acts), InBody(eip, stack, acts), Tagged(eip, stack, acts),
         NEW n \in Nat \ {0}, NEW proc, NEW m, SendFrom(n, proc, m)
  PROVE  Entering(acts, m, TRUE) /\ Tagged(eip', stack', acts')
<1>1. 4 \in Nat \ {0}
  OBVIOUS
<1> QED
  BY <1>1, SendFrame, FramedTags DEF SendFrom

LEMMA HookTags ==
  ASSUME IsSeq(acts), InBody(eip, stack, acts), Tagged(eip, stack, acts), NEW h, SendHook(12, h)
  PROVE  Entering(acts, Msg(h, "HOOK"), TRUE) /\ Tagged(eip', stack', acts')
<1>1. Framed(stack, Placed(Called(12), Len(Called(12)) - HookArgs, <<Thunk, Arg, Arg, Arg, Ret(Len(acts))>>),
             Len(acts), 3)
  BY HookFrame
<1>2. Run(acts, Placed(Called(12), Len(Called(12)) - HookArgs, <<Thunk, Arg, Arg, Arg, Ret(Len(acts))>>),
          "app", Msg(h, "HOOK"), 3)
  BY DEF SendHook
<1>3. 3 \in Nat \ {0}
  OBVIOUS
<1> QED
  BY <1>1, <1>2, <1>3, FramedTags

LEMMA TailTags ==
  ASSUME IsSeq(acts), InBody(eip, stack, acts), Tagged(eip, stack, acts), NEW proc, NEW m,
         Run(acts, stack \o <<Arg, Arg, Arg, Arg, Ret(Len(acts))>>, proc, m, 4)
  PROVE  Entering(acts, m, FALSE) /\ Tagged(eip', stack', acts')
<1>0. PICK w, words, new : /\ w = Ret(Len(acts)) /\ words = <<Arg, Arg, Arg, Arg, w>>
                           /\ new = stack \o words
  OBVIOUS
<1>1. /\ stack \in Seq(Word) /\ Len(stack) \in Nat /\ w \in Word /\ w # Thunk
      /\ Laid(stack, acts, Len(acts)) /\ acts[Len(acts)].own = 1 /\ acts[Len(acts)].sp = Len(stack)
  BY <1>0, BodyFacts, Words
<1>2. /\ words \in Seq(Word) /\ Len(words) = 5
      /\ words[1] = Arg /\ words[2] = Arg /\ words[3] = Arg /\ words[4] = Arg /\ words[5] = w
  BY <1>0, <1>1, Words
<1>3. /\ new \in Seq(Word) /\ Len(new) = Len(stack) + 5
      /\ \A q \in 1 .. Len(stack) : new[q] = stack[q]
      /\ \A i \in 1 .. 5 : new[Len(stack) + i] = words[i]
  BY <1>0, <1>1, <1>2
<1>4. ASSUME NEW q \in Len(stack) + 1 .. Len(stack) + 4 PROVE new[q] = Arg
  <2>0. PICK i \in 1 .. 4 : q = Len(stack) + i
    <3>1. q - Len(stack) \in 1 .. 4 /\ q = Len(stack) + (q - Len(stack))
      BY <1>1
    <3> QED
      BY <3>1
  <2>1. i \in 1 .. 5 /\ (i = 1 \/ i = 2 \/ i = 3 \/ i = 4)
    BY <2>0
  <2>2. new[q] = words[i]
    BY <1>3, <2>0, <2>1
  <2> QED
    BY <1>2, <2>1, <2>2
<1>5. new[Len(new)] = w
  <2>1. 5 \in 1 .. 5
    OBVIOUS
  <2> QED
    BY <1>2, <1>3, <2>1
<1>6. Topped(stack, new, Ret(Len(acts)))
  BY <1>0, <1>3, <1>4, <1>5 DEF Topped
<1>7. Laid(new, acts, Len(acts))
  BY <1>1, <1>6, TailFrame
<1>8. TagsKept(stack, acts, Len(acts))
  <2>1. Len(acts) \in Nat
    BY <1>1, Places
  <2> QED
    BY <2>1, Words DEF Tagged, OnStack, InBody
<1>9. TagsKept(new, acts, Len(acts))
  BY <1>1, <1>3, <1>8, TagsGrow
<1>10. Run(acts, new, proc, m, 4) /\ Len(new) > 0
  BY <1>0, <1>1, <1>3
<1>11. Entering(acts, m, new[Len(new)] = Thunk) /\ Tagged(eip', stack', acts')
  BY <1>7, <1>9, <1>10, RunTags
<1> QED
  BY <1>1, <1>5, <1>11 DEF Entering

LEMMA NextTags ==
  ASSUME IsSeq(acts), InThunk(eip, stack, acts), Tagged(eip, stack, acts), NEW proc, NEW m, SendNext(proc, m)
  PROVE  /\ Entering(Front(acts), m, TRUE) /\ Tagged(eip', stack', acts')
         /\ Len(acts) > 0 /\ acts[Len(acts)].back
<1>0. PICK L, ac, n, new : /\ L = Len(stack) /\ ac = Front(acts) /\ n = Len(acts) - 1
                           /\ new = Placed(stack, Len(stack) + 5, FourArgs)
  OBVIOUS
<1>1. /\ stack \in Seq(Word) /\ L \in Nat /\ \A q \in 1 .. L : stack[q] \in Word
      /\ Laid(stack, ac, n) /\ Bare(stack, L) /\ IsSeq(ac) /\ Len(ac) = n /\ n \in Nat \ {0}
  BY <1>0, ThunkFacts
<1>2. Fits(stack, L, FourArgs, L + 5)
  BY <1>1, FourArgsSeq DEF Fits
<1>3. /\ new \in Seq(Word) /\ Len(new) = L + 5
      /\ \A p \in 1 .. L : new[p] = stack[p]
      /\ \A i \in 1 .. 5 : new[L + i] = FourArgs[5 + 1 - i]
  <2>1. Stacked(stack, L, FourArgs, new)
    BY <1>0, <1>2, PlacedSeq
  <2> QED
    BY <2>1, FourArgsSeq DEF Stacked
<1>4. new[Len(new)] = Thunk
  <2>1. 5 \in 1 .. 5 /\ 5 + 1 - 5 = 1
    OBVIOUS
  <2> QED
    BY <1>3, <2>1, FourArgsSeq
<1>5. ASSUME NEW q \in L + 1 .. L + 4 PROVE new[q] = Arg
  <2>0. PICK i : i = q - L
    OBVIOUS
  <2>1. i \in 1 .. 5 /\ 5 + 1 - i \in 2 .. 5 /\ q = L + i
    BY <1>1, <2>0
  <2>2. new[L + i] = FourArgs[5 + 1 - i]
    BY <1>3, <2>1
  <2>3. FourArgs[5 + 1 - i] = Arg
    BY <2>1, FourArgsSeq
  <2> QED
    BY <2>1, <2>2, <2>3
<1>6. Topped(stack, new, Thunk)
  BY <1>0, <1>3, <1>4, <1>5 DEF Topped
<1>7. Laid(new, ac, n)
  BY <1>0, <1>1, <1>6, NextFrame
<1>8. acts[Len(acts)].back /\ Len(acts) > 0 /\ \A k \in 1 .. n : ac[k] = acts[k]
  <2>1. eip = Thunk /\ Len(acts) > 1
    BY DEF InThunk
  <2> QED
    BY <1>0, <1>1, <2>1, FrontSeq DEF Tagged
<1>9. TagsKept(stack, ac, n)
  <2>1. TagsKept(stack, acts, n)
    BY <1>0 DEF Tagged, OnStack, InThunk
  <2>2. 1 \in 1 .. n /\ \A k \in 2 .. n : k \in 1 .. n
    BY <1>1
  <2> QED
    BY <1>8, <2>1, <2>2 DEF TagsKept
<1>10. TagsKept(new, ac, n)
  <2>1. \A q \in 1 .. Len(stack) : new[q] = stack[q]
    BY <1>0, <1>3
  <2>2. \A k \in 1 .. n : ac[k] = ac[k]
    OBVIOUS
  <2> QED
    BY <1>1, <1>9, <2>1, <2>2, TagsGrow
<1>11. Run(ac, new, proc, m, 4) /\ Len(new) > 0
  BY <1>0, <1>1, <1>3 DEF SendNext
<1>12. Entering(ac, m, new[Len(new)] = Thunk) /\ Tagged(eip', stack', acts')
  BY <1>1, <1>7, <1>10, <1>11, RunTags
<1> QED
  BY <1>0, <1>4, <1>8, <1>12 DEF Entering

LEMMA DrawTags ==
  ASSUME IsSeq(acts), InButton(eip, stack, acts), Tagged(eip, stack, acts), NEW proc, NEW m,
         Run(acts, Placed(stack, Len(stack) + 1, Append(FourArgs, stack[Len(stack)])), proc, m, 4)
  PROVE  Entering(acts, m, TRUE) /\ Tagged(eip', stack', acts')
<1>0. PICK N, n, L, l : N = Len(acts) /\ n = N - 1 /\ L = Len(stack) /\ l = L - 5
  OBVIOUS
<1>1. /\ Laid(stack, acts, n) /\ N > 1 /\ eip = Button
      /\ acts[N].own = 0 /\ acts[N].sp = L
      /\ Base(stack, L, 4) /\ \A k \in 1 .. n : acts[k].sp < L
  BY <1>0 DEF InButton
<1>2. /\ stack \in Seq(Word) /\ L \in Nat /\ N \in Nat /\ n \in Nat \ {0} /\ N = n + 1
      /\ l \in Nat \ {0} /\ L = l + 5
  <2>1. stack \in Seq(Word) /\ L \in Nat /\ n \in Nat \ {0}
    BY <1>0, <1>1, Places
  <2>2. N \in Nat
    BY <1>0 DEF IsSeq
  <2>3. Reaches(stack, L, L - 1 - 4)
    BY <1>1 DEF Base
  <2>4. L - 1 - 4 \in 1 .. L - 1
    BY <2>3 DEF Reaches
  <2>5. l \in Nat \ {0} /\ L = l + 5
    BY <1>0, <2>1, <2>4
  <2>6. N = n + 1
    BY <1>0, <2>2
  <2> QED
    BY <2>1, <2>2, <2>5, <2>6
<1>3. PICK w, new : w = stack[L] /\ new = Placed(stack, L + 1, Append(FourArgs, w))
  OBVIOUS
<1>4. w \in Word
  BY <1>0, <1>2, <1>3
<1>5. Lowered(stack, new, l)
  <2>1. FrameWords(Append(FourArgs, w), stack[l + 5], 4)
    BY <1>2, <1>3, <1>4, FourArgsSeq DEF FrameWords
  <2>2. L + 1 = l + 6 /\ Len(stack) = l + 5
    BY <1>0, <1>2
  <2> QED
    BY <1>2, <1>3, <2>1, <2>2, LoweredPlaced
<1>6. Laid(new, acts, N)
  <2>1. /\ Laid(stack, acts, n) /\ Base(stack, l + 5, 4) /\ Len(stack) = l + 5 /\ l \in Nat
        /\ \A k \in 1 .. n : acts[k].sp < l + 5
        /\ acts[n + 1].own = 0 /\ acts[n + 1].sp = l + 5
    BY <1>0, <1>1, <1>2
  <2> QED
    BY <1>2, <1>5, <2>1, ButtonFrame
<1>7. TagsKept(stack, acts, n) /\ (acts[N].back <=> w = Thunk)
  BY <1>0, <1>1, <1>3 DEF Tagged, OnStack
<1>8. TagsKept(new, acts, n)
  <2>1. /\ Base(stack, l + 5, 4) /\ Len(stack) = l + 5 /\ l \in Nat
        /\ \A k \in 1 .. n : acts[k].sp < l + 5
    BY <1>0, <1>1, <1>2
  <2>2. PICK mid \in Seq(Word) : /\ Len(mid) = l /\ \A q \in 1 .. l : mid[q] = stack[q]
                                 /\ Laid(mid, acts, n)
    BY <1>1, <2>1, ButtonCut
  <2>3. n \in 1 .. n
    BY <1>2
  <2>4. TagsKept(mid, acts, n)
    BY <1>1, <1>7, <2>2, <2>3, TagsCut
  <2>5. \A q \in 1 .. Len(mid) : new[q] = mid[q]
    BY <1>5, <2>2 DEF Lowered
  <2> QED
    BY <2>2, <2>4, <2>5, TagsGrow
<1>9. TagKept(new, acts[N])
  <2>1. acts[N].sp - 4 = l + 1 /\ new[l + 1] = w
    BY <1>1, <1>2, <1>3, <1>5 DEF Lowered
  <2> QED
    BY <1>1, <1>7, <2>1 DEF TagKept
<1>10. TagsKept(new, acts, N)
  <2>1. \A k \in 2 .. N : k \in 2 .. n \/ k = N
    BY <1>2
  <2> QED
    BY <1>8, <1>9, <2>1 DEF TagsKept
<1>11. Run(acts, new, proc, m, 4) /\ Len(new) > 0 /\ new[Len(new)] = Thunk
  <2>1. Len(new) > 0 /\ new[Len(new)] = Thunk
    BY <1>2, <1>5 DEF Lowered
  <2> QED
    BY <1>0, <1>3, <2>1
<1>12. Entering(acts, m, new[Len(new)] = Thunk) /\ Tagged(eip', stack', acts')
  BY <1>0, <1>6, <1>10, <1>11, RunTags
<1> QED
  BY <1>11, <1>12 DEF Entering

-----------------------------------------------------------------------------
(***************************************************************************)
(* The invariant of the refinement: the procedures are tagged as their     *)
(* return addresses say and paired with the frames; a frame without more   *)
(* to send only finishes, one of messages always has more, and one of      *)
(* drawing waits for a WM_DRAWITEM.                                        *)
(***************************************************************************)
Results == Handles \cup {0, 1}

Listed(todo) == IsSeq(todo) /\ \A j \in 1 .. Len(todo) : todo[j].hwnd \in Handles

Draws(todo) == \A j \in 1 .. Len(todo) : todo[j].msg = "DRAWITEM"

FrameOk(f, m) ==
  /\ f.value \in Results
  /\ Listed(f.todo)
  /\ f.kind \in {"plain", "window", "dialog", "draw"}
  /\ f.kind = "plain" => f.todo = <<>>
  /\ f.kind \in {"window", "dialog"} => f.todo # <<>>
  /\ f.kind = "draw" => m.msg = "DRAWITEM" /\ Draws(f.todo)

FramesOk(fs, cs) == \A i \in 1 .. Len(fs) : FrameOk(fs[i], cs[i].now)

Named(ac) == \A k \in 2 .. Len(ac) : ac[k].msg.hwnd \in Handles

Kept(e, stk, ac, fs, v) ==
  /\ Tagged(e, stk, ac)
  /\ Paired(ac, fs)
  /\ FramesOk(fs, CallsOf(ac, fs))
  /\ Named(ac)
  /\ v \in Results

RInv == AInv /\ Kept(eip, stack, acts, frames, eax)
KeptNext == Kept(eip', stack', acts', frames', eax')

LEMMA RefinementFacts ==
  ASSUME RInv
  PROVE  /\ IsSeq(acts) /\ IsSeq(frames) /\ Tagged(eip, stack, acts)
         /\ Len(acts) \in Nat /\ Len(frames) \in Nat
         /\ Paired(acts, frames) /\ Named(acts) /\ eax \in Results
         /\ FramesOk(frames, CallsOf(acts, frames))
BY SeqLength DEF RInv, Kept, AInv, IInv, Sound, Counted

\* Nothing but the returned value changes.
LEMMA QuietStep ==
  ASSUME RInv, UNCHANGED <<stack, eip, acts, frames>>, eax' \in Results
  PROVE  KeptNext /\ CallsOf(acts', frames') = CallsOf(acts, frames)
<1>1. acts' = acts /\ frames' = frames /\ eip' = eip /\ stack' = stack
  OBVIOUS
<1>2. CallsOf(acts', frames') = CallsOf(acts, frames)
  BY <1>1
<1> QED
  BY <1>1, <1>2 DEF KeptNext, RInv, Kept

LEMMA AppendNamed ==
  ASSUME NEW ac, IsSeq(ac), Named(ac), NEW x, x.msg.hwnd \in Handles
  PROVE  Named(Append(ac, x))
<1>1. Len(ac) \in Nat /\ Len(Append(ac, x)) = Len(ac) + 1 /\ Append(ac, x)[Len(ac) + 1] = x
      /\ \A k \in 1 .. Len(ac) : Append(ac, x)[k] = ac[k]
  BY AppendSeq
<1>2. \A k \in 2 .. Len(ac) + 1 : k = Len(ac) + 1 \/ (k \in 1 .. Len(ac) /\ k \in 2 .. Len(ac))
  BY <1>1
<1> QED
  BY <1>1, <1>2 DEF Named

LEMMA SharedNamed ==
  ASSUME NEW ac, Named(ac), NEW bs, Shares(ac, bs, Len(bs)), Len(ac) \in Nat
  PROVE  Named(bs)
<1>1. Len(bs) \in Nat /\ Len(bs) <= Len(ac) /\ \A q \in 1 .. Len(bs) : bs[q] = ac[q]
  BY DEF Shares
<1>2. \A k \in 2 .. Len(bs) : k \in 1 .. Len(bs) /\ k \in 2 .. Len(ac)
  BY <1>1
<1> QED
  BY <1>1, <1>2 DEF Named

\* A tail call enters a procedure that does not come back to the thunk.
LEMMA TailStep ==
  ASSUME RInv, NEW m, m.hwnd \in Handles, Entering(acts, m, FALSE), Tagged(eip', stack', acts'),
         UNCHANGED <<frames, eax>>
  PROVE  KeptNext /\ CallsOf(acts', frames') = CallsOf(acts, frames)
<1>1. PICK x : acts' = Append(acts, x) /\ x.msg = m /\ ~x.back
  BY DEF Entering
<1>2. /\ IsSeq(acts) /\ IsSeq(frames) /\ Paired(acts, frames) /\ Named(acts) /\ eax \in Results
      /\ FramesOk(frames, CallsOf(acts, frames))
  BY RefinementFacts
<1>3. Paired(acts', frames) /\ CallsOf(acts', frames) = CallsOf(acts, frames)
  BY <1>1, <1>2, CallsTail
<1>4. Named(acts')
  BY <1>1, <1>2, AppendNamed
<1>5. frames' = frames /\ eax' = eax
  OBVIOUS
<1> QED
  BY <1>2, <1>3, <1>4, <1>5 DEF KeptNext, Kept

\* A procedure returns, and no call with it.
LEMMA LeaveStep ==
  ASSUME RInv, IsSeq(acts'), Over(acts, acts'), Tagged(eip', stack', acts'),
         frames' = frames, eax' \in Results
  PROVE  KeptNext /\ CallsOf(acts', frames') = CallsOf(acts, frames)
<1>1. /\ IsSeq(acts) /\ IsSeq(frames) /\ Paired(acts, frames) /\ Named(acts) /\ Len(acts) \in Nat
      /\ FramesOk(frames, CallsOf(acts, frames))
  BY RefinementFacts
<1>2. Paired(acts', frames) /\ CallsOf(acts', frames) = CallsOf(acts, frames)
  BY <1>1, CallsCut DEF Over
<1>3. Named(acts')
  BY <1>1, SharedNamed DEF Over
<1> QED
  BY <1>1, <1>2, <1>3 DEF KeptNext, Kept

LEMMA AppendOk ==
  ASSUME NEW fs, IsSeq(fs), NEW cs, IsSeq(cs), Len(cs) = Len(fs), FramesOk(fs, cs),
         NEW f, NEW c, FrameOk(f, c.now)
  PROVE  FramesOk(Append(fs, f), Append(cs, c))
<1>0. PICK gs, ds, n : gs = Append(fs, f) /\ ds = Append(cs, c) /\ n = Len(fs)
  OBVIOUS
<1>1. n \in Nat /\ Len(gs) = n + 1 /\ gs[n + 1] = f /\ \A k \in 1 .. n : gs[k] = fs[k]
  BY <1>0, AppendSeq
<1>2. ds[n + 1] = c /\ \A k \in 1 .. n : ds[k] = cs[k]
  BY <1>0, AppendSeq
<1>3. \A k \in 1 .. n + 1 : k \in 1 .. n \/ k = n + 1
  BY <1>1
<1>4. FramesOk(gs, ds)
  BY <1>0, <1>1, <1>2, <1>3 DEF FramesOk
<1> QED
  BY <1>0, <1>4

LEMMA FrontOk ==
  ASSUME NEW fs, IsSeq(fs), Len(fs) > 0, NEW cs, IsSeq(cs), Len(cs) = Len(fs), FramesOk(fs, cs)
  PROVE  FramesOk(Front(fs), Front(cs))
<1>0. PICK gs, ds, n : gs = Front(fs) /\ ds = Front(cs) /\ n = Len(fs) - 1
  OBVIOUS
<1>1. Len(gs) = n /\ \A k \in 1 .. n : gs[k] = fs[k]
  BY <1>0, FrontSeq
<1>2. \A k \in 1 .. n : ds[k] = cs[k]
  BY <1>0, FrontSeq
<1>3. \A k \in 1 .. n : k \in 1 .. Len(fs)
  BY <1>0, SeqLength
<1>4. FramesOk(gs, ds)
  BY <1>1, <1>2, <1>3 DEF FramesOk
<1> QED
  BY <1>0, <1>4

\* A call enters the procedure of its first message.
LEMMA SendStep ==
  ASSUME RInv, NEW m, m.hwnd \in Handles, Entering(acts, m, TRUE), Tagged(eip', stack', acts'),
         NEW f, FrameOk(f, m), frames' = Append(frames, f), eax' = eax
  PROVE  /\ KeptNext
         /\ CallsOf(acts', frames')
              = Append(CallsOf(acts, frames), [value |-> f.value, now |-> m, todo |-> f.todo])
<1>0. PICK cs, c : cs = CallsOf(acts, frames) /\ c = [value |-> f.value, now |-> m, todo |-> f.todo]
  OBVIOUS
<1>1. PICK x : acts' = Append(acts, x) /\ x.msg = m /\ x.back
  BY DEF Entering
<1>2. /\ IsSeq(acts) /\ IsSeq(frames) /\ Paired(acts, frames) /\ Named(acts) /\ eax \in Results
      /\ FramesOk(frames, cs)
  BY <1>0, RefinementFacts
<1>3. Paired(acts', frames') /\ CallsOf(acts', frames') = Append(cs, c)
  <2>1. CallOf(f, x) = c
    BY <1>0, <1>1 DEF CallOf
  <2> QED
    BY <1>0, <1>1, <1>2, <2>1, CallsSend
<1>4. Named(acts')
  BY <1>1, <1>2, AppendNamed
<1>5. FramesOk(frames', Append(cs, c))
  <2>1. c.now = m
    BY <1>0
  <2>2. IsSeq(cs) /\ Len(cs) = Len(frames)
    BY <1>0, <1>2, CallsSeq
  <2> QED
    BY <1>2, <2>1, <2>2, AppendOk
<1> QED
  BY <1>0, <1>2, <1>3, <1>4, <1>5 DEF KeptNext, Kept

\* The call of the last frame, which is the call in progress from the thunk.
LEMMA LastCall ==
  ASSUME RInv, Len(acts) > 0, acts[Len(acts)].back
  PROVE  /\ Len(frames) > 0 /\ Last(frames) = frames[Len(frames)] /\ CallsOf(acts, frames) # <<>>
         /\ Last(CallsOf(acts, frames)) = CallOf(Last(frames), acts[Len(acts)])
         /\ FrameOk(Last(frames), acts[Len(acts)].msg)
<1>0. PICK cs, n : cs = CallsOf(acts, frames) /\ n = Len(frames)
  OBVIOUS
<1>1. IsSeq(acts) /\ IsSeq(frames) /\ Paired(acts, frames) /\ FramesOk(frames, cs) /\ n \in Nat
  BY <1>0, RefinementFacts
<1>2. n > 0 /\ cs[n] = CallOf(frames[n], acts[Len(acts)])
  BY <1>0, <1>1, CallsEnd
<1>3. IsSeq(cs) /\ Len(cs) = n
  BY <1>0, <1>1, CallsSeq
<1>4. Last(frames) = frames[n] /\ Last(cs) = cs[n]
  BY <1>0, <1>1, <1>2, <1>3, LastIs
<1>5. FrameOk(frames[n], acts[Len(acts)].msg)
  <2>1. n \in 1 .. n
    BY <1>1, <1>2
  <2>2. cs[n].now = acts[Len(acts)].msg
    BY <1>2 DEF CallOf
  <2> QED
    BY <1>0, <1>1, <2>1, <2>2 DEF FramesOk
<1>6. cs # <<>>
  BY <1>2, <1>3
<1> QED
  BY <1>0, <1>2, <1>4, <1>5, <1>6

\* The thunk sends the next message of the call.
LEMMA DeliverStep ==
  ASSUME RInv, Len(acts) > 0, acts[Len(acts)].back, NEW m, m.hwnd \in Handles,
         Entering(Front(acts), m, TRUE), Tagged(eip', stack', acts'),
         NEW f, FrameOk(f, m), frames' = Append(Front(frames), f), eax' = eax
  PROVE  /\ KeptNext
         /\ CallsOf(acts', frames')
              = Append(Front(CallsOf(acts, frames)), [value |-> f.value, now |-> m, todo |-> f.todo])
<1>0. PICK ac, fs, cs, c : /\ ac = Front(acts) /\ fs = Front(frames) /\ cs = CallsOf(ac, fs)
                           /\ c = [value |-> f.value, now |-> m, todo |-> f.todo]
  OBVIOUS
<1>1. PICK x : acts' = Append(ac, x) /\ x.msg = m /\ x.back
  BY <1>0 DEF Entering
<1>2. /\ IsSeq(acts) /\ IsSeq(frames) /\ Paired(acts, frames) /\ Named(acts) /\ eax \in Results
      /\ FramesOk(frames, CallsOf(acts, frames)) /\ Len(acts) \in Nat
  BY RefinementFacts
<1>3. Len(frames) > 0 /\ Paired(ac, fs) /\ cs = Front(CallsOf(acts, frames))
  BY <1>0, <1>2, CallsEnd
<1>4. IsSeq(ac) /\ IsSeq(fs) /\ Len(ac) = Len(acts) - 1 /\ \A k \in 1 .. Len(acts) - 1 : ac[k] = acts[k]
  BY <1>0, <1>2, <1>3, FrontSeq
<1>5. Named(ac)
  <2>1. Shares(acts, ac, Len(ac))
    BY <1>2, <1>4 DEF Shares
  <2> QED
    BY <1>2, <2>1, SharedNamed
<1>6. FramesOk(fs, cs)
  <2>1. IsSeq(CallsOf(acts, frames)) /\ Len(CallsOf(acts, frames)) = Len(frames)
    BY <1>2, CallsSeq
  <2> QED
    BY <1>0, <1>2, <1>3, <2>1, FrontOk
<1>7. Paired(acts', frames') /\ CallsOf(acts', frames') = Append(cs, c)
  <2>1. CallOf(f, x) = c
    BY <1>0, <1>1 DEF CallOf
  <2> QED
    <3>1. /\ Paired(Append(ac, x), Append(fs, f))
          /\ CallsOf(Append(ac, x), Append(fs, f)) = Append(CallsOf(ac, fs), CallOf(f, x))
      BY <1>1, <1>3, <1>4, CallsSend
    <3>2. acts' = Append(ac, x) /\ frames' = Append(fs, f) /\ cs = CallsOf(ac, fs)
      BY <1>0, <1>1
    <3> QED
      BY <2>1, <3>1, <3>2
<1>8. Named(acts')
  BY <1>1, <1>4, <1>5, AppendNamed
<1>9. FramesOk(frames', Append(cs, c))
  <2>1. c.now = m
    BY <1>0
  <2>2. IsSeq(cs) /\ Len(cs) = Len(fs)
    BY <1>0, <1>4, CallsSeq
  <2> QED
    BY <1>0, <1>4, <1>6, <2>1, <2>2, AppendOk
<1> QED
  BY <1>0, <1>2, <1>3, <1>7, <1>8, <1>9 DEF KeptNext, Kept

\* The call returns to its caller.
LEMMA FinishStep ==
  ASSUME RInv, Len(acts) > 0, acts[Len(acts)].back, Over(Front(acts), acts'), IsSeq(acts'),
         Tagged(eip', stack', acts'), frames' = Front(frames), eax' \in Results
  PROVE  KeptNext /\ CallsOf(acts', frames') = Front(CallsOf(acts, frames))
<1>0. PICK ac, fs, cs : ac = Front(acts) /\ fs = Front(frames) /\ cs = CallsOf(ac, fs)
  OBVIOUS
<1>2. /\ IsSeq(acts) /\ IsSeq(frames) /\ Paired(acts, frames) /\ Named(acts)
      /\ FramesOk(frames, CallsOf(acts, frames)) /\ Len(acts) \in Nat
  BY RefinementFacts
<1>3. Len(frames) > 0 /\ Paired(ac, fs) /\ cs = Front(CallsOf(acts, frames))
  BY <1>0, <1>2, CallsEnd
<1>4. IsSeq(ac) /\ IsSeq(fs) /\ Len(ac) = Len(acts) - 1 /\ \A k \in 1 .. Len(acts) - 1 : ac[k] = acts[k]
  BY <1>0, <1>2, <1>3, FrontSeq
<1>5. Named(ac)
  <2>1. Shares(acts, ac, Len(ac))
    BY <1>2, <1>4 DEF Shares
  <2> QED
    BY <1>2, <2>1, SharedNamed
<1>6. FramesOk(fs, cs)
  <2>1. IsSeq(CallsOf(acts, frames)) /\ Len(CallsOf(acts, frames)) = Len(frames)
    BY <1>2, CallsSeq
  <2> QED
    BY <1>0, <1>2, <1>3, <2>1, FrontOk
<1>7. Paired(acts', fs) /\ CallsOf(acts', fs) = cs
  BY <1>0, <1>3, <1>4, CallsCut DEF Over
<1>8. Named(acts')
  <2>1. Len(ac) \in Nat
    BY <1>4, SeqLength
  <2> QED
    BY <1>0, <1>5, <2>1, SharedNamed DEF Over
<1> QED
  BY <1>0, <1>3, <1>6, <1>7, <1>8 DEF KeptNext, Kept

-----------------------------------------------------------------------------
(***************************************************************************)
(* What the abstract calls do in each case.                                *)
(***************************************************************************)
\* The steps of SentMessages, on the calls.
Mapped == [Promised!Next]_<<Calls, eax>>

LEMMA OtherMapped ==
  ASSUME CallsOf(acts', frames') = CallsOf(acts, frames), eax' \in Results
  PROVE  Mapped
<1>1. Promised!Other
  BY CallsAre DEF Promised!Other, Results
<1> QED
  BY <1>1 DEF Mapped, Promised!Next

LEMMA DeliverMapped ==
  ASSUME NEW cs, cs = CallsOf(acts, frames), cs # <<>>, Last(cs).todo # <<>>,
         CallsOf(acts', frames')
           = Append(Front(cs), [value |-> Last(cs).value, now |-> Head(Last(cs).todo), todo |-> Tail(Last(cs).todo)]),
         eax' \in Results
  PROVE  Mapped
<1>1. Calls = cs /\ Calls' = CallsOf(acts', frames')
  BY CallsAre
<1>2. Promised!Deliver
  BY <1>1 DEF Promised!Deliver, Promised!Call, Promised!Last, Promised!Front, Last, Front, Results
<1> QED
  BY <1>2 DEF Mapped, Promised!Next

LEMMA FinishMapped ==
  ASSUME NEW cs, cs = CallsOf(acts, frames), cs # <<>>,
         Last(cs).todo = <<>> \/ Last(cs).now.msg = "DRAWITEM",
         CallsOf(acts', frames') = Front(cs), eax' = Last(cs).value
  PROVE  Mapped
<1>1. Calls = cs /\ Calls' = CallsOf(acts', frames')
  BY CallsAre
<1>2. Promised!Finish
  BY <1>1 DEF Promised!Finish, Promised!Last, Promised!Front, Last, Front
<1> QED
  BY <1>2 DEF Mapped, Promised!Next

\* A call that promises the messages s, of which m is the first.
LEMMA SendMapped ==
  ASSUME NEW value, NEW s, [value |-> value, sends |-> s] \in Promised!Promises,
         NEW m, m = Head(s), NEW todo, todo = Tail(s),
         CallsOf(acts', frames')
           = Append(CallsOf(acts, frames), [value |-> value, now |-> m, todo |-> todo]),
         eax' \in Results
  PROVE  Mapped
<1>1. Calls' = Append(Calls, [value |-> value, now |-> m, todo |-> todo])
  BY CallsAre
<1>2. PICK p : p = [value |-> value, sends |-> s]
  OBVIOUS
<1>3. p \in Promised!Promises /\ p.value = value /\ p.sends = s
  BY <1>2
<1>4. Calls' = Append(Calls, Promised!Call(p.value, p.sends))
  BY <1>1, <1>3 DEF Promised!Call
<1>5. Promised!Send
  BY <1>3, <1>4 DEF Promised!Send, Results
<1> QED
  BY <1>5 DEF Mapped, Promised!Next

\* The messages of a call, by their number.
LEMMA SentSeq ==
  ASSUME NEW h, NEW as, IsSeq(as)
  PROVE  /\ IsSeq(Promised!SentAll(h, as)) /\ Len(Promised!SentAll(h, as)) = Len(as)
         /\ \A i \in 1 .. Len(as) : Promised!SentAll(h, as)[i] = Msg(h, as[i])
<1>1. Len(as) \in Nat /\ DOMAIN as = 1 .. Len(as)
  BY SeqLength
<1>2. PICK t : t = Promised!SentAll(h, as)
  OBVIOUS
<1>3. t = [i \in 1 .. Len(as) |-> Msg(h, as[i])]
  BY <1>1, <1>2 DEF Promised!SentAll, Promised!Sent, Msg
<1>4. t = [i \in 1 .. Len(as) |-> t[i]]
  BY <1>3
<1>5. IsSeq(t) /\ Len(t) = Len(as)
  BY <1>1, <1>4, FunctionSeq
<1>6. \A i \in 1 .. Len(as) : t[i] = Msg(h, as[i])
  BY <1>3
<1> QED
  BY <1>2, <1>5, <1>6

LEMMA Tuples ==
  /\ \A a : IsSeq(<<a>>) /\ Len(<<a>>) = 1 /\ Head(<<a>>) = a /\ Tail(<<a>>) = <<>>
  /\ \A a, b : IsSeq(<<a, b>>) /\ Len(<<a, b>>) = 2 /\ Head(<<a, b>>) = a /\ Tail(<<a, b>>) = <<b>>
  /\ \A a, b, c : IsSeq(<<a, b, c>>) /\ Len(<<a, b, c>>) = 3 /\ Head(<<a, b, c>>) = a /\ Tail(<<a, b, c>>) = <<b, c>>
  /\ IsSeq(<<>>) /\ Len(<<>>) = 0
<1>1. ASSUME NEW a PROVE IsSeq(<<a>>) /\ Len(<<a>>) = 1 /\ Head(<<a>>) = a /\ Tail(<<a>>) = <<>>
  <2>1. <<a>> \in Seq({a})
    OBVIOUS
  <2>2. IsSeq(<<a>>)
    BY <2>1 DEF IsSeq
  <2>3. Len(<<a>>) = 1 /\ Head(<<a>>) = a
    OBVIOUS
  <2>4. Tail(<<a>>) = <<>>
    OBVIOUS
  <2> QED
    BY <2>2, <2>3, <2>4
<1>2. ASSUME NEW a, NEW b
      PROVE  IsSeq(<<a, b>>) /\ Len(<<a, b>>) = 2 /\ Head(<<a, b>>) = a /\ Tail(<<a, b>>) = <<b>>
  <2>1. <<a, b>> \in Seq({a, b})
    OBVIOUS
  <2>2. IsSeq(<<a, b>>)
    BY <2>1 DEF IsSeq
  <2>3. Len(<<a, b>>) = 2 /\ Head(<<a, b>>) = a
    OBVIOUS
  <2>4. Tail(<<a, b>>) = <<b>>
    OBVIOUS
  <2> QED
    BY <2>2, <2>3, <2>4
<1>3. ASSUME NEW a, NEW b, NEW c
      PROVE  IsSeq(<<a, b, c>>) /\ Len(<<a, b, c>>) = 3 /\ Head(<<a, b, c>>) = a /\ Tail(<<a, b, c>>) = <<b, c>>
  <2>1. <<a, b, c>> \in Seq({a, b, c})
    OBVIOUS
  <2>2. IsSeq(<<a, b, c>>)
    BY <2>1 DEF IsSeq
  <2>3. Len(<<a, b, c>>) = 3 /\ Head(<<a, b, c>>) = a
    OBVIOUS
  <2>4. Tail(<<a, b, c>>) = <<b, c>>
    OBVIOUS
  <2> QED
    BY <2>2, <2>3, <2>4
<1>4. IsSeq(<<>>) /\ Len(<<>>) = 0
  <2>1. <<>> \in Seq({})
    OBVIOUS
  <2> QED
    BY <2>1 DEF IsSeq
<1> QED
  BY <1>1, <1>2, <1>3, <1>4

LEMMA SentTuples ==
  ASSUME NEW h
  PROVE  /\ \A a : Promised!SentAll(h, <<a>>) = <<Msg(h, a)>>
         /\ \A a, b : Promised!SentAll(h, <<a, b>>) = <<Msg(h, a), Msg(h, b)>>
         /\ \A a, b, c : Promised!SentAll(h, <<a, b, c>>) = <<Msg(h, a), Msg(h, b), Msg(h, c)>>
<1>1. ASSUME NEW a PROVE Promised!SentAll(h, <<a>>) = <<Msg(h, a)>>
  <2>1. PICK t, u : t = Promised!SentAll(h, <<a>>) /\ u = <<Msg(h, a)>>
    OBVIOUS
  <2>2. IsSeq(t) /\ Len(t) = 1 /\ t[1] = Msg(h, a)
    BY <2>1, Tuples, SentSeq
  <2>3. \A k \in 1 .. 1 : t[k] = u[k]
    BY <2>1, <2>2
  <2>4. IsSeq(u) /\ Len(u) = 1
    BY <2>1, Tuples
  <2>5. t = u
    BY <2>2, <2>3, <2>4, SameSeq
  <2> QED
    BY <2>1, <2>5
<1>2. ASSUME NEW a, NEW b PROVE Promised!SentAll(h, <<a, b>>) = <<Msg(h, a), Msg(h, b)>>
  <2>1. PICK t, u : t = Promised!SentAll(h, <<a, b>>) /\ u = <<Msg(h, a), Msg(h, b)>>
    OBVIOUS
  <2>2. IsSeq(t) /\ Len(t) = 2 /\ t[1] = Msg(h, a) /\ t[2] = Msg(h, b)
    BY <2>1, Tuples, SentSeq
  <2>3. \A k \in 1 .. 2 : t[k] = u[k]
    BY <2>1, <2>2
  <2>4. IsSeq(u) /\ Len(u) = 2
    BY <2>1, Tuples
  <2>5. t = u
    BY <2>2, <2>3, <2>4, SameSeq
  <2> QED
    BY <2>1, <2>5
<1>3. ASSUME NEW a, NEW b, NEW c
      PROVE  Promised!SentAll(h, <<a, b, c>>) = <<Msg(h, a), Msg(h, b), Msg(h, c)>>
  <2>1. PICK t, u : t = Promised!SentAll(h, <<a, b, c>>) /\ u = <<Msg(h, a), Msg(h, b), Msg(h, c)>>
    OBVIOUS
  <2>2. IsSeq(t) /\ Len(t) = 3 /\ t[1] = Msg(h, a) /\ t[2] = Msg(h, b) /\ t[3] = Msg(h, c)
    BY <2>1, Tuples, SentSeq
  <2>3. \A k \in 1 .. 3 : t[k] = u[k]
    BY <2>1, <2>2
  <2>4. IsSeq(u) /\ Len(u) = 3
    BY <2>1, Tuples
  <2>5. t = u
    BY <2>2, <2>3, <2>4, SameSeq
  <2> QED
    BY <2>1, <2>5
<1> QED
  BY <1>1, <1>2, <1>3

\* One, two or three messages to a window, as a call sends them.
ToWindow(h, s) ==
  \/ \E a : s = <<Msg(h, a)>>
  \/ \E a, b : s = <<Msg(h, a), Msg(h, b)>>
  \/ \E a, b, c : s = <<Msg(h, a), Msg(h, b), Msg(h, c)>>

LEMMA ToWindowListed ==
  ASSUME NEW h \in Handles, NEW s, ToWindow(h, s)
  PROVE  Listed(s) /\ s # <<>> /\ Head(s).hwnd = h /\ Listed(Tail(s))
<1>1. \A a : Msg(h, a).hwnd = h
  BY DEF Msg
<1>2. Listed(<<>>)
  BY Tuples DEF Listed
<1>3. \A a : Listed(<<Msg(h, a)>>)
  <2> SUFFICES ASSUME NEW a PROVE Listed(<<Msg(h, a)>>)
    OBVIOUS
  <2>1. \A j \in 1 .. 1 : <<Msg(h, a)>>[j].hwnd = h
    BY <1>1
  <2> QED
    BY <2>1, Tuples DEF Listed
<1>4. \A a, b : Listed(<<Msg(h, a), Msg(h, b)>>)
  <2> SUFFICES ASSUME NEW a, NEW b PROVE Listed(<<Msg(h, a), Msg(h, b)>>)
    OBVIOUS
  <2>1. \A j \in 1 .. 2 : <<Msg(h, a), Msg(h, b)>>[j].hwnd = h
    BY <1>1
  <2> QED
    BY <2>1, Tuples DEF Listed
<1>5. \A a, b, c : Listed(<<Msg(h, a), Msg(h, b), Msg(h, c)>>)
  <2> SUFFICES ASSUME NEW a, NEW b, NEW c PROVE Listed(<<Msg(h, a), Msg(h, b), Msg(h, c)>>)
    OBVIOUS
  <2>1. \A j \in 1 .. 3 : <<Msg(h, a), Msg(h, b), Msg(h, c)>>[j].hwnd = h
    BY <1>1
  <2> QED
    BY <2>1, Tuples DEF Listed
<1>6. s # <<>>
  BY Tuples DEF ToWindow
<1>7. Head(s).hwnd = h
  BY <1>1, Tuples DEF ToWindow
<1>8. Listed(s)
  BY <1>3, <1>4, <1>5 DEF ToWindow
<1>9. Listed(Tail(s))
  <2>1. ASSUME NEW a, s = <<Msg(h, a)>> PROVE Listed(Tail(s))
    BY <1>2, <2>1, Tuples
  <2>2. ASSUME NEW a, NEW b, s = <<Msg(h, a), Msg(h, b)>> PROVE Listed(Tail(s))
    <3>1. Tail(s) = <<Msg(h, b)>>
      BY <2>2, Tuples
    <3> QED
      BY <1>3, <3>1
  <2>3. ASSUME NEW a, NEW b, NEW c, s = <<Msg(h, a), Msg(h, b), Msg(h, c)>> PROVE Listed(Tail(s))
    <3>1. Tail(s) = <<Msg(h, b), Msg(h, c)>>
      BY <2>3, Tuples
    <3> QED
      BY <1>4, <3>1
  <2> QED
    BY <2>1, <2>2, <2>3 DEF ToWindow
<1> QED
  BY <1>6, <1>7, <1>8, <1>9

\* What creates and activates a window, and paints it.
Creating(h, s) ==
  \/ s = <<Msg(h, "HOOK")>>
  \/ s = <<Msg(h, "NCCREATE"), Msg(h, "CREATE")>>
  \/ s = <<Msg(h, "HOOK"), Msg(h, "NCCREATE"), Msg(h, "CREATE")>>
  \/ s = <<Msg(h, "INITDIALOG")>>
  \/ s = <<Msg(h, "HOOK"), Msg(h, "INITDIALOG")>>

Activating(h, s) ==
  \/ s = <<Msg(h, "ACTIVATE")>>
  \/ s = <<Msg(h, "ACTIVATE"), Msg(h, "SETFOCUS")>>
  \/ s = <<Msg(h, "ACTIVATEAPP"), Msg(h, "ACTIVATE"), Msg(h, "SETFOCUS")>>

LEMMA CreatingPromised ==
  ASSUME NEW h \in Handles, NEW s, Creating(h, s)
  PROVE  ToWindow(h, s) /\ [value |-> h, sends |-> s] \in Promised!Promises
<1>1. ToWindow(h, s)
  BY DEF Creating, ToWindow
<1>2. \E ms \in Promised!Creations : s = Promised!SentAll(h, ms)
  BY SentTuples DEF Creating, Promised!Creations
<1>3. s \in {Promised!SentAll(k, ms) : k \in Handles, ms \in Promised!Creations}
  BY <1>2
<1> QED
  BY <1>1, <1>3 DEF Promised!Promises

LEMMA ActivatingPromised ==
  ASSUME NEW h \in Handles, NEW s, Activating(h, s) \/ s = <<Msg(h, "PAINT")>>, NEW value \in {0, 1}
  PROVE  ToWindow(h, s) /\ [value |-> value, sends |-> s] \in Promised!Promises
<1>1. ToWindow(h, s)
  BY DEF Activating, ToWindow
<1>2. \E ms \in Promised!Activations \cup {<<"PAINT">>} : s = Promised!SentAll(h, ms)
  BY SentTuples DEF Activating, Promised!Activations
<1>3. s \in {Promised!SentAll(k, ms) : k \in Handles, ms \in Promised!Activations \cup {<<"PAINT">>}}
  BY <1>2
<1> QED
  BY <1>1, <1>3 DEF Promised!Promises

LEMMA HeadTail ==
  ASSUME NEW s, IsSeq(s), s # <<>>
  PROVE  /\ Len(s) \in Nat \ {0} /\ Head(s) = s[1]
         /\ IsSeq(Tail(s)) /\ Len(Tail(s)) = Len(s) - 1
         /\ \A i \in 1 .. Len(s) - 1 : Tail(s)[i] = s[i + 1]
<1>1. PICK S : s \in Seq(S)
  BY DEF IsSeq
<1>2. Tail(s) \in Seq(S) /\ Len(s) \in Nat \ {0} /\ Head(s) = s[1] /\ Len(Tail(s)) = Len(s) - 1
  BY <1>1
<1>3. \A i \in 1 .. Len(s) - 1 : Tail(s)[i] = s[i + 1]
  BY <1>1
<1> QED
  BY <1>2, <1>3 DEF IsSeq

LEMMA TailListed ==
  ASSUME NEW s, Listed(s), s # <<>>
  PROVE  /\ Listed(Tail(s)) /\ Head(s).hwnd \in Handles
         /\ Draws(s) => Draws(Tail(s)) /\ Head(s).msg = "DRAWITEM"
<1>1. /\ Len(s) \in Nat /\ Head(s) = s[1] /\ IsSeq(Tail(s)) /\ Len(Tail(s)) = Len(s) - 1
      /\ \A i \in 1 .. Len(s) - 1 : Tail(s)[i] = s[i + 1]
  BY HeadTail DEF Listed
<1>2. 1 \in 1 .. Len(s) /\ \A i \in 1 .. Len(s) - 1 : i + 1 \in 1 .. Len(s)
  BY HeadTail DEF Listed
<1>3. Listed(Tail(s)) /\ Head(s).hwnd \in Handles
  BY <1>1, <1>2 DEF Listed
<1>4. ASSUME Draws(s) PROVE Draws(Tail(s)) /\ Head(s).msg = "DRAWITEM"
  BY <1>1, <1>2, <1>4 DEF Draws
<1> QED
  BY <1>3, <1>4

-----------------------------------------------------------------------------
(***************************************************************************)
(* The children that EndPaint draws are sorted, each once.                 *)
(***************************************************************************)
Sorts(s, S, n) == s \in [1 .. n -> S] /\ \A i, j \in 1 .. n : i < j => s[i] < s[j]

LEMMA SortsExist ==
  ASSUME NEW S \in SUBSET Nat, IsFiniteSet(S)
  PROVE  \E s : Sorts(s, S, Cardinality(S))
<1>0. PICK Sortable : Sortable = {n \in Nat : \A T \in SUBSET Nat :
                        IsFiniteSet(T) /\ Cardinality(T) = n => \E s : Sorts(s, T, n)}
  OBVIOUS
<1>1. 0 \in Sortable
  <2> SUFFICES ASSUME NEW T \in SUBSET Nat PROVE \E s : Sorts(s, T, 0)
    BY <1>0
  <2>1. ~\E i : i \in 1 .. 0
    OBVIOUS
  <2>2. Sorts([i \in 1 .. 0 |-> i], T, 0)
    BY <2>1 DEF Sorts
  <2> QED
    BY <2>2
<1>2. ASSUME NEW n \in Sortable PROVE n + 1 \in Sortable
  <2>0. n \in Nat
    BY <1>0
  <2> SUFFICES ASSUME NEW T \in SUBSET Nat, IsFiniteSet(T), Cardinality(T) = n + 1
               PROVE  \E s : Sorts(s, T, n + 1)
    BY <1>0, <2>0
  <2>1. T # {}
    BY <2>0, FS_EmptySet
  <2>2. PICK m \in T : \A y \in T : m <= y
    BY <2>1, LeastNatural
  <2>3. IsFiniteSet(T \ {m}) /\ Cardinality(T \ {m}) = n
    <3>1. Cardinality(T) - 1 = n
      BY <2>0
    <3> QED
      BY <2>2, <3>1, FS_RemoveElement
  <2>4. PICK r : Sorts(r, T \ {m}, n)
    BY <1>0, <2>3
  <2>5. PICK s : s = [i \in 1 .. n + 1 |-> IF i = 1 THEN m ELSE r[i - 1]]
    OBVIOUS
  <2>6. s[1] = m
    <3>1. 1 \in 1 .. n + 1
      BY <2>0
    <3> QED
      BY <2>5, <3>1
  <2>7. ASSUME NEW i \in 2 .. n + 1 PROVE s[i] = r[i - 1] /\ i - 1 \in 1 .. n /\ s[i] \in T /\ m < s[i]
    <3>1. i \in 1 .. n + 1 /\ i # 1 /\ i - 1 \in 1 .. n
      BY <2>0
    <3>2. s[i] = r[i - 1]
      BY <2>5, <3>1
    <3>3. r[i - 1] \in T /\ r[i - 1] # m
      BY <2>4, <3>1 DEF Sorts
    <3>4. m <= r[i - 1] /\ m \in Nat /\ r[i - 1] \in Nat
      BY <2>2, <3>3
    <3> QED
      BY <3>1, <3>2, <3>3, <3>4
  <2>8. \A i \in 1 .. n + 1 : i = 1 \/ i \in 2 .. n + 1
    BY <2>0
  <2>9. s \in [1 .. n + 1 -> T]
    BY <2>5, <2>6, <2>7, <2>8
  <2>10. ASSUME NEW i \in 1 .. n + 1, NEW j \in 1 .. n + 1, i < j PROVE s[i] < s[j]
    <3>1. j \in 2 .. n + 1
      BY <2>0, <2>10
    <3>2. CASE i = 1
      BY <2>6, <2>7, <3>1, <3>2
    <3>3. CASE i # 1
      <4>1. i \in 2 .. n + 1
        BY <2>8, <3>3
      <4>2. s[i] = r[i - 1] /\ s[j] = r[j - 1] /\ i - 1 \in 1 .. n /\ j - 1 \in 1 .. n /\ i - 1 < j - 1
        BY <2>7, <2>10, <3>1, <4>1
      <4> QED
        BY <2>4, <4>2 DEF Sorts
    <3> QED
      BY <3>2, <3>3
  <2>11. Sorts(s, T, n + 1)
    BY <2>9, <2>10 DEF Sorts
  <2> QED
    BY <2>11
<1>3. Sortable \in SUBSET Nat
  BY <1>0
<1>4. Sortable = Nat
  BY <1>1, <1>2, <1>3, Induction
<1>5. Cardinality(S) \in Sortable
  BY <1>4, FS_CardinalityType
<1> QED
  BY <1>0, <1>5

\* The children are handles, no two the same.
Distinct(due, n) ==
  /\ n \in Nat /\ n <= Cardinality(Handles)
  /\ due \in [1 .. n -> Handles]
  /\ \A i, j \in 1 .. n : due[i] = due[j] => i = j

LEMMA HandlesCounted ==
  ASSUME NEW S \in SUBSET Handles
  PROVE  /\ IsFiniteSet(S) /\ Cardinality(S) \in Nat /\ Cardinality(S) <= Cardinality(Handles)
         /\ S \in SUBSET Nat /\ Cardinality(Handles) \in Nat
BY HandlesFinite, HandlesAreNumbers, FS_Subset, FS_CardinalityType

LEMMA ToDrawDistinct ==
  ASSUME NEW h
  PROVE  \E n : Distinct(ToDraw(h), n)
<1>0. PICK S : S = {k \in Below(h) : win[k].visible /\ win[k].dirty /\ win[k].draw}
  OBVIOUS
<1>1. PICK n : n = Cardinality(S)
  OBVIOUS
<1>2. S \in SUBSET Handles
  BY <1>0 DEF Below
<1>3. S \in SUBSET Nat /\ IsFiniteSet(S) /\ n \in Nat /\ n <= Cardinality(Handles)
  BY <1>1, <1>2, HandlesCounted
<1>4. PICK r : Sorts(r, S, n)
  BY <1>1, <1>3, SortsExist
<1>5. PICK d : d = ToDraw(h)
  OBVIOUS
<1>6. d = CHOOSE s \in [1 .. n -> S] : \A i, j \in DOMAIN s : i < j => s[i] < s[j]
  BY <1>0, <1>1, <1>5 DEF ToDraw
<1>7. r \in [1 .. n -> S] /\ \A i, j \in DOMAIN r : i < j => r[i] < r[j]
  BY <1>4 DEF Sorts
<1>8. d \in [1 .. n -> S] /\ \A i, j \in DOMAIN d : i < j => d[i] < d[j]
  BY <1>6, <1>7
<1>9. ASSUME NEW i \in 1 .. n, NEW j \in 1 .. n, d[i] = d[j] PROVE i = j
  <2>1. i \in DOMAIN d /\ j \in DOMAIN d /\ d[i] \in Nat /\ d[j] \in Nat
    BY <1>3, <1>8
  <2>2. ~(i < j) /\ ~(j < i)
    BY <1>8, <1>9, <2>1
  <2> QED
    BY <1>3, <2>2
<1>10. d \in [1 .. n -> Handles]
  BY <1>2, <1>8
<1>11. Distinct(d, n)
  BY <1>3, <1>9, <1>10 DEF Distinct
<1> QED
  BY <1>5, <1>11

\* The messages that draw them.
Drawing(due) == [i \in DOMAIN due |-> Msg(due[i], "DRAWITEM")]

LEMMA DrawingSeq ==
  ASSUME NEW due, IsSeq(due)
  PROVE  /\ IsSeq(Drawing(due)) /\ Len(Drawing(due)) = Len(due)
         /\ \A i \in 1 .. Len(due) : Drawing(due)[i] = Msg(due[i], "DRAWITEM")
<1>1. Len(due) \in Nat /\ DOMAIN due = 1 .. Len(due)
  BY SeqLength
<1>2. PICK t : t = Drawing(due)
  OBVIOUS
<1>3. t = [i \in 1 .. Len(due) |-> Msg(due[i], "DRAWITEM")]
  BY <1>1, <1>2 DEF Drawing
<1>4. t = [i \in 1 .. Len(due) |-> t[i]]
  BY <1>3
<1>5. IsSeq(t) /\ Len(t) = Len(due)
  BY <1>1, <1>4, FunctionSeq
<1>6. \A i \in 1 .. Len(due) : t[i] = Msg(due[i], "DRAWITEM")
  BY <1>3
<1> QED
  BY <1>2, <1>5, <1>6

LEMMA DistinctSeq ==
  ASSUME NEW due, NEW n, Distinct(due, n)
  PROVE  IsSeq(due) /\ Len(due) = n /\ \A i \in 1 .. n : due[i] \in Handles
<1>1. due = [i \in 1 .. n |-> due[i]] /\ n \in Nat /\ \A i \in 1 .. n : due[i] \in Handles
  BY DEF Distinct
<1> QED
  BY <1>1, FunctionSeq

LEMMA DrawingSends ==
  ASSUME NEW due, NEW n, Distinct(due, n), due # <<>>
  PROVE  /\ Head(due) \in Handles
         /\ Head(Drawing(due)) = Msg(Head(due), "DRAWITEM")
         /\ Tail(Drawing(due)) = Drawing(Tail(due))
         /\ Listed(Drawing(Tail(due))) /\ Draws(Drawing(Tail(due)))
<1>1. IsSeq(due) /\ Len(due) = n /\ \A i \in 1 .. n : due[i] \in Handles
  BY DistinctSeq
<1>2. /\ n \in Nat \ {0} /\ Head(due) = due[1] /\ IsSeq(Tail(due)) /\ Len(Tail(due)) = n - 1
      /\ \A i \in 1 .. n - 1 : Tail(due)[i] = due[i + 1]
  BY <1>1, HeadTail
<1>3. PICK s : s = Drawing(due)
  OBVIOUS
<1>4. IsSeq(s) /\ Len(s) = n /\ \A i \in 1 .. n : s[i] = Msg(due[i], "DRAWITEM")
  BY <1>1, <1>3, DrawingSeq
<1>5. s # <<>>
  BY <1>2, <1>4, Tuples
<1>6. /\ Head(s) = s[1] /\ IsSeq(Tail(s)) /\ Len(Tail(s)) = n - 1
      /\ \A i \in 1 .. n - 1 : Tail(s)[i] = s[i + 1]
  BY <1>4, <1>5, HeadTail
<1>7. 1 \in 1 .. n /\ \A i \in 1 .. n - 1 : i + 1 \in 1 .. n
  BY <1>2
<1>8. PICK t : t = Drawing(Tail(due))
  OBVIOUS
<1>9. IsSeq(t) /\ Len(t) = n - 1 /\ \A i \in 1 .. n - 1 : t[i] = Msg(Tail(due)[i], "DRAWITEM")
  BY <1>2, <1>8, DrawingSeq
<1>10. \A i \in 1 .. n - 1 : Tail(s)[i] = t[i]
  BY <1>2, <1>4, <1>6, <1>7, <1>9
<1>11. Tail(s) = t
  BY <1>6, <1>9, <1>10, SameSeq
<1>12. Listed(t) /\ Draws(t)
  <2>1. ASSUME NEW i \in 1 .. n - 1 PROVE t[i].hwnd \in Handles /\ t[i].msg = "DRAWITEM"
    <3>1. Tail(due)[i] \in Handles
      BY <1>1, <1>2, <1>7
    <3>2. t[i] = Msg(Tail(due)[i], "DRAWITEM")
      BY <1>9
    <3>3. \A x, m : Msg(x, m).hwnd = x /\ Msg(x, m).msg = m
      BY DEF Msg
    <3>4. Msg(Tail(due)[i], "DRAWITEM").hwnd = Tail(due)[i] /\ Msg(Tail(due)[i], "DRAWITEM").msg = "DRAWITEM"
      BY <3>3
    <3> QED
      BY <3>1, <3>2, <3>4
  <2> QED
    BY <1>9, <2>1 DEF Listed, Draws
<1> QED
  BY <1>1, <1>2, <1>3, <1>4, <1>6, <1>7, <1>8, <1>11, <1>12

LEMMA DrawingPromised ==
  ASSUME NEW due, NEW n, Distinct(due, n), due # <<>>, NEW value \in {0, 1}
  PROVE  [value |-> value, sends |-> Drawing(due)] \in Promised!Promises
<1>1. IsSeq(due) /\ Len(due) = n
  BY DistinctSeq
<1>2. n \in 1 .. Cardinality(Handles)
  <2>1. n \in Nat \ {0}
    BY <1>1, HeadTail
  <2>2. Handles \in SUBSET Handles
    OBVIOUS
  <2>3. Cardinality(Handles) \in Nat
    BY <2>2, HandlesCounted
  <2> QED
    BY <2>1, <2>3 DEF Distinct
<1>3. due \in [1 .. n -> Handles] /\ \A i, j \in DOMAIN due : due[i] = due[j] => i = j
  BY DEF Distinct
<1>4. due \in UNION {[1 .. k -> Handles] : k \in 1 .. Cardinality(Handles)}
  BY <1>2, <1>3
<1>5. due \in Promised!Children
  <2>1. Promised!Cardinality(Handles) = Cardinality(Handles)
    BY DEF Promised!Cardinality, Cardinality
  <2>2. due \in UNION {[1 .. k -> Handles] : k \in 1 .. Promised!Cardinality(Handles)}
    BY <1>4, <2>1
  <2>3. Promised!IsInjective(due)
    BY <1>3 DEF Promised!IsInjective
  <2> QED
    BY <2>2, <2>3 DEF Promised!Children
<1>6. Drawing(due) = [i \in DOMAIN due |-> Promised!Sent(due[i], "DRAWITEM")]
  BY DEF Drawing, Promised!Sent, Msg
<1> QED
  BY <1>5, <1>6 DEF Promised!Promises

-----------------------------------------------------------------------------
(***************************************************************************)
(* The window of a top-level window is itself, so the application is not   *)
(* told of its activation when the window has the focus.                   *)
(***************************************************************************)
Climb(g, h, n) ==
  IF n = 0 THEN h
  ELSE IF g[n - 1] \in Handles /\ win[g[n - 1]].parent # 0 THEN win[g[n - 1]].parent ELSE g[n - 1]
Climbs(g, h) == g = [n \in 0 .. Cardinality(Handles) |-> Climb(g, h, n)]

LEMMA TopClimbs ==
  ASSUME NEW h, NEW u, u = CHOOSE g : Climbs(g, h), NEW top, top = u[Cardinality(Handles)]
  PROVE  TopOf(h) = IF top \in Handles /\ Made(top) THEN top ELSE 0
BY DEF TopOf, Climbs, Climb

LEMMA TopLevel ==
  ASSUME NEW h \in Handles, Made(h), win[h].parent = 0
  PROVE  TopOf(h) = h
<1>0. PICK N : N = Cardinality(Handles)
  OBVIOUS
<1>1. N \in Nat
  <2>1. Handles \in SUBSET Handles
    OBVIOUS
  <2> QED
    BY <1>0, <2>1, HandlesCounted
<1>2. \E g : Climbs(g, h)
  <2>1. PICK g : g = [n \in 0 .. N |-> h]
    OBVIOUS
  <2>2. ASSUME NEW n \in 0 .. N PROVE Climb(g, h, n) = h
    <3>1. n # 0 => n - 1 \in 0 .. N
      BY <1>1
    <3>2. n # 0 => g[n - 1] = h
      BY <2>1, <3>1
    <3> QED
      BY <3>2 DEF Climb
  <2>3. g = [n \in 0 .. N |-> Climb(g, h, n)]
    BY <2>1, <2>2
  <2> QED
    BY <1>0, <2>3 DEF Climbs
<1>3. PICK u : u = CHOOSE g : Climbs(g, h)
  OBVIOUS
<1>4. Climbs(u, h)
  BY <1>2, <1>3
<1>5. \A n \in 0 .. N : u[n] = Climb(u, h, n)
  BY <1>0, <1>4 DEF Climbs
<1>6. PICK S : S = {n \in Nat : n <= N => u[n] = h}
  OBVIOUS
<1>7. 0 \in S
  <2>1. 0 \in 0 .. N
    BY <1>1
  <2>2. u[0] = h
    BY <1>5, <2>1 DEF Climb
  <2> QED
    BY <1>6, <2>2
<1>8. ASSUME NEW n \in S PROVE n + 1 \in S
  <2> SUFFICES ASSUME n + 1 <= N PROVE u[n + 1] = h
    BY <1>6, <1>8
  <2>1. n \in Nat /\ u[n] = h /\ n + 1 \in 0 .. N /\ n + 1 # 0 /\ (n + 1) - 1 = n
    BY <1>1, <1>6
  <2>2. u[n + 1] = Climb(u, h, n + 1)
    BY <1>5, <2>1
  <2>3. Climb(u, h, n + 1) = u[n]
    BY <2>1 DEF Climb
  <2> QED
    BY <2>1, <2>2, <2>3
<1>9. S \in SUBSET Nat
  BY <1>6
<1>10. S = Nat
  BY <1>7, <1>8, <1>9, Induction
<1>11. u[N] = h
  BY <1>1, <1>6, <1>10
<1> QED
  BY <1>0, <1>3, <1>11, TopClimbs

LEMMA ConcatTuples ==
  /\ \A a : <<>> \o <<a>> \o <<>> = <<a>>
  /\ \A a, b : <<>> \o <<a>> \o <<b>> = <<a, b>>
  /\ \A a, b, c : <<a>> \o <<b>> \o <<c>> = <<a, b, c>>
<1>1. ASSUME NEW a PROVE <<>> \o <<a>> = <<a>> /\ <<a>> \o <<>> = <<a>>
  <2>1. <<>> \o <<a>> = <<a>>
    OBVIOUS
  <2>2. <<a>> \o <<>> = <<a>>
    OBVIOUS
  <2> QED
    BY <2>1, <2>2
<1>2. ASSUME NEW a, NEW b PROVE <<a>> \o <<b>> = <<a, b>>
  <2>1. PICK s, t, u, S : s = <<a>> /\ t = <<b>> /\ u = s \o t /\ S = {a, b}
    OBVIOUS
  <2>2. s \in Seq(S) /\ t \in Seq(S) /\ Len(s) = 1 /\ Len(t) = 1 /\ s[1] = a /\ t[1] = b
    BY <2>1
  <2>3. u \in Seq(S) /\ Len(u) = 2 /\ u[1] = s[1] /\ u[2] = t[1]
    BY <2>1, <2>2
  <2>4. IsSeq(u) /\ IsSeq(<<a, b>>) /\ Len(<<a, b>>) = 2 /\ <<a, b>>[1] = a /\ <<a, b>>[2] = b
    BY <2>3, Tuples DEF IsSeq
  <2>5. \A k \in 1 .. 2 : k = 1 \/ k = 2
    OBVIOUS
  <2>6. u = <<a, b>>
    BY <2>2, <2>3, <2>4, <2>5, SameSeq
  <2> QED
    BY <2>1, <2>6
<1>3. ASSUME NEW a, NEW b, NEW c PROVE <<a, b>> \o <<c>> = <<a, b, c>>
  <2>1. PICK s, t, u, S : s = <<a, b>> /\ t = <<c>> /\ u = s \o t /\ S = {a, b, c}
    OBVIOUS
  <2>2. s \in Seq(S) /\ t \in Seq(S) /\ Len(s) = 2 /\ Len(t) = 1 /\ s[1] = a /\ s[2] = b /\ t[1] = c
    BY <2>1
  <2>3. u \in Seq(S) /\ Len(u) = 3 /\ u[1] = s[1] /\ u[2] = s[2] /\ u[3] = t[1]
    BY <2>1, <2>2
  <2>4. /\ IsSeq(u) /\ IsSeq(<<a, b, c>>) /\ Len(<<a, b, c>>) = 3
        /\ <<a, b, c>>[1] = a /\ <<a, b, c>>[2] = b /\ <<a, b, c>>[3] = c
    BY <2>3, Tuples DEF IsSeq
  <2>5. \A k \in 1 .. 3 : k = 1 \/ k = 2 \/ k = 3
    OBVIOUS
  <2>6. u = <<a, b, c>>
    BY <2>2, <2>3, <2>4, <2>5, SameSeq
  <2> QED
    BY <2>1, <2>6
<1>4. ASSUME NEW a, NEW b PROVE <<>> \o <<a>> \o <<b>> = <<a, b>>
  <2>1. <<>> \o <<a>> = <<a>>
    BY <1>1
  <2>2. <<a>> \o <<b>> = <<a, b>>
    BY <1>2
  <2> QED
    BY <2>1, <2>2, Zenon
<1>5. ASSUME NEW a, NEW b, NEW c PROVE <<a>> \o <<b>> \o <<c>> = <<a, b, c>>
  <2>1. <<a>> \o <<b>> = <<a, b>>
    BY <1>2
  <2>2. <<a, b>> \o <<c>> = <<a, b, c>>
    BY <1>3
  <2> QED
    BY <2>1, <2>2, Zenon
<1>6. ASSUME NEW a PROVE <<>> \o <<a>> \o <<>> = <<a>>
  BY <1>1, Zenon
<1> QED
  BY <1>4, <1>5, <1>6, Zenon

LEMMA ActivationSends ==
  ASSUME NEW h \in Handles, Made(h), win[h].parent = 0
  PROVE  Activating(h, Activation(h))
<1>1. TopOf(h) = h /\ h # 0
  BY TopLevel, HandlesAreNumbers
<1>2. CASE focus = h
  <2>1. TopOf(focus) # 0 /\ ~(focus # h)
    BY <1>1, <1>2
  <2>2. Activation(h) = <<>> \o <<Msg(h, "ACTIVATE")>> \o <<>>
    BY <2>1 DEF Activation
  <2>3. Activation(h) = <<Msg(h, "ACTIVATE")>>
    BY <2>2, ConcatTuples
  <2> QED
    BY <2>3 DEF Activating
<1>3. CASE focus # h /\ TopOf(focus) # 0
  <2>2. Activation(h) = <<>> \o <<Msg(h, "ACTIVATE")>> \o <<Msg(h, "SETFOCUS")>>
    BY <1>3 DEF Activation
  <2>3. Activation(h) = <<Msg(h, "ACTIVATE"), Msg(h, "SETFOCUS")>>
    BY <2>2, ConcatTuples
  <2> QED
    BY <2>3 DEF Activating
<1>4. CASE focus # h /\ TopOf(focus) = 0
  <2>2. Activation(h) = <<Msg(h, "ACTIVATEAPP")>> \o <<Msg(h, "ACTIVATE")>> \o <<Msg(h, "SETFOCUS")>>
    BY <1>4 DEF Activation
  <2>3. Activation(h) = <<Msg(h, "ACTIVATEAPP"), Msg(h, "ACTIVATE"), Msg(h, "SETFOCUS")>>
    BY <2>2, ConcatTuples
  <2> QED
    BY <2>3 DEF Activating
<1> QED
  BY <1>2, <1>3, <1>4

\* The frames of a call that has more to send, or nothing left to send.
LEMMA MoreHolds ==
  ASSUME NEW value, NEW kind, NEW proc, NEW todo
  PROVE  More(value, kind, proc, todo).value = value /\ More(value, kind, proc, todo).todo = todo
<1>1. \A k, p, t : Frame(value, k, p, t).value = value /\ Frame(value, k, p, t).todo = t
  BY DEF Frame
<1> QED
  BY <1>1 DEF More, Plain

LEMMA MoreFrame ==
  ASSUME NEW value \in Results, NEW kind \in {"window", "dialog"}, NEW proc, NEW todo, Listed(todo), NEW m
  PROVE  FrameOk(More(value, kind, proc, todo), m)
<1>1. \A k, p, t : Frame(value, k, p, t).value = value /\ Frame(value, k, p, t).kind = k
                     /\ Frame(value, k, p, t).todo = t
  BY DEF Frame
<1>2. CASE todo = <<>>
  <2>1. More(value, kind, proc, todo) = Frame(value, "plain", "none", <<>>)
    BY <1>2 DEF More, Plain
  <2> QED
    BY <1>1, <1>2, <2>1 DEF FrameOk
<1>3. CASE todo # <<>>
  <2>1. More(value, kind, proc, todo) = Frame(value, kind, proc, todo)
    BY <1>3 DEF More
  <2> QED
    BY <1>1, <1>3, <2>1 DEF FrameOk
<1> QED
  BY <1>2, <1>3

-----------------------------------------------------------------------------
(***************************************************************************)
(* One case for every action: the invariant stays, and the step is one of  *)
(* SentMessages.                                                           *)
(***************************************************************************)
Refines == KeptNext /\ Mapped

LEMMA BodyTags ==
  ASSUME RInv, Running
  PROVE  IsSeq(acts) /\ InBody(eip, stack, acts) /\ Tagged(eip, stack, acts)
<1>1. Sound(eip, stack, acts, frames)
  BY DEF RInv, AInv, IInv
<1>2. Tagged(eip, stack, acts)
  BY RefinementFacts
<1> QED
  BY <1>1, <1>2, BodyRuns

LEMMA SameRefines ==
  ASSUME RInv, UNCHANGED <<stack, eip, acts, frames>>, eax' \in Results
  PROVE  Refines
BY QuietStep, OtherMapped DEF Refines

LEMMA ReturnedRefines ==
  ASSUME RInv, NEW value \in Results, Returned(value)
  PROVE  Refines
BY SameRefines DEF Returned

LEMMA EnterRefines ==
  ASSUME RInv, NEW m, m.hwnd \in Handles, Entering(acts, m, TRUE), Tagged(eip', stack', acts'),
         NEW f, FrameOk(f, m), frames' = Append(frames, f), eax' = eax,
         NEW s, [value |-> f.value, sends |-> s] \in Promised!Promises, m = Head(s), f.todo = Tail(s)
  PROVE  Refines
<1>1. /\ KeptNext
      /\ CallsOf(acts', frames')
           = Append(CallsOf(acts, frames), [value |-> f.value, now |-> m, todo |-> f.todo])
  BY SendStep
<1>2. eax' \in Results
  BY RefinementFacts
<1>3. PICK v, t : v = f.value /\ t = f.todo
  OBVIOUS
<1>4. Mapped
  BY <1>1, <1>2, <1>3, SendMapped
<1> QED
  BY <1>1, <1>4 DEF Refines

\* A call from a body sends the first of the messages s.
LEMMA SendRefines ==
  ASSUME RInv, Running, NEW n \in Nat \ {0}, NEW proc, NEW m, m.hwnd \in Handles, SendFrom(n, proc, m),
         NEW f, FrameOk(f, m), frames' = Append(frames, f), eax' = eax,
         NEW s, [value |-> f.value, sends |-> s] \in Promised!Promises, m = Head(s), f.todo = Tail(s)
  PROVE  Refines
<1>1. Entering(acts, m, TRUE) /\ Tagged(eip', stack', acts')
  BY BodyTags, SendTags
<1> QED
  BY <1>1, EnterRefines

\* The messages that create a window; with a hook, the hook comes first.
LEMMA CreatesRefine ==
  ASSUME RInv, Running, NEW n \in Nat \ {0}, hooked => n = 12, NEW h \in Handles,
         NEW kind \in {"window", "dialog"}, NEW proc, NEW creates,
         \/ creates = <<>>
         \/ creates = <<Msg(h, "NCCREATE"), Msg(h, "CREATE")>>
         \/ creates = <<Msg(h, "INITDIALOG")>>,
         SendCreates(n, h, kind, proc, creates)
  PROVE  Refines
<1>0. h \in Results
  BY DEF Results
<1>1. Listed(creates)
  <2>1. CASE creates = <<>>
    BY <2>1, Tuples DEF Listed
  <2>2. CASE creates # <<>>
    <3>1. ToWindow(h, creates)
      BY <2>2 DEF ToWindow
    <3> QED
      BY <3>1, ToWindowListed
  <2> QED
    BY <2>1, <2>2
<1>2. CASE hooked
  <2>0. PICK f, m : f = More(h, kind, proc, creates) /\ m = Msg(h, "HOOK")
    OBVIOUS
  <2>1. SendHook(12, h) /\ frames' = Append(frames, f) /\ eax' = eax
    BY <1>2, <2>0 DEF SendCreates
  <2>2. Entering(acts, m, TRUE) /\ Tagged(eip', stack', acts')
    BY <2>0, <2>1, BodyTags, HookTags
  <2>3. FrameOk(f, m) /\ f.value = h /\ f.todo = creates
    <3>1. FrameOk(f, m)
      BY <1>0, <1>1, <2>0, MoreFrame
    <3>2. f.value = h /\ f.todo = creates
      BY <2>0, MoreHolds
    <3> QED
      BY <3>1, <3>2
  <2>4. PICK s : Creating(h, s) /\ m = Head(s) /\ creates = Tail(s)
    <3>1. CASE creates = <<>>
      BY <2>0, <3>1, Tuples DEF Creating
    <3>2. CASE creates = <<Msg(h, "NCCREATE"), Msg(h, "CREATE")>>
      <4>1. PICK a, b, s : a = Msg(h, "NCCREATE") /\ b = Msg(h, "CREATE") /\ s = <<m, a, b>>
        OBVIOUS
      <4>2. Head(s) = m /\ Tail(s) = creates
        BY <3>2, <4>1, Tuples
      <4>3. Creating(h, s)
        BY <2>0, <4>1 DEF Creating
      <4> QED
        BY <4>2, <4>3
    <3>3. CASE creates = <<Msg(h, "INITDIALOG")>>
      <4>1. PICK a, s : a = Msg(h, "INITDIALOG") /\ s = <<m, a>>
        OBVIOUS
      <4>2. Head(s) = m /\ Tail(s) = creates
        BY <3>3, <4>1, Tuples
      <4>3. Creating(h, s)
        BY <2>0, <4>1 DEF Creating
      <4> QED
        BY <4>2, <4>3
    <3> QED
      BY <3>1, <3>2, <3>3
  <2>5. [value |-> f.value, sends |-> s] \in Promised!Promises
    BY <2>3, <2>4, CreatingPromised
  <2>6. m.hwnd \in Handles
    BY <2>0 DEF Msg
  <2> QED
    BY <2>1, <2>2, <2>3, <2>4, <2>5, <2>6, EnterRefines
<1>3. CASE ~hooked /\ creates # <<>>
  <2>0. PICK f, m : f = More(h, kind, proc, Tail(creates)) /\ m = Head(creates)
    OBVIOUS
  <2>1. SendFrom(n, proc, m) /\ frames' = Append(frames, f) /\ eax' = eax
    BY <1>3, <2>0 DEF SendCreates
  <2>2. Creating(h, creates)
    BY <1>3 DEF Creating
  <2>3. ToWindow(h, creates) /\ [value |-> h, sends |-> creates] \in Promised!Promises
    BY <2>2, CreatingPromised
  <2>4. m.hwnd \in Handles /\ Listed(Tail(creates))
    BY <2>0, <2>3, ToWindowListed
  <2>5. FrameOk(f, m) /\ f.value = h /\ f.todo = Tail(creates)
    <3>1. PICK t : t = Tail(creates)
      OBVIOUS
    <3>2. Listed(t) /\ f = More(h, kind, proc, t)
      BY <2>0, <2>4, <3>1
    <3>3. FrameOk(f, m)
      BY <1>0, <3>2, MoreFrame
    <3>4. f.value = h /\ f.todo = t
      BY <3>2, MoreHolds
    <3> QED
      BY <3>1, <3>3, <3>4
  <2>6. [value |-> f.value, sends |-> creates] \in Promised!Promises
    BY <2>3, <2>5
  <2> QED
    BY <2>0, <2>1, <2>4, <2>5, <2>6, SendRefines
<1>4. CASE ~hooked /\ ~(creates # <<>>)
  <2>1. UNCHANGED <<stack, eip, acts, frames>> /\ eax' = h
    BY <1>4 DEF SendCreates
  <2> QED
    BY <1>0, <2>1, SameRefines
<1> QED
  BY <1>2, <1>3, <1>4

LEMMA LeastFree ==
  ASSUME FreeHandles # {}
  PROVE  Min(FreeHandles) \in Handles
<1>1. FreeHandles \in SUBSET Nat /\ FreeHandles \in SUBSET Handles
  BY HandlesAreNumbers DEF FreeHandles
<1> QED
  BY <1>1, MinIsLeast

LEMMA CreateWindowRefines ==
  ASSUME RInv, NEW parent, NEW proc, NEW draw, CreateWindow(parent, proc, draw)
  PROVE  Refines
<1>0. PICK h, creates : /\ h = Min(FreeHandles)
                        /\ creates = IF proc = "none" THEN <<>> ELSE <<Msg(h, "NCCREATE"), Msg(h, "CREATE")>>
  OBVIOUS
<1>1. Running /\ FreeHandles # {} /\ SendCreates(12, h, "window", proc, creates)
  BY <1>0 DEF CreateWindow
<1>2. h \in Handles
  BY <1>0, <1>1, LeastFree
<1>3. 12 \in Nat \ {0} /\ "window" \in {"window", "dialog"}
  OBVIOUS
<1>4. creates = <<>> \/ creates = <<Msg(h, "NCCREATE"), Msg(h, "CREATE")>>
  BY <1>0
<1> QED
  BY <1>1, <1>2, <1>3, <1>4, CreatesRefine

LEMMA CreateDialogRefines ==
  ASSUME RInv, NEW parent, NEW proc, CreateDialog(parent, proc)
  PROVE  Refines
<1>0. PICK h, creates : /\ h = Min(FreeHandles)
                        /\ creates = IF proc = "none" THEN <<>> ELSE <<Msg(h, "INITDIALOG")>>
  OBVIOUS
<1>1. /\ Running /\ "dialog" \in guest.calls /\ Cardinality(FreeHandles) > 1
      /\ SendCreates(5, h, "dialog", proc, creates)
  BY <1>0 DEF CreateDialog
<1>2. FreeHandles # {}
  BY <1>1, FS_EmptySet
<1>3. h \in Handles
  BY <1>0, <1>2, LeastFree
<1>4. 5 \in Nat \ {0} /\ "dialog" \in {"window", "dialog"} /\ ~hooked
  BY <1>1 DEF RInv, AInv, IInv, HookInv
<1>5. creates = <<>> \/ creates = <<Msg(h, "INITDIALOG")>>
  BY <1>0
<1> QED
  BY <1>1, <1>3, <1>4, <1>5, CreatesRefine

LEMMA PlainFrame ==
  ASSUME NEW value \in Results, NEW m
  PROVE  FrameOk(Plain(value), m) /\ Plain(value).value = value /\ Plain(value).todo = <<>>
<1>1. Plain(value).value = value /\ Plain(value).todo = <<>> /\ Plain(value).kind = "plain"
  BY DEF Plain, Frame
<1>2. Listed(<<>>)
  BY Tuples DEF Listed
<1> QED
  BY <1>1, <1>2 DEF FrameOk

LEMMA ShowRefines ==
  ASSUME RInv, NEW h \in Handles, NEW activates, Show(h, activates)
  PROVE  Refines
<1>0. PICK v, proc, s : v = Bit(win[h].visible) /\ proc = win[h].proc /\ s = Activation(h)
  OBVIOUS
<1>1. v \in {0, 1} /\ v \in Results
  BY <1>0 DEF Bit, Results
<1>2. \/ Returned(v)
      \/ /\ Running /\ Made(h) /\ win[h].parent = 0
         /\ SendFrom(2, proc, Head(s)) /\ eax' = eax
         /\ frames' = Append(frames, More(v, "window", proc, Tail(s)))
  BY <1>0 DEF Show
<1>3. CASE Returned(v)
  BY <1>1, <1>3, ReturnedRefines
<1>4. ASSUME Running, Made(h), win[h].parent = 0, SendFrom(2, proc, Head(s)), eax' = eax,
             frames' = Append(frames, More(v, "window", proc, Tail(s)))
      PROVE  Refines
  <2>0. PICK f, m, t : f = More(v, "window", proc, t) /\ m = Head(s) /\ t = Tail(s)
    OBVIOUS
  <2>1. Activating(h, s)
    BY <1>0, <1>4, ActivationSends
  <2>2. ToWindow(h, s) /\ [value |-> v, sends |-> s] \in Promised!Promises
    BY <1>1, <2>1, ActivatingPromised
  <2>3. m.hwnd \in Handles /\ Listed(t)
    BY <2>0, <2>2, ToWindowListed
  <2>4. "window" \in {"window", "dialog"} /\ 2 \in Nat \ {0}
    OBVIOUS
  <2>5. FrameOk(f, m) /\ f.value = v /\ f.todo = t
    <3>1. FrameOk(f, m)
      BY <1>1, <2>0, <2>3, <2>4, MoreFrame
    <3>2. f = More(v, "window", proc, t)
      BY <2>0
    <3>3. f.value = v /\ f.todo = t
      BY <3>2, MoreHolds
    <3> QED
      BY <3>1, <3>3
  <2>6. [value |-> f.value, sends |-> s] \in Promised!Promises
    BY <2>2, <2>5
  <2>7. SendFrom(2, proc, m) /\ frames' = Append(frames, f) /\ eax' = eax /\ m = Head(s) /\ f.todo = Tail(s)
    BY <1>4, <2>0, <2>5
  <2> QED
    BY <1>4, <2>3, <2>4, <2>5, <2>6, <2>7, SendRefines
<1> QED
  BY <1>2, <1>3, <1>4

LEMMA UpdateWindowRefines ==
  ASSUME RInv, NEW h \in Handles, UpdateWindow(h)
  PROVE  Refines
<1>0. PICK m, f, s : m = Msg(h, "PAINT") /\ f = Plain(1) /\ s = <<m>>
  OBVIOUS
<1>1. 1 \in {0, 1} /\ 1 \in Results
  BY DEF Results
<1>2. \/ Returned(1)
      \/ Running /\ SendFrom(1, win[h].proc, m) /\ frames' = Append(frames, f) /\ eax' = eax
  BY <1>0 DEF UpdateWindow
<1>3. FrameOk(f, m) /\ f.value = 1 /\ f.todo = <<>>
  BY <1>0, <1>1, PlainFrame
<1>4. m = Head(s) /\ f.todo = Tail(s)
  BY <1>0, <1>3, Tuples
<1>5. [value |-> 1, sends |-> s] \in Promised!Promises
  <2>1. s = <<Msg(h, "PAINT")>>
    BY <1>0
  <2> QED
    BY <1>1, <2>1, ActivatingPromised
<1>6. [value |-> f.value, sends |-> s] \in Promised!Promises
  BY <1>3, <1>5
<1>7. m.hwnd \in Handles /\ 1 \in Nat \ {0}
  BY <1>0 DEF Msg
<1>8. CASE Returned(1)
  BY <1>1, <1>8, ReturnedRefines
<1>9. ASSUME Running, SendFrom(1, win[h].proc, m), frames' = Append(frames, f), eax' = eax
      PROVE  Refines
  BY <1>3, <1>4, <1>6, <1>7, <1>9, SendRefines
<1> QED
  BY <1>2, <1>8, <1>9

\* The frame of a call that draws.
LEMMA DrawFrame ==
  ASSUME NEW h, NEW foreign, NEW value, NEW todo, NEW fs, NEW its, NEW cs,
         DrawItem(h, foreign, value, todo, fs, its, cs)
  PROVE  \E f : frames' = Append(fs, f) /\ f.kind = "draw" /\ f.value = value /\ f.todo = todo
<1>0. PICK hdc, item : item = Fresh(its) /\ hdc = IF foreign THEN 0 ELSE Fresh(cs)
  OBVIOUS
<1>1. PICK f : f = [Frame(value, "draw", "none", todo) EXCEPT !.item = item, !.hdc = hdc]
  OBVIOUS
<1>2. frames' = Append(fs, f)
  BY <1>0, <1>1 DEF DrawItem
<1>3. f.value = value /\ f.todo = todo /\ f.kind = "draw"
  BY <1>1 DEF Frame
<1> QED
  BY <1>2, <1>3

LEMMA DrawOk ==
  ASSUME NEW f, f.kind = "draw", f.value \in Results, Listed(f.todo), Draws(f.todo),
         NEW m, m.msg = "DRAWITEM"
  PROVE  FrameOk(f, m)
BY DEF FrameOk

LEMMA EndPaintRefines ==
  ASSUME RInv, NEW h \in Handles, EndPaint(h)
  PROVE  Refines
<1>0. PICK due, proc, t, m : /\ due = ToDraw(h) /\ proc = win[h].proc
                             /\ t = Drawing(Tail(due)) /\ m = Msg(Head(due), "DRAWITEM")
  OBVIOUS
<1>1. 1 \in {0, 1} /\ 1 \in Results /\ 2 \in Nat \ {0}
  BY DEF Results
<1>2. \/ Returned(1)
      \/ /\ Running /\ due # <<>>
         /\ DrawItem(Head(due), FALSE, 1, t, frames, items, dcs)
         /\ SendFrom(2, proc, m) /\ eax' = eax
  BY <1>0 DEF EndPaint, Drawing
<1>3. CASE Returned(1)
  BY <1>1, <1>3, ReturnedRefines
<1>4. ASSUME Running, due # <<>>, DrawItem(Head(due), FALSE, 1, t, frames, items, dcs),
             SendFrom(2, proc, m), eax' = eax
      PROVE  Refines
  <2>1. PICK n : Distinct(due, n)
    BY <1>0, ToDrawDistinct
  <2>2. PICK s : s = Drawing(due)
    OBVIOUS
  <2>3. Head(due) \in Handles /\ Head(s) = m /\ Tail(s) = t /\ Listed(t) /\ Draws(t)
    BY <1>0, <1>4, <2>1, <2>2, DrawingSends
  <2>4. [value |-> 1, sends |-> s] \in Promised!Promises
    BY <1>1, <1>4, <2>1, <2>2, DrawingPromised
  <2>5. m.msg = "DRAWITEM" /\ m.hwnd = Head(due)
    BY <1>0 DEF Msg
  <2>6. PICK f : frames' = Append(frames, f) /\ FrameOk(f, m) /\ f.value = 1 /\ f.todo = t
    <3>1. PICK k, v, no : k = Head(due) /\ v = 1 /\ no = FALSE
      OBVIOUS
    <3>2. DrawItem(k, no, v, t, frames, items, dcs)
      BY <1>4, <3>1
    <3>3. PICK f : frames' = Append(frames, f) /\ f.kind = "draw" /\ f.value = v /\ f.todo = t
      BY <3>2, DrawFrame
    <3>4. FrameOk(f, m)
      BY <1>1, <2>3, <2>5, <3>1, <3>3, DrawOk
    <3> QED
      BY <3>1, <3>3, <3>4
  <2>7. [value |-> f.value, sends |-> s] \in Promised!Promises /\ m.hwnd \in Handles
    BY <2>3, <2>4, <2>5, <2>6
  <2> QED
    BY <1>1, <1>4, <2>3, <2>6, <2>7, SendRefines
<1> QED
  BY <1>2, <1>3, <1>4

LEMMA TailRefines ==
  ASSUME RInv, Running, NEW proc, NEW m, m.hwnd \in Handles, TailCall(proc, m)
  PROVE  Refines
<1>1. Run(acts, stack \o <<Arg, Arg, Arg, Arg, Ret(Len(acts))>>, proc, m, 4) /\ UNCHANGED <<frames, eax>>
  BY DEF TailCall
<1>2. Entering(acts, m, FALSE) /\ Tagged(eip', stack', acts')
  BY <1>1, BodyTags, TailTags
<1>3. KeptNext /\ CallsOf(acts', frames') = CallsOf(acts, frames)
  BY <1>1, <1>2, TailStep
<1>4. eax' \in Results
  BY <1>1, RefinementFacts
<1> QED
  BY <1>3, <1>4, OtherMapped DEF Refines

LEMMA GuestReturnsRefines ==
  ASSUME RInv, GuestReturns
  PROVE  Refines
<1>1. Running /\ Len(acts) > 1 /\ LeaveBody(1) /\ eax' = 0 /\ frames' = frames
  BY DEF GuestReturns
<1>2. Tagged(eip', stack', acts') /\ Over(acts, acts') /\ IsSeq(acts')
  BY <1>1, BodyTags, GuestTags
<1>3. eax' \in Results
  BY <1>1 DEF Results
<1>4. KeptNext /\ CallsOf(acts', frames') = CallsOf(acts, frames)
  BY <1>1, <1>2, <1>3, LeaveStep
<1> QED
  BY <1>3, <1>4, OtherMapped DEF Refines

\* A button's message to its painter.
LEMMA OneDrawing ==
  ASSUME NEW h \in Handles, NEW m, m = Msg(h, "DRAWITEM")
  PROVE  [value |-> 0, sends |-> <<m>>] \in Promised!Promises
<1>1. PICK due : due = <<h>>
  OBVIOUS
<1>2. due \in [1 .. 1 -> Handles] /\ Len(due) = 1 /\ IsSeq(due) /\ due # <<>> /\ due[1] = h
  <2>1. \A i \in 1 .. 1 : i = 1
    OBVIOUS
  <2>2. due[1] = h /\ due = [i \in 1 .. 1 |-> h]
    BY <1>1
  <2>3. due \in [1 .. 1 -> Handles]
    BY <2>2
  <2>4. Len(due) = 1 /\ IsSeq(due) /\ due # <<>>
    BY <1>1, Tuples
  <2> QED
    BY <2>2, <2>3, <2>4
<1>3. 1 <= Cardinality(Handles)
  <2>1. Handles \in SUBSET Handles
    OBVIOUS
  <2>2. IsFiniteSet(Handles) /\ Cardinality(Handles) \in Nat
    BY <2>1, HandlesCounted
  <2>3. Cardinality(Handles) # 0
    BY <2>2, FS_EmptySet
  <2> QED
    BY <2>2, <2>3
<1>4. Distinct(due, 1)
  <2>1. \A i, j \in 1 .. 1 : due[i] = due[j] => i = j
    OBVIOUS
  <2> QED
    BY <1>2, <1>3, <2>1 DEF Distinct
<1>5. [value |-> 0, sends |-> Drawing(due)] \in Promised!Promises
  BY <1>2, <1>4, DrawingPromised
<1>6. Drawing(due) = <<m>>
  <2>1. PICK t, u : t = Drawing(due) /\ u = <<m>>
    OBVIOUS
  <2>2. IsSeq(t) /\ Len(t) = 1 /\ t[1] = m
    BY <1>2, <2>1, DrawingSeq
  <2>3. IsSeq(u) /\ Len(u) = 1 /\ u[1] = m
    BY <2>1, Tuples
  <2>4. \A k \in 1 .. 1 : t[k] = u[k]
    BY <2>2, <2>3
  <2> QED
    BY <2>1, <2>2, <2>3, <2>4, SameSeq
<1> QED
  BY <1>5, <1>6

LEMMA ButtonProcRefines ==
  ASSUME RInv, ButtonProc
  PROVE  Refines
<1>0. PICK h, m, proc : /\ h = Last(acts).msg.hwnd /\ m = Msg(h, "DRAWITEM")
                        /\ proc = win[Painter(h)].proc
  OBVIOUS
<1>1. eip = Button /\ IsSeq(acts) /\ InButton(eip, stack, acts) /\ Tagged(eip, stack, acts)
  <2>1. eip = Button
    BY DEF ButtonProc
  <2>2. Sound(eip, stack, acts, frames)
    BY DEF RInv, AInv, IInv
  <2>3. IsSeq(acts) /\ InButton(eip, stack, acts)
    BY <2>1, <2>2, ButtonRuns
  <2> QED
    BY <2>1, <2>3, RefinementFacts
<1>2. h \in Handles
  <2>1. Len(acts) \in Nat /\ Len(acts) > 1 /\ Named(acts)
    BY <1>1, RefinementFacts DEF InButton
  <2>2. Last(acts) = acts[Len(acts)]
    BY <1>1, <2>1, LastIs
  <2>3. Len(acts) \in 2 .. Len(acts)
    BY <2>1
  <2> QED
    BY <1>0, <2>1, <2>2, <2>3 DEF Named
<1>3. \/ \E no : /\ DrawItem(h, no, 0, <<>>, frames, items, dcs) /\ eax' = eax
                 /\ Run(acts, Placed(stack, Len(stack) + 1, Append(FourArgs, stack[Len(stack)])), proc, m, 4)
      \/ \E b : LeaveBody(0) /\ eax' = Bit(b) /\ frames' = frames
  BY <1>0 DEF ButtonProc, ButtonReturns
<1>4. ASSUME NEW no, DrawItem(h, no, 0, <<>>, frames, items, dcs), eax' = eax,
             Run(acts, Placed(stack, Len(stack) + 1, Append(FourArgs, stack[Len(stack)])), proc, m, 4)
      PROVE  Refines
  <2>1. Entering(acts, m, TRUE) /\ Tagged(eip', stack', acts')
    BY <1>1, <1>4, DrawTags
  <2>2. PICK v, t : v = 0 /\ t = <<>>
    OBVIOUS
  <2>3. v \in Results /\ Listed(t) /\ Draws(t)
    BY <2>2, Tuples DEF Results, Listed, Draws
  <2>4. m.msg = "DRAWITEM" /\ m.hwnd \in Handles
    BY <1>0, <1>2 DEF Msg
  <2>5. DrawItem(h, no, v, t, frames, items, dcs)
    BY <1>4, <2>2
  <2>6. PICK f : frames' = Append(frames, f) /\ FrameOk(f, m) /\ f.value = v /\ f.todo = t
    <3>1. PICK f : frames' = Append(frames, f) /\ f.kind = "draw" /\ f.value = v /\ f.todo = t
      BY <2>5, DrawFrame
    <3>2. FrameOk(f, m)
      BY <2>3, <2>4, <3>1, DrawOk
    <3> QED
      BY <3>1, <3>2
  <2>7. PICK s : s = <<m>>
    OBVIOUS
  <2>8. [value |-> f.value, sends |-> s] \in Promised!Promises
    BY <1>0, <1>2, <2>2, <2>6, <2>7, OneDrawing
  <2>9. m = Head(s) /\ f.todo = Tail(s)
    BY <2>2, <2>6, <2>7, Tuples
  <2> QED
    BY <1>4, <2>1, <2>4, <2>6, <2>8, <2>9, EnterRefines
<1>5. ASSUME NEW b, LeaveBody(0), eax' = Bit(b), frames' = frames
      PROVE  Refines
  <2>1. Tagged(eip', stack', acts') /\ Over(acts, acts') /\ IsSeq(acts')
    BY <1>1, <1>5, ButtonTags
  <2>2. eax' \in Results
    BY <1>5 DEF Bit, Results
  <2>3. KeptNext /\ CallsOf(acts', frames') = CallsOf(acts, frames)
    BY <1>5, <2>1, <2>2, LeaveStep
  <2> QED
    BY <2>2, <2>3, OtherMapped DEF Refines
<1> QED
  BY <1>3, <1>4, <1>5

\* The thunk, and the call whose procedure is back.
LEMMA ThunkCall ==
  ASSUME RInv, eip = Thunk
  PROVE  /\ IsSeq(acts) /\ InThunk(eip, stack, acts) /\ Tagged(eip, stack, acts)
         /\ Top = Last(frames) /\ Popped = Front(frames)
<1>1. AInv
  BY DEF RInv
<1> QED
  BY <1>1, OnThunk, RefinementFacts

\* The next message of the call.
LEMMA NextRefines ==
  ASSUME RInv, eip = Thunk, Top.todo # <<>>,
         NEW proc, NEW m, m = Head(Top.todo), SendNext(proc, m), eax' = eax,
         NEW f, FrameOk(f, m), frames' = Append(Popped, f), f.value = Top.value, f.todo = Tail(Top.todo)
  PROVE  Refines
<1>1. /\ IsSeq(acts) /\ InThunk(eip, stack, acts) /\ Tagged(eip, stack, acts)
      /\ Top = Last(frames) /\ Popped = Front(frames)
  BY ThunkCall
<1>2. /\ Entering(Front(acts), m, TRUE) /\ Tagged(eip', stack', acts')
      /\ Len(acts) > 0 /\ acts[Len(acts)].back
  BY <1>1, NextTags
<1>3. PICK cs : cs = CallsOf(acts, frames)
  OBVIOUS
<1>4. /\ cs # <<>> /\ Last(cs) = CallOf(Top, acts[Len(acts)])
      /\ FrameOk(Top, acts[Len(acts)].msg)
  BY <1>1, <1>2, <1>3, LastCall
<1>5. Last(cs).value = Top.value /\ Last(cs).todo = Top.todo
  BY <1>4 DEF CallOf
<1>6. m.hwnd \in Handles
  BY <1>4, TailListed DEF FrameOk
<1>7. frames' = Append(Front(frames), f)
  BY <1>1
<1>8. /\ KeptNext
      /\ CallsOf(acts', frames') = Append(Front(cs), [value |-> f.value, now |-> m, todo |-> f.todo])
  BY <1>2, <1>3, <1>6, <1>7, DeliverStep
<1>9. eax' \in Results
  BY RefinementFacts
<1>10. /\ f.value = Last(cs).value /\ m = Head(Last(cs).todo) /\ f.todo = Tail(Last(cs).todo)
       /\ Last(cs).todo # <<>>
  BY <1>5
<1>11. CallsOf(acts', frames')
         = Append(Front(cs), [value |-> Last(cs).value, now |-> Head(Last(cs).todo), todo |-> Tail(Last(cs).todo)])
  BY <1>8, <1>10
<1>12. Mapped
  BY <1>3, <1>4, <1>9, <1>10, <1>11, DeliverMapped
<1> QED
  BY <1>8, <1>12 DEF Refines

\* The call returns its value, when nothing is left to send or a child cannot be drawn.
LEMMA ReturnRefines ==
  ASSUME RInv, eip = Thunk, FinishCall(Top.value), frames' = Popped, Top.kind \in {"plain", "draw"}
  PROVE  Refines
<1>1. /\ IsSeq(acts) /\ InThunk(eip, stack, acts) /\ Tagged(eip, stack, acts)
      /\ Top = Last(frames) /\ Popped = Front(frames)
  BY ThunkCall
<1>2. /\ Tagged(eip', stack', acts') /\ IsSeq(acts')
      /\ Len(acts) > 0 /\ acts[Len(acts)].back /\ Over(Front(acts), acts')
  BY <1>1, FinishTags
<1>3. PICK cs : cs = CallsOf(acts, frames)
  OBVIOUS
<1>4. /\ cs # <<>> /\ Last(cs) = CallOf(Top, acts[Len(acts)])
      /\ FrameOk(Top, acts[Len(acts)].msg)
  BY <1>1, <1>2, <1>3, LastCall
<1>5. Last(cs).value = Top.value /\ Last(cs).todo = Top.todo /\ Last(cs).now = acts[Len(acts)].msg
  BY <1>4 DEF CallOf
<1>6. Last(cs).todo = <<>> \/ Last(cs).now.msg = "DRAWITEM"
  BY <1>4, <1>5 DEF FrameOk
<1>7. eax' = Last(cs).value /\ eax' \in Results
  <2>1. eax' = Top.value
    BY DEF FinishCall
  <2>2. Top.value \in Results
    BY <1>4 DEF FrameOk
  <2> QED
    BY <1>5, <2>1, <2>2
<1>8. KeptNext /\ CallsOf(acts', frames') = Front(cs)
  BY <1>1, <1>2, <1>3, <1>7, FinishStep
<1>9. Mapped
  BY <1>3, <1>4, <1>6, <1>7, <1>8, FinishMapped
<1> QED
  BY <1>8, <1>9 DEF Refines

LEMMA TopOk ==
  ASSUME RInv, eip = Thunk
  PROVE  \E m : FrameOk(Top, m)
<1>1. /\ IsSeq(acts) /\ InThunk(eip, stack, acts) /\ Tagged(eip, stack, acts) /\ Top = Last(frames)
  BY ThunkCall
<1>2. Len(acts) > 0 /\ acts[Len(acts)].back
  <2>1. Len(acts) > 0
    BY <1>1, RefinementFacts DEF InThunk
  <2> QED
    BY <1>1, <2>1 DEF InThunk, Tagged
<1> QED
  BY <1>1, <1>2, LastCall

LEMMA AsyncSendsRefines ==
  ASSUME RInv, AsyncSends
  PROVE  Refines
<1>0. PICK f, t, m, proc : /\ f = More(Top.value, Top.kind, proc, t) /\ t = Tail(Top.todo)
                           /\ m = Head(Top.todo) /\ proc = NextProc
  OBVIOUS
<1>1. /\ eip = Thunk /\ Top.kind \in {"window", "dialog"} /\ eax' = eax
      /\ SendNext(proc, m) /\ frames' = Append(Popped, f)
  BY <1>0 DEF AsyncSends
<1>2. PICK now : FrameOk(Top, now)
  BY <1>1, TopOk
<1>3. Top.todo # <<>> /\ Listed(Top.todo) /\ Top.value \in Results
  BY <1>1, <1>2 DEF FrameOk
<1>4. Listed(t)
  BY <1>0, <1>3, TailListed
<1>5. FrameOk(f, m)
  BY <1>0, <1>1, <1>3, <1>4, MoreFrame
<1>6. f.value = Top.value /\ f.todo = t
  <2>1. PICK v, kind : v = Top.value /\ kind = Top.kind
    OBVIOUS
  <2>2. f = More(v, kind, proc, t)
    BY <1>0, <2>1
  <2>3. f.value = v /\ f.todo = t
    BY <2>2, MoreHolds
  <2> QED
    BY <2>1, <2>3
<1> QED
  BY <1>0, <1>1, <1>3, <1>5, <1>6, NextRefines

LEMMA AsyncDrawsRefines ==
  ASSUME RInv, AsyncDraws
  PROVE  Refines
<1>0. PICK h, t, m, proc, its, cs : /\ h = Head(Top.todo).hwnd /\ t = Tail(Top.todo)
                           /\ m = Head(Top.todo) /\ proc = win[Painter(h)].proc
                           /\ its = items \ {Top.item} /\ cs = dcs \ {Top.hdc}
  OBVIOUS
<1>1. eip = Thunk /\ Top.kind = "draw"
  BY DEF AsyncDraws
<1>2. \/ /\ Top.todo # <<>> /\ eax' = eax /\ SendNext(proc, m)
         /\ DrawItem(h, FALSE, Top.value, t, Popped, its, cs)
      \/ FinishCall(Top.value) /\ frames' = Popped
  BY <1>0 DEF AsyncDraws
<1>3. PICK now : FrameOk(Top, now)
  BY <1>1, TopOk
<1>4. CASE FinishCall(Top.value) /\ frames' = Popped
  BY <1>1, <1>4, ReturnRefines
<1>5. ASSUME Top.todo # <<>>, eax' = eax, SendNext(proc, m),
             DrawItem(h, FALSE, Top.value, t, Popped, its, cs)
      PROVE  Refines
  <2>1. Listed(Top.todo) /\ Draws(Top.todo) /\ Top.value \in Results
    BY <1>1, <1>3 DEF FrameOk
  <2>2. Listed(t) /\ Draws(t) /\ m.msg = "DRAWITEM"
    BY <1>0, <1>5, <2>1, TailListed
  <2>3. PICK no, v, fs : no = FALSE /\ v = Top.value /\ fs = Popped
    OBVIOUS
  <2>4. DrawItem(h, no, v, t, fs, its, cs) /\ v \in Results
    BY <1>5, <2>1, <2>3
  <2>5. PICK f : frames' = Append(fs, f) /\ FrameOk(f, m) /\ f.value = v /\ f.todo = t
    <3>1. PICK f : frames' = Append(fs, f) /\ f.kind = "draw" /\ f.value = v /\ f.todo = t
      BY <2>4, DrawFrame
    <3>2. FrameOk(f, m)
      BY <2>2, <2>4, <3>1, DrawOk
    <3> QED
      BY <3>1, <3>2
  <2>6. /\ frames' = Append(Popped, f) /\ FrameOk(f, m) /\ f.value = Top.value
        /\ f.todo = Tail(Top.todo) /\ m = Head(Top.todo)
    BY <1>0, <2>3, <2>5
  <2> QED
    BY <1>1, <1>5, <2>6, NextRefines
<1> QED
  BY <1>2, <1>4, <1>5

LEMMA NextRefined == RInv /\ [Next]_vars => Refines
<1> SUFFICES ASSUME RInv, [Next]_vars PROVE Refines
  OBVIOUS
<1>0. \A h, m : Msg(h, m).hwnd = h
  BY DEF Msg
<1>1. ASSUME NEW parent, NEW proc, NEW draw, CreateWindow(parent, proc, draw) PROVE Refines
  BY <1>1, CreateWindowRefines
<1>2. ASSUME NEW parent, NEW proc, CreateDialog(parent, proc) PROVE Refines
  BY <1>2, CreateDialogRefines
<1>3. ASSUME NEW value, Returned(value), value \in Results PROVE Refines
  BY <1>3, ReturnedRefines
<1>4. ASSUME NEW h \in Handles, NEW activates, Show(h, activates) PROVE Refines
  BY <1>4, ShowRefines
<1>5. ASSUME NEW h \in Handles, UpdateWindow(h) PROVE Refines
  BY <1>5, UpdateWindowRefines
<1>6. ASSUME NEW h \in Handles, NEW m, Dispatch(h, m) PROVE Refines
  BY <1>0, <1>6, TailRefines DEF Dispatch
<1>7. ASSUME NEW proc, NEW h \in Handles, NEW m, CallWindowProc(proc, h, m) PROVE Refines
  BY <1>0, <1>7, TailRefines DEF CallWindowProc
<1>8. ASSUME NEW h \in Handles, EndPaint(h) PROVE Refines
  BY <1>8, EndPaintRefines
<1>9. CASE GuestReturns
  BY <1>9, GuestReturnsRefines
<1>10. CASE ButtonProc
  BY <1>10, ButtonProcRefines
<1>11. CASE AsyncSends
  BY <1>11, AsyncSendsRefines
<1>12. CASE AsyncDraws
  BY <1>12, AsyncDrawsRefines
<1>13. CASE AsyncFinishes
  <2>1. eip = Thunk /\ FinishCall(Top.value) /\ frames' = Popped /\ Top.kind \in {"plain", "draw"}
    BY <1>13 DEF AsyncFinishes
  <2> QED
    BY <2>1, ReturnRefines
<1>14. CASE UNCHANGED vars
  <2>1. UNCHANGED <<stack, eip, acts, frames>> /\ eax' \in Results
    BY <1>14, RefinementFacts DEF vars
  <2> QED
    BY <2>1, SameRefines
<1>15. 0 \in Results /\ 1 \in Results /\ \A b : Bit(b) \in Results
  BY DEF Results, Bit
<1>16. CASE SetHook
  BY <1>3, <1>15, <1>16 DEF SetHook
<1>17. ASSUME NEW h, NEW proc, SetProc(h, proc) PROVE Refines
  BY <1>3, <1>15, <1>17 DEF SetProc
<1>18. ASSUME NEW h, NEW destroy, Hide(h, destroy) PROVE Refines
  <2>1. \E value \in Results : Returned(value)
    BY <1>15, <1>18 DEF Hide
  <2> QED
    BY <1>3, <2>1
<1>19. ASSUME NEW h, Invalidate(h) PROVE Refines
  BY <1>3, <1>15, <1>19 DEF Invalidate
<1>20. ASSUME NEW h, EndDialog(h) PROVE Refines
  BY <1>3, <1>15, <1>20 DEF EndDialog
<1> QED
  BY <1>1, <1>2, <1>4, <1>5, <1>6, <1>7, <1>8, <1>9, <1>10, <1>11, <1>12, <1>13, <1>14,
     <1>16, <1>17, <1>18, <1>19, <1>20 DEF Next

LEMMA InitRefined == NoHookedDialogs /\ Init => RInv /\ Promised!Init
<1> SUFFICES ASSUME NoHookedDialogs, Init PROVE RInv /\ Promised!Init
  OBVIOUS
<1>1. AInv
  BY InitItems
<1>2. /\ eip = Ret(1) /\ frames = <<>> /\ eax = 0
      /\ acts = <<[sp |-> MainWords, own |-> 1, msg |-> Msg(0, "none"), pops |-> 0, back |-> FALSE]>>
  BY DEF Init
<1>3. PICK x : x = [sp |-> MainWords, own |-> 1, msg |-> Msg(0, "none"), pops |-> 0, back |-> FALSE]
  OBVIOUS
<1>4. acts = <<x>> /\ ~x.back
  BY <1>2, <1>3
<1>5. Len(acts) = 1 /\ acts[1] = x
  BY <1>4
<1>6. IsSeq(frames) /\ Len(frames) = 0
  BY <1>2, Tuples
<1>7. ~\E i : i \in 1 .. 0 \/ i \in 2 .. 1
  OBVIOUS
<1>8. Tagged(eip, stack, acts)
  <2>1. eip # Button /\ eip # Thunk
    BY <1>2, Words DEF Button, Ret
  <2>2. OnStack(eip, acts) = 1
    BY <1>5, <2>1 DEF OnStack
  <2> QED
    BY <1>4, <1>5, <1>7, <2>1, <2>2 DEF Tagged, TagsKept
<1>9. Paired(acts, frames)
  <2>1. Before(acts, 1) = {}
    BY <1>4, <1>5 DEF Before
  <2>2. Rank(acts, Len(acts)) = 0
    BY <1>5, <2>1, FS_EmptySet DEF Rank
  <2> QED
    BY <1>6, <1>7, <2>2 DEF Paired
<1>10. FramesOk(frames, CallsOf(acts, frames)) /\ Named(acts)
  BY <1>5, <1>6, <1>7 DEF FramesOk, Named
<1>11. RInv
  BY <1>1, <1>2, <1>8, <1>9, <1>10 DEF RInv, Kept, Results
<1>12. Calls = <<>>
  <2>1. IsSeq(CallsOf(acts, frames)) /\ Len(CallsOf(acts, frames)) = 0
    BY <1>6, CallsSeq
  <2>2. CallsOf(acts, frames) = <<>>
    BY <1>7, <2>1, Tuples, SameSeq
  <2> QED
    BY <2>2, CallsAre
<1> QED
  BY <1>2, <1>11, <1>12 DEF Promised!Init

(* For any finite set of window handles and any guests in which no guest   *)
(* that makes dialogs has a WH_CBT hook: however calls and procedures nest, *)
(* CreateWindowEx, ShowWindow, UpdateWindow, EndPaint and the painting of  *)
(* owner-drawn buttons implement SentMessages - the procedures get exactly *)
(* the messages of the call, in their order, and the call returns its      *)
(* value to its caller only after the last of them.                        *)
THEOREM AlwaysRefinesSentMessages ==
  ASSUME NoHookedDialogs
  PROVE  Spec => RefinesSentMessages
<1>1. Init => RInv /\ Promised!Init
  BY InitRefined
<1>2. RInv /\ [Next]_vars => RInv' /\ [Promised!Next]_<<Calls, eax>>
  <2> SUFFICES ASSUME RInv, [Next]_vars PROVE RInv' /\ [Promised!Next]_<<Calls, eax>>
    OBVIOUS
  <2>1. Refines
    BY NextRefined
  <2>2. AInv'
    BY NextKeeps, NextItems DEF RInv, AInv, KeepsItems
  <2> QED
    BY <2>1, <2>2 DEF Refines, KeptNext, RInv, Kept, Mapped
<1> QED
  BY <1>1, <1>2, PTL DEF Spec, RefinesSentMessages, Promised!Spec
=============================================================================
