----------------------------- MODULE AddressSpace ----------------------------
(***************************************************************************)
(* What the guest allocator promises, without arenas, holes or a bitmap:   *)
(* a set of page intervals of which no two overlap.  A call hands out one  *)
(* interval nobody owns, takes back one that is owned, or does both at     *)
(* once, the new interval being disjoint from the one it replaces          *)
(* (realloc copies out of the old block before it is given back).          *)
(***************************************************************************)
EXTENDS Integers

CONSTANT NumPages

VARIABLE spans   (* set of intervals of pages, each a set of pages *)

Interval(s) == \E lo, hi \in 0 .. NumPages - 1 : lo <= hi /\ s = lo .. hi

Init == spans = {}

Free(s) == \A t \in spans : s \cap t = {}

Reserve == \E s \in (spans' \ spans) :
             Interval(s) /\ Free(s) /\ spans' = spans \cup {s}

Release == \E s \in spans : spans' = spans \ {s}

Replace == \E s \in (spans' \ spans), t \in spans :
             Interval(s) /\ Free(s) /\ spans' = (spans \ {t}) \cup {s}

Next == Reserve \/ Release \/ Replace

Spec == Init /\ [][Next]_spans
=============================================================================
