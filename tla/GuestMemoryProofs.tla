-------------------------- MODULE GuestMemoryProofs --------------------------
(***************************************************************************)
(* Proofs about GuestMemory, for every size of the address space, every    *)
(* placement of the arenas and every choice of host and stack pages.       *)
(*                                                                         *)
(* The inductive invariant is stated over a pair (S, m) of allocations and *)
(* bitmap rather than over the variables, because HeapReAlloc chains two   *)
(* arena operations in one step: the lemmas then compose.                  *)
(***************************************************************************)
EXTENDS GuestMemory, DataLemmas, TLAPS

Guarded == {"heap", "private"}

Good(S, m) ==
  /\ S \in [Arenas -> SUBSET Allocation]
  /\ m \subseteq Page
  /\ \A x \in Arenas : \A a \in S[x] : InArena(a, Lo[x], Hi[x])
  /\ \A x \in Arenas : \A a, b \in S[x] : a # b => ~Overlaps(a, b)
  /\ \A x \in {"module", "heap", "private"} : \A a \in S[x] : Payload(a) \subseteq m
  /\ \A x \in Arenas \ Guarded : \A a \in S[x] : a.before = 0 /\ a.after = 0
  /\ StackPages \subseteq m
  /\ \A x \in Arenas : \A a \in S[x] : Payload(a) \cap StackPages = {}
  /\ \A p \in m : \/ p \in StackPages
                  \/ Lo["heap"] <= p /\ p < Hi["heap"]
                  \/ \E x \in Arenas : \E a \in S[x] : p \in Payload(a)

\* A request the handlers make of arena x.
Requests(x) ==
  {s \in [size : Nat \ {0}, before : Nat, after : Nat, align : Nat \ {0}] :
     x \notin Guarded => s.before = 0 /\ s.after = 0}

\* What alloc_at_checked does: all of the placement or nothing at all.
Placed(S, m, x, base, spec, r) ==
  LET a == Place(base, spec)
  IN  /\ a \in Allocation
      /\ InArena(a, Lo[x], Hi[x])
      /\ \A b \in S[x] : ~Overlaps(a, b)
      /\ ~Retains(x) => Payload(a) \cap m = {}
      /\ r.allocs = S[x] \cup {a}
      /\ r.mapped = m \cup Payload(a)

Alloc(S, m, x, base, spec) ==
  AllocAtChecked(S[x], m, Lo[x], Hi[x], Retains(x), base, spec)

\* An allocation either places exactly the requested block and backs its
\* payload, or leaves the arena and the bitmap as they were.
LEMMA AllocAllOrNothing ==
  ASSUME NEW S \in [Arenas -> SUBSET Allocation], NEW m \in SUBSET Page,
         NEW x \in Arenas, NEW base, NEW spec \in Requests(x),
         NEW r, r = Alloc(S, m, x, base, spec)
  PROVE  /\ r.ok => Placed(S, m, x, base, spec, r)
         /\ ~r.ok => r.allocs = S[x] /\ r.mapped = m
<1> DEFINE a == Place(base, spec)
           placed == base \in Page /\ InArena(a, Lo[x], Hi[x]) /\ \A b \in S[x] : ~Overlaps(a, b)
           backing == Backing(m, a, Retains(x))
<1>1. /\ r.ok = (placed /\ backing.ok)
      /\ r.allocs = IF placed /\ backing.ok THEN S[x] \cup {a} ELSE S[x]
      /\ r.mapped = IF placed THEN backing.mapped ELSE m
  BY DEF Alloc, AllocAtChecked
<1>2. a.base = base /\ a.size = spec.size /\ a.before = spec.before /\ a.after = spec.after
  BY DEF Place
<1>3. ~backing.ok => backing.mapped = m
  BY DEF Backing, MapOrUpdate, MapNew, RollBack, MappedSoFar
<1>4. backing.ok => /\ backing.mapped = m \cup Payload(a)
                    /\ ~Retains(x) => Payload(a) \cap m = {}
  BY DEF Backing, MapOrUpdate, MapNew, Payload
<1>5. placed => a \in Allocation
  BY <1>2 DEF Allocation, Requests, Place
<1>6. QED
  BY <1>1, <1>3, <1>4, <1>5 DEF Placed

\* Rounding up to a multiple never makes a size smaller.
LEMMA AlignUpAtLeast ==
  ASSUME NEW v \in Nat \ {0}, NEW align \in Nat \ {0}
  PROVE  AlignUp(v, align) \in Nat \ {0} /\ AlignUp(v, align) >= v
<1> DEFINE q == (v + align - 1) \div align
           w == v + align - 1
<1>1. w \in Nat /\ q \in Nat /\ w = align * q + (w % align) /\ (w % align) \in 0 .. align - 1
  OBVIOUS
<1>2. align * q >= v
  BY <1>1
<1>3. q * align = align * q
  BY <1>1
<1>4. QED
  BY <1>1, <1>2, <1>3 DEF AlignUp

-----------------------------------------------------------------------------
\* Pages of different arenas are different.
LEMMA ArenasApart ==
  ASSUME NEW x \in Arenas, NEW y \in Arenas, x # y,
         NEW a \in Allocation, NEW b \in Allocation,
         InArena(a, Lo[x], Hi[x]), InArena(b, Lo[y], Hi[y])
  PROVE  Reserved(a) \cap Reserved(b) = {}
<1>1. Lo[x] \in Int /\ Hi[x] \in Int /\ Lo[y] \in Int /\ Hi[y] \in Int
  BY GuestMemoryAssumption DEF Page
<1>2. Hi[x] <= Lo[y] \/ Hi[y] <= Lo[x]
  BY GuestMemoryAssumption
<1>3. QED
  BY <1>1, <1>2 DEF Reserved, InArena, ResBase, ResEnd, Allocation, Page

\* Non-overlap as the code tests it is disjointness of the reserved spans.
LEMMA OverlapIsIntersection ==
  ASSUME NEW a \in Allocation, NEW b \in Allocation
  PROVE  /\ ~Overlaps(a, b) <=> Reserved(a) \cap Reserved(b) = {}
         /\ Payload(a) \subseteq Reserved(a)
<1>1. /\ ResBase(a) \in Int /\ ResEnd(a) \in Int /\ ResBase(a) < ResEnd(a)
      /\ ResBase(b) \in Int /\ ResEnd(b) \in Int /\ ResBase(b) < ResEnd(b)
  BY DEF ResBase, ResEnd, Allocation, Page
<1>2. ~Overlaps(a, b) => Reserved(a) \cap Reserved(b) = {}
  BY <1>1 DEF Overlaps, Reserved
<1>3. ASSUME Overlaps(a, b) PROVE Reserved(a) \cap Reserved(b) # {}
  <2>1. CASE ResBase(a) <= ResBase(b)
    <3>1. ResBase(b) \in Reserved(a) \cap Reserved(b)
      BY <1>1, <1>3, <2>1 DEF Overlaps, Reserved
    <3>2. QED BY <3>1
  <2>2. CASE ResBase(b) < ResBase(a)
    <3>1. ResBase(a) \in Reserved(a) \cap Reserved(b)
      BY <1>1, <1>3, <2>2 DEF Overlaps, Reserved
    <3>2. QED BY <3>1
  <2>3. QED BY <1>1, <2>1, <2>2
<1>4. Payload(a) \subseteq Reserved(a)
  BY DEF Payload, Span, Reserved, ResBase, ResEnd, Allocation, Page
<1>5. QED
  BY <1>2, <1>3, <1>4

\* Two different live allocations share no page, in one arena or across two.
LEMMA GoodDisjoint ==
  ASSUME NEW S, NEW m, Good(S, m),
         NEW x \in Arenas, NEW y \in Arenas, NEW a \in S[x], NEW b \in S[y],
         x # y \/ a # b
  PROVE  Reserved(a) \cap Reserved(b) = {}
<1>1. a \in Allocation /\ b \in Allocation
  BY DEF Good
<1>2. CASE x # y
  BY <1>1, <1>2, ArenasApart DEF Good
<1>3. CASE x = y /\ a # b
  BY <1>1, <1>3, OverlapIsIntersection DEF Good
<1>4. QED
  BY <1>2, <1>3

\* Placing a block keeps the invariant.
LEMMA PlacedKeepsGood ==
  ASSUME NEW S, NEW m, Good(S, m), NEW x \in Arenas, NEW base, NEW spec \in Requests(x),
         NEW r, Placed(S, m, x, base, spec, r)
  PROVE  Good([S EXCEPT ![x] = r.allocs], r.mapped)
<1> DEFINE a == Place(base, spec)
           T == [S EXCEPT ![x] = r.allocs]
<1>0. /\ S \in [Arenas -> SUBSET Allocation] /\ m \subseteq Page /\ a \in Allocation
      /\ r.allocs = S[x] \cup {a} /\ r.mapped = m \cup Payload(a)
  BY DEF Good, Placed
<1>1. T \in [Arenas -> SUBSET Allocation]
  BY <1>0
<1>2. T[x] = S[x] \cup {a} /\ \A y \in Arenas : y # x => T[y] = S[y]
  BY <1>0
<1>3. \A y \in Arenas : \A b \in T[y] : b \in S[y] \/ (y = x /\ b = a)
  BY <1>2
<1>4. \A y \in Arenas : \A b \in T[y] : InArena(b, Lo[y], Hi[y])
  BY <1>3 DEF Good, Placed
<1>5. /\ Lo[x] \in Nat /\ Hi[x] \in Nat /\ Hi[x] <= NumPages /\ NumPages \in Nat
  BY GuestMemoryAssumption, PageMapAssumption DEF Page
<1>6. Payload(a) \subseteq Page
  BY <1>0, <1>4, <1>5, <1>2 DEF Payload, Span, InArena, ResBase, ResEnd, Allocation, Page
<1>7. \A y \in Arenas : \A b, c \in T[y] : b # c => ~Overlaps(b, c)
  <2>1. \A b \in S[x] : ~Overlaps(a, b) /\ ~Overlaps(b, a)
    BY <1>0 DEF Placed, Overlaps, Good
  <2>2. QED
    BY <1>2, <2>1 DEF Good
<1>8. \A y \in {"module", "heap", "private"} : \A b \in T[y] : Payload(b) \subseteq r.mapped
  <2>1. {"module", "heap", "private"} \subseteq Arenas
    BY DEF Arenas
  <2>2. QED
    BY <1>0, <1>3, <2>1 DEF Good
<1>9. \A y \in Arenas \ Guarded : \A b \in T[y] : b.before = 0 /\ b.after = 0
  <2>1. x \notin Guarded => a.before = 0 /\ a.after = 0
    BY DEF Requests, Place
  <2>2. QED
    BY <1>3, <2>1 DEF Good
<1>10. Payload(a) \cap StackPages = {}
  <2>1. CASE Retains(x)
    <3>1. x = "heap" /\ "virtual_high" \in Arenas
      BY <2>1 DEF Retains, Arenas
    <3>2. Hi[x] <= Lo["virtual_high"] \/ Hi["virtual_high"] <= Lo[x]
      BY <3>1, GuestMemoryAssumption
    <3>3. Lo["virtual_high"] \in Nat /\ Hi["virtual_high"] \in Nat
      BY <3>1, GuestMemoryAssumption DEF Page
    <3>4. \A p \in StackPages : p \in Page /\ Lo["virtual_high"] <= p /\ p < Hi["virtual_high"]
      BY GuestMemoryAssumption
    <3>5. \A p \in Payload(a) : p \in Int /\ Lo[x] <= p /\ p < Hi[x]
      BY <1>0, <1>2, <1>4, <1>5 DEF Payload, Span, InArena, ResBase, ResEnd, Allocation, Page
    <3>6. QED
      BY <3>2, <3>3, <3>4, <3>5, <1>5 DEF Page
  <2>2. CASE ~Retains(x)
    BY <2>2 DEF Placed, Good
  <2>3. QED
    BY <2>1, <2>2
<1>11. \A y \in Arenas : \A b \in T[y] : Payload(b) \cap StackPages = {}
  BY <1>3, <1>10 DEF Good
<1>12. \A p \in r.mapped :
         \/ p \in StackPages
         \/ Lo["heap"] <= p /\ p < Hi["heap"]
         \/ \E y \in Arenas : \E b \in T[y] : p \in Payload(b)
  BY <1>0, <1>2 DEF Good
<1>13. r.mapped \subseteq Page /\ StackPages \subseteq r.mapped
  BY <1>0, <1>6 DEF Good
<1>14. QED
  BY <1>1, <1>4, <1>7, <1>8, <1>9, <1>11, <1>12, <1>13 DEF Good

\* Dropping the allocation that starts at `base`, and unmapping its payload
\* unless the arena retains freed pages, keeps the invariant.
LEMMA FreeKeepsGood ==
  ASSUME NEW S, NEW m, Good(S, m), NEW x \in Arenas, NEW base,
         NEW r, r = TryFree(S[x], m, Retains(x), base)
  PROVE  Good([S EXCEPT ![x] = r.allocs], r.mapped)
<1> DEFINE T == [S EXCEPT ![x] = r.allocs]
           gone == ByBase(S[x], base)
           pages == UNION {Payload(a) : a \in gone}
<1>0. S \in [Arenas -> SUBSET Allocation] /\ m \subseteq Page
  BY DEF Good
<1>1. /\ gone \subseteq S[x] /\ r.allocs = S[x] \ gone
      /\ r.mapped = IF Retains(x) THEN m ELSE m \ pages
  BY DEF TryFree, ByBase
<1>2. T \in [Arenas -> SUBSET Allocation] /\ r.mapped \subseteq Page
  BY <1>0, <1>1
<1>3. T[x] = S[x] \ gone /\ \A y \in Arenas : y # x => T[y] = S[y]
  BY <1>0, <1>1
<1>4. \A y \in Arenas : T[y] \subseteq S[y]
  BY <1>3
<1>5. \A y \in Arenas : \A b \in T[y] : InArena(b, Lo[y], Hi[y])
  BY <1>4 DEF Good
<1>6. \A y \in Arenas : \A b, c \in T[y] : b # c => ~Overlaps(b, c)
  BY <1>4 DEF Good
<1>7. \A y \in Arenas \ Guarded : \A b \in T[y] : b.before = 0 /\ b.after = 0
  BY <1>4 DEF Good
<1>8. \A y \in Arenas : \A b \in T[y] : Payload(b) \cap StackPages = {}
  BY <1>4 DEF Good
<1>9. pages \cap StackPages = {}
  BY <1>1 DEF Good
<1>10. StackPages \subseteq r.mapped
  BY <1>1, <1>9 DEF Good
<1>11. \A y \in {"module", "heap", "private"} : \A b \in T[y] : Payload(b) \subseteq r.mapped
  <2> SUFFICES ASSUME NEW y \in {"module", "heap", "private"}, NEW b \in T[y]
               PROVE  Payload(b) \subseteq r.mapped
    OBVIOUS
  <2>1. y \in Arenas /\ b \in S[y] /\ Payload(b) \subseteq m
    BY <1>4 DEF Good, Arenas
  <2>2. ASSUME NEW a \in gone PROVE Payload(a) \cap Payload(b) = {}
    <3>1. a \in S[x] /\ (x # y \/ a # b)
      BY <1>1, <1>3
    <3>2. Reserved(a) \cap Reserved(b) = {}
      BY <2>1, <3>1, GoodDisjoint
    <3>3. Payload(a) \subseteq Reserved(a) /\ Payload(b) \subseteq Reserved(b)
      BY <1>0, <2>1, <3>1, OverlapIsIntersection
    <3>4. QED
      BY <3>2, <3>3
  <2>3. QED
    BY <1>1, <2>1, <2>2
<1>12. \A p \in r.mapped :
         \/ p \in StackPages
         \/ Lo["heap"] <= p /\ p < Hi["heap"]
         \/ \E y \in Arenas : \E b \in T[y] : p \in Payload(b)
  <2> SUFFICES ASSUME NEW p \in r.mapped, p \notin StackPages,
                      ~(Lo["heap"] <= p /\ p < Hi["heap"])
               PROVE  \E y \in Arenas : \E b \in T[y] : p \in Payload(b)
    OBVIOUS
  <2>0. PICK y \in Arenas : \E b \in S[y] : p \in Payload(b)
    BY <1>1 DEF Good
  <2>1. PICK b \in S[y] : p \in Payload(b)
    BY <2>0
  <2>2. y # "heap"
    <3>1. ASSUME y = "heap" PROVE FALSE
      <4>1. b \in Allocation /\ InArena(b, Lo["heap"], Hi["heap"])
        BY <1>0, <3>1 DEF Good
      <4>2. Lo["heap"] \in Nat /\ Hi["heap"] \in Nat
        BY <3>1, GuestMemoryAssumption DEF Page
      <4>3. QED
        BY <2>1, <4>1, <4>2 DEF InArena, ResBase, ResEnd, Payload, Span, Allocation, Page
    <3>2. QED BY <3>1
  <2>3. ~(y = x /\ b \in gone)
    BY <1>1, <2>1, <2>2 DEF Retains
  <2>4. b \in T[y]
    BY <1>3, <2>3
  <2>5. QED
    BY <2>1, <2>4
<1>13. QED
  BY <1>2, <1>5, <1>6, <1>7, <1>8, <1>10, <1>11, <1>12 DEF Good

\* Hle::free_alloc keeps the invariant.
LEMMA FreeAllocKeepsGood ==
  ASSUME NEW S, NEW m, Good(S, m), NEW addr
  PROVE  LET r == FreeAllocIn(S, m, addr) IN Good(r.allocs, r.mapped)
<1> DEFINE h == TryFree(S["heap"], m, Retains("heap"), addr)
           p == TryFree(S["private"], m, Retains("private"), addr)
<1>1. Good([S EXCEPT !["heap"] = h.allocs], h.mapped)
  BY FreeKeepsGood DEF Arenas
<1>2. Good([S EXCEPT !["private"] = p.allocs], p.mapped)
  BY FreeKeepsGood DEF Arenas
<1>3. QED
  BY <1>1, <1>2 DEF FreeAllocIn

\* An allocation keeps the invariant whether it succeeds or fails.
LEMMA AllocKeepsGood ==
  ASSUME NEW S, NEW m, Good(S, m), NEW x \in Arenas, NEW base, NEW spec \in Requests(x),
         NEW r, r = Alloc(S, m, x, base, spec)
  PROVE  Good([S EXCEPT ![x] = r.allocs], r.mapped)
<1>1. S \in [Arenas -> SUBSET Allocation] /\ m \in SUBSET Page
  BY DEF Good
<1>2. CASE r.ok
  BY <1>1, <1>2, AllocAllOrNothing, PlacedKeepsGood
<1>3. CASE ~r.ok
  <2>1. r.allocs = S[x] /\ r.mapped = m
    BY <1>1, <1>3, AllocAllOrNothing
  <2>2. [S EXCEPT ![x] = S[x]] = S
    BY <1>1
  <2>3. QED
    BY <2>1, <2>2
<1>4. QED
  BY <1>2, <1>3

\* Committing and decommitting pages inside a live virtual region keeps the
\* invariant.
LEMMA CommitKeepsGood ==
  ASSUME NEW S, NEW m, Good(S, m), NEW x \in {"virtual", "virtual_high"},
         NEW base \in Page, NEW n \in Nat, Containing(S[x], base, n) # {}
  PROVE  /\ Good(S, MapOrUpdate(m, base, n).mapped)
         /\ Good(S, Unmap(m, base, n))
<1>0. x \in Arenas /\ S \in [Arenas -> SUBSET Allocation]
  BY DEF Arenas, Good
<1>1. PICK a \in S[x] : a.base <= base /\ base + n <= a.base + a.size
  BY DEF Containing
<1>2. a \in Allocation /\ InArena(a, Lo[x], Hi[x])
  BY <1>0 DEF Good
<1>3. Span(base, n) \subseteq Payload(a)
  BY <1>1, <1>2 DEF Span, Payload, Allocation, Page
<1>4. Payload(a) \subseteq Page
  <2>1. Lo[x] \in Nat /\ Hi[x] \in Nat /\ Hi[x] <= NumPages /\ NumPages \in Nat
    BY <1>0, GuestMemoryAssumption, PageMapAssumption DEF Page
  <2>2. QED
    BY <1>2, <2>1 DEF Payload, Span, InArena, ResBase, ResEnd, Allocation, Page
<1>5. Span(base, n) \cap StackPages = {}
  BY <1>0, <1>1, <1>3 DEF Good
<1>6. \A y \in {"module", "heap", "private"} : \A b \in S[y] :
         Payload(b) \cap Span(base, n) = {}
  <2> SUFFICES ASSUME NEW y \in {"module", "heap", "private"}, NEW b \in S[y]
               PROVE  Payload(b) \cap Payload(a) = {}
    BY <1>3
  <2>1. y \in Arenas /\ y # x /\ b \in Allocation
    BY <1>0 DEF Arenas
  <2>2. Reserved(b) \cap Reserved(a) = {}
    BY <1>0, <1>1, <2>1, GoodDisjoint
  <2>3. QED
    BY <1>2, <2>1, <2>2, OverlapIsIntersection
<1>7. Good(S, Unmap(m, base, n))
  BY <1>5, <1>6 DEF Good, Unmap, Arenas
<1>8. MapOrUpdate(m, base, n).mapped \in {m, m \cup Span(base, n)}
  BY DEF MapOrUpdate, RollBack, MappedSoFar
<1>9. Good(S, m \cup Span(base, n))
  BY <1>0, <1>1, <1>3, <1>4 DEF Good
<1>10. QED
  BY <1>7, <1>8, <1>9

-----------------------------------------------------------------------------
Inv == Good(allocs, mapped) /\ status \in {"running", "panicked"}

\* A handler that ends in Finish keeps the invariant.
LEMMA FinishKeepsInv ==
  ASSUME Inv, NEW x \in Arenas, NEW base, NEW spec \in Requests(x), NEW must,
         Finish(x, Alloc(allocs, mapped, x, base, spec), must)
  PROVE  Inv'
BY AllocKeepsGood DEF Inv, Finish

LEMMA InitGood == Init => Inv
<1> SUFFICES ASSUME Init PROVE Inv
  OBVIOUS
<1>1. Good([x \in Arenas |-> {}], StackPages)
  BY GuestMemoryAssumption DEF Good, Arenas
<1>2. QED
  BY <1>1 DEF Init, Inv

LEMMA NextKeepsInv == Inv /\ [Next]_vars => Inv'
<1> SUFFICES ASSUME Inv, [Next]_vars PROVE Inv'
  OBVIOUS
<1>0. /\ {"heap", "private", "virtual", "virtual_high", "module"} \subseteq Arenas
      /\ GuardSize \in Nat /\ Granularity \in Nat \ {0}
      /\ Sizes \subseteq Nat \ {0} /\ Guards \subseteq Nat
  BY GuestMemoryAssumption DEF Arenas
<1> USE <1>0 DEF FirstFit, FixedFit, AllocFirstFit, AllocAt, Alloc
<1>1. ASSUME NEW n \in Sizes, HeapAlloc(n) PROVE Inv'
  <2>1. HeapRequest(n) \in Requests("heap")
    BY DEF HeapRequest, Request, Requests, Guarded
  <2>2. QED
    BY <1>1, <2>1, FinishKeepsInv DEF HeapAlloc
<1>2. ASSUME NEW n \in Sizes, NEW must \in BOOLEAN, AllocPrivate(n, must) PROVE Inv'
  <2>1. HeapRequest(n) \in Requests("heap") /\ HeapRequest(n) \in Requests("private")
    BY DEF HeapRequest, Request, Requests, Guarded
  <2>2. QED
    BY <1>2, <2>1, FinishKeepsInv DEF AllocPrivate
<1>3. ASSUME NEW n \in Sizes, NEW must \in BOOLEAN, AllocCompact(n, must) PROVE Inv'
  <2>1. Request(n, 0, 0, 1) \in Requests("heap")
    BY DEF Request, Requests, Guarded
  <2>2. QED
    BY <1>3, <2>1, FinishKeepsInv DEF AllocCompact
<1>4. ASSUME NEW n \in Sizes, NEW before \in Guards, NEW after \in Guards,
             NEW must \in BOOLEAN, AllocWithGuards(n, before, after, must)
      PROVE  Inv'
  <2> DEFINE tail == IF after > GuardSize THEN after ELSE GuardSize
  <2>1. Request(n, before, tail, 1) \in Requests("heap")
    BY DEF Request, Requests, Guarded
  <2>2. QED
    BY <1>4, <2>1, FinishKeepsInv DEF AllocWithGuards
<1>5. ASSUME NEW addr \in Page, FreeAlloc(addr) PROVE Inv'
  BY <1>5, FreeAllocKeepsGood DEF FreeAlloc, Inv
<1>6. ASSUME NEW old \in Page, NEW n \in Sizes, HeapReAlloc(old, n) PROVE Inv'
  <2> DEFINE r == FirstFit("heap", allocs, mapped, HeapRequest(n))
             S == [allocs EXCEPT !["heap"] = r.allocs]
             f == FreeAllocIn(S, r.mapped, old)
  <2>1. HeapRequest(n) \in Requests("heap")
    BY DEF HeapRequest, Request, Requests, Guarded
  <2>2. Good(S, r.mapped)
    BY <2>1, AllocKeepsGood DEF Inv
  <2>3. CASE r.ok
    <3>1. Good(f.allocs, f.mapped)
      BY <2>2, FreeAllocKeepsGood
    <3>2. allocs' = f.allocs /\ mapped' = f.mapped /\ status' = status
      BY <1>6, <2>3 DEF HeapReAlloc
    <3>3. QED
      BY <3>1, <3>2 DEF Inv
  <2>4. CASE ~r.ok
    BY <1>6, <2>2, <2>4 DEF HeapReAlloc, Finish, Inv
  <2>5. QED
    BY <2>3, <2>4
<1>7. ASSUME NEW requested \in Page, NEW n \in Sizes, VirtualAllocAt(requested, n) PROVE Inv'
  <2>1. PICK x \in {"virtual", "virtual_high"} :
          VirtualCommit(x, requested, n) \/ VirtualReserveAt(x, requested, n)
    BY <1>7 DEF VirtualAllocAt
  <2>2. CASE VirtualCommit(x, requested, n)
    BY <2>2, CommitKeepsGood DEF VirtualCommit, Inv
  <2>3. CASE VirtualReserveAt(x, requested, n)
    <3>1. x \in Arenas /\ Request(n, 0, 0, 1) \in Requests(x)
      BY DEF Request, Requests, Guarded
    <3>2. QED
      BY <2>3, <3>1, FinishKeepsInv DEF VirtualReserveAt
  <2>4. QED
    BY <2>1, <2>2, <2>3
<1>8. ASSUME NEW n \in Sizes, VirtualAllocAnywhere(n) PROVE Inv'
  <2>1. AlignUp(n, Granularity) \in Nat \ {0}
    BY AlignUpAtLeast
  <2>2. Request(AlignUp(n, Granularity), 0, 0, Granularity) \in Requests("virtual")
    BY <2>1 DEF Request, Requests, Guarded
  <2>3. QED
    BY <1>8, <2>2, FinishKeepsInv DEF VirtualAllocAnywhere
<1>9. ASSUME NEW addr \in Page, VirtualRelease(addr) PROVE Inv'
  <2>1. PICK x \in {"virtual", "virtual_high"} :
          LET r == TryFree(allocs[x], mapped, Retains(x), addr)
          IN  allocs' = [allocs EXCEPT ![x] = r.allocs] /\ mapped' = r.mapped
    BY <1>9 DEF VirtualRelease
  <2>2. Good(allocs', mapped')
    BY <2>1, FreeKeepsGood DEF Inv
  <2>3. QED
    BY <1>9, <2>2 DEF VirtualRelease, Inv
<1>10. ASSUME NEW addr \in Page, NEW n \in Sizes, VirtualDecommit(addr, n) PROVE Inv'
  BY <1>10, CommitKeepsGood DEF VirtualDecommit, Inv
<1>11. ASSUME NEW base \in Page, NEW n \in Sizes, ReserveModuleImage(base, n) PROVE Inv'
  <2>1. Request(n, 0, 0, Granularity) \in Requests("module")
    BY DEF Request, Requests, Guarded
  <2>2. QED
    BY <1>11, <2>1, FinishKeepsInv DEF ReserveModuleImage
<1>12. ASSUME NEW n \in Sizes, AllocModuleImage(n) PROVE Inv'
  <2>1. Request(n, 0, 0, Granularity) \in Requests("module")
    BY DEF Request, Requests, Guarded
  <2>2. QED
    BY <1>12, <2>1, FinishKeepsInv DEF AllocModuleImage
<1>13. CASE UNCHANGED vars
  BY <1>13 DEF vars, Inv
<1>14. QED
  BY <1>1, <1>2, <1>3, <1>4, <1>5, <1>6, <1>7, <1>8, <1>9, <1>10, <1>11, <1>12, <1>13 DEF Next

\* The inductive invariant holds of every behaviour.
LEMMA AlwaysInv == Spec => []Inv
BY InitGood, NextKeepsInv, PTL DEF Spec

-----------------------------------------------------------------------------
\* The state has the declared types in every reachable state.
THEOREM TypeCorrect == Spec => []TypeOK
<1>1. Inv => TypeOK
  BY DEF Inv, Good, TypeOK
<1>2. QED
  BY <1>1, AlwaysInv, PTL

\* Reserved spans stay inside their arenas.
THEOREM InArenaAlways == Spec => []SpansInArena
<1>1. Inv => SpansInArena
  BY DEF Inv, Good, SpansInArena
<1>2. QED
  BY <1>1, AlwaysInv, PTL

\* No two reserved spans, guards included, ever share a page.
THEOREM DisjointAlways == Spec => []SpansDisjoint
<1>1. Inv => SpansDisjoint
  BY GoodDisjoint DEF Inv, SpansDisjoint
<1>2. QED
  BY <1>1, AlwaysInv, PTL

\* Live heap, private and module blocks stay backed by pages.
THEOREM BackedAlways == Spec => []PayloadBacked
<1>1. Inv => PayloadBacked
  BY DEF Inv, Good, PayloadBacked
<1>2. QED
  BY <1>1, AlwaysInv, PTL

\* The process stack stays mapped and is never handed out.
THEOREM StackAlwaysKept == Spec => []StackKept
<1>1. Inv => StackKept
  BY DEF Inv, Good, StackKept
<1>2. QED
  BY <1>1, AlwaysInv, PTL

\* Mapped pages are accounted for: failed requests leave none behind.
THEOREM NoLeakAlways == Spec => []NoLeakedPage
<1>1. Inv => NoLeakedPage
  BY DEF Inv, Good, NoLeakedPage
<1>2. QED
  BY <1>1, AlwaysInv, PTL

\* The redzones of every arena but the heap are never backed by pages.
THEOREM GuardsAlwaysUnmapped == Spec => []GuardsUnmapped
<1>1. Inv => GuardsUnmapped
  <2> SUFFICES ASSUME Inv, NEW x \in Arenas \ {"heap"}, NEW a \in allocs[x],
                      NEW p \in GuardPages(a), p \in mapped
               PROVE  FALSE
    BY DEF GuardsUnmapped
  <2>0. /\ Good(allocs, mapped)
        /\ a \in Allocation /\ InArena(a, Lo[x], Hi[x])
        /\ p \in Reserved(a) /\ p \notin Payload(a)
    BY DEF Inv, Good, GuardPages
  <2>1. x = "private"
    <3>1. ASSUME x \notin Guarded PROVE FALSE
      <4>1. a.before = 0 /\ a.after = 0
        BY <2>0, <3>1 DEF Good
      <4>2. QED
        BY <2>0, <4>1 DEF Reserved, ResBase, ResEnd, Payload, Span, Allocation, Page
    <3>2. QED
      BY <3>1 DEF Guarded
  <2>2. Lo[x] <= p /\ p < Hi[x] /\ p \in Int
    <3>1. Lo[x] \in Nat /\ Hi[x] \in Nat
      BY GuestMemoryAssumption DEF Page
    <3>2. QED
      BY <2>0, <3>1 DEF InArena, Reserved, ResBase, ResEnd, Allocation, Page
  <2>3. /\ {"heap", "private", "virtual_high"} \subseteq Arenas
        /\ \A y \in Arenas : Lo[y] \in Nat /\ Hi[y] \in Nat
    BY GuestMemoryAssumption DEF Arenas, Page
  <2>4. p \notin StackPages
    BY <2>1, <2>2, <2>3, GuestMemoryAssumption
  <2>5. ~(Lo["heap"] <= p /\ p < Hi["heap"])
    BY <2>1, <2>2, <2>3, GuestMemoryAssumption
  <2>6. PICK y \in Arenas : \E b \in allocs[y] : p \in Payload(b)
    BY <2>0, <2>4, <2>5 DEF Good
  <2>7. PICK b \in allocs[y] : p \in Payload(b)
    BY <2>6
  <2>8. p \in Reserved(b)
    BY <2>0, <2>7, OverlapIsIntersection DEF Good
  <2>9. x # y \/ a # b
    BY <2>0, <2>7
  <2>10. QED
    BY <2>0, <2>8, <2>9, GoodDisjoint
<1>2. QED
  BY <1>1, AlwaysInv, PTL

-----------------------------------------------------------------------------
(***************************************************************************)
(* First fit.                                                              *)
(***************************************************************************)

\* Rounding up finds the first multiple.
LEMMA AlignUpExact ==
  ASSUME NEW v \in Nat, NEW align \in Nat \ {0}
  PROVE  /\ AlignUp(v, align) \in Nat /\ AlignUp(v, align) >= v /\ AlignUp(v, align) % align = 0
         /\ \A b \in Nat : b % align = 0 /\ b >= v => b >= AlignUp(v, align)
<1> DEFINE w == v + align - 1
           q == w \div align
<1>1. w \in Nat /\ q \in Nat /\ w = align * q + (w % align) /\ (w % align) \in 0 .. align - 1
  OBVIOUS
<1>2. align * q >= v /\ align * q < v + align /\ align * q \in Nat
  BY <1>1
<1>3. AlignUp(v, align) = align * q
  BY <1>1 DEF AlignUp
<1>4. (align * q) % align = 0
  BY <1>1
<1>5. ASSUME NEW b \in Nat, b % align = 0, b >= v
      PROVE  b >= align * q
  <2> DEFINE c == b \div align
  <2>1. c \in Nat /\ b = align * c
    BY <1>5
  <2> HIDE DEF c, q
  <2>2. CASE c >= q
    <3>1. PICK d \in Nat : c = q + d
      BY <2>1, <2>2, <1>1
    <3>2. align * c = align * q + align * d /\ align * d >= 0
      BY <3>1, <1>1, <2>1
    <3> QED
      BY <3>2, <2>1, <1>2
  <2>3. CASE c < q
    <3>1. PICK d \in Nat : q = c + 1 + d
      BY <2>1, <2>3, <1>1
    <3>2. align * q = align * c + align + align * d /\ align * d >= 0
      BY <3>1, <1>1, <2>1
    <3> QED
      BY <3>2, <2>1, <1>2, <1>5
  <2> QED
    BY <2>1, <2>2, <2>3, <1>1
<1> QED
  BY <1>2, <1>3, <1>4, <1>5

\* The places for a request among the allocations A of an arena lo .. hi - 1.
Free(A, lo, hi, spec) ==
  {b \in Nat : /\ b % spec.align = 0
               /\ InArena(Place(b, spec), lo, hi)
               /\ \A c \in A : ~Overlaps(Place(b, spec), c)}

\* find_free_base answers with the first place there is, and with none only when
\* there is none: the holes it tries hold every place, in order.
LEMMA FirstFitExact ==
  ASSUME NEW A \in SUBSET Allocation, NEW lo \in Nat, NEW hi \in Nat, lo <= hi,
         \A a \in A : InArena(a, lo, hi), \A a, b \in A : a # b => ~Overlaps(a, b),
         NEW spec \in [size : Nat \ {0}, before : Nat, after : Nat, align : Nat \ {0}],
         NEW f, f = FindFreeBase(A, lo, hi, spec)
  PROVE  /\ Free(A, lo, hi, spec) = {} => f = NoBase
         /\ Free(A, lo, hi, spec) # {} =>
              f \in Free(A, lo, hi, spec) /\ \A b \in Free(A, lo, hi, spec) : f <= b
<1> DEFINE holes == HoleStarts(A, lo)
           end(from) == HoleEnd(A, from, hi)
           fit(from) == FitInHole(from, end(from), spec)
           fitting == {from \in holes : fit(from) # NoBase}
           free == Free(A, lo, hi, spec)
<1>1. /\ spec.size \in Nat /\ spec.size > 0 /\ spec.before \in Nat /\ spec.after \in Nat
      /\ spec.align \in Nat \ {0}
  OBVIOUS
<1>2. \A c \in A : /\ ResBase(c) \in Nat /\ ResEnd(c) \in Nat
                   /\ lo <= ResBase(c) /\ ResBase(c) < ResEnd(c) /\ ResEnd(c) <= hi
  BY DEF InArena, ResBase, ResEnd, Allocation, Page
<1>3. \A c, d \in A : c # d => ResEnd(c) <= ResBase(d) \/ ResEnd(d) <= ResBase(c)
  BY <1>2 DEF Overlaps
<1>4. \A b \in Nat : /\ ResBase(Place(b, spec)) = b - spec.before
                     /\ ResEnd(Place(b, spec)) = b + spec.size + spec.after
  BY DEF ResBase, ResEnd, Place
<1>5. \A b : b \in free <=> /\ b \in Nat /\ b % spec.align = 0
                            /\ b - spec.before >= lo /\ b + spec.size + spec.after <= hi
                            /\ \A c \in A : \/ b + spec.size + spec.after <= ResBase(c)
                                            \/ ResEnd(c) <= b - spec.before
  BY <1>1, <1>2, <1>4 DEF Free, InArena, Overlaps
<1>6. /\ holes \subseteq Nat /\ lo \in holes /\ \A h \in holes : lo <= h
      /\ \A h \in holes : h = lo \/ \E c \in A : h = ResEnd(c)
      /\ \A c \in A : ResEnd(c) \in holes
  BY <1>2 DEF HoleStarts
<1>7. ASSUME NEW from \in Nat
      PROVE  /\ end(from) \in Nat /\ end(from) <= hi
             /\ \A c \in A : ResBase(c) >= from => end(from) <= ResBase(c)
             /\ end(from) = hi \/ \E c \in A : ResBase(c) >= from /\ end(from) = ResBase(c)
  <2> DEFINE ends == {hi} \cup {ResBase(c) : c \in {d \in A : ResBase(d) >= from}}
  <2>1. ends \in SUBSET Nat /\ ends # {} /\ end(from) = Min(ends)
    BY <1>2 DEF HoleEnd
  <2>2. end(from) \in ends /\ \A y \in ends : end(from) <= y
    <3> HIDE DEF ends, end
    <3> QED
      BY <2>1, MinIsLeast
  <2> QED
    BY <1>2, <2>1, <2>2
<1>8. ASSUME NEW from \in Nat
      PROVE  LET b == AlignUp(from + spec.before, spec.align)
             IN  /\ b \in Nat /\ b >= from + spec.before /\ b % spec.align = 0
                 /\ \A k \in Nat : k % spec.align = 0 /\ k >= from + spec.before => k >= b
                 /\ fit(from) = IF b + spec.size + spec.after <= end(from) THEN b ELSE NoBase
  <2> DEFINE b == AlignUp(from + spec.before, spec.align)
  <2>1. from + spec.before \in Nat
    BY <1>1
  <2>2. /\ b \in Nat /\ b >= from + spec.before /\ b % spec.align = 0
        /\ \A k \in Nat : k % spec.align = 0 /\ k >= from + spec.before => k >= b
    BY <1>1, <2>1, AlignUpExact
  <2>3. fit(from) = IF b - spec.before >= from /\ b + spec.size + spec.after <= end(from) THEN b ELSE NoBase
    BY DEF FitInHole
  <2>4. b - spec.before >= from
    BY <1>1, <2>2
  <2> QED
    BY <2>2, <2>3, <2>4
<1> HIDE DEF holes, end, fit, free
<1>9. ASSUME NEW from \in fitting
      PROVE  /\ from \in holes /\ from \in Nat /\ fit(from) \in Nat
             /\ fit(from) >= from + spec.before /\ fit(from) % spec.align = 0
             /\ fit(from) + spec.size + spec.after <= end(from)
  BY <1>6, <1>8 DEF NoBase
\* What fits in a hole is free there.
<1>10. ASSUME NEW from \in fitting PROVE fit(from) \in free
  <2> DEFINE b == fit(from)
  <2>1. /\ b \in Nat /\ b % spec.align = 0 /\ b - spec.before >= from /\ from >= lo
        /\ b + spec.size + spec.after <= end(from) /\ end(from) <= hi /\ from \in Nat
        /\ end(from) \in Nat
    BY <1>1, <1>6, <1>7, <1>9
  <2>2. ASSUME NEW c \in A, ResBase(c) < from
        PROVE  ResEnd(c) <= from
    <3>1. PICK d \in A : from = ResEnd(d)
      BY <1>2, <1>6, <1>9, <2>2
    <3> QED
      BY <1>2, <1>3, <2>2, <3>1
  <2>3. \A c \in A : b + spec.size + spec.after <= ResBase(c) \/ ResEnd(c) <= b - spec.before
    <3> SUFFICES ASSUME NEW c \in A
                 PROVE  b + spec.size + spec.after <= ResBase(c) \/ ResEnd(c) <= b - spec.before
      OBVIOUS
    <3>1. CASE ResBase(c) < from
      BY <1>1, <1>2, <2>1, <2>2, <3>1
    <3>2. CASE ResBase(c) >= from
      BY <1>1, <1>2, <1>7, <2>1, <3>2
    <3> QED
      BY <1>2, <2>1, <3>1, <3>2
  <2> QED
    BY <1>1, <1>5, <2>1, <2>3
\* A free place is in a hole that fits, and the first hole that fits has one no later.
<1>11. ASSUME NEW b \in free
       PROVE  /\ fitting # {}
              /\ \A first \in fitting : (\A h \in fitting : first <= h) => fit(first) <= b
  <2> DEFINE before == {h \in holes : h <= b - spec.before}
  <2>1. /\ b \in Nat /\ b % spec.align = 0 /\ b - spec.before \in Nat
        /\ b - spec.before >= lo /\ b + spec.size + spec.after <= hi
    BY <1>1, <1>5
  <2>2. PICK h \in before : \A k \in before : k <= h
    <3>1. before \in SUBSET Nat /\ before # {} /\ \A k \in before : k <= b - spec.before
      BY <1>6, <2>1
    <3> HIDE DEF before
    <3> QED
      BY <2>1, <3>1, GreatestNatural
  <2>3. h \in holes /\ h \in Nat /\ h <= b - spec.before
    BY <1>6
  <2>4. b + spec.size + spec.after <= end(h)
    <3>1. CASE end(h) = hi
      BY <2>1, <3>1
    <3>2. CASE \E c \in A : ResBase(c) >= h /\ end(h) = ResBase(c)
      <4>1. PICK c \in A : ResBase(c) >= h /\ end(h) = ResBase(c)
        BY <3>2
      <4>2. ~ (ResEnd(c) <= b - spec.before)
        <5>1. ASSUME ResEnd(c) <= b - spec.before PROVE FALSE
          <6>1. ResEnd(c) \in before
            BY <1>6, <5>1
          <6>2. ResEnd(c) <= h
            BY <2>2, <6>1
          <6> QED
            BY <1>2, <2>3, <4>1, <6>2
        <5> QED
          BY <5>1
      <4> QED
        BY <1>5, <4>1, <4>2
    <3> QED
      BY <1>7, <2>3, <3>1, <3>2
  <2>5. /\ fit(h) # NoBase /\ fit(h) <= b /\ fit(h) \in Nat
    <3> DEFINE up == AlignUp(h + spec.before, spec.align)
    <3>1. /\ up \in Nat /\ up <= b
          /\ fit(h) = IF up + spec.size + spec.after <= end(h) THEN up ELSE NoBase
      <4>1. b >= h + spec.before
        BY <1>1, <2>1, <2>3
      <4> QED
        BY <1>8, <2>1, <2>3, <4>1
    <3>2. up + spec.size + spec.after <= end(h)
      <4>1. end(h) \in Nat
        BY <1>7, <2>3
      <4> QED
        BY <1>1, <2>1, <2>4, <3>1, <4>1
    <3> QED
      BY <3>1, <3>2 DEF NoBase
  <2>6. h \in fitting
    BY <2>3, <2>5
  <2>7. ASSUME NEW first \in fitting, \A k \in fitting : first <= k
        PROVE  fit(first) <= b
    <3>1. first <= h
      BY <2>6, <2>7
    <3>2. CASE first = h
      BY <2>5, <3>2
    <3>3. CASE first < h
      <4>1. first \in Nat /\ fit(first) \in Nat /\ first \in holes /\ first >= lo
        BY <1>6, <1>9
      <4>2. PICK d \in A : h = ResEnd(d)
        BY <1>6, <2>3, <3>3, <4>1
      <4>3. ResBase(d) >= first
        <5>1. CASE first = lo
          BY <1>2, <5>1
        <5>2. CASE \E e \in A : first = ResEnd(e)
          BY <1>2, <1>3, <3>3, <4>2, <5>2
        <5> QED
          BY <1>6, <4>1, <5>1, <5>2
      <4>4. end(first) \in Nat /\ end(first) <= ResBase(d)
        BY <1>7, <4>1, <4>3
      <4> QED
        BY <1>1, <1>2, <1>9, <2>1, <2>3, <4>1, <4>2, <4>4
    <3> QED
      BY <1>6, <1>9, <2>3, <3>1, <3>2, <3>3
  <2> QED
    BY <2>6, <2>7
<1>12. f = IF fitting = {} THEN NoBase ELSE fit(Min(fitting))
  BY DEF FindFreeBase, holes, end, fit
<1>13. CASE fitting = {}
  BY <1>11, <1>12, <1>13 DEF free
<1>14. CASE fitting # {}
  <2> DEFINE first == Min(fitting)
  <2>1. fitting \in SUBSET Nat
    BY <1>6
  <2>2. first \in fitting /\ \A h \in fitting : first <= h
    <3> HIDE DEF fitting
    <3> QED
      BY <1>14, <2>1, MinIsLeast
  <2>3. f = fit(first)
    BY <1>12, <1>14
  <2> HIDE DEF first, fitting
  <2>4. f \in free /\ \A b \in free : f <= b
    BY <1>10, <1>11, <2>2, <2>3
  <2> QED
    BY <2>4 DEF free
<1> QED
  BY <1>13, <1>14

\* While the host refuses nothing, a payload placed in a free part of an arena
\* that keeps away from the stack can be backed.
LEMMA FreePartBacked ==
  ASSUME NEW S, NEW m, Good(S, m), HostPages = {}, NEW x \in Arenas \ {"virtual_high"},
         NEW a \in Allocation, InArena(a, Lo[x], Hi[x]), \A c \in S[x] : ~Overlaps(a, c)
  PROVE  Backing(m, a, Retains(x)).ok
<1>1. /\ Lo[x] \in Nat /\ Hi[x] \in Nat /\ Hi[x] <= NumPages /\ NumPages \in Nat
      /\ \A y \in Arenas : Lo[y] \in Nat /\ Hi[y] \in Nat
      /\ {"heap", "virtual_high"} \subseteq Arenas
  BY GuestMemoryAssumption, PageMapAssumption DEF Page, Arenas
<1>2. a.base + a.size <= NumPages /\ \A p \in Payload(a) : p \in Int /\ Lo[x] <= p /\ p < Hi[x]
  BY <1>1 DEF InArena, ResBase, ResEnd, Payload, Span, Allocation, Page
<1>3. CASE Retains(x)
  BY <1>2, <1>3 DEF Backing, MapOrUpdate, InAddressSpace, HostRefuses
<1>4. CASE ~Retains(x)
  <2>1. ASSUME NEW p \in Payload(a), p \in m PROVE FALSE
    <3>1. p \notin StackPages
      BY <1>1, <1>2, GuestMemoryAssumption
    <3>2. ~(Lo["heap"] <= p /\ p < Hi["heap"])
      BY <1>1, <1>2, <1>4, GuestMemoryAssumption DEF Retains
    <3>3. PICK y \in Arenas : \E b \in S[y] : p \in Payload(b)
      BY <2>1, <3>1, <3>2 DEF Good
    <3>4. PICK b \in S[y] : p \in Payload(b)
      BY <3>3
    <3>5. b \in Allocation /\ InArena(b, Lo[y], Hi[y])
      BY DEF Good
    <3>6. Reserved(a) \cap Reserved(b) = {}
      BY <3>5, ArenasApart, OverlapIsIntersection
    <3> QED
      BY <2>1, <3>4, <3>5, <3>6, OverlapIsIntersection
  <2> QED
    BY <1>2, <1>4, <2>1 DEF Backing, MapNew, InAddressSpace, HostRefuses, Payload
<1> QED
  BY <1>3, <1>4

\* A request succeeds exactly when there is room for it, and gets the first
\* place, however long the history of allocations and frees was.  Where the host
\* refuses a page the first place may fail, so that is left out.
THEOREM FirstFitAlwaysExact == HostPages = {} => (Spec => []FirstFitIsExact)
<1> SUFFICES ASSUME HostPages = {} PROVE Spec => []FirstFitIsExact
  OBVIOUS
<1>1. ASSUME Inv PROVE FirstFitIsExact
  <2> SUFFICES ASSUME NEW x \in Arenas \ {"virtual_high"}, NEW n \in Sizes, NEW before \in Guards,
                      NEW after \in Guards, NEW align \in {1, Granularity}
               PROVE  LET spec == Request(n, before, after, align)
                          r    == FirstFit(x, allocs, mapped, spec)
                      IN  /\ r.ok <=> Placements(x, spec) # {}
                          /\ r.ok => r.base \in Placements(x, spec) /\ \A b \in Placements(x, spec) : r.base <= b
    BY DEF FirstFitIsExact
  <2> DEFINE spec == Request(n, before, after, align)
             A == allocs[x]
             r == FirstFit(x, allocs, mapped, spec)
             f == FindFreeBase(A, Lo[x], Hi[x], spec)
             free == Free(A, Lo[x], Hi[x], spec)
  <2>1. spec \in [size : Nat \ {0}, before : Nat, after : Nat, align : Nat \ {0}]
    BY GuestMemoryAssumption DEF Request
  <2>2. /\ A \in SUBSET Allocation /\ \A a \in A : InArena(a, Lo[x], Hi[x])
        /\ \A a, b \in A : a # b => ~Overlaps(a, b)
        /\ Good(allocs, mapped)
    BY <1>1 DEF Inv, Good
  <2>3. Lo[x] \in Nat /\ Hi[x] \in Nat /\ Lo[x] <= Hi[x] /\ Hi[x] <= NumPages /\ NumPages \in Nat
    BY GuestMemoryAssumption, PageMapAssumption DEF Page
  <2>4. ASSUME NEW b \in Nat, InArena(Place(b, spec), Lo[x], Hi[x])
        PROVE  Place(b, spec) \in Allocation /\ b \in Page /\ b \in Lo[x] .. Hi[x]
    BY <2>1, <2>3, <2>4 DEF Place, InArena, ResBase, ResEnd, Allocation, Page
  <2>5. Placements(x, spec) = free
    <3>1. \A b \in Nat : InArena(Place(b, spec), Lo[x], Hi[x]) =>
            \A c \in A : ~Overlaps(Place(b, spec), c) <=> Reserved(Place(b, spec)) \cap Reserved(c) = {}
      BY <2>2, <2>4, OverlapIsIntersection
    <3>2. Lo[x] .. Hi[x] \subseteq Nat
      BY <2>3
    <3> QED
      BY <2>4, <3>1, <3>2 DEF Placements, Free
  <2>6. /\ free = {} => f = NoBase
        /\ free # {} => f \in free /\ \A b \in free : f <= b
    BY <2>1, <2>2, <2>3, FirstFitExact
  <2>7. r = AllocAtChecked(A, mapped, Lo[x], Hi[x], Retains(x), f, spec)
    BY DEF FirstFit, AllocFirstFit
  <2> DEFINE placed == f \in Page /\ InArena(Place(f, spec), Lo[x], Hi[x])
                     /\ \A c \in A : ~Overlaps(Place(f, spec), c)
             backing == Backing(mapped, Place(f, spec), Retains(x))
  <2>8. r.base = f /\ (r.ok <=> placed /\ backing.ok)
    <3> HIDE DEF f, spec, A
    <3>1. /\ r.base = f
          /\ r.ok = (placed /\ backing.ok)
      BY <2>7 DEF AllocAtChecked
    <3> QED
      BY <3>1
  <2>9. CASE free = {}
    BY <2>3, <2>5, <2>6, <2>8, <2>9 DEF NoBase, Page
  <2>10. CASE free # {}
    <3>1. /\ f \in Nat /\ InArena(Place(f, spec), Lo[x], Hi[x])
          /\ \A c \in A : ~Overlaps(Place(f, spec), c)
      BY <2>6, <2>10 DEF Free
    <3>2. Place(f, spec) \in Allocation /\ f \in Page
      BY <2>4, <3>1
    <3>3. Backing(mapped, Place(f, spec), Retains(x)).ok
      BY <1>1, <2>2, <3>1, <3>2, FreePartBacked
    <3> QED
      BY <2>5, <2>6, <2>8, <2>10, <3>1, <3>2, <3>3
  <2> QED
    BY <2>9, <2>10
<1> QED
  <2>1. Inv => FirstFitIsExact
    BY <1>1
  <2> QED
    BY <2>1, AlwaysInv, PTL

-----------------------------------------------------------------------------
(***************************************************************************)
(* The arenas implement AddressSpace.  SpanSet is the refinement mapping;  *)
(* its two lemmas say what an allocation and a release do to it, and the   *)
(* step of HeapReAlloc, which is one of each, follows from both.           *)
(***************************************************************************)
SpanSet(S) == UNION {{Reserved(a) : a \in S[x]} : x \in Arenas}

LEMMA SpanSetMembers ==
  ASSUME NEW S, NEW s
  PROVE  s \in SpanSet(S) <=> \E x \in Arenas : \E a \in S[x] : s = Reserved(a)
BY DEF SpanSet

\* What an allocation and a release may do to the set of spans, and how a step
\* may change it: as a step of AddressSpace does, or not at all.
Grows(X, Y) ==
  \E s \in Y \ X : AbstractSpace!Interval(s) /\ (\A t \in X : s \cap t = {}) /\ Y = X \cup {s}

Shrinks(X, Y) == Y = X \/ \E t \in X : Y = X \ {t}

Moves(X, Y) ==
  \E s \in Y \ X, t \in X :
    AbstractSpace!Interval(s) /\ (\A u \in X : s \cap u = {}) /\ Y = (X \ {t}) \cup {s}

SpanStep(X, Y) == Grows(X, Y) \/ Shrinks(X, Y) \/ Moves(X, Y)

\* The reserved span of a block inside its arena is an interval of pages.
LEMMA ReservedIsInterval ==
  ASSUME NEW x \in Arenas, NEW a \in Allocation, InArena(a, Lo[x], Hi[x])
  PROVE  AbstractSpace!Interval(Reserved(a)) /\ Reserved(a) # {}
<1>1. Lo[x] \in Nat /\ Hi[x] \in Nat /\ Hi[x] <= NumPages /\ NumPages \in Nat
  BY GuestMemoryAssumption, PageMapAssumption DEF Page
<1> DEFINE lo == ResBase(a)
           hi == ResEnd(a) - 1
<1>2. lo \in 0 .. NumPages - 1 /\ hi \in 0 .. NumPages - 1 /\ lo <= hi
  BY <1>1 DEF InArena, ResBase, ResEnd, Allocation, Page
<1>3. Reserved(a) = lo .. hi
  BY DEF Reserved
<1>4. lo \in Reserved(a)
  BY <1>2, <1>3
<1> QED
  BY <1>2, <1>3, <1>4 DEF AbstractSpace!Interval

\* Two blocks with the same reserved span, wherever they are, are one block.
LEMMA SpanNamesBlock ==
  ASSUME NEW S, NEW m, Good(S, m), NEW x \in Arenas, NEW y \in Arenas,
         NEW a \in S[x], NEW b \in S[y], Reserved(a) = Reserved(b)
  PROVE  x = y /\ a = b
<1>1. Reserved(a) # {}
  BY ReservedIsInterval DEF Good
<1> QED
  BY <1>1, GoodDisjoint

\* An allocation adds one interval that touches no other.
LEMMA PlacedAddsSpan ==
  ASSUME NEW S, NEW m, Good(S, m), NEW x \in Arenas, NEW base, NEW spec \in Requests(x),
         NEW r, Placed(S, m, x, base, spec, r)
  PROVE  Grows(SpanSet(S), SpanSet([S EXCEPT ![x] = r.allocs]))
<1> DEFINE a == Place(base, spec)
           s == Reserved(a)
           T == [S EXCEPT ![x] = r.allocs]
<1>1. /\ S \in [Arenas -> SUBSET Allocation] /\ a \in Allocation /\ InArena(a, Lo[x], Hi[x])
      /\ \A b \in S[x] : ~Overlaps(a, b)
      /\ r.allocs = S[x] \cup {a}
  BY DEF Good, Placed
<1>2. T[x] = S[x] \cup {a} /\ \A y \in Arenas : y # x => T[y] = S[y]
  BY <1>1
<1>3. AbstractSpace!Interval(s) /\ s # {}
  BY <1>1, ReservedIsInterval
<1>4. ASSUME NEW t \in SpanSet(S) PROVE s \cap t = {}
  <2>1. PICK y \in Arenas : \E b \in S[y] : t = Reserved(b)
    BY <1>4, SpanSetMembers
  <2>2. PICK b \in S[y] : t = Reserved(b)
    BY <2>1
  <2>3. b \in Allocation /\ InArena(b, Lo[y], Hi[y])
    BY DEF Good
  <2>4. CASE y = x
    BY <1>1, <2>2, <2>3, <2>4, OverlapIsIntersection
  <2>5. CASE y # x
    BY <1>1, <2>2, <2>3, <2>5, ArenasApart
  <2> QED
    BY <2>4, <2>5
<1>5. SpanSet(T) = SpanSet(S) \cup {s}
  <2> HIDE DEF a, s, T
  <2>1. ASSUME NEW t PROVE t \in SpanSet(T) <=> t \in SpanSet(S) \cup {Reserved(a)}
    BY <1>2, SpanSetMembers
  <2> QED
    BY <2>1 DEF s
<1>6. s \notin SpanSet(S)
  BY <1>3, <1>4
<1>7. Grows(SpanSet(S), SpanSet(T))
  <2> HIDE DEF s, T
  <2> QED
    BY <1>3, <1>4, <1>5, <1>6 DEF Grows
<1> QED
  BY <1>7

\* A release takes away the span of one block, or nothing when no block of the
\* arena starts at `base`.
LEMMA FreeRemovesSpan ==
  ASSUME NEW S, NEW m, Good(S, m), NEW x \in Arenas, NEW base,
         NEW r, r = TryFree(S[x], m, Retains(x), base)
  PROVE  Shrinks(SpanSet(S), SpanSet([S EXCEPT ![x] = r.allocs]))
<1> DEFINE T == [S EXCEPT ![x] = r.allocs]
           gone == ByBase(S[x], base)
<1>1. S \in [Arenas -> SUBSET Allocation] /\ r.allocs = S[x] \ gone
  BY DEF Good, TryFree
<1>2. T[x] = S[x] \ gone /\ \A y \in Arenas : y # x => T[y] = S[y]
  BY <1>1
<1>3. CASE gone = {}
  <2>1. T = S
    BY <1>1, <1>3
  <2> QED
    BY <2>1 DEF Shrinks
<1>4. CASE gone # {}
  <2>1. PICK b \in gone : TRUE
    BY <1>4
  <2>2. b \in S[x] /\ b \in Allocation /\ b.base = base
    BY <1>1, <2>1 DEF ByBase
  <2>3. gone = {b}
    <3> SUFFICES ASSUME NEW c \in gone PROVE c = b
      BY <2>1
    <3>1. c \in S[x] /\ c \in Allocation /\ c.base = base
      BY <1>1 DEF ByBase
    <3>2. Overlaps(b, c)
      BY <2>2, <3>1 DEF Overlaps, ResBase, ResEnd, Allocation, Page
    <3> QED
      BY <2>2, <3>1, <3>2 DEF Good
  <2>4. Reserved(b) \in SpanSet(S)
    BY <2>2, SpanSetMembers
  <2>5. ASSUME NEW t PROVE t \in SpanSet(T) <=> t \in SpanSet(S) /\ t # Reserved(b)
    <3>1. t \in SpanSet(T) <=>
            \E y \in Arenas : \E c \in S[y] : t = Reserved(c) /\ ~(y = x /\ c = b)
      <4> HIDE DEF T
      <4> QED
        BY <1>2, <2>3, SpanSetMembers
    <3>2. \A y \in Arenas : \A c \in S[y] : Reserved(c) = Reserved(b) <=> y = x /\ c = b
      BY <2>2, SpanNamesBlock
    <3> QED
      BY <3>1, <3>2, SpanSetMembers
  <2>6. SpanSet(T) = SpanSet(S) \ {Reserved(b)}
    <3> HIDE DEF T
    <3> QED
      BY <2>5
  <2>7. Shrinks(SpanSet(S), SpanSet(T))
    <3> HIDE DEF T
    <3> QED
      BY <2>4, <2>6 DEF Shrinks
  <2> QED
    BY <2>7
<1> QED
  BY <1>3, <1>4

\* Hle::free_alloc releases at most one span.
LEMMA FreeAllocRemovesSpan ==
  ASSUME NEW S, NEW m, Good(S, m), NEW addr
  PROVE  Shrinks(SpanSet(S), SpanSet(FreeAllocIn(S, m, addr).allocs))
<1> DEFINE h == TryFree(S["heap"], m, Retains("heap"), addr)
           p == TryFree(S["private"], m, Retains("private"), addr)
<1>1. FreeAllocIn(S, m, addr).allocs
        \in {S, [S EXCEPT !["heap"] = h.allocs], [S EXCEPT !["private"] = p.allocs]}
  BY DEF FreeAllocIn
<1>2. Shrinks(SpanSet(S), SpanSet(S))
  BY DEF Shrinks
<1>3. Shrinks(SpanSet(S), SpanSet([S EXCEPT !["heap"] = h.allocs]))
  BY FreeRemovesSpan DEF Arenas
<1>4. Shrinks(SpanSet(S), SpanSet([S EXCEPT !["private"] = p.allocs]))
  BY FreeRemovesSpan DEF Arenas
<1> QED
  BY <1>1, <1>2, <1>3, <1>4

LEMMA AllocIsSpanStep ==
  ASSUME NEW S, NEW m, Good(S, m), NEW x \in Arenas, NEW base, NEW spec \in Requests(x),
         NEW r, r = Alloc(S, m, x, base, spec)
  PROVE  SpanStep(SpanSet(S), SpanSet([S EXCEPT ![x] = r.allocs]))
<1>1. S \in [Arenas -> SUBSET Allocation] /\ m \in SUBSET Page
  BY DEF Good
<1>2. CASE r.ok
  <2>1. Placed(S, m, x, base, spec, r)
    BY <1>1, <1>2, AllocAllOrNothing
  <2> QED
    BY <2>1, PlacedAddsSpan DEF SpanStep
<1>3. CASE ~r.ok
  <2>1. r.allocs = S[x]
    BY <1>1, <1>3, AllocAllOrNothing
  <2>2. [S EXCEPT ![x] = r.allocs] = S
    BY <1>1, <2>1
  <2> QED
    BY <2>2 DEF SpanStep, Shrinks
<1> QED
  BY <1>2, <1>3

\* Allocating and then freeing is one step: Reserve when the freed pointer was
\* stale, nothing when it named the new block, and Replace otherwise.
LEMMA GrowThenShrink ==
  ASSUME NEW X, NEW Y, NEW Z, Grows(X, Y), Shrinks(Y, Z)
  PROVE  SpanStep(X, Z)
<1>1. PICK s \in Y \ X : /\ AbstractSpace!Interval(s) /\ \A t \in X : s \cap t = {}
                         /\ Y = X \cup {s}
  BY DEF Grows
<1>2. CASE Z = Y
  BY <1>2 DEF SpanStep
<1>3. CASE Z = Y \ {s}
  <2>1. Z = X
    BY <1>1, <1>3
  <2> QED
    BY <2>1 DEF SpanStep, Shrinks
<1>4. ASSUME NEW t \in X, Z = Y \ {t} PROVE SpanStep(X, Z)
  <2>1. Z = (X \ {t}) \cup {s} /\ s \in Z \ X
    BY <1>1, <1>4
  <2> QED
    BY <1>1, <2>1 DEF SpanStep, Moves
<1> QED
  BY <1>1, <1>2, <1>3, <1>4 DEF Shrinks

LEMMA ReAllocIsSpanStep ==
  ASSUME NEW S, NEW m, Good(S, m), NEW base, NEW spec \in Requests("heap"), NEW addr,
         NEW r, r = Alloc(S, m, "heap", base, spec), r.ok
  PROVE  SpanStep(SpanSet(S),
                  SpanSet(FreeAllocIn([S EXCEPT !["heap"] = r.allocs], r.mapped, addr).allocs))
<1>1. S \in [Arenas -> SUBSET Allocation] /\ m \in SUBSET Page /\ "heap" \in Arenas
  BY DEF Good, Arenas
<1>2. Placed(S, m, "heap", base, spec, r)
  BY <1>1, AllocAllOrNothing
<1>3. Grows(SpanSet(S), SpanSet([S EXCEPT !["heap"] = r.allocs]))
  BY <1>1, <1>2, PlacedAddsSpan
<1>4. Good([S EXCEPT !["heap"] = r.allocs], r.mapped)
  BY <1>1, AllocKeepsGood
<1> QED
  BY <1>3, <1>4, FreeAllocRemovesSpan, GrowThenShrink

LEMMA FinishIsSpanStep ==
  ASSUME Inv, NEW x \in Arenas, NEW base, NEW spec \in Requests(x), NEW must,
         Finish(x, Alloc(allocs, mapped, x, base, spec), must)
  PROVE  SpanStep(SpanSet(allocs), SpanSet(allocs'))
BY AllocIsSpanStep DEF Inv, Finish

LEMMA NextIsSpanStep == Inv /\ [Next]_vars => SpanStep(SpanSet(allocs), SpanSet(allocs'))
<1> SUFFICES ASSUME Inv, [Next]_vars PROVE SpanStep(SpanSet(allocs), SpanSet(allocs'))
  OBVIOUS
<1>0. /\ {"heap", "private", "virtual", "virtual_high", "module"} \subseteq Arenas
      /\ GuardSize \in Nat /\ Granularity \in Nat \ {0}
      /\ Sizes \subseteq Nat \ {0} /\ Guards \subseteq Nat
  BY GuestMemoryAssumption DEF Arenas
<1> USE <1>0 DEF FirstFit, FixedFit, AllocFirstFit, AllocAt, Alloc
<1>1. ASSUME NEW n \in Sizes, HeapAlloc(n) PROVE SpanStep(SpanSet(allocs), SpanSet(allocs'))
  <2>1. HeapRequest(n) \in Requests("heap")
    BY DEF HeapRequest, Request, Requests, Guarded
  <2> QED
    BY <1>1, <2>1, FinishIsSpanStep DEF HeapAlloc
<1>2. ASSUME NEW n \in Sizes, NEW must \in BOOLEAN, AllocPrivate(n, must)
      PROVE  SpanStep(SpanSet(allocs), SpanSet(allocs'))
  <2>1. HeapRequest(n) \in Requests("heap") /\ HeapRequest(n) \in Requests("private")
    BY DEF HeapRequest, Request, Requests, Guarded
  <2> QED
    BY <1>2, <2>1, FinishIsSpanStep DEF AllocPrivate
<1>3. ASSUME NEW n \in Sizes, NEW must \in BOOLEAN, AllocCompact(n, must)
      PROVE  SpanStep(SpanSet(allocs), SpanSet(allocs'))
  <2>1. Request(n, 0, 0, 1) \in Requests("heap")
    BY DEF Request, Requests, Guarded
  <2> QED
    BY <1>3, <2>1, FinishIsSpanStep DEF AllocCompact
<1>4. ASSUME NEW n \in Sizes, NEW before \in Guards, NEW after \in Guards,
             NEW must \in BOOLEAN, AllocWithGuards(n, before, after, must)
      PROVE  SpanStep(SpanSet(allocs), SpanSet(allocs'))
  <2> DEFINE tail == IF after > GuardSize THEN after ELSE GuardSize
  <2>1. Request(n, before, tail, 1) \in Requests("heap")
    BY DEF Request, Requests, Guarded
  <2> QED
    BY <1>4, <2>1, FinishIsSpanStep DEF AllocWithGuards
<1>5. ASSUME NEW addr \in Page, FreeAlloc(addr) PROVE SpanStep(SpanSet(allocs), SpanSet(allocs'))
  BY <1>5, FreeAllocRemovesSpan DEF FreeAlloc, Inv, SpanStep
<1>6. ASSUME NEW old \in Page, NEW n \in Sizes, HeapReAlloc(old, n)
      PROVE  SpanStep(SpanSet(allocs), SpanSet(allocs'))
  <2> DEFINE r == FirstFit("heap", allocs, mapped, HeapRequest(n))
  <2>1. HeapRequest(n) \in Requests("heap")
    BY DEF HeapRequest, Request, Requests, Guarded
  <2>2. CASE r.ok
    <3>1. allocs' = FreeAllocIn([allocs EXCEPT !["heap"] = r.allocs], r.mapped, old).allocs
      BY <1>6, <2>2 DEF HeapReAlloc
    <3> QED
      BY <2>1, <2>2, <3>1, ReAllocIsSpanStep DEF Inv
  <2>3. CASE ~r.ok
    BY <1>6, <2>1, <2>3, FinishIsSpanStep DEF HeapReAlloc
  <2> QED
    BY <2>2, <2>3
<1>7. ASSUME NEW requested \in Page, NEW n \in Sizes, VirtualAllocAt(requested, n)
      PROVE  SpanStep(SpanSet(allocs), SpanSet(allocs'))
  <2>1. PICK x \in {"virtual", "virtual_high"} :
          VirtualCommit(x, requested, n) \/ VirtualReserveAt(x, requested, n)
    BY <1>7 DEF VirtualAllocAt
  <2>2. CASE VirtualCommit(x, requested, n)
    BY <2>2 DEF VirtualCommit, SpanStep, Shrinks
  <2>3. CASE VirtualReserveAt(x, requested, n)
    <3>1. x \in Arenas /\ Request(n, 0, 0, 1) \in Requests(x)
      BY DEF Request, Requests, Guarded
    <3> QED
      BY <2>3, <3>1, FinishIsSpanStep DEF VirtualReserveAt
  <2> QED
    BY <2>1, <2>2, <2>3
<1>8. ASSUME NEW n \in Sizes, VirtualAllocAnywhere(n)
      PROVE  SpanStep(SpanSet(allocs), SpanSet(allocs'))
  <2>1. AlignUp(n, Granularity) \in Nat \ {0}
    BY AlignUpAtLeast
  <2>2. Request(AlignUp(n, Granularity), 0, 0, Granularity) \in Requests("virtual")
    BY <2>1 DEF Request, Requests, Guarded
  <2> QED
    BY <1>8, <2>2, FinishIsSpanStep DEF VirtualAllocAnywhere
<1>9. ASSUME NEW addr \in Page, VirtualRelease(addr)
      PROVE  SpanStep(SpanSet(allocs), SpanSet(allocs'))
  <2>1. PICK x \in {"virtual", "virtual_high"} :
          allocs' = [allocs EXCEPT ![x] = TryFree(allocs[x], mapped, Retains(x), addr).allocs]
    BY <1>9 DEF VirtualRelease
  <2> QED
    BY <2>1, FreeRemovesSpan DEF Inv, SpanStep
<1>10. ASSUME NEW addr \in Page, NEW n \in Sizes, VirtualDecommit(addr, n)
       PROVE  SpanStep(SpanSet(allocs), SpanSet(allocs'))
  BY <1>10 DEF VirtualDecommit, SpanStep, Shrinks
<1>11. ASSUME NEW base \in Page, NEW n \in Sizes, ReserveModuleImage(base, n)
       PROVE  SpanStep(SpanSet(allocs), SpanSet(allocs'))
  <2>1. Request(n, 0, 0, Granularity) \in Requests("module")
    BY DEF Request, Requests, Guarded
  <2> QED
    BY <1>11, <2>1, FinishIsSpanStep DEF ReserveModuleImage
<1>12. ASSUME NEW n \in Sizes, AllocModuleImage(n)
       PROVE  SpanStep(SpanSet(allocs), SpanSet(allocs'))
  <2>1. Request(n, 0, 0, Granularity) \in Requests("module")
    BY DEF Request, Requests, Guarded
  <2> QED
    BY <1>12, <2>1, FinishIsSpanStep DEF AllocModuleImage
<1>13. CASE UNCHANGED vars
  BY <1>13 DEF vars, SpanStep, Shrinks
<1> QED
  BY <1>1, <1>2, <1>3, <1>4, <1>5, <1>6, <1>7, <1>8, <1>9, <1>10, <1>11, <1>12, <1>13 DEF Next

\* The arenas implement the abstract allocator: no step of any entry point does
\* more than hand out one interval that nobody owns, take one back, or both.
THEOREM AlwaysRefinesAddressSpace == Spec => RefinesAddressSpace
<1>1. Init => AbstractSpace!Init
  BY DEF Init, AbstractSpace!Init, Arenas
<1>2. Inv /\ [Next]_vars => [AbstractSpace!Next]_(UNION {{Reserved(a) : a \in allocs[x]} : x \in Arenas})
  <2> SUFFICES ASSUME Inv, [Next]_vars
               PROVE  \/ AbstractSpace!Next
                      \/ SpanSet(allocs') = SpanSet(allocs)
    BY DEF SpanSet
  <2>1. SpanStep(SpanSet(allocs), SpanSet(allocs'))
    BY NextIsSpanStep
  <2>2. ASSUME Grows(SpanSet(allocs), SpanSet(allocs')) PROVE AbstractSpace!Reserve
    BY <2>2 DEF Grows, SpanSet, AbstractSpace!Reserve, AbstractSpace!Free
  <2>3. ASSUME Shrinks(SpanSet(allocs), SpanSet(allocs'))
        PROVE  AbstractSpace!Release \/ SpanSet(allocs') = SpanSet(allocs)
    BY <2>3 DEF Shrinks, SpanSet, AbstractSpace!Release
  <2>4. ASSUME Moves(SpanSet(allocs), SpanSet(allocs')) PROVE AbstractSpace!Replace
    BY <2>4 DEF Moves, SpanSet, AbstractSpace!Replace, AbstractSpace!Free
  <2> QED
    BY <2>1, <2>2, <2>3, <2>4 DEF SpanStep, AbstractSpace!Next
<1> QED
  BY <1>1, <1>2, AlwaysInv, PTL DEF Spec, RefinesAddressSpace, AbstractSpace!Spec

-----------------------------------------------------------------------------
(***************************************************************************)
(* Whose pages a step maps and unmaps.                                     *)
(***************************************************************************)
PagesOwned(S, m, T, k) == k \ m \subseteq AllPayloads(T) /\ m \ k \subseteq AllPayloads(S)

LEMMA AllPayloadsMembers ==
  ASSUME NEW S, NEW p
  PROVE  p \in AllPayloads(S) <=> \E x \in Arenas : \E a \in S[x] : p \in Payload(a)
BY DEF AllPayloads

LEMMA AllocOwnsPages ==
  ASSUME NEW S, NEW m, Good(S, m), NEW x \in Arenas, NEW base, NEW spec \in Requests(x),
         NEW r, r = Alloc(S, m, x, base, spec)
  PROVE  PagesOwned(S, m, [S EXCEPT ![x] = r.allocs], r.mapped)
<1> DEFINE a == Place(base, spec)
           T == [S EXCEPT ![x] = r.allocs]
<1>1. S \in [Arenas -> SUBSET Allocation] /\ m \in SUBSET Page
  BY DEF Good
<1>2. CASE r.ok
  <2>1. r.allocs = S[x] \cup {a} /\ r.mapped = m \cup Payload(a)
    <3>1. Placed(S, m, x, base, spec, r)
      BY <1>1, <1>2, AllocAllOrNothing
    <3> QED
      BY <3>1 DEF Placed
  <2>2. a \in T[x]
    BY <1>1, <2>1
  <2>3. Payload(a) \subseteq AllPayloads(T)
    <3> HIDE DEF a, T
    <3> QED
      BY <2>2, AllPayloadsMembers
  <2>4. PagesOwned(S, m, T, r.mapped)
    <3> HIDE DEF a, T
    <3> QED
      BY <2>1, <2>3 DEF PagesOwned
  <2> QED
    BY <2>4
<1>3. CASE ~r.ok
  <2>1. r.mapped = m
    BY <1>1, <1>3, AllocAllOrNothing
  <2> QED
    BY <2>1 DEF PagesOwned
<1> QED
  BY <1>2, <1>3

\* A release maps nothing, and unmaps nothing in the arena that retains pages.
LEMMA FreeAllocUnmapsPayload ==
  ASSUME NEW S, NEW m, NEW addr, NEW k, k = FreeAllocIn(S, m, addr).mapped
  PROVE  k \subseteq m /\ \A p \in m \ k : \E a \in S["private"] : p \in Payload(a)
<1> DEFINE h == TryFree(S["heap"], m, Retains("heap"), addr)
           p == TryFree(S["private"], m, Retains("private"), addr)
<1>1. k \in {m, h.mapped, p.mapped}
  BY DEF FreeAllocIn
<1>2. h.mapped = m
  BY DEF TryFree, Retains
<1>3. p.mapped \subseteq m /\ \A q \in m \ p.mapped : \E a \in S["private"] : q \in Payload(a)
  BY DEF TryFree, ByBase
<1> QED
  BY <1>1, <1>2, <1>3

LEMMA FreeAllocOwnsPages ==
  ASSUME NEW S, NEW m, NEW addr, NEW r, r = FreeAllocIn(S, m, addr)
  PROVE  PagesOwned(S, m, r.allocs, r.mapped)
<1>1. "private" \in Arenas
  BY DEF Arenas
<1> QED
  BY <1>1, FreeAllocUnmapsPayload, AllPayloadsMembers DEF PagesOwned

LEMMA CommitOwnsPages ==
  ASSUME NEW S, NEW m, Good(S, m), NEW x \in {"virtual", "virtual_high"},
         NEW base \in Page, NEW n \in Nat, Containing(S[x], base, n) # {}
  PROVE  /\ PagesOwned(S, m, S, MapOrUpdate(m, base, n).mapped)
         /\ PagesOwned(S, m, S, Unmap(m, base, n))
<1>0. x \in Arenas /\ S \in [Arenas -> SUBSET Allocation]
  BY DEF Arenas, Good
<1>1. PICK a \in S[x] : a.base <= base /\ base + n <= a.base + a.size
  BY DEF Containing
<1>2. a \in Allocation
  BY <1>0
<1>3. Span(base, n) \subseteq Payload(a)
  BY <1>1, <1>2 DEF Span, Payload, Allocation, Page
<1>4. Span(base, n) \subseteq AllPayloads(S)
  BY <1>0, <1>1, <1>3, AllPayloadsMembers
<1>5. MapOrUpdate(m, base, n).mapped \in {m, m \cup Span(base, n)}
  BY DEF MapOrUpdate, RollBack, MappedSoFar
<1> QED
  BY <1>4, <1>5 DEF PagesOwned, Unmap

LEMMA FinishOwnsPages ==
  ASSUME Inv, NEW x \in Arenas, NEW base, NEW spec \in Requests(x), NEW must,
         Finish(x, Alloc(allocs, mapped, x, base, spec), must)
  PROVE  PagesOwned(allocs, mapped, allocs', mapped')
BY AllocOwnsPages DEF Inv, Finish

\* What OnlyOwnedPagesChange says of one step.
StepOwnsPages ==
  /\ \A p \in mapped' \ mapped :
        \/ p \in AllPayloads(allocs')
        \/ status' = "running" /\ Lo["heap"] <= p /\ p < Hi["heap"]
  /\ mapped \ mapped' \subseteq AllPayloads(allocs)

LEMMA NextOwnsPages == Inv /\ [Next]_vars => StepOwnsPages
<1> SUFFICES ASSUME Inv, [Next]_vars PROVE StepOwnsPages
  OBVIOUS
<1>a. PagesOwned(allocs, mapped, allocs', mapped') => StepOwnsPages
  BY DEF PagesOwned, StepOwnsPages
<1>0. /\ {"heap", "private", "virtual", "virtual_high", "module"} \subseteq Arenas
      /\ GuardSize \in Nat /\ Granularity \in Nat \ {0}
      /\ Sizes \subseteq Nat \ {0} /\ Guards \subseteq Nat
  BY GuestMemoryAssumption DEF Arenas
<1> USE <1>0, <1>a DEF FirstFit, FixedFit, AllocFirstFit, AllocAt, Alloc
<1>1. ASSUME NEW n \in Sizes, HeapAlloc(n) PROVE StepOwnsPages
  <2>1. HeapRequest(n) \in Requests("heap")
    BY DEF HeapRequest, Request, Requests, Guarded
  <2> QED
    BY <1>1, <2>1, FinishOwnsPages DEF HeapAlloc
<1>2. ASSUME NEW n \in Sizes, NEW must \in BOOLEAN, AllocPrivate(n, must)
      PROVE  StepOwnsPages
  <2>1. HeapRequest(n) \in Requests("heap") /\ HeapRequest(n) \in Requests("private")
    BY DEF HeapRequest, Request, Requests, Guarded
  <2> QED
    BY <1>2, <2>1, FinishOwnsPages DEF AllocPrivate
<1>3. ASSUME NEW n \in Sizes, NEW must \in BOOLEAN, AllocCompact(n, must)
      PROVE  StepOwnsPages
  <2>1. Request(n, 0, 0, 1) \in Requests("heap")
    BY DEF Request, Requests, Guarded
  <2> QED
    BY <1>3, <2>1, FinishOwnsPages DEF AllocCompact
<1>4. ASSUME NEW n \in Sizes, NEW before \in Guards, NEW after \in Guards,
             NEW must \in BOOLEAN, AllocWithGuards(n, before, after, must)
      PROVE  StepOwnsPages
  <2> DEFINE tail == IF after > GuardSize THEN after ELSE GuardSize
  <2>1. Request(n, before, tail, 1) \in Requests("heap")
    BY DEF Request, Requests, Guarded
  <2> QED
    BY <1>4, <2>1, FinishOwnsPages DEF AllocWithGuards
<1>5. ASSUME NEW addr \in Page, FreeAlloc(addr) PROVE StepOwnsPages
  BY <1>5, FreeAllocOwnsPages DEF FreeAlloc
<1>6. ASSUME NEW old \in Page, NEW n \in Sizes, HeapReAlloc(old, n) PROVE StepOwnsPages
  <2> DEFINE r == FirstFit("heap", allocs, mapped, HeapRequest(n))
             S == [allocs EXCEPT !["heap"] = r.allocs]
  <2>1. HeapRequest(n) \in Requests("heap")
    BY DEF HeapRequest, Request, Requests, Guarded
  <2>2. CASE r.ok
    <3>1. /\ mapped' = FreeAllocIn(S, r.mapped, old).mapped
          /\ status = "running" /\ status' = status
      BY <1>6, <2>2 DEF HeapReAlloc
    <3>2. PICK a \in Allocation : /\ InArena(a, Lo["heap"], Hi["heap"])
                                  /\ r.mapped = mapped \cup Payload(a)
      <4>1. Placed(allocs, mapped, "heap", FindFreeBase(allocs["heap"], Lo["heap"], Hi["heap"], HeapRequest(n)),
                   HeapRequest(n), r)
        BY <2>1, <2>2, AllocAllOrNothing DEF Inv, Good
      <4> QED
        BY <4>1 DEF Placed
    <3>3. /\ mapped' \subseteq r.mapped
          /\ \A p \in r.mapped \ mapped' : \E b \in allocs["private"] : p \in Payload(b)
      <4>1. S["private"] = allocs["private"]
        BY DEF Inv, Good
      <4> HIDE DEF S, r
      <4> QED
        BY <3>1, <4>1, FreeAllocUnmapsPayload
    <3>4. \A p \in Payload(a) : Lo["heap"] <= p /\ p < Hi["heap"]
      <4>1. Lo["heap"] \in Nat /\ Hi["heap"] \in Nat
        BY GuestMemoryAssumption DEF Page
      <4> QED
        BY <3>2, <4>1 DEF InArena, ResBase, ResEnd, Payload, Span, Allocation, Page
    <3>5. mapped \ mapped' \subseteq AllPayloads(allocs)
      BY <3>2, <3>3, AllPayloadsMembers
    <3> QED
      BY <3>1, <3>2, <3>3, <3>4, <3>5 DEF StepOwnsPages
  <2>3. CASE ~r.ok
    BY <1>6, <2>1, <2>3, FinishOwnsPages DEF HeapReAlloc
  <2> QED
    BY <2>2, <2>3
<1>7. ASSUME NEW requested \in Page, NEW n \in Sizes, VirtualAllocAt(requested, n)
      PROVE  StepOwnsPages
  <2>1. PICK x \in {"virtual", "virtual_high"} :
          VirtualCommit(x, requested, n) \/ VirtualReserveAt(x, requested, n)
    BY <1>7 DEF VirtualAllocAt
  <2>2. CASE VirtualCommit(x, requested, n)
    BY <2>2, CommitOwnsPages DEF VirtualCommit, Inv
  <2>3. CASE VirtualReserveAt(x, requested, n)
    <3>1. x \in Arenas /\ Request(n, 0, 0, 1) \in Requests(x)
      BY DEF Request, Requests, Guarded
    <3> QED
      BY <2>3, <3>1, FinishOwnsPages DEF VirtualReserveAt
  <2> QED
    BY <2>1, <2>2, <2>3
<1>8. ASSUME NEW n \in Sizes, VirtualAllocAnywhere(n)
      PROVE  StepOwnsPages
  <2>1. AlignUp(n, Granularity) \in Nat \ {0}
    BY AlignUpAtLeast
  <2>2. Request(AlignUp(n, Granularity), 0, 0, Granularity) \in Requests("virtual")
    BY <2>1 DEF Request, Requests, Guarded
  <2> QED
    BY <1>8, <2>2, FinishOwnsPages DEF VirtualAllocAnywhere
<1>9. ASSUME NEW addr \in Page, VirtualRelease(addr) PROVE StepOwnsPages
  <2>1. PICK x \in {"virtual", "virtual_high"} :
          mapped' = TryFree(allocs[x], mapped, Retains(x), addr).mapped
    BY <1>9 DEF VirtualRelease
  <2>2. x \in Arenas
    OBVIOUS
  <2>3. /\ mapped' \subseteq mapped
        /\ \A p \in mapped \ mapped' : \E a \in allocs[x] : p \in Payload(a)
    BY <2>1 DEF TryFree, ByBase
  <2>4. PagesOwned(allocs, mapped, allocs', mapped')
    BY <2>2, <2>3, AllPayloadsMembers DEF PagesOwned
  <2> QED
    BY <2>4
<1>10. ASSUME NEW addr \in Page, NEW n \in Sizes, VirtualDecommit(addr, n) PROVE StepOwnsPages
  BY <1>10, CommitOwnsPages DEF VirtualDecommit, Inv
<1>11. ASSUME NEW base \in Page, NEW n \in Sizes, ReserveModuleImage(base, n)
       PROVE  StepOwnsPages
  <2>1. Request(n, 0, 0, Granularity) \in Requests("module")
    BY DEF Request, Requests, Guarded
  <2> QED
    BY <1>11, <2>1, FinishOwnsPages DEF ReserveModuleImage
<1>12. ASSUME NEW n \in Sizes, AllocModuleImage(n)
       PROVE  StepOwnsPages
  <2>1. Request(n, 0, 0, Granularity) \in Requests("module")
    BY DEF Request, Requests, Guarded
  <2> QED
    BY <1>12, <2>1, FinishOwnsPages DEF AllocModuleImage
<1>13. CASE UNCHANGED vars
  BY <1>13 DEF vars, StepOwnsPages
<1> QED
  BY <1>1, <1>2, <1>3, <1>4, <1>5, <1>6, <1>7, <1>8, <1>9, <1>10, <1>11, <1>12, <1>13 DEF Next

\* A step maps only pages of payloads that are live after it, or that a
\* reallocation placed in the heap arena, and unmaps only pages of payloads that
\* were live before it.
THEOREM OnlyOwnedPagesAlwaysChange == Spec => OnlyOwnedPagesChange
<1>1. Inv /\ [Next]_vars => StepOwnsPages
  BY NextOwnsPages
<1>2. Inv /\ [Next]_vars =>
        [ /\ \A p \in mapped' \ mapped :
               \/ p \in AllPayloads(allocs')
               \/ status' = "running" /\ Lo["heap"] <= p /\ p < Hi["heap"]
          /\ mapped \ mapped' \subseteq AllPayloads(allocs) ]_vars
  BY <1>1 DEF StepOwnsPages
<1> QED
  BY <1>2, AlwaysInv, PTL DEF Spec, OnlyOwnedPagesChange
=============================================================================
