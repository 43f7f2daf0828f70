----------------------------- MODULE GuestArena ------------------------------
(***************************************************************************)
(* The address-space allocator of src/arena.rs.  An arena owns an interval *)
(* of pages and a list of allocations sorted by the start of their         *)
(* reserved span; the payload of an allocation is backed by mapped pages,  *)
(* the guard pages around it are only reserved.  Reserved spans never      *)
(* overlap, so the sorted Vec of the code is a set here.                   *)
(*                                                                         *)
(* Requests (AllocationSpec) and allocations are records in pages:         *)
(*   [size, before, after, align] and [base, size, before, after].         *)
(* The protection bits are metadata the emulator never enforces; they are  *)
(* left out.                                                               *)
(***************************************************************************)
EXTENDS PageMap, FiniteSetsExt

NoBase == -1

AlignUp(v, align) == ((v + align - 1) \div align) * align

Payload(a)    == Span(a.base, a.size)
ResBase(a)    == a.base - a.before
ResEnd(a)     == a.base + a.size + a.after
Reserved(a)   == ResBase(a) .. ResEnd(a) - 1
GuardPages(a) == Reserved(a) \ Payload(a)

\* Mutation of Overlaps: off by one at the end of a span.
OverlapsOffByOne(a, b) == ResBase(a) + 1 < ResEnd(b) /\ ResBase(b) + 1 < ResEnd(a)

Overlaps(a, b) == ResBase(a) < ResEnd(b) /\ ResBase(b) < ResEnd(a)

\* make_allocation: the record for a request placed at `base`.
Place(base, spec) ==
  [base |-> base, size |-> spec.size, before |-> spec.before, after |-> spec.after]

\* check_in_arena (and the checked_sub of the guard in make_allocation).
InArena(a, lo, hi) == ResBase(a) >= lo /\ ResEnd(a) <= hi

\* Mutation of FitInHole: the guard after the payload is not counted.
FitInHoleWithoutTail(from, to, spec) ==
  LET base == AlignUp(from + spec.before, spec.align)
  IN  IF base - spec.before >= from /\ base + spec.size <= to THEN base ELSE NoBase

\* fit_in_hole: the payload is aligned, not the reserved span.
FitInHole(from, to, spec) ==
  LET base == AlignUp(from + spec.before, spec.align)
  IN  IF base - spec.before >= from /\ base + spec.size + spec.after <= to
      THEN base ELSE NoBase

\* find_free_base: the scan over the holes between reserved spans, in address
\* order.  A hole starts with the arena or behind a span, and ends with the next
\* span or the arena; the request goes into the first one where it fits.
HoleStarts(allocs, lo) == {lo} \cup {ResEnd(a) : a \in allocs}
HoleEnd(allocs, from, hi) == Min({hi} \cup {ResBase(a) : a \in {b \in allocs : ResBase(b) >= from}})

FindFreeBase(allocs, lo, hi, spec) ==
  LET FitIn(from) == FitInHole(from, HoleEnd(allocs, from, hi), spec)
      fitting == {from \in HoleStarts(allocs, lo) : FitIn(from) # NoBase}
  IN  IF fitting = {} THEN NoBase ELSE FitIn(Min(fitting))

\* Mutations of Backing: every arena adopts mapped pages; the guard after the
\* payload is mapped with it; a retained first page stands for the whole block.
BackingAdoptsPages(mapped, a, retain) == MapOrUpdate(mapped, a.base, a.size)

BackingWithGuard(mapped, a, retain) ==
  IF retain THEN MapOrUpdate(mapped, a.base, a.size)
            ELSE MapNew(mapped, a.base, a.size + a.after)

BackingByFirstPage(mapped, a, retain) ==
  IF retain /\ a.base \in mapped THEN [ok |-> TRUE, mapped |-> mapped]
  ELSE IF retain THEN MapOrUpdate(mapped, a.base, a.size)
  ELSE MapNew(mapped, a.base, a.size)

\* alloc_at_checked: reserve the span and back the payload, or change nothing.
\* A retaining arena reuses pages that free left mapped; the others insist
\* that nobody mapped the payload behind the arena's back (ensure_unmapped).
Backing(mapped, a, retain) ==
  IF retain THEN MapOrUpdate(mapped, a.base, a.size)
            ELSE MapNew(mapped, a.base, a.size)

\* Mutations of AllocAtChecked: no check_in_arena; no reserved_overlaps.
AllocOutsideArena(allocs, mapped, lo, hi, retain, base, spec) ==
  LET a       == Place(base, spec)
      backing == Backing(mapped, a, retain)
      ok      == (\A b \in allocs : ~Overlaps(a, b)) /\ backing.ok
  IN  [ok |-> ok, base |-> base,
       allocs |-> IF ok THEN allocs \cup {a} ELSE allocs,
       mapped |-> backing.mapped]

AllocOverlapping(allocs, mapped, lo, hi, retain, base, spec) ==
  LET a       == Place(base, spec)
      placed  == base \in Page /\ InArena(a, lo, hi)
      backing == Backing(mapped, a, retain)
  IN  [ok |-> placed /\ backing.ok, base |-> base,
       allocs |-> IF placed /\ backing.ok THEN allocs \cup {a} ELSE allocs,
       mapped |-> IF placed THEN backing.mapped ELSE mapped]

AllocAtChecked(allocs, mapped, lo, hi, retain, base, spec) ==
  LET a       == Place(base, spec)
      placed  == base \in Page /\ InArena(a, lo, hi) /\ \A b \in allocs : ~Overlaps(a, b)
      backing == Backing(mapped, a, retain)
      ok      == placed /\ backing.ok
  IN  [ok     |-> ok,
       base   |-> base,
       allocs |-> IF ok THEN allocs \cup {a} ELSE allocs,
       mapped |-> IF placed THEN backing.mapped ELSE mapped]

\* alloc_with_options: first fit.
AllocFirstFit(allocs, mapped, lo, hi, retain, spec) ==
  AllocAtChecked(allocs, mapped, lo, hi, retain, FindFreeBase(allocs, lo, hi, spec), spec)

\* alloc_at_with_options: a fixed base, refused when it is not aligned.
AllocAt(allocs, mapped, lo, hi, retain, base, spec) ==
  AllocAtChecked(allocs, mapped, lo, hi, retain,
                 IF base % spec.align = 0 THEN base ELSE NoBase, spec)

\* allocation_by_base: interior pointers do not name an allocation.
ByBase(allocs, base) == {a \in allocs : a.base = base}

\* allocation_containing_range / allocation_containing.
Containing(allocs, base, n) == {a \in allocs : a.base <= base /\ base + n <= a.base + a.size}

\* Mutation of TryFree: no arena unmaps.
TryFreeKeepsPages(allocs, mapped, retain, base) ==
  LET gone == ByBase(allocs, base)
  IN  [ok |-> gone # {}, allocs |-> allocs \ gone, mapped |-> mapped]

\* try_free: drop the allocation and, unless the arena retains freed pages,
\* unmap its payload.
TryFree(allocs, mapped, retain, base) ==
  LET gone == ByBase(allocs, base)
  IN  [ok     |-> gone # {},
       allocs |-> allocs \ gone,
       mapped |-> IF retain THEN mapped ELSE mapped \ UNION {Payload(a) : a \in gone}]
=============================================================================
