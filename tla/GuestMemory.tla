----------------------------- MODULE GuestMemory -----------------------------
(***************************************************************************)
(* The guest address space as the Win32 API layer uses it: one page bitmap *)
(* (PageMap) shared by the five arenas (GuestArena) of `Hle`, and the      *)
(* process stack, which is mapped directly at load time and belongs to no  *)
(* arena although its addresses lie inside the "virtual_high" one.         *)
(*                                                                         *)
(* One action per entry point that changes this state: the heap APIs       *)
(* (HeapAlloc, GlobalAlloc, LocalAlloc, malloc, calloc all reduce to       *)
(* Hle::alloc), HeapReAlloc and its Global/Local twins, realloc, the       *)
(* surface allocators, VirtualAlloc/VirtualFree and the image reservations *)
(* of the PE loader.  A request that fails inside a handler which unwraps  *)
(* it panics the emulator: `status` becomes "panicked" and nothing runs.   *)
(***************************************************************************)
EXTENDS GuestArena

Arenas == {"module", "heap", "private", "virtual", "virtual_high"}

CONSTANTS
  Lo, Hi,             (* first page and end page of every arena             *)
  StackPages,         (* the process stack: mapped at load, in no arena     *)
  GuardSize,          (* HLE_ALLOC_GUARD_SIZE, in pages                     *)
  Granularity,        (* ALLOCATION_GRANULARITY (64 KiB), in pages          *)
  PrivateOnHeap,      (* WEMU_HLE_PRIVATE_ON_GUEST_HEAP is set              *)
  Sizes,              (* request sizes, in pages                            *)
  Guards              (* guard sizes callers ask for, in pages              *)

ASSUME GuestMemoryAssumption ==
  /\ Lo \in [Arenas -> Page] /\ Hi \in [Arenas -> Nat]
  /\ \A x \in Arenas : 0 < Lo[x] /\ Lo[x] <= Hi[x] /\ Hi[x] <= NumPages
  /\ \A x, y \in Arenas : x # y => Hi[x] <= Lo[y] \/ Hi[y] <= Lo[x]
  /\ StackPages \subseteq Page
  /\ \A p \in StackPages : Lo["virtual_high"] <= p /\ p < Hi["virtual_high"]
  /\ GuardSize \in Nat /\ Granularity \in Nat \ {0}
  /\ PrivateOnHeap \in BOOLEAN
  /\ Sizes \subseteq Nat \ {0} /\ Guards \subseteq Nat

VARIABLES
  allocs,   (* [Arenas -> set of allocations]                               *)
  mapped,   (* the page bitmap                                              *)
  status    (* "running" or "panicked"                                      *)

vars == <<allocs, mapped, status>>

Null == 0   \* the null guest pointer; no arena starts at page 0

\* Only the heap arena is built with retain_freed_pages().
Retains(x) == x = "heap"

Request(n, before, after, align) ==
  [size |-> n, before |-> before, after |-> after, align |-> align]

FirstFit(x, S, m, spec) == AllocFirstFit(S[x], m, Lo[x], Hi[x], Retains(x), spec)
FixedFit(x, S, m, base, spec) == AllocAt(S[x], m, Lo[x], Hi[x], Retains(x), base, spec)

\* Hle::free_alloc: the heap arena first, then the private arena; pointers
\* neither knows are ignored.  The result is the pair of the new state.
FreeAllocIn(S, m, addr) ==
  LET h == TryFree(S["heap"], m, Retains("heap"), addr)
      p == TryFree(S["private"], m, Retains("private"), addr)
  IN  IF addr = Null THEN [allocs |-> S, mapped |-> m]
      ELSE IF h.ok THEN [allocs |-> [S EXCEPT !["heap"] = h.allocs], mapped |-> h.mapped]
      ELSE [allocs |-> [S EXCEPT !["private"] = p.allocs], mapped |-> p.mapped]

\* How a handler leaves the state after an allocation from arena x: it keeps
\* the result, or panics (`.hle()`), or reports the failure to the guest.
Finish(x, r, mustSucceed) ==
  /\ allocs' = [allocs EXCEPT ![x] = r.allocs]
  /\ mapped' = r.mapped
  /\ status' = IF r.ok \/ ~mustSucceed THEN status ELSE "panicked"

Init ==
  /\ allocs = [x \in Arenas |-> {}]
  /\ mapped = StackPages
  /\ status = "running"

-----------------------------------------------------------------------------
HeapRequest(n) == Request(n, 0, GuardSize, 1)

\* HeapAlloc, LocalAlloc, GlobalAlloc, malloc, calloc: Hle::alloc.
HeapAlloc(n) ==
  /\ status = "running"
  /\ Finish("heap", FirstFit("heap", allocs, mapped, HeapRequest(n)), TRUE)

\* Hle::alloc_private: objects of the emulator itself.
AllocPrivate(n, mustSucceed) ==
  /\ status = "running"
  /\ LET x == IF PrivateOnHeap THEN "heap" ELSE "private"
     IN  Finish(x, FirstFit(x, allocs, mapped, HeapRequest(n)), mustSucceed)

\* Hle::alloc_compact (device-dependent bitmaps) has no guard pages.
AllocCompact(n, mustSucceed) ==
  /\ status = "running"
  /\ Finish("heap", FirstFit("heap", allocs, mapped, Request(n, 0, 0, 1)), mustSucceed)

\* Hle::alloc_with_guards (surfaces): at least GuardSize pages after.
AllocWithGuards(n, before, after, mustSucceed) ==
  /\ status = "running"
  /\ LET tail == IF after > GuardSize THEN after ELSE GuardSize
     IN  Finish("heap", FirstFit("heap", allocs, mapped, Request(n, before, tail, 1)),
                mustSucceed)

\* HeapFree, LocalFree, GlobalFree, free: any guest pointer may be passed.
FreeAlloc(addr) ==
  /\ status = "running"
  /\ LET r == FreeAllocIn(allocs, mapped, addr)
     IN  allocs' = r.allocs /\ mapped' = r.mapped
  /\ UNCHANGED status

\* HeapReAlloc, LocalReAlloc, GlobalReAlloc (and realloc of a live pointer):
\* the new block is allocated before the old one is freed.
HeapReAlloc(old, n) ==
  /\ status = "running"
  /\ LET r == FirstFit("heap", allocs, mapped, HeapRequest(n))
         S == [allocs EXCEPT !["heap"] = r.allocs]
         f == FreeAllocIn(S, r.mapped, old)
     IN  IF r.ok
         THEN allocs' = f.allocs /\ mapped' = f.mapped /\ UNCHANGED status
         ELSE Finish("heap", r, TRUE)

\* VirtualAlloc(requested, n pages).  With an address it commits pages inside a
\* live region of either virtual arena, or reserves a new one exactly there;
\* without one it takes the first fitting Granularity-aligned region.
VirtualCommit(x, requested, n) ==
  /\ Containing(allocs[x], requested, n) # {}
  /\ mapped' = MapOrUpdate(mapped, requested, n).mapped
  /\ UNCHANGED <<allocs, status>>

VirtualReserveAt(x, requested, n) ==
  /\ \A y \in {"virtual", "virtual_high"} : Containing(allocs[y], requested, n) = {}
  /\ Lo[x] <= requested /\ requested + n <= Hi[x]
  /\ Finish(x, FixedFit(x, allocs, mapped, requested, Request(n, 0, 0, 1)), FALSE)

VirtualAllocAt(requested, n) ==
  /\ status = "running" /\ requested # Null
  /\ \E x \in {"virtual", "virtual_high"} :
        VirtualCommit(x, requested, n) \/ VirtualReserveAt(x, requested, n)

VirtualAllocAnywhere(n) ==
  /\ status = "running"
  /\ Finish("virtual",
            FirstFit("virtual", allocs, mapped,
                     Request(AlignUp(n, Granularity), 0, 0, Granularity)), FALSE)

\* VirtualFree with MEM_RELEASE or size 0: the region that starts at addr.
VirtualRelease(addr) ==
  /\ status = "running" /\ addr # Null
  /\ \E x \in {"virtual", "virtual_high"} :
       /\ ByBase(allocs[x], addr) # {}
       /\ LET r == TryFree(allocs[x], mapped, Retains(x), addr)
          IN  allocs' = [allocs EXCEPT ![x] = r.allocs] /\ mapped' = r.mapped
  /\ UNCHANGED status

\* VirtualFree with MEM_DECOMMIT: pages of one live region.
VirtualDecommit(addr, n) ==
  /\ status = "running" /\ addr # Null
  /\ \E x \in {"virtual", "virtual_high"} : Containing(allocs[x], addr, n) # {}
  /\ mapped' = Unmap(mapped, addr, n)
  /\ UNCHANGED <<allocs, status>>

\* The PE loader: at the preferred base of the executable, or anywhere for a
\* library that can be relocated.  Images are never released.
ReserveModuleImage(base, n) ==
  /\ status = "running"
  /\ Finish("module", FixedFit("module", allocs, mapped, base,
                               Request(n, 0, 0, Granularity)), FALSE)

AllocModuleImage(n) ==
  /\ status = "running"
  /\ Finish("module", FirstFit("module", allocs, mapped,
                               Request(n, 0, 0, Granularity)), FALSE)

Next ==
  \/ \E n \in Sizes : HeapAlloc(n)
  \/ \E n \in Sizes, must \in BOOLEAN : AllocPrivate(n, must)
  \/ \E n \in Sizes, must \in BOOLEAN : AllocCompact(n, must)
  \/ \E n \in Sizes, before, after \in Guards, must \in BOOLEAN :
       AllocWithGuards(n, before, after, must)
  \/ \E addr \in Page : FreeAlloc(addr)
  \/ \E old \in Page, n \in Sizes : HeapReAlloc(old, n)
  \/ \E requested \in Page, n \in Sizes : VirtualAllocAt(requested, n)
  \/ \E n \in Sizes : VirtualAllocAnywhere(n)
  \/ \E addr \in Page : VirtualRelease(addr)
  \/ \E addr \in Page, n \in Sizes : VirtualDecommit(addr, n)
  \/ \E base \in Page, n \in Sizes : ReserveModuleImage(base, n)
  \/ \E n \in Sizes : AllocModuleImage(n)

Spec == Init /\ [][Next]_vars
-----------------------------------------------------------------------------
(***************************************************************************)
(* Properties.                                                             *)
(***************************************************************************)
Allocation == [base : Page, size : Nat \ {0}, before : Nat, after : Nat]

\* The allocations and the bitmap have the types the Rust declarations give
\* them (arena.rs ArenaAllocation, memory.rs bitmap).
TypeOK ==
  /\ allocs \in [Arenas -> SUBSET Allocation]
  /\ mapped \subseteq Page
  /\ status \in {"running", "panicked"}

\* Every reserved span, guard pages included, lies inside its arena, and no
\* two of them share a page, whatever mixture of first-fit, fixed-base,
\* aligned and guarded requests and of frees produced them (alloc_at_checked).
SpansInArena == \A x \in Arenas : \A a \in allocs[x] : InArena(a, Lo[x], Hi[x])

SpansDisjoint ==
  \A x, y \in Arenas : \A a \in allocs[x], b \in allocs[y] :
    (x # y \/ a # b) => Reserved(a) \cap Reserved(b) = {}

\* A live heap, private or module block is backed by pages from end to end:
\* freeing, reallocating or decommitting something else never pulls a page
\* out from under it.  (Virtual regions may be decommitted page by page.)
PayloadBacked ==
  \A x \in {"module", "heap", "private"} : \A a \in allocs[x] : Payload(a) \subseteq mapped

\* The process stack stays mapped and is never handed out, although a guest
\* may ask VirtualAlloc for exactly those addresses and the high virtual arena
\* has them in its range: only ensure_unmapped stands in between.
StackKept ==
  /\ StackPages \subseteq mapped
  /\ \A x \in Arenas : \A a \in allocs[x] : Payload(a) \cap StackPages = {}

\* A page that is mapped belongs to the stack, to a live payload, or to the
\* heap arena, which keeps the pages of freed blocks.  A failed request that
\* left pages behind would poison its arena: ensure_unmapped would refuse the
\* same first-fit hole for ever.
NoLeakedPage ==
  \A p \in mapped :
    \/ p \in StackPages
    \/ Lo["heap"] <= p /\ p < Hi["heap"]
    \/ \E x \in Arenas : \E a \in allocs[x] : p \in Payload(a)

\* The redzone around a block is not backed by pages, so a stray guest access
\* just past a block faults: true of every arena that unmaps what it frees.
GuardsUnmapped ==
  \A x \in Arenas \ {"heap"} : \A a \in allocs[x] : GuardPages(a) \cap mapped = {}

\* find_free_base answers exactly when some aligned placement fits between the
\* reserved spans, with the lowest one, and the checks and the mapping that
\* follow then succeed (no host page is in the way): no request fails while
\* the arena has room for it, however long the history of allocs and frees.
Placements(x, spec) ==
  {b \in Lo[x] .. Hi[x] : LET a == Place(b, spec) IN
     /\ b % spec.align = 0
     /\ InArena(a, Lo[x], Hi[x])
     /\ \A other \in allocs[x] : Reserved(a) \cap Reserved(other) = {}}

FirstFitIsExact ==
  \A x \in Arenas \ {"virtual_high"}, n \in Sizes, before, after \in Guards,
     align \in {1, Granularity} :
    LET spec == Request(n, before, after, align)
        r    == FirstFit(x, allocs, mapped, spec)
    IN  /\ r.ok <=> Placements(x, spec) # {}
        /\ r.ok => r.base \in Placements(x, spec) /\ \A b \in Placements(x, spec) : r.base <= b

\* A step maps only pages of a payload it allocates or recommits and unmaps
\* only pages of a payload that was live before it; a request that fails (the
\* host refuses a page half way) leaves the bitmap as it was.  One exception:
\* HeapReAlloc of a stale pointer may free the very block it just placed
\* there, and the heap arena keeps the pages.
AllPayloads(S) == UNION {Payload(a) : a \in UNION {S[x] : x \in Arenas}}

OnlyOwnedPagesChange ==
  [][ /\ \A p \in mapped' \ mapped :
            \/ p \in AllPayloads(allocs')
            \/ status' = "running" /\ Lo["heap"] <= p /\ p < Hi["heap"]
      /\ mapped \ mapped' \subseteq AllPayloads(allocs) ]_vars

\* The arenas together implement the abstract allocator.
AbstractSpace ==
  INSTANCE AddressSpace
    WITH spans <- UNION {{Reserved(a) : a \in allocs[x]} : x \in Arenas}

RefinesAddressSpace == AbstractSpace!Spec
=============================================================================
