------------------------------- MODULE PageMap -------------------------------
(***************************************************************************)
(* The guest page bitmap of src/memory.rs.  Guest addresses are counted in *)
(* pages.  The bitmap is the set `mapped` of pages that are backed by a    *)
(* host page at the same address ("identity mapping").                     *)
(*                                                                         *)
(* Every operation of the code takes the bitmap by &mut self and returns a *)
(* Result; here it is an operator that takes `mapped` and returns a record *)
(* with the outcome `ok` and the bitmap it leaves behind, so that the      *)
(* error paths are explicit.                                               *)
(***************************************************************************)
EXTENDS Integers

CONSTANTS
  NumPages,   (* pages of the guest address space                          *)
  HostPages   (* pages the host refuses to map: taken by the host process  *)
              (* (MAP_FIXED_NOREPLACE fails) or outside the wasm window    *)

Page == 0 .. NumPages - 1

ASSUME PageMapAssumption ==
  /\ NumPages \in Nat
  /\ HostPages \subseteq Page

\* The pages of `n` pages starting at page `base`.
Span(base, n) == base .. base + n - 1

\* addr.checked_add(size) and align_up both stay inside the address space.
InAddressSpace(base, n) == base + n <= NumPages

\* map_identity_page refuses at least one of these pages.
HostRefuses(pages) == pages \cap HostPages # {}

\* Pages a call had mapped by the time the host refused the first one; the
\* error path unmaps exactly these, in map and in map_or_update alike.
MappedSoFar(pages) == {p \in pages : \A q \in pages \cap HostPages : p < q}

\* Mutation of RollBack: the error path forgets to unmap.
RollBackForgotten(mapped, fresh) == mapped \cup fresh

RollBack(mapped, fresh) == (mapped \cup fresh) \ fresh

\* Memory::map: no page of the span may be mapped already.
MapNew(mapped, base, n) ==
  LET fresh == Span(base, n)
      ok    == InAddressSpace(base, n) /\ fresh \cap mapped = {} /\ ~HostRefuses(fresh)
  IN  [ok |-> ok,
       mapped |-> IF ok THEN mapped \cup fresh
                  ELSE IF InAddressSpace(base, n) /\ fresh \cap mapped = {}
                       THEN RollBack(mapped, MappedSoFar(fresh))
                       ELSE mapped]

\* Memory::map_or_update: pages already mapped are kept, the others mapped.
MapOrUpdate(mapped, base, n) ==
  LET fresh == Span(base, n) \ mapped
      ok    == InAddressSpace(base, n) /\ ~HostRefuses(fresh)
  IN  [ok |-> ok,
       mapped |-> IF ok THEN mapped \cup fresh
                  ELSE IF InAddressSpace(base, n)
                       THEN RollBack(mapped, MappedSoFar(fresh))
                       ELSE mapped]

\* Memory::unmap: pages that are not mapped are skipped.  munmap of a page the
\* emulator mapped itself is taken to succeed (a failure panics the emulator).
Unmap(mapped, base, n) == mapped \ Span(base, n)
=============================================================================
