------------------------------ MODULE FpuStack -------------------------------
(***************************************************************************)
(* The x87 stack of the interpreter (x87: Vec<f64> of src/cpu.rs), whose   *)
(* last element is ST(0), beside the register stack it stands for: a ring  *)
(* of registers, numbered here from the top, with an empty tag for each    *)
(* (the ring is not in the code).  Numbers are residues: what matters is which operand is read *)
(* and which register is written.                                          *)
(***************************************************************************)
EXTENDS Integers, Sequences, SequencesExt

CONSTANTS
  Depth,   (* 8 in the program *)
  Number,  (* numbers are 0 .. Number - 1 *)
  Trusted  (* comments of the code taken at their word: "fxrstor" or none *)

ASSUME FpuAssumption == Depth \in Nat \ {0} /\ Number \in Nat \ {0}

VARIABLES
  x87,     (* the flat stack                                               *)
  order,   (* the condition bits of the last comparison                    *)
  image,   (* the area FSAVE or FXSAVE wrote, or NoImage                   *)
  ring,    (* the register stack, [value, full, order]                     *)
  kept,    (* the register stack they wrote                                *)
  outside  (* the program did what the flat stack does not stand for       *)

fpu == <<x87, order, image, ring, kept, outside>>

Numbers == 0 .. Number - 1
Slots == 0 .. Depth - 1
NoImage == [values |-> <<>>, order |-> "none", all |-> FALSE]
EmptyRing ==
  [value |-> [i \in Slots |-> 0], full |-> [i \in Slots |-> FALSE], order |-> "none"]

(***************************************************************************)
(* The flat stack                                                          *)
(***************************************************************************)
Peek(st) == IF st = <<>> THEN 0 ELSE Last(st)
FpuGet(st, i) == IF i >= Len(st) THEN 0 ELSE st[Len(st) - i]
FpuPush(st, v) == Append(IF Len(st) = Depth THEN Tail(st) ELSE st, v)
FpuPop(st) == IF st = <<>> THEN st ELSE Front(st)
FpuSet(st, i, v) ==
  CASE st = <<>> -> IF i = 0 THEN FpuPush(st, v) ELSE st
    [] i < Len(st) -> [st EXCEPT ![Len(st) - i] = v]
    [] OTHER -> st
FpuExchange(st, i) ==
  IF i >= Len(st) THEN st ELSE [st EXCEPT ![Len(st)] = FpuGet(st, i), ![Len(st) - i] = Peek(st)]
Compared(a, b) == IF a = b THEN "equal" ELSE IF a < b THEN "less" ELSE "greater"

Operations == {"add", "sub", "subr"}
Operate(op, a, b) ==
  CASE op = "add" -> (a + b) % Number [] op = "sub" -> (a - b) % Number
    [] op = "subr" -> (b - a) % Number

(***************************************************************************)
(* The register stack                                                      *)
(***************************************************************************)
Full(g, i) == g.full[i]
St(g, i) == g.value[i]
RingSet(g, i, v) == [g EXCEPT !.value[i] = v, !.full[i] = TRUE]
RingEmpty(g, i) == [g EXCEPT !.value[i] = 0, !.full[i] = FALSE]
\* The top moves d registers on.
RingTurn(g, d) ==
  [g EXCEPT !.value = [i \in Slots |-> g.value[(i + d) % Depth]],
            !.full = [i \in Slots |-> g.full[(i + d) % Depth]]]
RingPush(g, v) == RingSet(RingTurn(g, Depth - 1), 0, v)
RingPop(g) == RingTurn(RingEmpty(g, 0), 1)
RingFits(g) == ~Full(g, Depth - 1)

\* A step of both stacks; sound says that the register stack allows it.
Both(flat, g, sound) ==
  /\ x87' = flat
  /\ ring' = g
  /\ outside' = (outside \/ ~sound)
  /\ UNCHANGED <<image, kept>>
BothPopped(flat, g, pops, sound) ==
  IF pops THEN Both(FpuPop(flat), RingPop(g), sound) ELSE Both(flat, g, sound)

FpuInit ==
  /\ x87 = <<>> /\ order = "none" /\ image = NoImage
  /\ ring = EmptyRing /\ kept = EmptyRing /\ outside = FALSE

\* FLD and FILD of memory, and the constants.
FLoad == \E v \in Numbers :
  Both(FpuPush(x87, v), RingPush(ring, v), RingFits(ring)) /\ UNCHANGED order
\* FLD ST(i)
FDuplicate == \E i \in Slots :
  /\ Both(FpuPush(x87, FpuGet(x87, i)), RingPush(ring, St(ring, i)), RingFits(ring) /\ Full(ring, i))
  /\ UNCHANGED order
FExchange == \E i \in Slots :
  /\ Both(FpuExchange(x87, i), RingSet(RingSet(ring, 0, St(ring, i)), i, St(ring, 0)),
          Full(ring, 0) /\ Full(ring, i))
  /\ UNCHANGED order
\* FST ST(i) and FSTP ST(i)
FStore == \E i \in Slots, pops \in BOOLEAN :
  /\ BothPopped(FpuSet(x87, i, Peek(x87)), RingSet(ring, i, St(ring, 0)), pops,
                Full(ring, 0) /\ Full(ring, i))
  /\ UNCHANGED order
\* FSTP, FIST and FISTTP to memory
FStoreMemory == \E pops \in BOOLEAN :
  BothPopped(x87, ring, pops, Full(ring, 0)) /\ UNCHANGED order

\* The forms with a memory operand, and ST(0) op ST(i).
FOperate == \E op \in Operations, v \in Numbers :
  LET out == Operate(op, Peek(x87), v) IN
  /\ Both(FpuSet(x87, 0, out), RingSet(ring, 0, Operate(op, St(ring, 0), v)), Full(ring, 0))
  /\ UNCHANGED order
FOperateFrom == \E op \in Operations, i \in Slots :
  LET out == Operate(op, Peek(x87), FpuGet(x87, i)) IN
  /\ Both(FpuSet(x87, 0, out), RingSet(ring, 0, Operate(op, St(ring, 0), St(ring, i))),
          Full(ring, 0) /\ Full(ring, i))
  /\ UNCHANGED order
FOperateTo == \E op \in Operations, i \in Slots :
  LET out == Operate(op, Peek(x87), FpuGet(x87, i)) IN
  /\ Both(FpuSet(x87, i, out), RingSet(ring, i, Operate(op, St(ring, 0), St(ring, i))),
          Full(ring, 0) /\ Full(ring, i))
  /\ UNCHANGED order

\* A target below the stack is taken to be its bottom.
OperatedPop(st, i, op) ==
  IF st = <<>> THEN st
  ELSE LET target == IF Len(st) > i THEN Len(st) - i ELSE 1
       IN FpuPop([st EXCEPT ![target] = Operate(op, Peek(st), @)])
FOperatePop == \E op \in Operations, i \in Slots :
  /\ Both(OperatedPop(x87, i, op),
          RingPop(RingSet(ring, i, Operate(op, St(ring, 0), St(ring, i)))),
          Full(ring, 0) /\ Full(ring, i))
  /\ UNCHANGED order

\* The comparisons with ST(i); 0, 1 or 2 values are popped.
FCompare == \E i \in Slots, pops \in 0 .. 2 :
  /\ order' = Compared(Peek(x87), FpuGet(x87, i))
  /\ LET g == [ring EXCEPT !.order = Compared(St(ring, 0), St(ring, i))]
         sound == Full(ring, 0) /\ Full(ring, i) /\ (pops = 2 => Full(ring, 1))
     IN CASE pops = 0 -> Both(x87, g, sound)
          [] pops = 1 -> Both(FpuPop(x87), RingPop(g), sound)
          [] pops = 2 -> Both(FpuPop(FpuPop(x87)), RingPop(RingPop(g)), sound)

\* FSINCOS and FPTAN replace ST(0) and push.
FSplit == \E a, b \in Numbers :
  /\ Both(FpuPush(FpuSet(x87, 0, a), b), RingPush(RingSet(ring, 0, a), b),
          Full(ring, 0) /\ RingFits(ring))
  /\ UNCHANGED order

\* FFREE keeps the value; FINCSTP and FDECSTP do not move the top.
FFree == \E i \in Slots : Both(x87, RingEmpty(ring, i), TRUE) /\ UNCHANGED order
FRotate == \E d \in {1, Depth - 1} :
  Both(x87, RingTurn(ring, d), FALSE) /\ UNCHANGED order
FFreePop == Both(FpuPop(x87), RingPop(ring), TRUE) /\ UNCHANGED order

\* FNINIT and EMMS; EMMS keeps the status word.
FClear == \E all \in BOOLEAN :
  /\ Both(<<>>, [EmptyRing EXCEPT !.order = IF all THEN "none" ELSE ring.order], TRUE)
  /\ order' = IF all THEN "none" ELSE order

\* FSAVE writes ST(0) to ST(7), the empty ones as 0, and initializes.
FSave ==
  /\ image' = [values |-> [i \in 1 .. Depth |-> FpuGet(x87, i - 1)], order |-> order, all |-> TRUE]
  /\ kept' = ring
  /\ x87' = <<>>
  /\ ring' = EmptyRing
  /\ order' = "none"
  /\ UNCHANGED outside

\* Mutation of Restored: the image is pushed from its first value on.
RestoredForward(area) == FoldLeft(FpuPush, <<>>, area)
\* FRSTOR pushes all the values, so the empty registers come back as zeros.
Restored(area) == FoldLeft(FpuPush, <<>>, Reverse(area))
FRestore ==
  /\ image.all
  /\ x87' = Restored(image.values)
  /\ ring' = kept
  /\ order' = image.order
  /\ UNCHANGED <<image, kept, outside>>

\* FXSAVE writes the control and status words only, and FXRSTOR reads them.
FxSave ==
  /\ image' = [values |-> <<>>, order |-> order, all |-> FALSE]
  /\ kept' = ring
  /\ UNCHANGED <<x87, order, ring, outside>>
FxRestore ==
  /\ image # NoImage /\ ~image.all
  /\ order' = image.order
  /\ ring' = kept
  /\ outside' = (outside \/ "fxrstor" \notin Trusted)
  /\ UNCHANGED <<x87, image, kept>>

FpuStep ==
  \/ FLoad \/ FDuplicate \/ FExchange \/ FStore \/ FStoreMemory
  \/ FOperate \/ FOperateFrom \/ FOperateTo \/ FOperatePop \/ FCompare \/ FSplit
  \/ FFree \/ FRotate \/ FFreePop \/ FClear \/ FSave \/ FRestore \/ FxSave \/ FxRestore
=============================================================================
