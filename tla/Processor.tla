----------------------------- MODULE Processor -------------------------------
(***************************************************************************)
(* The integer unit of the interpreter (Cpu of src/cpu.rs): registers,     *)
(* flags, memory and the instruction pointer, which here counts            *)
(* instructions.  An instruction is a record of its operation, width and   *)
(* operands: decoding is abstracted to them.  One action per group of      *)
(* opcodes executes the instruction at eip.                                *)
(***************************************************************************)
EXTENDS Alu, Sequences, SequencesExt

VARIABLES
  code,    (* the program, which does not change                           *)
  regs, flags, mem, eip,
  status   (* running, or why the processor stopped                        *)

cpu == <<regs, flags, mem, eip, status>>

Registers == {"eax", "ecx", "edx", "ebx", "esp", "ebp", "esi", "edi"}
LongBytes == LongBits \div ByteBits
Bytes(s) == IF s = Byte THEN 1 ELSE LongBytes
Addresses == 0 .. 2 * Long - 1

(***************************************************************************)
(* Operands: a register, its second byte, an immediate, or the memory at   *)
(* a register and a displacement.                                          *)
(***************************************************************************)
Operand(kind, name, n) == [kind |-> kind, name |-> name, n |-> n]
R(name) == Operand("reg", name, 0)
H(name) == Operand("high", name, 0)
M(name, n) == Operand("mem", name, n)
I(n) == Operand("imm", "none", n)

Load(store, addr, s) ==
  IF s = Byte THEN store[Low(addr, Long)]
  ELSE store[Low(addr, Long)] + 2 * Byte * store[Low(addr + 1, Long)]
Stored(store, addr, s, v) ==
  IF s = Byte THEN [store EXCEPT ![Low(addr, Long)] = Low(v, Byte)]
  ELSE [store EXCEPT ![Low(addr, Long)] = Low(v, Byte),
                     ![Low(addr + 1, Long)] = Low(v \div (2 * Byte), Byte)]

Address(o) == Low(regs[o.name] + o.n, Long)
Get(o, s) ==
  CASE o.kind = "reg"  -> Low(regs[o.name], s)
    [] o.kind = "high" -> Low(regs[o.name] \div (2 * Byte), Byte)
    [] o.kind = "imm"  -> Low(o.n, s)
    [] o.kind = "mem"  -> Load(mem, Address(o), s)

\* A narrow write keeps the rest of the register.
RegsWith(r, o, s, v) ==
  CASE o.kind = "reg"  -> [r EXCEPT ![o.name] = (@ - Low(@, s)) + Low(v, s)]
    [] o.kind = "high" -> [r EXCEPT ![o.name] = Low(@, Byte) + 2 * Byte * Low(v, Byte)]
    [] OTHER           -> r
MemWith(o, s, v) == IF o.kind = "mem" THEN Stored(mem, Address(o), s, v) ELSE mem
Put(o, s, v) == regs' = RegsWith(regs, o, s, v) /\ mem' = MemWith(o, s, v)

Ins == code[eip]
At(ops) == status = "running" /\ eip \in DOMAIN code /\ Ins.op \in ops
Onward == eip' = eip + 1 /\ UNCHANGED <<code, status>>

(***************************************************************************)
(* Arithmetic                                                              *)
(***************************************************************************)
AluOps == {"add", "adc", "sub", "sbb", "and", "or", "xor", "cmp"}

Arithmetic ==
  /\ At(AluOps)
  /\ LET r == ExecAlu(Ins.op, flags, Get(Ins.dst, Ins.w), Get(Ins.src, Ins.w), Ins.w) IN
       /\ flags' = r.flags
       /\ IF Ins.op = "cmp" THEN UNCHANGED <<regs, mem>> ELSE Put(Ins.dst, Ins.w, r.value)
  /\ Onward

Test ==
  /\ At({"test"})
  /\ flags' = LogicFlags(flags, And(Get(Ins.dst, Ins.w), Get(Ins.src, Ins.w)), Ins.w)
  /\ UNCHANGED <<regs, mem>>
  /\ Onward

Unary ==
  /\ At({"inc", "dec", "neg", "not"})
  /\ LET v == Get(Ins.dst, Ins.w)
         r == CASE Ins.op = "inc" -> Increment(flags, v, Ins.w)
                [] Ins.op = "dec" -> Decrement(flags, v, Ins.w)
                [] Ins.op = "neg" -> Sub(flags, 0, v, FALSE, Ins.w)
                [] Ins.op = "not" -> [value |-> Low(-1 - v, Ins.w), flags |-> flags]
     IN flags' = r.flags /\ Put(Ins.dst, Ins.w, r.value)
  /\ Onward

ShiftInstruction ==
  /\ At({"rol", "ror", "rcl", "rcr", "shl", "shr", "sar"})
  /\ LET count == Get(Ins.src, Byte) % LongBits
         r == Shift(Ins.op, flags, Get(Ins.dst, Ins.w), count, Ins.w)
     IN IF count = 0 THEN UNCHANGED <<regs, mem, flags>>
        ELSE flags' = r.flags /\ Put(Ins.dst, Ins.w, r.value)
  /\ Onward

DoubleShiftInstruction ==
  /\ At({"shld", "shrd"})
  /\ LET count == Get(Ins.by, Byte) % LongBits
         r == DoubleShift(flags, Get(Ins.dst, Ins.w), Get(Ins.src, Ins.w), count, Ins.w,
                          Ins.op = "shld")
     IN IF count = 0 THEN UNCHANGED <<regs, mem, flags>>
        ELSE flags' = r.flags /\ Put(Ins.dst, Ins.w, r.value)
  /\ Onward

\* The two halves of a product, or of a dividend.
EaxEdx(lo, hi) == regs' = RegsWith(RegsWith(regs, R("eax"), Ins.w, lo), R("edx"), Ins.w, hi)

\* set_imul_flags looks at the truncated product, which always fits.
ImulFlags(res, s) ==
  LET overflow == s = Byte /\ Signed(res, s) # Signed(Extend(res, s), s)
  IN [flags EXCEPT !.cf = overflow, !.of = overflow]

Multiply ==
  /\ At({"mul", "imul"})
  /\ LET s == Ins.w
         rhs == Get(Ins.src, s)
         lhs == Low(regs["eax"], s)
         res == IF Ins.op = "mul" THEN lhs * rhs ELSE Signed(lhs, s) * Signed(rhs, s)
         high == res \div (2 * s)
     IN /\ EaxEdx(res, high)
        /\ flags' = IF Ins.op = "mul" THEN [flags EXCEPT !.cf = high # 0, !.of = high # 0]
                    ELSE ImulFlags(res, s)
  /\ UNCHANGED mem
  /\ Onward

MultiplyInto ==
  /\ At({"imul2"})
  /\ LET s == Ins.w
         res == Low(Signed(Get(Ins.dst, s), s) * Signed(Get(Ins.src, s), s), Long)
     IN Put(Ins.dst, s, res) /\ flags' = ImulFlags(res, s)
  /\ Onward

Sign(i) == IF i < 0 THEN -1 ELSE 1
Magnitude(i) == IF i < 0 THEN 0 - i ELSE i

Quotient(n, d) == Sign(n) * Sign(d) * (Magnitude(n) \div Magnitude(d))
Remainder(n, d) == Sign(n) * (Magnitude(n) % Magnitude(d))

\* The quotient is truncated to the register when it does not fit; a divisor of
\* 0 is an error, and the one signed quotient past the wide type a panic.
Divide ==
  /\ At({"div", "idiv"})
  /\ LET s == Ins.w
         raw == Low(regs["eax"], s) + 2 * s * Low(regs["edx"], s)
         n == IF Ins.op = "idiv" /\ raw >= 2 * s * s THEN raw - 4 * s * s ELSE raw
         d == IF Ins.op = "idiv" THEN Signed(Get(Ins.src, s), s) ELSE Get(Ins.src, s)
     IN IF d = 0 \/ (Ins.op = "idiv" /\ n = 0 - 2 * s * s /\ d = -1)
        THEN /\ status' = IF d = 0 THEN "divide error" ELSE "panic"
             /\ UNCHANGED <<regs, code, eip>>
        ELSE EaxEdx(Quotient(n, d), Remainder(n, d)) /\ Onward
  /\ UNCHANGED <<mem, flags>>

(***************************************************************************)
(* Moves                                                                   *)
(***************************************************************************)
Move ==
  /\ At({"mov", "lea", "movzx", "movsx", "cmov", "set"})
  /\ CASE Ins.op = "mov"   -> Put(Ins.dst, Ins.w, Get(Ins.src, Ins.w))
       [] Ins.op = "lea"   -> Put(Ins.dst, Ins.w, Address(Ins.src))
       [] Ins.op = "movzx" -> Put(Ins.dst, Long, Get(Ins.src, Ins.w))
       [] Ins.op = "movsx" -> Put(Ins.dst, Long, Extend(Get(Ins.src, Ins.w), Ins.w))
       [] Ins.op = "cmov"  -> IF Cond(Ins.cc, flags) THEN Put(Ins.dst, Ins.w, Get(Ins.src, Ins.w))
                              ELSE UNCHANGED <<regs, mem>>
       [] Ins.op = "set"   -> Put(Ins.dst, Byte, Carry(Cond(Ins.cc, flags)))
  /\ UNCHANGED flags
  /\ Onward

\* CBW or CWDE, and CWD or CDQ.
SignExtension ==
  /\ At({"cwde", "cdq"})
  /\ regs' = IF Ins.op = "cwde" THEN [regs EXCEPT !["eax"] = Extend(Low(@, Byte), Byte)]
             ELSE RegsWith(regs, R("edx"), Ins.w,
                           IF Negative(regs["eax"], Ins.w) THEN 2 * Ins.w - 1 ELSE 0)
  /\ UNCHANGED <<mem, flags>>
  /\ Onward

Summed(rm, reg, sum) == [rm |-> sum, reg |-> rm]

\* Both reads come first, then r/m is written, then the register.
Exchange ==
  /\ At({"xchg", "xadd"})
  /\ LET rm == Get(Ins.dst, Ins.w)
         reg == Get(Ins.src, Ins.w)
         sum == Add(flags, rm, reg, FALSE, Ins.w)
         new == IF Ins.op = "xadd" THEN Summed(rm, reg, sum.value) ELSE [rm |-> reg, reg |-> rm]
     IN /\ regs' = RegsWith(RegsWith(regs, Ins.dst, Ins.w, new.rm), Ins.src, Ins.w, new.reg)
        /\ mem' = MemWith(Ins.dst, Ins.w, new.rm)
        /\ flags' = IF Ins.op = "xadd" THEN sum.flags ELSE flags
  /\ Onward

\* CMPXCHG compares without subtracting: only ZF changes.
CompareExchange ==
  /\ At({"cmpxchg"})
  /\ LET dst == Get(Ins.dst, Ins.w)
         equal == Low(regs["eax"], Ins.w) = dst
     IN /\ IF equal THEN Put(Ins.dst, Ins.w, Get(Ins.src, Ins.w)) ELSE Put(R("eax"), Ins.w, dst)
        /\ flags' = [flags EXCEPT !.zf = equal]
  /\ Onward

(***************************************************************************)
(* Bits                                                                    *)
(***************************************************************************)

\* A bit offset from memory is signed and reaches other words.
BitPlace(o, offset, s) ==
  IF o.kind = "reg" THEN [target |-> o, bit |-> offset % BitCount(s)]
  ELSE LET n == Signed(offset, Long) IN
       [target |-> [o EXCEPT !.n = @ + (n \div BitCount(s)) * Bytes(s)],
        bit |-> n % BitCount(s)]

BitTest ==
  /\ At({"bt", "bts", "btr", "btc"})
  /\ LET place == BitPlace(Ins.dst, Get(Ins.src, Ins.w), Ins.w)
         old == BitsOf(Get(place.target, Ins.w))
         on == place.bit \in old
         new == CASE Ins.op = "bts" -> old \cup {place.bit}
                  [] Ins.op = "btr" -> old \ {place.bit}
                  [] Ins.op = "btc" -> IF on THEN old \ {place.bit} ELSE old \cup {place.bit}
                  [] Ins.op = "bt"  -> old
     IN Put(place.target, Ins.w, FromBits(new)) /\ flags' = [flags EXCEPT !.cf = on]
  /\ Onward

BitScan ==
  /\ At({"bsf", "bsr"})
  /\ LET found == BitsOf(Get(Ins.src, Ins.w)) IN
       /\ flags' = [flags EXCEPT !.zf = found = {}]
       /\ IF found = {} THEN UNCHANGED <<regs, mem>>
          ELSE Put(Ins.dst, Ins.w, IF Ins.op = "bsf" THEN Min(found) ELSE Max(found))
  /\ Onward

FlagInstruction ==
  /\ At({"clc", "stc", "cmc", "cld", "std"})
  /\ flags' = CASE Ins.op = "clc" -> [flags EXCEPT !.cf = FALSE]
                [] Ins.op = "stc" -> [flags EXCEPT !.cf = TRUE]
                [] Ins.op = "cmc" -> [flags EXCEPT !.cf = ~@]
                [] Ins.op = "cld" -> [flags EXCEPT !.df = FALSE]
                [] Ins.op = "std" -> [flags EXCEPT !.df = TRUE]
  /\ UNCHANGED <<regs, mem>>
  /\ Onward

(***************************************************************************)
(* The stack and the flow of control                                       *)
(***************************************************************************)
Esp == regs["esp"]
StackSlot(n) == Load(mem, Esp + n * LongBytes, Long)

\* The memory after the values are pushed one after the other.
Pushed(values) ==
  FoldLeft(LAMBDA store, k : Stored(store, Esp - k * LongBytes, Long, values[k]),
           mem, [k \in 1 .. Len(values) |-> k])
After(n) == Low(Esp + n * LongBytes, Long)

PushAll == <<"eax", "ecx", "edx", "ebx", "esp", "ebp", "esi", "edi">>
\* POPA takes the registers in the other order and skips the saved ESP.
PopAll == {[name |-> PushAll[k], slot |-> 8 - k] : k \in (1 .. 8) \ {5}}

Push ==
  /\ At({"push", "pusha"})
  /\ LET values == IF Ins.op = "push" THEN <<Get(Ins.src, Long)>>
                   ELSE [k \in 1 .. 8 |-> regs[PushAll[k]]]
     IN mem' = Pushed(values) /\ regs' = [regs EXCEPT !["esp"] = After(0 - Len(values))]
  /\ UNCHANGED flags
  /\ Onward

Pop ==
  /\ At({"pop"})
  /\ regs' = RegsWith([regs EXCEPT !["esp"] = After(1)], Ins.dst, Long, StackSlot(0))
  /\ mem' = MemWith(Ins.dst, Long, StackSlot(0))
  /\ UNCHANGED flags
  /\ Onward

PopRegisters ==
  /\ At({"popa"})
  /\ regs' = [name \in Registers |->
                IF name = "esp" THEN After(8)
                ELSE StackSlot((CHOOSE saved \in PopAll : saved.name = name).slot)]
  /\ UNCHANGED <<mem, flags>>
  /\ Onward

\* Nested frames copy the pointers of the enclosing frames, one push at a time.
Enter ==
  /\ At({"enter"})
  /\ LET ebp == regs["ebp"]
         slot(k) == Esp - k * LongBytes
         display == FoldLeft(
           LAMBDA store, k : Stored(store, slot(k + 1), Long, Load(store, ebp - k * LongBytes, Long)),
           Stored(mem, slot(1), Long, ebp), [k \in 1 .. Ins.level - 1 |-> k])
     IN /\ mem' = IF Ins.level = 0 THEN display
                  ELSE Stored(display, slot(Ins.level + 1), Long, After(-1))
        /\ regs' = [regs EXCEPT !["ebp"] = After(-1),
                                !["esp"] = Low(After(0 - Ins.level - 1) - Ins.n, Long)]
  /\ UNCHANGED flags
  /\ Onward

Leave ==
  /\ At({"leave"})
  /\ regs' = [regs EXCEPT !["esp"] = Low(regs["ebp"] + LongBytes, Long),
                          !["ebp"] = Load(mem, regs["ebp"], Long)]
  /\ UNCHANGED <<mem, flags>>
  /\ Onward

Jump ==
  /\ At({"jmp", "jcc", "jecxz"})
  /\ LET take == CASE Ins.op = "jmp"   -> TRUE
                   [] Ins.op = "jcc"   -> Cond(Ins.cc, flags)
                   [] Ins.op = "jecxz" -> regs["ecx"] = 0
     IN eip' = IF take THEN Ins.to ELSE eip + 1
  /\ UNCHANGED <<code, regs, mem, flags, status>>

Loop ==
  /\ At({"loop", "loope", "loopne"})
  /\ LET ecx == Low(regs["ecx"] - 1, Long)
         take == ecx # 0 /\ (Ins.op = "loope" => flags.zf) /\ (Ins.op = "loopne" => ~flags.zf)
     IN regs' = [regs EXCEPT !["ecx"] = ecx] /\ eip' = IF take THEN Ins.to ELSE eip + 1
  /\ UNCHANGED <<code, mem, flags, status>>

Call ==
  /\ At({"call"})
  /\ mem' = Pushed(<<eip + 1>>)
  /\ regs' = [regs EXCEPT !["esp"] = After(-1)]
  /\ eip' = Ins.to
  /\ UNCHANGED <<code, flags, status>>

\* RET n drops n bytes of arguments.
Return ==
  /\ At({"ret"})
  /\ eip' = StackSlot(0)
  /\ regs' = [regs EXCEPT !["esp"] = Low(After(1) + Ins.n, Long)]
  /\ UNCHANGED <<code, mem, flags, status>>

Halt ==
  /\ At({"hlt"})
  /\ status' = "halted"
  /\ UNCHANGED <<code, regs, mem, flags, eip>>

(***************************************************************************)
(* Strings.  The whole repetition is one instruction.                      *)
(***************************************************************************)
\* Mutation of Stepped: the pointers always move up.
SteppedUp(addr, s) == Low(addr + Bytes(s), Long)
Stepped(addr, s) == Low(addr + (IF flags.df THEN 0 - Bytes(s) ELSE Bytes(s)), Long)

Element(p, s) ==
  LET op == Ins.op
      si == Load(p.mem, p.regs["esi"], s)
      di == Load(p.mem, p.regs["edi"], s)
      al == Low(p.regs["eax"], s)
      compared == Sub(p.flags, IF op = "cmps" THEN si ELSE al, di, FALSE, s).flags
      moves == (IF op \in {"movs", "cmps", "lods"} THEN {"esi"} ELSE {})
               \cup (IF op = "lods" THEN {} ELSE {"edi"})
      r == [n \in Registers |-> IF n \in moves THEN Stepped(p.regs[n], s) ELSE p.regs[n]]
      f == IF op \in {"cmps", "scas"} THEN compared ELSE p.flags
  IN [mem |-> CASE op = "movs" -> Stored(p.mem, p.regs["edi"], s, si)
                [] op = "stos" -> Stored(p.mem, p.regs["edi"], s, al)
                [] OTHER       -> p.mem,
      regs |-> IF op = "lods" THEN RegsWith(r, R("eax"), s, si) ELSE r,
      flags |-> f,
      left |-> p.left - 1,
      stop |-> \/ Ins.rep = "none"
               \/ op \in {"cmps", "scas"} /\ Ins.rep = "repe" /\ ~f.zf
               \/ op \in {"cmps", "scas"} /\ Ins.rep = "repne" /\ f.zf]

String ==
  /\ At({"movs", "cmps", "stos", "lods", "scas"})
  /\ LET count == IF Ins.rep = "none" THEN 1 ELSE regs["ecx"]
         first == [mem |-> mem, regs |-> regs, flags |-> flags, left |-> count, stop |-> FALSE]
         pass[k \in 0 .. count] ==
           IF k = 0 THEN first
           ELSE LET p == pass[k - 1] IN IF p.stop THEN p ELSE Element(p, Ins.w)
         last == pass[count]
     IN /\ mem' = last.mem
        /\ flags' = last.flags
        /\ regs' = IF Ins.rep = "none" THEN last.regs ELSE [last.regs EXCEPT !["ecx"] = last.left]
  /\ Onward

Step ==
  \/ Arithmetic \/ Test \/ Unary \/ ShiftInstruction \/ DoubleShiftInstruction
  \/ Multiply \/ MultiplyInto \/ Divide
  \/ Move \/ SignExtension \/ Exchange \/ CompareExchange
  \/ BitTest \/ BitScan \/ FlagInstruction
  \/ Push \/ Pop \/ PopRegisters \/ Enter \/ Leave
  \/ Jump \/ Loop \/ Call \/ Return \/ Halt \/ String
=============================================================================
