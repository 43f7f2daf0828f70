------------------------------- MODULE Idioms --------------------------------
(***************************************************************************)
(* The processor running the instruction sequences compilers emit, and     *)
(* what each sequence must leave behind; and the x87 unit running any      *)
(* instructions at all.                                                    *)
(***************************************************************************)
EXTENDS Processor, FpuStack

CONSTANTS Machines  (* [program, regs, mem]: a program and where it starts *)

VARIABLES
  unit,    (* the program's name, or "x87"                                 *)
  start    (* [regs, mem] at the start                                     *)

vars == <<cpu, code, fpu, unit, start>>

NoFlags == [f \in FlagNames \cup {"df"} |-> FALSE]
Op(op, w, dst, src) ==
  [op |-> op, w |-> w, dst |-> dst, src |-> src, by |-> I(0), cc |-> "e", to |-> 0, n |-> 0,
   level |-> 0, rep |-> "none"]
None == I(0)
Do(op) == Op(op, Long, None, None)
To(op, cc, n) == [Do(op) EXCEPT !.cc = cc, !.to = n]
Setcc(cc, dst) == [Op("set", Byte, dst, None) EXCEPT !.cc = cc]
Str(op, w, rep) == [Op(op, w, None, None) EXCEPT !.rep = rep]


Limbs == 2
\* A sum or difference of two numbers of Limbs bytes in memory, at ESI and EDI.
LongSum(op, back) ==
  << Do("clc"), Str("lods", Byte, "none"), Op(op, Byte, M("edi", 0), R("eax")),
     Op("inc", Long, R("edi"), None) >> \o back
\* The same in two pairs of registers, EDX:EAX and ECX:EBX.
PairSum(low, high, w) ==
  << Op(low, w, R("eax"), R("ebx")), Op(high, w, R("edx"), R("ecx")) >>
\* A comparison taken by a branch, a byte and a conditional move.
Decide(cc, w) ==
  << Op("cmp", w, R("eax"), R("ebx")), Setcc(cc, H("ecx")),
     [Op("cmov", Long, R("esi"), R("edi")) EXCEPT !.cc = cc], To("jcc", cc, 6), To("jmp", "e", 7),
     Op("mov", Byte, R("edx"), I(1)) >>
PairDecide(cc, w) ==
  << Op("cmp", w, R("eax"), R("ebx")), Op("sbb", w, R("edx"), R("ecx")), Setcc(cc, H("ecx")) >>
ShiftBy(op, w) == << Op(op, w, R("eax"), R("ecx")) >>
PairShift(op, w) ==
  IF op = "shl" THEN << [Op("shld", w, R("edx"), R("eax")) EXCEPT !.by = R("ecx")],
                        Op("shl", w, R("eax"), R("ecx")) >>
  ELSE << [Op("shrd", w, R("eax"), R("edx")) EXCEPT !.by = R("ecx")],
          Op(op, w, R("edx"), R("ecx")) >>
Copy(direction, w) == << Do(direction), Str("movs", w, "repe") >>
CopyLoop(back) ==
  << Do("cld"), [To("jecxz", "e", 6) EXCEPT !.w = Byte], Str("lods", Byte, "none"), Str("stos", Byte, "none"),
     To(back, "e", 3) >>
Find == << Do("cld"), Str("scas", Byte, "repne") >>
Differ == << Do("cld"), Str("cmps", Byte, "repe") >>
StringLength == Find \o << Op("not", Long, R("ecx"), None), Op("dec", Long, R("ecx"), None) >>
\* A function that calls itself, keeps its registers and drops its argument.
Recursive(depth, level) ==
  << Op("push", Long, None, I(depth)), To("call", "e", 4), Do("hlt"),
     [Do("enter") EXCEPT !.n = LongBytes, !.level = level], Do("pusha"),
     Op("mov", Long, R("ecx"), M("ebp", 2 * LongBytes)), To("jecxz", "e", 11),
     Op("dec", Long, R("ecx"), None), Op("push", Long, None, R("ecx")), To("call", "e", 4),
     Op("mov", Long, R("ebx"), I(1)), Op("mov", Long, M("ebp", 0 - LongBytes), R("ebx")),
     Do("popa"), Do("leave"), [Do("ret") EXCEPT !.n = LongBytes] >>
Undo(times, over, w) == << Op(times, w, None, R("ebx")), Op(over, w, None, R("ebx")) >>
DivideLong(w) == << Op("cdq", w, None, None), Op("idiv", w, None, R("ebx")) >>
BitArray(op) == << Op(op, Long, M("ebx", 0), R("eax")) >>
\* Counts the bits of EAX into EDX, lowest or highest first.
CountBits(scan) ==
  << Op(scan, Long, R("ecx"), R("eax")), To("jcc", "e", 6), Op("btc", Long, R("eax"), R("ecx")),
     Op("inc", Byte, R("edx"), None), To("jmp", "e", 1) >>
Absolute ==
  << Op("cdq", Long, None, None), Op("xor", Long, R("eax"), R("edx")),
     Op("sub", Long, R("eax"), R("edx")) >>
\* Adds 1 with a compare-and-exchange loop, then EDX with XADD, to the memory at EBX.
Atomics ==
  << Op("mov", Long, R("eax"), M("ebx", 0)), Op("lea", Long, R("ecx"), M("eax", 1)),
     Op("cmpxchg", Long, M("ebx", 0), R("ecx")), To("jcc", "ne", 2),
     Op("xadd", Long, M("ebx", 0), R("edx")) >>
\* -x four ways: NEG, NOT and 1, a product with -1, and the extension of a byte times -1.
Negations ==
  << Op("mov", Long, R("ebx"), R("eax")), Op("push", Long, None, R("eax")), Op("pop", Long, R("ecx"), None),
     Op("movsx", Byte, R("edx"), R("eax")), Do("cwde"), Op("imul2", Long, R("edx"), I(2 * Long - 1)),
     Op("neg", Long, R("eax"), None), Op("not", Long, R("ebx"), None), Op("add", Long, R("ebx"), I(1)),
     Op("imul2", Long, R("ecx"), I(2 * Long - 1)), Op("test", Long, R("ecx"), R("ecx")),
     Op("xchg", Byte, R("ebx"), H("ebx")), Op("xchg", Byte, H("ebx"), R("ebx")) >>

(***************************************************************************)
(* The whole                                                               *)
(***************************************************************************)
Init ==
  /\ \E m \in Machines :
       /\ unit = m.unit
       /\ code = m.code
       /\ \E r \in m.regs, s \in m.mem : start = [regs |-> r, mem |-> s] /\ regs = r /\ mem = s
  /\ flags = NoFlags
  /\ eip = 1
  /\ status = "running"
  /\ FpuInit

Next ==
  \/ unit # "x87" /\ Step /\ UNCHANGED <<fpu, unit, start>>
  \/ unit = "x87" /\ ~outside /\ FpuStep /\ UNCHANGED <<cpu, code, unit, start>>

Spec == Init /\ [][Next]_vars

(***************************************************************************)
(* Properties                                                              *)
(***************************************************************************)
\* Registers, memory and the x87 stack hold values of their size.
TypeOK ==
  /\ regs \in [Registers -> Addresses]
  /\ mem \in [Addresses -> 0 .. 2 * Byte - 1]
  /\ x87 \in Seq(Numbers) /\ Len(x87) <= Depth
  /\ status \in {"running", "halted", "divide error", "panic"}

Ended(names) == unit \in names /\ status = "running" /\ eip > Len(code)
Was(name) == start.regs[name]
W == code[1].w
Big(store, addr) == store[addr] + 2 * Byte * store[addr + 1]
Pair(r, hi, lo, s) == 2 * s * Low(r[hi], s) + Low(r[lo], s)
SignedPair(r, hi, lo, s) == 2 * s * Signed(r[hi], s) + Low(r[lo], s)
\* sub() adds the borrow to the operand first: one of all ones wraps in 32 bits
\* and its borrow is lost, the greatest positive one turns negative.
Borrowed(s) == Low(Was("eax"), s) < Low(Was("ebx"), s)
BorrowWraps(s) == Borrowed(s) /\ s = Long /\ Was("ecx") = 2 * Long - 1
BorrowTurns(s) == Borrowed(s) /\ Low(Was("ecx"), s) = s - 1

\* A chain of ADC or SBB over memory, or over two registers, is the sum or the
\* difference of the whole numbers, and CF its carry: INC, DEC, LODS and the
\* branches between the limbs keep the carry.  The one case the code gets wrong,
\* BorrowWraps, is left out.
LongSums ==
  /\ Ended({"adc", "sbb"}) =>
       LET a == Big(start.mem, Was("edi"))
           b == Big(start.mem, Was("esi"))
           sum == IF unit = "adc" THEN a + b ELSE a - b
       IN Big(mem, Was("edi")) = Low(sum, Long) /\ flags.cf = (sum \notin Addresses)
  /\ Ended({"pair adc", "pair sbb"}) =>
       LET a == Pair(start.regs, "edx", "eax", W)
           b == Pair(start.regs, "ecx", "ebx", W)
           sum == IF unit = "pair adc" THEN a + b ELSE a - b
       IN (unit = "pair sbb" => ~BorrowWraps(W)) =>
            /\ Pair(regs, "edx", "eax", W) = sum % (4 * W * W)
            /\ flags.cf = (sum \notin 0 .. 4 * W * W - 1)

Related(cc, unsigned, signed) ==
  CASE cc = "b" -> unsigned < 0   [] cc = "ae" -> unsigned >= 0
    [] cc = "be" -> unsigned <= 0 [] cc = "a" -> unsigned > 0
    [] cc = "l" -> signed < 0     [] cc = "ge" -> signed >= 0
    [] cc = "le" -> signed <= 0   [] cc = "g" -> signed > 0
    [] cc = "e" -> signed = 0     [] cc = "ne" -> signed # 0

\* After a comparison, of one register or of two with CMP and SBB, the
\* conditions say how the operands are ordered, unsigned and signed, to a
\* branch, to SETcc and to CMOVcc alike.  Left out is the pair whose borrow the
\* code gets wrong: BorrowWraps, and BorrowTurns for a signed order.
ComparisonsDecide ==
  /\ Ended({"decide"}) =>
       LET holds == Related(code[2].cc, Low(Was("eax"), W) - Low(Was("ebx"), W),
                            Signed(Was("eax"), W) - Signed(Was("ebx"), W))
       IN /\ Get(H("ecx"), Byte) = Carry(holds)
          /\ regs["esi"] = Was(IF holds THEN "edi" ELSE "esi")
          /\ Get(R("edx"), Byte) = Carry(holds)
  /\ Ended({"pair decide"}) =>
       LET unsigned == Pair(start.regs, "edx", "eax", W) - Pair(start.regs, "ecx", "ebx", W)
           signed == SignedPair(start.regs, "edx", "eax", W)
                     - SignedPair(start.regs, "ecx", "ebx", W)
       IN ~BorrowWraps(W) /\ (code[3].cc \in {"l", "ge"} => ~BorrowTurns(W)) =>
            Get(H("ecx"), Byte) = Carry(Related(code[3].cc, unsigned, signed))

\* One bit at a time.
ShiftedOnce(op, t, s) ==
  LET top == Negative(t.v, s)
      low == t.v % 2 = 1
      up == Low(2 * t.v, s)
      down == t.v \div 2
  IN CASE op = "rol" -> [v |-> up + Carry(top), cf |-> top]
       [] op = "ror" -> [v |-> down + s * Carry(low), cf |-> low]
       [] op = "rcl" -> [v |-> up + Carry(t.cf), cf |-> top]
       [] op = "rcr" -> [v |-> down + s * Carry(t.cf), cf |-> low]
       [] op = "shl" -> [v |-> up, cf |-> top]
       [] op = "shr" -> [v |-> down, cf |-> low]
       [] op = "sar" -> [v |-> down + s * Carry(top), cf |-> low]
ShiftedSlowly(op, v, count, s) ==
  LET at[k \in 0 .. count] == IF k = 0 THEN [v |-> v, cf |-> FALSE] ELSE ShiftedOnce(op, at[k - 1], s)
  IN at[count]

\* A shift or rotation by a count is that many by one, value and carry (but for
\* the carry of SAR past a narrow width), and SHLD or SHRD beside a shift moves a
\* number of two registers.
ShiftsMove ==
  /\ Ended({"shift"}) =>
       LET count == Low(Was("ecx"), Byte) % LongBits
           slow == ShiftedSlowly(code[1].op, Low(Was("eax"), W), count, W)
       IN /\ Low(regs["eax"], W) = slow.v
          /\ count > 0 /\ (code[1].op = "sar" => count <= BitCount(W)) => flags.cf = slow.cf
  /\ Ended({"pair shift"}) =>
       LET count == Low(Was("ecx"), Byte) % LongBits
           n == IF code[2].op = "sar" THEN SignedPair(start.regs, "edx", "eax", W)
                ELSE Pair(start.regs, "edx", "eax", W)
       IN count <= BitCount(W) =>
            Pair(regs, "edx", "eax", W)
              = (IF code[1].op = "shld" THEN n * 2 ^ count ELSE n \div 2 ^ count) % (4 * W * W)

\* What REP MOVS leaves when it runs away from the overlap, what REPNE SCAS and
\* REPE CMPS stop at, and the length of a string by SCAS.
Span == Was("ecx") * Bytes(code[2].w)
Down == IF flags.df THEN Span - Bytes(code[2].w) ELSE 0
From == Was("esi") - Down
Onto == Was("edi") - Down
Clear == IF flags.df THEN Onto >= From ELSE Onto <= From
FirstOr(S, other) == IF S = {} THEN other ELSE Min(S)
StringsAgree ==
  /\ Ended({"copy"}) /\ Clear =>
       /\ \A a \in Addresses :
            mem[a] = IF a \in Onto .. Onto + Span - 1 THEN start.mem[From + (a - Onto)] ELSE start.mem[a]
       /\ regs["ecx"] = 0
       /\ regs["edi"] - Was("edi") = (IF flags.df THEN 0 - Span ELSE Span)
  /\ Ended({"find", "differ"}) =>
       LET here(i) == start.mem[Was("edi") + i]
           there(i) == IF unit = "find" THEN Low(Was("eax"), Byte) ELSE start.mem[Was("esi") + i]
           stops == {i \in 0 .. Was("ecx") - 1 : (here(i) = there(i)) = (unit = "find")}
           last == FirstOr(stops, Was("ecx") - 1)
       IN /\ regs["edi"] = Was("edi") + last + 1
          /\ regs["ecx"] = Was("ecx") - last - 1
          /\ Was("ecx") > 0 =>
               flags.zf = (here(last) = there(last)) /\ flags.cf = (there(last) < here(last))
  /\ Ended({"strlen"}) =>
       \A i \in 0 .. regs["ecx"] : (start.mem[Was("edi") + i] = 0) = (i = regs["ecx"])

\* A function that calls itself under frames, saved registers and arguments it
\* drops leaves every register, the stack pointer too, as its caller had it.
FramesReturn ==
  unit = "frames" =>
    /\ status = "halted" => regs = start.regs /\ eip = 3
    /\ eip \in DOMAIN code

\* Division undoes a product, and divides towards zero with the dividend's sign
\* on the remainder; only a divisor of 0 stops the processor.
DivisionUndoes ==
  /\ unit = "undo" \/ unit = "divide" =>
       (status # "running" => status = "divide error" /\ Low(Was("ebx"), W) = 0)
  /\ Ended({"undo"}) => Low(regs["eax"], W) = Low(Was("eax"), W) /\ Low(regs["edx"], W) = 0
  /\ Ended({"divide"}) =>
       LET n == Signed(Was("eax"), W)
           d == Signed(Was("ebx"), W)
           q == Signed(regs["eax"], W)
           r == Signed(regs["edx"], W)
       IN ~(n = 0 - W /\ d = -1) => q * d + r = n /\ Magnitude(r) < Magnitude(d) /\ r * n >= 0

BitAt(store, i) == (i % ByteBits) \in BitsOf(store[i \div ByteBits])
\* A bit offset from memory, negative ones too, names one bit of the bit array;
\* a scan finds every bit of a register once.
BitArrays ==
  /\ Ended({"bits"}) =>
       LET place == Was("ebx") * ByteBits + Signed(Was("eax"), Long) IN
       /\ flags.cf = BitAt(start.mem, place)
       /\ \A i \in 0 .. ByteBits * 2 * Long - 1 :
            BitAt(mem, i) = IF i # place THEN BitAt(start.mem, i)
                            ELSE CASE code[1].op = "bts" -> TRUE [] code[1].op = "btr" -> FALSE
                                   [] code[1].op = "btc" -> ~BitAt(start.mem, i)
                                   [] code[1].op = "bt" -> BitAt(start.mem, i)
  /\ Ended({"count"}) => regs["edx"] = Cardinality(BitsOf(Was("eax"))) /\ regs["eax"] = 0

\* Arithmetic on whole numbers of several registers, limbs or bits is exact.
ArithmeticExact == LongSums /\ ShiftsMove /\ DivisionUndoes /\ BitArrays

\* The branch-free absolute value, four ways to negate and the increments of a
\* lock-free counter compute what they are written for.
IdiomsCompute ==
  /\ Ended({"absolute"}) => regs["eax"] = Low(Magnitude(Signed(Was("eax"), Long)), Long)
  /\ Ended({"negate"}) =>
       LET negated == Low(0 - Was("eax"), Long) IN
       /\ regs["ebx"] = negated /\ regs["ecx"] = negated
       /\ regs["edx"] = Low(0 - Signed(Was("eax"), Byte), Long)
       /\ regs["eax"] = regs["edx"]
       /\ flags.sf = Negative(negated, Long) /\ flags.zf = (negated = 0)
  /\ Ended({"atomics"}) =>
       LET old == Load(start.mem, Was("ebx"), Long) IN
       /\ Load(mem, Was("ebx"), Long) = Low(old + 1 + Was("edx"), Long)
       /\ regs["edx"] = Low(old + 1, Long)

\* String operations, recursive calls and short idioms compute what they are for.
ProgramsCompute == StringsAgree /\ FramesReturn /\ IdiomsCompute

\* As long as the program keeps to what the register stack allows, and does not
\* turn it, every register that is not empty reads the same in the flat stack,
\* through overflow, exchanges, freed registers, FSAVE and FRSTOR, and the last
\* comparison came out the same.
StackAgrees ==
  ~outside =>
    /\ \A i \in Slots : Full(ring, i) => FpuGet(x87, i) = St(ring, i)
    /\ order = ring.order
=============================================================================
