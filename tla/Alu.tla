-------------------------------- MODULE Alu ----------------------------------
(***************************************************************************)
(* The arithmetic of the interpreter (src/cpu.rs): what an operation       *)
(* returns and the flags it leaves.  An operand width is named by its sign *)
(* bit s, as sign_bit() gives it: a value of that width is below 2 * s.    *)
(* Registers are Long wide; Byte stands for the narrower widths.           *)
(***************************************************************************)
EXTENDS Integers, FiniteSets, FiniteSetsExt

CONSTANTS ByteBits, LongBits  (* 8 and 32 in the program *)

ASSUME WidthAssumption ==
  ByteBits \in Nat /\ LongBits \in Nat /\ 1 < ByteBits /\ LongBits = 2 * ByteBits

Byte == 2 ^ (ByteBits - 1)
Long == 2 ^ (LongBits - 1)

\* The sign bits of the two widths.
ASSUME SignAssumption == Byte \in Nat \ {0} /\ Long \in Nat \ {0} /\ Byte <= Long

BitCount(s) == IF s = Byte THEN ByteBits ELSE LongBits
FlagNames == {"cf", "of", "sf", "zf", "af", "pf"}

Low(v, s) == v % (2 * s)
Negative(v, s) == Low(v, s) >= s
Signed(v, s) == IF Negative(v, s) THEN Low(v, s) - 2 * s ELSE Low(v, s)
Extend(v, s) == Low(Signed(v, s), Long)
Carry(c) == IF c THEN 1 ELSE 0

BitsOf(v) == {i \in 0 .. LongBits - 1 : (v \div 2 ^ i) % 2 = 1}
FromBits(S) == MapThenSumSet(LAMBDA i : 2 ^ i, S)
And(a, b) == FromBits(BitsOf(a) \cap BitsOf(b))
Or(a, b) == FromBits(BitsOf(a) \cup BitsOf(b))
Xor(a, b) == FromBits((BitsOf(a) \cup BitsOf(b)) \ (BitsOf(a) \cap BitsOf(b)))

\* The bit into which the low half of a byte carries.
AuxBit == ByteBits \div 2
Aux(a, b, r) == Cardinality({v \in {<<1, a>>, <<2, b>>, <<3, r>>} : AuxBit \in BitsOf(v[2])}) % 2 = 1

SzpFlags(f, r, s) ==
  [f EXCEPT !.zf = Low(r, s) = 0, !.sf = Negative(r, s),
            !.pf = Cardinality(BitsOf(r) \cap 0 .. ByteBits - 1) % 2 = 0]
LogicFlags(f, r, s) == [SzpFlags(f, r, s) EXCEPT !.cf = FALSE, !.of = FALSE, !.af = FALSE]
ShiftFlags(f, r, s) == [SzpFlags(f, r, s) EXCEPT !.of = FALSE, !.af = FALSE]

Add(f, lhs, rhs, carry, s) ==
  LET wide == Low(lhs, s) + Low(rhs, s) + Carry(carry)
      res == Low(wide, s)
  IN [value |-> res,
      flags |-> [SzpFlags(f, res, s) EXCEPT
        !.cf = wide >= 2 * s,
        !.af = Aux(lhs, rhs, res),
        !.of = Negative(lhs, s) = Negative(rhs, s) /\ Negative(lhs, s) # Negative(res, s)]]

\* Mutation of Sub: the overflow of an addition.
SubOverflow(f, lhs, rhs, borrow, s) ==
  LET rhsb == Low(Low(rhs, s) + Carry(borrow), Long)
      res == Low(lhs - rhsb, s)
  IN [value |-> res,
      flags |-> [SzpFlags(f, res, s) EXCEPT
        !.cf = Low(lhs, s) < rhsb,
        !.af = Aux(lhs, rhsb, res),
        !.of = Negative(lhs, s) = Negative(rhsb, s) /\ Negative(lhs, s) # Negative(res, s)]]

\* The borrow is added to the operand first, in the 32 bits of a register.
Sub(f, lhs, rhs, borrow, s) ==
  LET rhsb == Low(Low(rhs, s) + Carry(borrow), Long)
      res == Low(lhs - rhsb, s)
  IN [value |-> res,
      flags |-> [SzpFlags(f, res, s) EXCEPT
        !.cf = Low(lhs, s) < rhsb,
        !.af = Aux(lhs, rhsb, res),
        !.of = Negative(lhs, s) # Negative(rhsb, s) /\ Negative(lhs, s) # Negative(res, s)]]

ExecAlu(op, f, a, b, s) ==
  CASE op = "add"             -> Add(f, a, b, FALSE, s)
    [] op = "adc"             -> Add(f, a, b, f.cf, s)
    [] op \in {"sub", "cmp"}  -> Sub(f, a, b, FALSE, s)
    [] op = "sbb"             -> Sub(f, a, b, f.cf, s)
    [] op = "and"             -> [value |-> And(a, b), flags |-> LogicFlags(f, And(a, b), s)]
    [] op = "or"              -> [value |-> Or(a, b), flags |-> LogicFlags(f, Or(a, b), s)]
    [] op = "xor"             -> [value |-> Xor(a, b), flags |-> LogicFlags(f, Xor(a, b), s)]

Increment(f, v, s) == [Add(f, v, 1, FALSE, s) EXCEPT !.flags.cf = f.cf]
Decrement(f, v, s) == [Sub(f, v, 1, FALSE, s) EXCEPT !.flags.cf = f.cf]

Cond(cc, f) ==
  CASE cc = "o" -> f.of              [] cc = "no" -> ~f.of
    [] cc = "b" -> f.cf              [] cc = "ae" -> ~f.cf
    [] cc = "e" -> f.zf              [] cc = "ne" -> ~f.zf
    [] cc = "be" -> f.cf \/ f.zf     [] cc = "a" -> ~f.cf /\ ~f.zf
    [] cc = "s" -> f.sf              [] cc = "ns" -> ~f.sf
    [] cc = "p" -> f.pf              [] cc = "np" -> ~f.pf
    [] cc = "l" -> f.sf # f.of       [] cc = "ge" -> f.sf = f.of
    [] cc = "le" -> f.zf \/ f.sf # f.of
    [] cc = "g" -> ~f.zf /\ f.sf = f.of

(***************************************************************************)
(* Shifts and rotations.  The count has been masked and is not 0.          *)
(***************************************************************************)
Rotated(v, cf, count, s, left) ==
  LET turn[k \in 0 .. count] ==
        IF k = 0 THEN [r |-> v, cf |-> cf]
        ELSE LET t == turn[k - 1] IN
             IF left THEN [r |-> Low(2 * t.r, s) + Carry(t.cf), cf |-> Negative(t.r, s)]
                     ELSE [r |-> (t.r \div 2) + s * Carry(t.cf), cf |-> t.r % 2 = 1]
  IN turn[count]

Shift(op, f, value, count, s) ==
  LET v == Low(value, s)
      n == BitCount(s)
      c == count % n
      once(g, of) == IF count = 1 THEN [g EXCEPT !.of = of] ELSE g
      rol == Low(v * 2 ^ c, s) + (v \div 2 ^ (n - c))
      ror == (v \div 2 ^ c) + Low(v * 2 ^ (n - c), s)
      rc == Rotated(v, f.cf, count, s, op = "rcl")
      shl == Low(v * 2 ^ count, s)
      shr == v \div 2 ^ count
      sar == Low(Signed(v, s) \div 2 ^ count, s)
      out == (v \div 2 ^ (count - 1)) % 2 = 1
  IN CASE op = "rol" -> [value |-> rol, flags |-> [f EXCEPT !.cf = rol % 2 = 1]]
       [] op = "ror" -> [value |-> ror, flags |-> [f EXCEPT !.cf = Negative(ror, s)]]
       [] op \in {"rcl", "rcr"} ->
            [value |-> rc.r, flags |-> once([f EXCEPT !.cf = rc.cf], Negative(rc.r, s) # rc.cf)]
       [] op = "shl" ->
            [value |-> shl,
             flags |-> once([ShiftFlags(f, shl, s) EXCEPT !.cf = Negative(v * 2 ^ (count - 1), s)],
                            Negative(shl, s) # Negative(v, s))]
       [] op = "shr" ->
            [value |-> shr, flags |-> once([ShiftFlags(f, shr, s) EXCEPT !.cf = out], Negative(v, s))]
       [] op = "sar" ->
            [value |-> sar, flags |-> once([ShiftFlags(f, sar, s) EXCEPT !.cf = out], FALSE)]

\* Mutation of DoubleShift: the wrong end of the source is shifted in.
DoubleShiftLowEnd(f, dst, src, count, s, left) ==
  LET n == BitCount(s)
      c == ((count - 1) % n) + 1
      value == IF left THEN Low(dst * 2 ^ c, s) + (src % 2 ^ c)
               ELSE (dst \div 2 ^ c) + (src \div 2 ^ (n - c)) * 2 ^ (n - c)
  IN [value |-> value, flags |-> SzpFlags(f, value, s)]

DoubleShift(f, dst, src, count, s, left) ==
  LET n == BitCount(s)
      c == IF count > n THEN ((count - 1) % n) + 1 ELSE count
      value == IF left THEN Low(dst * 2 ^ c, s) + (src \div 2 ^ (n - c))
                       ELSE (dst \div 2 ^ c) + Low(src * 2 ^ (n - c), s)
      cf == (dst \div 2 ^ (IF left THEN n - c ELSE c - 1)) % 2 = 1
      g == [SzpFlags(f, value, s) EXCEPT !.cf = cf]
  IN [value |-> value,
      flags |-> IF c # 1 THEN g
                ELSE [g EXCEPT !.of = Negative(value, s) # (IF left THEN cf ELSE Negative(dst, s))]]
=============================================================================
