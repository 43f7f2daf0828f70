----------------------------- MODULE AluProofs -------------------------------
(***************************************************************************)
(* What the arithmetic of Alu guarantees for operands of every width: the  *)
(* conditions after a comparison order the operands, and two operations    *)
(* chained by the carry work on numbers of two registers.                  *)
(***************************************************************************)
EXTENDS Alu, TLAPS

Flags == [FlagNames \cup {"df"} -> BOOLEAN]

(***************************************************************************)
(* Reduction to a width, for arguments less than one modulus away          *)
(***************************************************************************)
LEMMA LowSame ==
  ASSUME NEW s \in Nat \ {0}, NEW v \in Int, 0 <= v, v < 2 * s
  PROVE  Low(v, s) = v
  BY SMT DEF Low

LEMMA LowAbove ==
  ASSUME NEW s \in Nat \ {0}, NEW v \in Int, 2 * s <= v, v < 4 * s
  PROVE  Low(v, s) = v - 2 * s
  BY SMT DEF Low

LEMMA LowBelow ==
  ASSUME NEW s \in Nat \ {0}, NEW v \in Int, 0 - 2 * s <= v, v < 0
  PROVE  Low(v, s) = v + 2 * s
  BY SMT DEF Low

LEMMA NegativeIs ==
  ASSUME NEW s \in Nat \ {0}, NEW v \in 0 .. 2 * s - 1
  PROVE  /\ Negative(v, s) <=> v >= s
         /\ Signed(v, s) = IF v >= s THEN v - 2 * s ELSE v
  BY LowSame DEF Negative, Signed

(***************************************************************************)
(* The fields an addition and a subtraction leave                          *)
(***************************************************************************)
LEMMA SzpFields ==
  ASSUME NEW f \in Flags, NEW r, NEW s
  PROVE  /\ SzpFlags(f, r, s).zf = (Low(r, s) = 0)
         /\ SzpFlags(f, r, s).sf = Negative(r, s)
         /\ DOMAIN SzpFlags(f, r, s) = FlagNames \cup {"df"}
  BY DEF SzpFlags, Flags, FlagNames

\* The sum and the difference of a and b with a carry, in the width of s.
Sum(a, b, c, s) == LET wide == a + b + c IN IF wide < 2 * s THEN wide ELSE wide - 2 * s
Difference(a, b, c, s) == IF a < b + c THEN a - (b + c) + 2 * s ELSE a - (b + c)

\* A borrow that does not wrap the subtrahend, which is added to in the width of a register.
BorrowFits(c, b, s) == c => ~(s = Long /\ b = 2 * Long - 1)

LEMMA CarryIs ==
  ASSUME NEW c \in BOOLEAN
  PROVE  Carry(c) \in {0, 1} /\ (Carry(c) = 1 <=> c) /\ (Carry(c) = 0 <=> ~c)
<1>1. CASE c = TRUE
  BY <1>1 DEF Carry
<1>2. CASE c = FALSE
  BY <1>2 DEF Carry
<1> QED
  BY <1>1, <1>2, Zenon

LEMMA ExceptFlags ==
  ASSUME NEW f \in Flags, NEW name \in FlagNames, NEW v \in BOOLEAN
  PROVE  [f EXCEPT ![name] = v] \in Flags
  BY Zenon DEF Flags

LEMMA SzpFlagsKept ==
  ASSUME NEW f \in Flags, NEW r, NEW s
  PROVE  SzpFlags(f, r, s) \in Flags
<1> DEFINE z == Low(r, s) = 0
           n == Negative(r, s)
           p == Cardinality(BitsOf(r) \cap 0 .. ByteBits - 1) % 2 = 0
<1>1. z \in BOOLEAN /\ n \in BOOLEAN /\ p \in BOOLEAN
  BY DEF Negative
<1>2. {"zf", "sf", "pf"} \subseteq FlagNames
  BY DEF FlagNames
<1>3. SzpFlags(f, r, s) = [[[f EXCEPT !["zf"] = z] EXCEPT !["sf"] = n] EXCEPT !["pf"] = p]
  BY Zenon DEF SzpFlags
<1> HIDE DEF z, n, p
<1>4. [f EXCEPT !["zf"] = z] \in Flags
  BY <1>1, <1>2, ExceptFlags
<1>5. [[f EXCEPT !["zf"] = z] EXCEPT !["sf"] = n] \in Flags
  BY <1>1, <1>2, <1>4, ExceptFlags
<1> QED
  BY <1>1, <1>2, <1>3, <1>5, ExceptFlags

LEMMA AddFields ==
  ASSUME NEW f \in Flags, NEW s \in Nat \ {0}, NEW c \in BOOLEAN,
         NEW a \in 0 .. 2 * s - 1, NEW b \in 0 .. 2 * s - 1
  PROVE  /\ Add(f, a, b, c, s).value = Sum(a, b, Carry(c), s)
         /\ Add(f, a, b, c, s).flags.cf = (a + b + Carry(c) >= 2 * s)
<1> DEFINE wide == a + b + Carry(c)
           res == Low(wide, s)
<1>1. Low(a, s) = a /\ Low(b, s) = b
  BY LowSame
<1>2. Carry(c) \in {0, 1}
  BY CarryIs
<1>3. wide \in Int /\ 0 <= wide /\ wide < 4 * s
  BY <1>2
<1>4. res = Sum(a, b, Carry(c), s)
  BY <1>3, LowSame, LowAbove DEF Sum
<1>5. DOMAIN SzpFlags(f, res, s) = FlagNames \cup {"df"}
  BY SzpFields
<1>6. Add(f, a, b, c, s).value = res
  BY <1>1 DEF Add
<1>7. Add(f, a, b, c, s).flags.cf = (wide >= 2 * s)
  BY <1>1, <1>5, Zenon DEF Add, FlagNames
<1> QED
  BY <1>4, <1>6, <1>7, Zenon

LEMMA SubFields ==
  ASSUME NEW f \in Flags, NEW s \in Nat \ {0}, s <= Long, NEW c \in BOOLEAN,
         NEW a \in 0 .. 2 * s - 1, NEW b \in 0 .. 2 * s - 1,
         BorrowFits(c, b, s)
  PROVE  LET r == Sub(f, a, b, c, s)
             d == Difference(a, b, Carry(c), s)
         IN  /\ r.value = d
             /\ r.flags.cf = (a < b + Carry(c))
             /\ r.flags.zf = (d = 0)
             /\ r.flags.sf = Negative(d, s)
             /\ r.flags.of = (Negative(a, s) # Negative(b + Carry(c), s)
                              /\ Negative(a, s) # Negative(d, s))
<1> DEFINE rhsb == b + Carry(c)
           d == Difference(a, b, Carry(c), s)
           r == Sub(f, a, b, c, s)
<1>1. Low(a, s) = a /\ Low(b, s) = b
  BY LowSame
<1>2. Carry(c) \in {0, 1} /\ (Carry(c) = 1 => c)
  BY CarryIs, Zenon
<1>3. rhsb \in Int /\ 0 <= rhsb /\ rhsb <= 2 * s /\ rhsb < 2 * Long
  <2>1. Carry(c) = 1 => ~(s = Long /\ b = 2 * Long - 1)
    BY <1>2, Zenon DEF BorrowFits
  <2> QED
    BY <1>2, <2>1, SignAssumption
<1>4. Low(rhsb, Long) = rhsb
  BY <1>3, SignAssumption, LowSame
<1>5. Low(a - rhsb, s) = d /\ d \in 0 .. 2 * s - 1
  <2>1. CASE a < rhsb
    BY <2>1, <1>3, LowBelow DEF Difference
  <2>2. CASE a >= rhsb
    BY <2>2, <1>3, LowSame DEF Difference
  <2> QED
    BY <2>1, <2>2, <1>3
<1>6. Low(d, s) = d
  BY <1>5, LowSame
<1> HIDE DEF d
<1>7. r = [value |-> d,
           flags |-> [SzpFlags(f, d, s) EXCEPT
             !.cf = a < rhsb, !.af = Aux(a, rhsb, d),
             !.of = Negative(a, s) # Negative(rhsb, s) /\ Negative(a, s) # Negative(d, s)]]
  BY <1>1, <1>4, <1>5, Zenon DEF Sub
<1>8. /\ DOMAIN SzpFlags(f, d, s) = FlagNames \cup {"df"}
      /\ SzpFlags(f, d, s).zf = (Low(d, s) = 0)
      /\ SzpFlags(f, d, s).sf = Negative(d, s)
  BY SzpFields, Zenon
<1> HIDE DEF r, rhsb
<1>9. r.value = d
  BY <1>7
<1>10. r.flags.cf = (a < rhsb)
  BY <1>7, <1>8, Zenon DEF FlagNames
<1>11. r.flags.zf = (d = 0)
  <2>1. r.flags.zf = (Low(d, s) = 0)
    BY <1>7, <1>8, Zenon DEF FlagNames
  <2> QED
    BY <2>1, <1>6
<1>12. r.flags.sf = Negative(d, s)
  BY <1>7, <1>8, Zenon DEF FlagNames
<1>13. r.flags.of = (Negative(a, s) # Negative(rhsb, s) /\ Negative(a, s) # Negative(d, s))
  BY <1>7, <1>8, Zenon DEF FlagNames
<1> QED
  BY <1>9, <1>10, <1>11, <1>12, <1>13, Zenon DEF r, d, rhsb

\* An addition and a subtraction in terms of the carry they leave.
LEMMA AddBalance ==
  ASSUME NEW f \in Flags, NEW s \in Nat \ {0}, NEW c \in BOOLEAN,
         NEW a \in 0 .. 2 * s - 1, NEW b \in 0 .. 2 * s - 1
  PROVE  LET r == Add(f, a, b, c, s)
         IN  /\ r.flags.cf \in BOOLEAN
             /\ r.flags.cf => r.value = a + b + Carry(c) - 2 * s
             /\ ~r.flags.cf => r.value = a + b + Carry(c)
<1> DEFINE r == Add(f, a, b, c, s)
           k == Carry(c)
<1>1. r.value = Sum(a, b, k, s) /\ r.flags.cf = (a + b + k >= 2 * s)
  BY AddFields, Zenon
<1>2. k \in {0, 1}
  BY CarryIs, Zenon
<1> HIDE DEF r, k
<1>3. r.flags.cf <=> a + b + k >= 2 * s
  BY <1>1, Zenon
<1>4. (a + b + k >= 2 * s) \in BOOLEAN
  OBVIOUS
<1>5. r.flags.cf \in BOOLEAN
  BY <1>1, <1>4, Zenon
<1>6. a + b + k >= 2 * s => r.value = a + b + k - 2 * s
  BY <1>1, <1>2 DEF Sum
<1>7. ~(a + b + k >= 2 * s) => r.value = a + b + k
  BY <1>1, <1>2 DEF Sum
<1> QED
  BY <1>3, <1>5, <1>6, <1>7, Zenon DEF r, k

LEMMA SubBalance ==
  ASSUME NEW f \in Flags, NEW s \in Nat \ {0}, s <= Long, NEW c \in BOOLEAN,
         NEW a \in 0 .. 2 * s - 1, NEW b \in 0 .. 2 * s - 1,
         BorrowFits(c, b, s)
  PROVE  LET r == Sub(f, a, b, c, s)
         IN  /\ r.flags.cf \in BOOLEAN
             /\ r.flags.cf <=> a < b + Carry(c)
             /\ r.flags.cf => r.value = a - (b + Carry(c)) + 2 * s
             /\ ~r.flags.cf => r.value = a - (b + Carry(c))
<1> DEFINE r == Sub(f, a, b, c, s)
           k == Carry(c)
<1>1. r.value = Difference(a, b, k, s) /\ r.flags.cf = (a < b + k)
  BY SubFields, ZenonT(60)
<1>2. k \in {0, 1}
  BY CarryIs, Zenon
<1> HIDE DEF r, k
<1>3. r.flags.cf <=> a < b + k
  BY <1>1, Zenon
<1>4. (a < b + k) \in BOOLEAN
  OBVIOUS
<1>5. r.flags.cf \in BOOLEAN
  BY <1>1, <1>4, Zenon
<1>6. a < b + k => r.value = a - (b + k) + 2 * s
  BY <1>1, <1>2 DEF Difference
<1>7. ~(a < b + k) => r.value = a - (b + k)
  BY <1>1, <1>2 DEF Difference
<1> QED
  BY <1>3, <1>5, <1>6, <1>7, Zenon DEF r, k

\* Sign and overflow of a difference order the operands as signed numbers.
LEMMA SignedOrder ==
  ASSUME NEW s \in Nat \ {0}, NEW a \in 0 .. 2 * s - 1, NEW b \in 0 .. 2 * s - 1,
         NEW d \in Int, a < b => d = a - b + 2 * s, a >= b => d = a - b
  PROVE  /\ d = 0 <=> a = b
         /\ Signed(a, s) = Signed(b, s) <=> a = b
         /\ Signed(a, s) < Signed(b, s) <=>
              (Negative(d, s) # (Negative(a, s) # Negative(b, s) /\ Negative(a, s) # Negative(d, s)))
         /\ Signed(a, s) \in Int /\ Signed(b, s) \in Int
<1>1. a < b \/ a >= b
  OBVIOUS
<1>2. d \in 0 .. 2 * s - 1
  BY <1>1
<1>3. /\ Negative(a, s) <=> a >= s
      /\ Negative(b, s) <=> b >= s
      /\ Negative(d, s) <=> d >= s
      /\ Signed(a, s) = IF a >= s THEN a - 2 * s ELSE a
      /\ Signed(b, s) = IF b >= s THEN b - 2 * s ELSE b
  BY <1>2, NegativeIs
<1>4. (d >= s) # ((a >= s) # (b >= s) /\ (a >= s) # (d >= s)) <=> Signed(a, s) < Signed(b, s)
  BY <1>1, <1>2, <1>3, SMT
<1>5. /\ Negative(a, s) = (a >= s)
      /\ Negative(b, s) = (b >= s)
      /\ Negative(d, s) = (d >= s)
  BY <1>3 DEF Negative
<1>7. Signed(a, s) < Signed(b, s) <=>
        (Negative(d, s) # (Negative(a, s) # Negative(b, s) /\ Negative(a, s) # Negative(d, s)))
  BY <1>4, <1>5, Zenon
<1>8. (d = 0 <=> a = b) /\ (Signed(a, s) = Signed(b, s) <=> a = b)
      /\ Signed(a, s) \in Int /\ Signed(b, s) \in Int
  BY <1>1, <1>3
<1> QED
  BY <1>2, <1>7, <1>8, Zenon

(***************************************************************************)
(* The results                                                             *)
(***************************************************************************)
\* After CMP of two operands of any width the conditions of Jcc, SETcc and CMOVcc
\* (Cpu::cond) say how they are ordered, as unsigned and as signed numbers.
THEOREM CompareDecides ==
  ASSUME NEW f \in Flags, NEW s \in Nat \ {0}, s <= Long,
         NEW a \in 0 .. 2 * s - 1, NEW b \in 0 .. 2 * s - 1
  PROVE  LET g == ExecAlu("cmp", f, a, b, s).flags
         IN  /\ Cond("b", g) <=> a < b
             /\ Cond("ae", g) <=> a >= b
             /\ Cond("be", g) <=> a <= b
             /\ Cond("a", g) <=> a > b
             /\ Cond("e", g) <=> a = b
             /\ Cond("l", g) <=> Signed(a, s) < Signed(b, s)
             /\ Cond("ge", g) <=> Signed(a, s) >= Signed(b, s)
             /\ Cond("le", g) <=> Signed(a, s) <= Signed(b, s)
             /\ Cond("g", g) <=> Signed(a, s) > Signed(b, s)
<1> DEFINE g == Sub(f, a, b, FALSE, s).flags
           k == Carry(FALSE)
           d == Difference(a, b, k, s)
<1>1. ExecAlu("cmp", f, a, b, s).flags = g
  BY DEF ExecAlu
<1>2. k = 0
  BY CarryIs, Zenon
<1>14. BorrowFits(FALSE, b, s)
  BY DEF BorrowFits
<1>3. /\ g.cf = (a < b + k)
      /\ g.zf = (d = 0)
      /\ g.sf = Negative(d, s)
      /\ g.of = (Negative(a, s) # Negative(b + k, s) /\ Negative(a, s) # Negative(d, s))
  BY <1>14, SubFields, Zenon
<1> HIDE DEF g, k
<1>12. b + k = b
  BY <1>2
<1>13. d \in Int /\ (a < b => d = a - b + 2 * s) /\ (a >= b => d = a - b)
  BY <1>2 DEF Difference
<1> HIDE DEF d
<1>8. /\ d = 0 <=> a = b
      /\ Signed(a, s) = Signed(b, s) <=> a = b
      /\ Signed(a, s) < Signed(b, s) <=>
           (Negative(d, s) # (Negative(a, s) # Negative(b, s) /\ Negative(a, s) # Negative(d, s)))
      /\ Signed(a, s) \in Int /\ Signed(b, s) \in Int
  BY <1>13, SignedOrder, Zenon
<1>4. g.cf <=> a < b
  BY <1>3, <1>12, Zenon
<1>5. g.zf <=> a = b
  BY <1>3, <1>8, Zenon
<1>6. (g.sf # g.of) <=> Signed(a, s) < Signed(b, s)
  BY <1>3, <1>8, <1>12, Zenon
<1>7. (g.sf = g.of) <=> ~(Signed(a, s) < Signed(b, s))
  BY <1>6, Zenon
<1>9. /\ a >= b <=> ~(a < b)
      /\ a <= b <=> a < b \/ a = b
      /\ a > b <=> ~(a < b) /\ ~(a = b)
      /\ Signed(a, s) >= Signed(b, s) <=> ~(Signed(a, s) < Signed(b, s))
      /\ Signed(a, s) <= Signed(b, s) <=> Signed(a, s) < Signed(b, s) \/ Signed(a, s) = Signed(b, s)
      /\ Signed(a, s) > Signed(b, s) <=>
           ~(Signed(a, s) < Signed(b, s)) /\ ~(Signed(a, s) = Signed(b, s))
  BY <1>8
<1>10. /\ Cond("b", g) = g.cf
       /\ Cond("ae", g) = ~g.cf
       /\ Cond("be", g) = (g.cf \/ g.zf)
       /\ Cond("a", g) = (~g.cf /\ ~g.zf)
       /\ Cond("e", g) = g.zf
  BY DEF Cond
<1>11. /\ Cond("l", g) = (g.sf # g.of)
       /\ Cond("ge", g) = (g.sf = g.of)
       /\ Cond("le", g) = (g.zf \/ g.sf # g.of)
       /\ Cond("g", g) = (~g.zf /\ g.sf = g.of)
  BY DEF Cond
<1> QED
  BY <1>1, <1>4, <1>5, <1>6, <1>7, <1>8, <1>9, <1>10, <1>11, Zenon

\* ADD of the low and ADC of the high registers (Cpu::add) is the sum of two
\* numbers of two registers, and CF the carry out of it.
THEOREM PairSums ==
  ASSUME NEW f \in Flags, NEW s \in Nat \ {0},
         NEW a0 \in 0 .. 2 * s - 1, NEW a1 \in 0 .. 2 * s - 1,
         NEW b0 \in 0 .. 2 * s - 1, NEW b1 \in 0 .. 2 * s - 1
  PROVE  LET low == Add(f, a0, b0, FALSE, s)
             high == Add(f, a1, b1, low.flags.cf, s)
         IN  2 * s * high.value + low.value + (IF high.flags.cf THEN 4 * s * s ELSE 0)
               = (2 * s * a1 + a0) + (2 * s * b1 + b0)
<1> DEFINE low == Add(f, a0, b0, FALSE, s)
           high == Add(f, a1, b1, low.flags.cf, s)
           c == low.flags.cf
           d == high.flags.cf
           j == Carry(c)
           n == Carry(d)
           i == Carry(FALSE)
<1>1. /\ c \in BOOLEAN
      /\ c => low.value = a0 + b0 + i - 2 * s
      /\ ~c => low.value = a0 + b0 + i
  BY AddBalance, Zenon
<1> HIDE DEF low
<1>2. /\ d \in BOOLEAN
      /\ d => high.value = a1 + b1 + j - 2 * s
      /\ ~d => high.value = a1 + b1 + j
  BY <1>1, AddBalance, Zenon
<1> HIDE DEF high, c, d
<1>3. /\ j \in {0, 1} /\ (j = 1 <=> c)
      /\ n \in {0, 1} /\ (n = 1 <=> d)
      /\ i = 0
  BY <1>1, <1>2, CarryIs, Zenon
<1> HIDE DEF i, j, n
<1>4. low.value = a0 + b0 - 2 * s * j
  <2>1. CASE j = 1
    BY <1>1, <1>3, <2>1
  <2>2. CASE j = 0
    BY <1>1, <1>3, <2>2
  <2> QED
    BY <1>3, <2>1, <2>2, Zenon
<1>5. high.value = a1 + b1 + j - 2 * s * n
  <2>1. CASE n = 1
    BY <1>2, <1>3, <2>1
  <2>2. CASE n = 0
    BY <1>2, <1>3, <2>2
  <2> QED
    BY <1>3, <2>1, <2>2, Zenon
<1>6. (IF d THEN 4 * s * s ELSE 0) = 4 * s * s * n
  <2>1. CASE n = 1
    BY <1>3, <2>1
  <2>2. CASE n = 0
    BY <1>3, <2>2
  <2> QED
    BY <1>3, <2>1, <2>2, Zenon
<1>7. 2 * s * high.value = 2 * s * a1 + 2 * s * b1 + 2 * s * j - 4 * s * s * n
  BY <1>3, <1>5
<1>8. 2 * s * high.value + low.value + (IF d THEN 4 * s * s ELSE 0)
        = (2 * s * a1 + a0) + (2 * s * b1 + b0)
  BY <1>3, <1>4, <1>6, <1>7
<1> QED
  BY <1>8, Zenon DEF low, high, c, d

\* SUB of the low and SBB of the high registers (Cpu::sub) is the difference of
\* two numbers of two registers, and CF its borrow, unless the borrow is added to
\* a full-width register of all ones.
THEOREM PairDifferences ==
  ASSUME NEW f \in Flags, NEW s \in Nat \ {0}, s <= Long,
         NEW a0 \in 0 .. 2 * s - 1, NEW a1 \in 0 .. 2 * s - 1,
         NEW b0 \in 0 .. 2 * s - 1, NEW b1 \in 0 .. 2 * s - 1,
         ~(s = Long /\ b1 = 2 * Long - 1 /\ a0 < b0)
  PROVE  LET low == Sub(f, a0, b0, FALSE, s)
             high == Sub(f, a1, b1, low.flags.cf, s)
         IN  2 * s * high.value + low.value
               = (2 * s * a1 + a0) - (2 * s * b1 + b0) + (IF high.flags.cf THEN 4 * s * s ELSE 0)
<1> DEFINE low == Sub(f, a0, b0, FALSE, s)
           c == low.flags.cf
           high == Sub(f, a1, b1, c, s)
           d == high.flags.cf
           j == Carry(c)
           n == Carry(d)
           i == Carry(FALSE)
<1>11. BorrowFits(FALSE, b0, s)
  BY DEF BorrowFits
<1>1. /\ c \in BOOLEAN
      /\ c <=> a0 < b0 + i
      /\ c => low.value = a0 - (b0 + i) + 2 * s
      /\ ~c => low.value = a0 - (b0 + i)
  BY <1>11, SubBalance, Zenon
<1> HIDE DEF low
<1>9. i = 0
  BY CarryIs, Zenon
<1> HIDE DEF high, c, d, i, j, n
<1>10. BorrowFits(c, b1, s)
  <2>1. b0 + i = b0
    BY <1>9
  <2> QED
    BY <1>1, <2>1, Zenon DEF BorrowFits
<1>2. /\ d \in BOOLEAN
      /\ d => high.value = a1 - (b1 + j) + 2 * s
      /\ ~d => high.value = a1 - (b1 + j)
  BY <1>1, <1>10, SubBalance, ZenonT(60) DEF high, d, j
<1>3. /\ j \in {0, 1} /\ (j = 1 <=> c)
      /\ n \in {0, 1} /\ (n = 1 <=> d)
  BY <1>1, <1>2, CarryIs, Zenon DEF j, n
<1>4. low.value = a0 - b0 + 2 * s * j
  <2>1. CASE j = 1
    BY <1>1, <1>3, <1>9, <2>1
  <2>2. CASE j = 0
    BY <1>1, <1>3, <1>9, <2>2
  <2> QED
    BY <1>3, <2>1, <2>2, Zenon
<1>5. high.value = a1 - b1 - j + 2 * s * n
  <2>1. CASE n = 1
    BY <1>2, <1>3, <2>1
  <2>2. CASE n = 0
    BY <1>2, <1>3, <2>2
  <2> QED
    BY <1>3, <2>1, <2>2, Zenon
<1>6. (IF d THEN 4 * s * s ELSE 0) = 4 * s * s * n
  <2>1. CASE n = 1
    BY <1>3, <2>1
  <2>2. CASE n = 0
    BY <1>3, <2>2
  <2> QED
    BY <1>3, <2>1, <2>2, Zenon
<1>7. 2 * s * high.value = 2 * s * a1 - 2 * s * b1 - 2 * s * j + 4 * s * s * n
  BY <1>3, <1>5
<1>8. 2 * s * high.value + low.value
        = (2 * s * a1 + a0) - (2 * s * b1 + b0) + (IF d THEN 4 * s * s ELSE 0)
  BY <1>3, <1>4, <1>6, <1>7
<1> QED
  BY <1>8, Zenon DEF low, high, c, d
=============================================================================
