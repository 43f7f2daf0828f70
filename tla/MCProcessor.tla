---------------------------- MODULE MCProcessor ------------------------------
(***************************************************************************)
(* The machines Idioms runs: bytes of 3 bits, registers of 6, memory of 64 *)
(* bytes.  Narrow operands take every value; wide ones every value where   *)
(* one register varies, and those around the ends and the sign otherwise.  *)
(***************************************************************************)
EXTENDS Idioms

Zero == [r \in Registers |-> 0]
All == 0 .. 63
Bytes8 == 0 .. 7
Edges == {0, 1, 31, 32, 63}
Of(w) == IF w = Byte THEN Bytes8 ELSE Edges
Dark == [a \in Addresses |-> 0]
Ramp == [a \in Addresses |-> (a * 5 + 3) % 8]
With(list) == [r \in Registers |-> IF \E k \in 1 .. Len(list) : list[k][1] = r
                 THEN list[CHOOSE k \in 1 .. Len(list) : list[k][1] = r][2] ELSE 0]
Machine(unit_, program, states, memory) ==
  [unit |-> unit_, code |-> program, regs |-> states, mem |-> memory]

Widths == {Byte, Long}
Conditions == {"b", "ae", "be", "a", "l", "ge", "le", "g", "e", "ne"}
Pairs(A, B) == {With(<<<<"eax", a>>, <<"ebx", b>>, <<"esi", 1>>, <<"edi", 2>>>>) : a \in A, b \in B}
Quads(A) == {With(<<<<"eax", a>>, <<"ebx", b>>, <<"ecx", c>>, <<"edx", d>>>>) :
               a \in A, b \in A, c \in A, d \in A}
Shifts(A) == {With(<<<<"eax", a>>, <<"ecx", c>>>>) : a \in A, c \in Bytes8}
DoubleShifts(A) == {With(<<<<"eax", a>>, <<"edx", d>>, <<"ecx", c>>>>) : a \in A, d \in A, c \in 0 .. 6}

Backs == {<<Op("dec", Long, R("ecx"), None), To("jcc", "ne", 2)>>, <<To("loop", "e", 2)>>}
Numbers2 == {[a \in Addresses |-> CASE a = 8 -> p [] a = 9 -> q [] a = 12 -> r [] a = 13 -> s [] OTHER -> 0] :
               p \in Bytes8, q \in {0, 3, 7}, r \in {0, 1, 7}, s \in {0, 4, 7}}
Text == {[a \in Addresses |-> CASE a \in 8 .. 11 -> t[a - 7] [] a \in 20 .. 23 -> u[a - 19] [] OTHER -> 0] :
           t \in [1 .. 4 -> 0 .. 1], u \in [1 .. 4 -> 0 .. 1]}

Sums ==
  {Machine(op, LongSum(op, back), {With(<<<<"esi", 8>>, <<"edi", 12>>, <<"ecx", 2>>>>)}, Numbers2) :
     op \in {"adc", "sbb"}, back \in Backs}
  \cup {Machine("pair adc", PairSum("add", "adc", w), Quads(IF w = Byte THEN {0, 3, 4, 7} ELSE Edges), {Dark}) : w \in Widths}
  \cup {Machine("pair sbb", PairSum("sub", "sbb", w), Quads(IF w = Byte THEN {0, 3, 4, 7} ELSE Edges), {Dark}) : w \in Widths}
Decisions ==
  {Machine("decide", Decide(cc, w), Pairs(Of(w), Of(w)), {Dark}) : cc \in Conditions, w \in Widths}
  \cup {Machine("pair decide", PairDecide(cc, w), Quads({0, 3, 4, 7, 63}), {Dark}) :
          cc \in {"b", "ae", "l", "ge"}, w \in Widths}
Moves ==
  {Machine("shift", ShiftBy(op, w), Shifts(IF w = Byte THEN Bytes8 ELSE {0, 1, 21, 32, 42, 63}), {Dark}) :
     op \in {"rol", "ror", "rcl", "rcr", "shl", "shr", "sar"}, w \in Widths}
  \cup {Machine("pair shift", PairShift(op, w), DoubleShifts(IF w = Byte THEN Bytes8 ELSE {0, 1, 21, 32, 42, 63}), {Dark}) :
          op \in {"shl", "shr", "sar"}, w \in Widths}
Strings ==
  {Machine("copy", Copy(dir, w), {With(<<<<"esi", 16>>, <<"edi", d>>, <<"ecx", c>>>>) : d \in {14, 15, 16, 17, 19, 30}, c \in 0 .. 3}, {Ramp}) :
     dir \in {"cld", "std"}, w \in Widths}
  \cup {Machine("copy", CopyLoop(back), {With(<<<<"esi", 16>>, <<"edi", d>>, <<"ecx", c>>>>) : d \in {15, 30}, c \in 0 .. 3}, {Ramp}) : back \in {"loop"}}
  \cup {Machine("find", Find, {With(<<<<"eax", 1>>, <<"edi", 8>>, <<"ecx", c>>>>) : c \in 0 .. 4}, Text),
        Machine("differ", Differ, {With(<<<<"esi", 20>>, <<"edi", 8>>, <<"ecx", c>>>>) : c \in 0 .. 4}, Text),
        Machine("strlen", StringLength, {With(<<<<"edi", 8>>, <<"ecx", 63>>>>)}, Text)}
Frames ==
  {Machine("frames", Recursive(depth, level),
           {[r \in Registers |-> IF r = "esp" THEN esp ELSE IF r = "ebp" THEN 60 ELSE 7] : esp \in {0, 50, 62}}, {Ramp}) :
     depth \in 0 .. 1, level \in 0 .. 2}
Products ==
  {Machine("undo", Undo(op[1], op[2], w), Pairs(Of(w), Of(w)), {Dark}) : op \in {<<"mul", "div">>, <<"imul", "idiv">>}, w \in Widths}
  \cup {Machine("divide", DivideLong(w), Pairs(IF w = Byte THEN Bytes8 ELSE All, IF w = Byte THEN Bytes8 ELSE {0, 1, 3, 32, 61, 63}), {Dark}) : w \in Widths}
Bits ==
  {Machine("bits", BitArray(op), {With(<<<<"eax", a>>, <<"ebx", 32>>>>) : a \in All}, {Dark, Ramp}) :
     op \in {"bt", "bts", "btr", "btc"}}
  \cup {Machine("count", CountBits(scan), {With(<<<<"eax", a>>>>) : a \in All}, {Dark}) : scan \in {"bsf", "bsr"}}
Others ==
  {Machine("absolute", Absolute, {With(<<<<"eax", a>>>>) : a \in All}, {Dark}),
   Machine("negate", Negations, {With(<<<<"eax", a>>, <<"esp", 40>>>>) : a \in All}, {Dark}),
   Machine("atomics", Atomics, {With(<<<<"ebx", 9>>, <<"edx", d>>>>) : d \in Edges},
           {[a \in Addresses |-> CASE a = 9 -> lo [] a = 10 -> hi [] OTHER -> 0] : lo \in Bytes8, hi \in {0, 7}})}
X87 == {Machine("x87", <<>>, {Zero}, {Dark})}

AllMachines ==
  Sums \cup Decisions \cup Moves \cup Strings \cup Frames \cup Products \cup Bits \cup Others \cup X87
IntegerMachines == AllMachines \ X87
=============================================================================
