-------------------------------- MODULE Bits --------------------------------
(***************************************************************************)
(* assign4/bits.c: the bit puzzles, and disassemble, as functions of their *)
(* arguments.  A bit vector is the set of its positions, a byte a number;  *)
(* stype and utype have UMod values.                                       *)
(***************************************************************************)
EXTENDS Integers, Sequences, FiniteSets

CONSTANTS
    Top,            \* the top bit of BASETYPE: 128 for char, 32768 for short
    UsedSets,       \* the digits that may be used in a row, column or block
    Displacements   \* the bytes of displacements and immediates

ASSUME BitsAssumption ==
    Top \in Nat \ {0} /\ UsedSets \subseteq SUBSET (1 .. 9) /\ Displacements \subseteq 0 .. 255

UMod == 2 * Top

VARIABLES call, value       \* the function called with its arguments, its result

bitsVars == <<call, value>>

\* One count for both loops; a negative int would be shifted for ever.
CmpBits(a, b) == Cardinality(a) - Cardinality(b)

Ones(n) == 0 .. n - 1
MakeSet(values) == values

\* More than 127 has, fewer than 1023, which has ten.
IsSingle(row, col, block) ==
    LET tmp == row \cup col \cup block
    IN  CmpBits(tmp, Ones(10)) < 0 /\ CmpBits(tmp, Ones(7)) > 0

AllOnes == 65535 % UMod        \* (utype) 0xffff
Signed(u) == IF u % UMod >= Top THEN (u % UMod) - UMod ELSE u % UMod

SatAddUnsigned(a, b) ==
    LET res == (a + b) % UMod IN IF res < a \/ res < b THEN AllOnes ELSE res

\* The mask is the top bit: xor takes it from all ones, and leaves it alone.
SatAddSigned(a, b) ==
    LET res == Signed(a + b)
    IN  IF a > 0 /\ b > 0 /\ res < 0
        THEN Signed(IF AllOnes >= Top THEN AllOnes - Top ELSE AllOnes + Top)
        ELSE IF a < 0 /\ b < 0 /\ res > 0
        THEN Signed(IF AllOnes >= Top THEN Top ELSE 0)
        ELSE res

Imm(n) == <<"imm", n>>
Reg(r) == <<"reg", r>>
Ind(r) == <<"ind", r>>
Displ(d, r) == <<"displ", d, r>>
Scaled(d, base, index, scale) == <<"scaled", d, base, index, scale>>

ShiftedOne == [n \in 0 .. 3 |-> CASE n = 0 -> 1 [] n = 1 -> 2 [] n = 2 -> 4 [] n = 3 -> 8]

\* Mutant of Disassemble: the displaced form is tested before the scaled one.
DisplFirst(raw) ==
    IF raw[1] = 255 /\ raw[2] \div 8 = 14 THEN Displ(raw[3], raw[2] % 8) ELSE <<"none">>

\* The number that the digits printed by "0x%x%x" denote.
Digits(high, low) == high * (IF low < 16 THEN 16 ELSE 256) + low

\* What is printed for the bytes; of an immediate only the lower two.
Disassemble(raw) ==
    CASE raw[1] = 104 -> Imm(Digits(raw[3], raw[2]))
      [] raw[1] \div 8 = 10 -> Reg(raw[1] % 8)
      [] raw[1] = 255 /\ raw[2] \div 8 = 6 -> Ind(raw[2] % 8)
      [] raw[1] = 255 /\ raw[2] = 116 ->
           Scaled(raw[4], raw[3] % 8, (raw[3] \div 8) % 8, ShiftedOne[raw[3] \div 64])
      [] raw[1] = 255 /\ raw[2] \div 8 = 14 /\ raw[2] # 116 -> Displ(raw[3], raw[2] % 8)
      [] OTHER -> <<"none">>

BitsOff == call = <<>> /\ value = <<>>
BitsInit == BitsOff

Unsigned == 0 .. UMod - 1
Integer == -Top .. Top - 1

SaturatingCall ==
    \/ \E a, b \in Unsigned : call' = <<"unsigned", a, b>> /\ value' = SatAddUnsigned(a, b)
    \/ \E a, b \in Integer : call' = <<"signed", a, b>> /\ value' = SatAddSigned(a, b)

SudokuCall ==
    \E row, col, block \in UsedSets :
      /\ call' = <<"single", row, col, block>>
      /\ value' = IsSingle(MakeSet(row), MakeSet(col), MakeSet(block))

\* The five forms of pushq: of an immediate the four bytes, the lowest first; a
\* base of 4 announces a scaled index, and has no other form with ff.
Instructions ==
    LET reg == 0 .. 7
        one == reg \ {4}
    IN  {Imm(bytes) : bytes \in [1 .. 4 -> Displacements]} \cup {Reg(r) : r \in reg} \cup {Ind(r) : r \in one}
          \cup {Displ(d, r) : d \in Displacements, r \in one}
          \cup {Scaled(d, b, i, s) : d \in Displacements, b \in reg, i \in one, s \in {1, 2, 4, 8}}

\* The processor's encoding.
Encode(op) ==
    LET log == [s \in {1, 2, 4, 8} |-> CASE s = 1 -> 0 [] s = 2 -> 1 [] s = 4 -> 2 [] s = 8 -> 3]
    IN  CASE op[1] = "imm" -> <<104, op[2][1], op[2][2], op[2][3], op[2][4]>>
          [] op[1] = "reg" -> <<80 + op[2], 0, 0, 0, 0>>
          [] op[1] = "ind" -> <<255, 48 + op[2], 0, 0, 0>>
          [] op[1] = "displ" -> <<255, 112 + op[3], op[2], 0, 0>>
          [] op[1] = "scaled" -> <<255, 116, 64 * log[op[5]] + 8 * op[4] + op[3], op[2], 0>>

DisassembleCall ==
    \E op \in Instructions : call' = <<"pushq", op>> /\ value' = Disassemble(Encode(op))

\* One call after another, as in bitstest.c.
BitsNext ==
    \/ call = <<>> /\ (SaturatingCall \/ SudokuCall \/ DisassembleCall)
    \/ call # <<>> /\ call' = <<>> /\ value' = <<>>

-----------------------------------------------------------------------------
Clamped(n, low, high) == IF n < low THEN low ELSE IF n > high THEN high ELSE n

\* Sums are pegged to the ends of the type; as long as a digit is left,
\* is_single says whether it is the only one; and every instruction is printed
\* as the one it encodes, though the forms' bytes overlap and only the order of
\* the tests tells them apart.  This leaves out where the code breaks what bits.h
\* promises: twice the least number gives 0 (97-102), and an immediate is printed
\* with other digits when one of its upper bytes is not 0, or the lowest is below
\* 16 and the next is not 0 (110-112; sat_add_signed 99-131, is_single 67-75,
\* disassemble 162-210).
BitsRight ==
    call # <<>> =>
      CASE call[1] = "unsigned" -> value = Clamped(call[2] + call[3], 0, UMod - 1)
        [] call[1] = "signed" ->
             call[2] # -Top \/ call[3] # -Top =>
               value = Clamped(call[2] + call[3], -Top, Top - 1)
        [] call[1] = "single" ->
             LET free == 1 .. 9 \ (call[2] \cup call[3] \cup call[4])
             IN  free # {} => value = (Cardinality(free) = 1)
        [] call[1] = "pushq" ->
             LET op == call[2]
                 bytes == op[2]
             IN  IF op[1] = "imm"
                 THEN bytes[3] = 0 /\ bytes[4] = 0 /\ (bytes[1] >= 16 \/ bytes[2] = 0) =>
                        value = Imm(bytes[1] + 256 * bytes[2])
                 ELSE value = op
=============================================================================
