-------------------------------- MODULE Codec --------------------------------
(***************************************************************************)
(* The two encodings of an instruction (isa.rs encode, decode, imm): one    *)
(* word with a narrow operand, or a prefix word with the upper half of the  *)
(* operand and a word with the lower half.  A word is four bytes in the     *)
(* code; offsets and lengths are counted in words here.                     *)
(***************************************************************************)
EXTENDS Isa, SequencesExt

CONSTANT Units   \* 2^16 in the code: one more than the largest narrow operand

ASSUME UnitsAssumption == Units \in Nat /\ Units > 1 /\ Units % 2 = 0

Operands == 0 .. Units * Units - 1
WIDE_PREFIX == "wide"
CodeWords == [op : Ops \cup {WIDE_PREFIX}, a : Nat, b : 0 .. Units - 1]

CodeWord(op, a, b) == [op |-> op, a |-> a, b |-> b]

(* Mutant: an operand one too large still counts as narrow. *)
EncodeLate(op, a, b) ==
  IF b > Units
  THEN <<CodeWord(WIDE_PREFIX, 0, b \div Units), CodeWord(op, a, b % Units)>>
  ELSE <<CodeWord(op, a, b % Units)>>
Encode(op, a, b) ==
  IF b > Units - 1
  THEN <<CodeWord(WIDE_PREFIX, 0, b \div Units), CodeWord(op, a, b % Units)>>
  ELSE <<CodeWord(op, a, b)>>

(* decode: <<>> past the end, for a prefix with nothing behind it, and for  *)
(* a prefix before a prefix.                                                *)
WordAt(code, off) == IF off < Len(code) THEN <<code[off + 1]>> ELSE <<>>

Decode(code, off) ==
  LET raw == WordAt(code, off)
      decoded(w, upper, len) ==
        IF w = <<>> \/ w[1].op = WIDE_PREFIX THEN <<>>
        ELSE <<[op |-> w[1].op, a |-> w[1].a, b |-> upper * Units + w[1].b, len |-> len]>>
  IN IF raw # <<>> /\ raw[1].op = WIDE_PREFIX
     THEN decoded(WordAt(code, off + 1), raw[1].b, 2)
     ELSE decoded(raw, 0, 1)

(* imm: the operand as a signed number of the width it was encoded with.    *)
(* Mutant: every operand is taken for a wide one. *)
ImmWide(d) == IF d.b < (Units * Units) \div 2 THEN d.b ELSE d.b - Units * Units
Imm2(d) ==
  LET width == IF d.len = 2 THEN Units * Units ELSE Units
  IN IF d.b < width \div 2 THEN d.b ELSE d.b - width

(* decode_range: the instructions of a window of the code, as far as they   *)
(* decode; and where the k-th of them starts in it, one word for each of    *)
(* those ahead of it and one more for each that is wide.                    *)
Decoded(body) ==
  LET from[at \in 0 .. Len(body)] ==
        LET d == Decode(body, at)
        IN IF d = <<>> THEN <<>> ELSE d \o from[at + d[1].len]
  IN from[0]
DecodeRange(code, off, len) == Decoded(SubSeq(code, off + 1, off + len))

StartOf(insns, k) == k - 1 + Cardinality({n \in 1 .. k - 1 : insns[n].len = 2})
=============================================================================
