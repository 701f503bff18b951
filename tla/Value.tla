------------------------------- MODULE Value -------------------------------
(***************************************************************************)
(* Operands (value.rs): a tag and one machine word.  The word is 64 bits   *)
(* wide in the code; here it has 2 * Half values, and an arena handle      *)
(* packs an offset and a length below Radix (u32 in the code) into one     *)
(* word, so overflow, packing and the arena's address limit are all kept   *)
(* and only the widths are scaled down.                                    *)
(***************************************************************************)
EXTENDS Integers, Sequences, FiniteSets

CONSTANTS
  WordBits,  \* 64 in the code
  Half,      \* 2^63 in the code: words at or above it are negative as i64
  Radix      \* 2^32 in the code: one more than the largest offset or length

ASSUME WordAssumption ==
  /\ WordBits \in Nat \ {0}
  /\ Half \in Nat /\ Half > 3
  /\ Radix \in Nat /\ Radix > 1
  /\ 2 * Half = Radix * Radix
  /\ 2 * Half = 2 ^ WordBits

(* Arithmetic the prover does not know; TLC evaluates it. *)
ASSUME PowersAssumption == \A i \in 0 .. WordBits : 2 ^ i \in Nat \ {0}

Words == 2 * Half
Word == 0 .. Words - 1
I64Max == Half - 1

VOID == 0
INT == 1
STR == 2
BYTES == 3
LIST == 4
PENDING == 5
Tags == 0 .. 5

Values == [tag : Tags, payload : Word]

Void == [tag |-> VOID, payload |-> 0]

(* Value::int stores the two's complement word; as_int reads it back. *)
IntV(n) == [tag |-> INT, payload |-> n % Words]
AsInt(v) == IF v.payload < Half THEN v.payload ELSE v.payload - Words
BoolV(p) == IntV(IF p THEN 1 ELSE 0)

(* Bitwise operators on words; WordOf sums the powers of two in bits by    *)
(* counting, for each, the numbers below it.                               *)
Bit(w, i) == (w \div (2 ^ i)) % 2
WordOf(bits) == Cardinality({p \in bits \X Word : p[2] < 2 ^ p[1]})
BitAnd(v, w) == WordOf({i \in 0 .. WordBits - 1 : Bit(v, i) = 1 /\ Bit(w, i) = 1})
BitOr(v, w) == WordOf({i \in 0 .. WordBits - 1 : Bit(v, i) = 1 \/ Bit(w, i) = 1})

(* wrapping_div and wrapping_rem truncate towards zero; the remainder takes *)
(* the sign of the dividend.                                                *)
Abs(n) == IF n < 0 THEN -n ELSE n
Quotient(m, n) ==
  IF (m < 0) = (n < 0) THEN Abs(m) \div Abs(n) ELSE -(Abs(m) \div Abs(n))
Remainder(m, n) == IF m < 0 THEN -(Abs(m) % Abs(n)) ELSE Abs(m) % Abs(n)

(* Mutant: the id after the one that was issued. *)
PendingNext(id) == [tag |-> PENDING, payload |-> id + 1]
PendingV(id) == [tag |-> PENDING, payload |-> id]

(* Handle::to_bits and Handle::from_bits. *)
Handles == [off : 0 .. Radix - 1, len : 0 .. Radix - 1]
HandleV(tag, h) == [tag |-> tag, payload |-> h.off * Radix + h.len]
HandleOf(v) == [off |-> v.payload \div Radix, len |-> v.payload % Radix]

(* Handle::end saturates instead of wrapping. *)
EndOf(h) == IF h.off + h.len < Radix THEN h.off + h.len ELSE Radix - 1

IsInt(v) == v.tag = INT
IsArena(v) == v.tag \in {STR, BYTES, LIST}

(* Value::is_truthy. *)
Truthy(v) ==
  CASE v.tag = VOID -> FALSE
    [] v.tag = INT -> v.payload # 0
    [] v.tag = PENDING -> TRUE
    [] OTHER -> HandleOf(v).len # 0

(* A serialized slot: the tag word and the payload word.  SLOT_LEN is twice *)
(* the arena's alignment in the code, so two cells here.                    *)
SlotLen == 2
Write(v) == <<v.tag, v.payload>>
Readable(cells) == cells[1] \in Tags
Read(cells) == [tag |-> cells[1], payload |-> cells[2]]
=============================================================================
