-------------------------------- MODULE Hash --------------------------------
(***************************************************************************)
(* The hash of the journal chain (hash.rs): FNV-1a, which folds its input   *)
(* into a word one unit at a time.  The unit is a byte in the code and a    *)
(* whole word here, so the eight bytes of a word are one turn of the loop,  *)
(* and a unit that was changed stands for one changed byte: only a turn     *)
(* over a byte loses nothing, changes of several bytes may cancel out.      *)
(***************************************************************************)
EXTENDS Value

CONSTANTS
  Basis,  \* 0xcbf29ce484222325 in the code
  Prime   \* 0x100000001b3 in the code

BitXor(v, w) == WordOf({i \in 0 .. WordBits - 1 : Bit(v, i) # Bit(w, i)})

(* One turn of the loop of hash_bytes. *)
Fnv(h, unit) == (BitXor(h, unit) * Prime) % Words
=============================================================================
