------------------------------ MODULE Journal ------------------------------
(***************************************************************************)
(* The journal (journal.rs): records chained by a hash, its form on disk,   *)
(* and the checks made when it is read back.  Every payload the program     *)
(* writes is one serialized operand, two cells.                             *)
(***************************************************************************)
EXTENDS Value

CONSTANTS
  Basis,      \* what the hash starts from
  Mix(_, _)   \* one turn of the hash: what is hashed so far, the next unit

(* What the chain needs of the hash: a turn loses nothing of either input.  *)
(* A turn of FNV-1a over a byte has it because its prime is odd; TLC        *)
(* evaluates it for the model's.                                            *)
ASSUME MixAssumption ==
  /\ Basis \in Word
  /\ \A h, u \in Word : Mix(h, u) \in Word
  /\ \A h, g, u \in Word : Mix(h, u) = Mix(g, u) => h = g
  /\ \A h, u, w \in Word : Mix(h, u) = Mix(h, w) => u = w

KIND_EFFECT == 1
KIND_ORACLE == 2

Payloads == {p \in Seq(Word) : Len(p) = SlotLen}
Records == [seq : Nat, kind : Nat, payload : Payloads, prev : Word]
Journals == [records : Seq(Records), head : Word]

NewJournal == [records |-> <<>>, head |-> 0]

(* chain: the previous hash, then the payload. *)
Chain(prev, payload) == Mix(Mix(Mix(Basis, prev), payload[1]), payload[2])

(* Mutant: the head is not extended. *)
AppendedLoose(j, kind, payload) ==
  [records |-> Append(j.records, [seq |-> Len(j.records), kind |-> kind,
                                  payload |-> payload, prev |-> j.head]),
   head |-> Chain(0, payload)]
Appended(j, kind, payload) ==
  [records |-> Append(j.records, [seq |-> Len(j.records), kind |-> kind,
                                  payload |-> payload, prev |-> j.head]),
   head |-> Chain(j.head, payload)]

(* The hash verify_chain has reached before the k-th record.  Its loop      *)
(* stops at the first record whose prev is not that hash, so at any record  *)
(* it gets to, the prev of the one before is the hash it had there.         *)
Reached(j, k) ==
  IF k = 1 THEN 0 ELSE Chain(j.records[k - 1].prev, j.records[k - 1].payload)

(* Mutant: the head is not compared. *)
ChainFaultHeadless(j) ==
  IF \E k \in 1 .. Len(j.records) : j.records[k].prev # Reached(j, k)
  THEN "ChainBroken" ELSE "ok"
ChainFault(j) ==
  IF \E k \in 1 .. Len(j.records) : j.records[k].prev # Reached(j, k)
  THEN "ChainBroken"
  ELSE IF j.head # Reached(j, Len(j.records) + 1) THEN "Diverged"
  ELSE "ok"

-----------------------------------------------------------------------------
(* A journal on disk: to_bytes writes the count of records ahead of them,   *)
(* from_bytes reads that many, and reads nothing behind them.               *)
Files == [magic : BOOLEAN, head : Word, count : Nat, records : Seq(Records)]

ToBytes(j) ==
  [magic |-> TRUE, head |-> j.head, count |-> Len(j.records), records |-> j.records]

FromBytes(f) == [records |-> SubSeq(f.records, 1, f.count), head |-> f.head]

LoadFault(f) ==
  IF ~f.magic \/ f.count > Len(f.records) THEN "RecordMalformed"
  ELSE ChainFault(FromBytes(f))
=============================================================================
