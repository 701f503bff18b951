------------------------------ MODULE Metering ------------------------------
(***************************************************************************)
(* The ledger under every sequence of calls its owner can make, with the   *)
(* bookkeeping that says what each call did: limit and spent are what the  *)
(* ledger itself does not keep, last is the call just answered.            *)
(***************************************************************************)
EXTENDS Budget

CONSTANTS
  Limits,    \* the allowances Budget::new may be given, one per dimension
  Amounts    \* the amounts a caller may pass, negative ones included

ASSUME MeteringAssumption == Limits \subseteq [Dims -> Nat] /\ Amounts \subseteq Int

VARIABLES
  limit,     \* dimension -> allowance the ledger was opened with (history)
  spent,     \* dimension -> amount settled or charged (history)
  last       \* the last call: its name, dimension, amount and outcome (history)

vars == <<remaining, reserved, limit, spent, last>>

Callable == {"reserve", "release", "spend", "charge"}
Answered(call, d, amount, ok) ==
  last' = [call |-> call, dim |-> d, amount |-> amount, ok |-> ok]

(* The owner may name a dimension that does not exist. *)
Named == Dims \cup {DIM_COUNT}

Init ==
  /\ limit \in Limits
  /\ Open(limit)
  /\ spent = [d \in Dims |-> 0]
  /\ last = [call |-> "new", dim |-> 0, amount |-> 0, ok |-> TRUE]

DoReserve(d, amount) ==
  /\ Reserve(d, amount)
  /\ Answered("reserve", d, amount, TRUE)
  /\ UNCHANGED <<limit, spent>>

DoRelease(d, amount) ==
  /\ Release(d, amount)
  /\ Answered("release", d, amount, TRUE)
  /\ UNCHANGED <<limit, spent>>

DoSpend(d, amount) ==
  /\ Spend(d, amount)
  /\ Answered("spend", d, amount, TRUE)
  /\ spent' = [spent EXCEPT ![d] = @ + amount]
  /\ UNCHANGED limit

DoCharge(bytes) ==
  /\ bytes >= 0
  /\ ChargeArena(bytes)
  /\ Answered("charge", DIM_ARENA_BYTES, bytes, TRUE)
  /\ spent' = [spent EXCEPT ![DIM_ARENA_BYTES] = @ + bytes]
  /\ UNCHANGED limit

Refuse(call, d, amount) ==
  /\ CASE call = "reserve" -> ~CanReserve(d, amount)
       [] call = "charge"  -> d = DIM_ARENA_BYTES /\ amount >= 0 /\ ~CanCharge(amount)
       [] OTHER            -> ~CanReturn(d, amount)
  /\ Answered(call, d, amount, FALSE)
  /\ UNCHANGED <<remaining, reserved, limit, spent>>

Next ==
  \E d \in Named, amount \in Amounts :
    \/ DoReserve(d, amount)
    \/ DoRelease(d, amount)
    \/ DoSpend(d, amount)
    \/ DoCharge(amount)
    \/ \E call \in Callable : Refuse(call, d, amount)

Spec == Init /\ [][Next]_vars

-----------------------------------------------------------------------------
TypeOK ==
  /\ remaining \in [Dims -> Nat]
  /\ reserved \in [Dims -> Nat]
  /\ limit \in Limits
  /\ spent \in [Dims -> Nat]
  /\ last \in [call : Callable \cup {"new"}, dim : Named, amount : Int,
               ok : BOOLEAN]

(* No allowance is lost or invented: on every dimension what is left, what *)
(* is on lease and what has been settled add up to the limit the ledger    *)
(* was opened with (budget.rs reserve, release, spend, charge_arena), so   *)
(* no sequence of calls overspends or overflows the i64 fields.            *)
Conservation ==
  \A d \in Dims : remaining[d] + reserved[d] + spent[d] = limit[d]

(* "reserve fails if spent + reserved + amount > limit"                    *)
(* (docs/internal-contract.md): an answered reserve was granted exactly    *)
(* when the use it asked for fits, although the ledger keeps neither spent *)
(* nor limit.                                                              *)
RefusedOnlyWhenFull ==
  [][last'.call = "reserve" /\ last'.dim \in Dims /\ last'.amount >= 0 =>
       LET d == last'.dim
       IN last'.ok <=> spent[d] + reserved[d] + last'.amount <= limit[d]]_vars

(* Seen as use against a limit, the ledger implements Quota: every call is *)
(* a grant that fits, a return of what was leased, or a settlement.        *)
Promise == INSTANCE Quota WITH leased <- reserved
KeepsQuota == Promise!Spec
=============================================================================
