-------------------------------- MODULE Quota --------------------------------
(***************************************************************************)
(* What the ledger promises its callers: on every dimension the allowance  *)
(* in use, spent or on lease, never passes the limit, and use only grows   *)
(* by a grant that fits.  It can shrink only by what is still on lease.    *)
(***************************************************************************)
EXTENDS Integers

CONSTANTS Dims

VARIABLES
  limit,     \* dimension -> the allowance the ledger was opened with
  spent,     \* dimension -> use that is final
  leased     \* dimension -> use that may still be given back

vars == <<limit, spent, leased>>

Init ==
  /\ limit \in [Dims -> Nat]
  /\ spent = [d \in Dims |-> 0]
  /\ leased = [d \in Dims |-> 0]

Grant(d) ==
  \E more \in 0 .. limit[d] - spent[d] - leased[d] :
    /\ leased' = [leased EXCEPT ![d] = @ + more]
    /\ UNCHANGED spent

GiveBack(d) ==
  \E less \in 0 .. leased[d] :
    /\ leased' = [leased EXCEPT ![d] = @ - less]
    /\ UNCHANGED spent

Settle(d) ==
  \E use \in 0 .. leased[d] :
    /\ leased' = [leased EXCEPT ![d] = @ - use]
    /\ spent' = [spent EXCEPT ![d] = @ + use]

(* Use that needs no lease, as long as it fits. *)
Consume(d) ==
  \E use \in 0 .. limit[d] - spent[d] - leased[d] :
    /\ spent' = [spent EXCEPT ![d] = @ + use]
    /\ UNCHANGED leased

Next ==
  /\ UNCHANGED limit
  /\ \E d \in Dims : Grant(d) \/ GiveBack(d) \/ Settle(d) \/ Consume(d)

Spec == Init /\ [][Next]_vars
=============================================================================
