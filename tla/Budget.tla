------------------------------- MODULE Budget -------------------------------
(***************************************************************************)
(* The allowance ledger (budget.rs): what is left and what is leased out,  *)
(* per dimension.  A call either succeeds and changes the ledger or is     *)
(* refused and changes nothing.                                            *)
(***************************************************************************)
EXTENDS Integers

VARIABLES
  remaining,   \* dimension -> allowance not yet leased
  reserved     \* dimension -> amount leased and not yet settled

DIM_ARENA_BYTES == 3
DIM_COUNT == 4
Dims == 0 .. DIM_COUNT - 1

Open(limits) ==
  /\ remaining = limits
  /\ reserved = [d \in Dims |-> 0]

(* Mutants: a negative amount passes; a lease of all that is left does not. *)
CanReserveNegative(d, amount) == d \in Dims /\ remaining[d] >= amount
CanReserveLess(d, amount) == d \in Dims /\ amount >= 0 /\ remaining[d] > amount
CanReserve(d, amount) == d \in Dims /\ amount >= 0 /\ remaining[d] >= amount
CanReturn(d, amount) == d \in Dims /\ amount >= 0 /\ reserved[d] >= amount
CanCharge(bytes) == remaining[DIM_ARENA_BYTES] >= bytes

Reserve(d, amount) ==
  /\ CanReserve(d, amount)
  /\ remaining' = [remaining EXCEPT ![d] = @ - amount]
  /\ reserved' = [reserved EXCEPT ![d] = @ + amount]

(* Mutants: the allowance is not given back; the lease is not taken off. *)
ReleaseLoses(d, amount) ==
  /\ CanReturn(d, amount)
  /\ reserved' = [reserved EXCEPT ![d] = @ - amount]
  /\ UNCHANGED remaining
ReleaseRepeats(d, amount) ==
  /\ CanReturn(d, amount)
  /\ remaining' = [remaining EXCEPT ![d] = @ + amount]
  /\ UNCHANGED reserved
Release(d, amount) ==
  /\ CanReturn(d, amount)
  /\ reserved' = [reserved EXCEPT ![d] = @ - amount]
  /\ remaining' = [remaining EXCEPT ![d] = @ + amount]

(* Mutant: the lease stays open. *)
SpendKeeps(d, amount) ==
  /\ CanReturn(d, amount)
  /\ UNCHANGED <<remaining, reserved>>
Spend(d, amount) ==
  /\ CanReturn(d, amount)
  /\ reserved' = [reserved EXCEPT ![d] = @ - amount]
  /\ UNCHANGED remaining

ChargeArena(bytes) ==
  /\ CanCharge(bytes)
  /\ remaining' = [remaining EXCEPT ![DIM_ARENA_BYTES] = @ - bytes]
  /\ UNCHANGED reserved

(* remaining() reports 0 for a dimension that does not exist. *)
Remaining(d) == IF d \in Dims THEN remaining[d] ELSE 0
=============================================================================
