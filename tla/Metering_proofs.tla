-------------------------- MODULE Metering_proofs --------------------------
(***************************************************************************)
(* The ledger's properties for every set of limits and amounts.  IInv is   *)
(* inductive as it stands: TypeOK bounds each field below by zero and      *)
(* Conservation bounds it above by the limit.                              *)
(***************************************************************************)
EXTENDS Metering, TLAPS

IInv == TypeOK /\ Conservation

(* Dims is a set of numbers, one of them the arena's. *)
LEMMA DimsFacts == Dims \subseteq Int /\ DIM_ARENA_BYTES \in Dims /\ DIM_COUNT \in Int
  BY DEF Dims, DIM_COUNT, DIM_ARENA_BYTES

LEMMA InitHolds == Init => IInv
<1> SUFFICES ASSUME Init PROVE IInv
  OBVIOUS
<1> USE DEF Init, Open
<1>1. limit \in [Dims -> Nat]
  BY MeteringAssumption
<1>2. last \in [call : Callable \cup {"new"}, dim : Named, amount : Int, ok : BOOLEAN]
  BY DEF Named, Callable, Dims, DIM_COUNT
<1>3. TypeOK
  BY <1>1, <1>2 DEF TypeOK
<1>4. Conservation
  BY <1>1 DEF Conservation
<1> QED
  BY <1>3, <1>4 DEF IInv

LEMMA StepHolds == IInv /\ [Next]_vars => IInv'
<1> SUFFICES ASSUME IInv, [Next]_vars PROVE IInv'
  OBVIOUS
<1> USE DEF IInv
<1>0. /\ remaining \in [Dims -> Nat] /\ reserved \in [Dims -> Nat]
      /\ spent \in [Dims -> Nat] /\ limit \in [Dims -> Nat] /\ limit \in Limits
  BY MeteringAssumption DEF TypeOK
<1>1. ASSUME NEW d \in Named, NEW amount \in Amounts, DoReserve(d, amount)
      PROVE  IInv'
  <2>1. amount \in Nat /\ d \in Dims /\ amount \in Int /\ remaining[d] >= amount
    BY <1>1, MeteringAssumption DEF DoReserve, Reserve, CanReserve
  <2>2. /\ remaining' = [remaining EXCEPT ![d] = @ - amount]
        /\ reserved' = [reserved EXCEPT ![d] = @ + amount]
        /\ UNCHANGED <<limit, spent>>
        /\ Answered("reserve", d, amount, TRUE)
    BY <1>1 DEF DoReserve, Reserve
  <2>3. TypeOK'
    <3>1. /\ remaining' \in [Dims -> Nat] /\ reserved' \in [Dims -> Nat]
          /\ spent' \in [Dims -> Nat]
      BY <1>0, <2>1, <2>2
    <3>2. last' \in [call : Callable \cup {"new"}, dim : Named, amount : Int,
                    ok : BOOLEAN]
      BY <2>1, <2>2 DEF Answered, Callable
    <3> QED
      BY <1>0, <2>2, <3>1, <3>2 DEF TypeOK
  <2>4. Conservation'
    BY <1>0, <2>1, <2>2 DEF Conservation
  <2> QED
    BY <2>3, <2>4
<1>2. ASSUME NEW d \in Named, NEW amount \in Amounts, DoRelease(d, amount)
      PROVE  IInv'
  <2>1. amount \in Nat /\ d \in Dims /\ amount \in Int /\ reserved[d] >= amount
    BY <1>2, MeteringAssumption DEF DoRelease, Release, CanReturn
  <2>2. /\ remaining' = [remaining EXCEPT ![d] = @ + amount]
        /\ reserved' = [reserved EXCEPT ![d] = @ - amount]
        /\ UNCHANGED <<limit, spent>>
        /\ Answered("release", d, amount, TRUE)
    BY <1>2 DEF DoRelease, Release
  <2>3. TypeOK'
    <3>1. /\ remaining' \in [Dims -> Nat] /\ reserved' \in [Dims -> Nat]
          /\ spent' \in [Dims -> Nat]
      BY <1>0, <2>1, <2>2
    <3>2. last' \in [call : Callable \cup {"new"}, dim : Named, amount : Int,
                    ok : BOOLEAN]
      BY <2>1, <2>2 DEF Answered, Callable
    <3> QED
      BY <1>0, <2>2, <3>1, <3>2 DEF TypeOK
  <2>4. Conservation'
    BY <1>0, <2>1, <2>2 DEF Conservation
  <2> QED
    BY <2>3, <2>4
<1>3. ASSUME NEW d \in Named, NEW amount \in Amounts, DoSpend(d, amount)
      PROVE  IInv'
  <2>1. amount \in Nat /\ d \in Dims /\ amount \in Int /\ reserved[d] >= amount
    BY <1>3, MeteringAssumption DEF DoSpend, Spend, CanReturn
  <2>2. /\ reserved' = [reserved EXCEPT ![d] = @ - amount]
        /\ spent' = [spent EXCEPT ![d] = @ + amount]
        /\ UNCHANGED <<limit, remaining>>
        /\ Answered("spend", d, amount, TRUE)
    BY <1>3 DEF DoSpend, Spend
  <2>3. TypeOK'
    <3>1. /\ remaining' \in [Dims -> Nat] /\ reserved' \in [Dims -> Nat]
          /\ spent' \in [Dims -> Nat]
      BY <1>0, <2>1, <2>2
    <3>2. last' \in [call : Callable \cup {"new"}, dim : Named, amount : Int,
                    ok : BOOLEAN]
      BY <2>1, <2>2 DEF Answered, Callable
    <3> QED
      BY <1>0, <2>2, <3>1, <3>2 DEF TypeOK
  <2>4. Conservation'
    BY <1>0, <2>1, <2>2 DEF Conservation
  <2> QED
    BY <2>3, <2>4
<1>4. ASSUME NEW amount \in Amounts, DoCharge(amount)
      PROVE  IInv'
  <2> DEFINE d == DIM_ARENA_BYTES
  <2>1. amount \in Nat /\ d \in Dims /\ amount \in Int /\ remaining[d] >= amount
    BY <1>4, MeteringAssumption, DimsFacts DEF DoCharge, ChargeArena, CanCharge
  <2>2. /\ remaining' = [remaining EXCEPT ![d] = @ - amount]
        /\ spent' = [spent EXCEPT ![d] = @ + amount]
        /\ UNCHANGED <<limit, reserved>>
        /\ Answered("charge", d, amount, TRUE)
    BY <1>4 DEF DoCharge, ChargeArena
  <2>3. d \in Named
    BY <2>1 DEF Named
  <2> HIDE DEF d
  <2>4. TypeOK'
    <3>1. /\ remaining' \in [Dims -> Nat] /\ reserved' \in [Dims -> Nat]
          /\ spent' \in [Dims -> Nat]
      BY <1>0, <2>1, <2>2
    <3>2. last' \in [call : Callable \cup {"new"}, dim : Named, amount : Int,
                    ok : BOOLEAN]
      BY <2>1, <2>2, <2>3 DEF Answered, Callable
    <3> QED
      BY <1>0, <2>2, <3>1, <3>2 DEF TypeOK
  <2>5. Conservation'
    BY <1>0, <2>1, <2>2 DEF Conservation
  <2> QED
    BY <2>4, <2>5
<1>5. ASSUME NEW d \in Named, NEW amount \in Amounts, NEW c \in Callable,
             Refuse(c, d, amount)
      PROVE  IInv'
  <2>1. UNCHANGED <<remaining, reserved, limit, spent>> /\ amount \in Int
        /\ Answered(c, d, amount, FALSE)
    BY <1>5, MeteringAssumption DEF Refuse
  <2>2. TypeOK'
    BY <1>0, <2>1 DEF TypeOK, Answered
  <2>3. Conservation'
    BY <2>1 DEF Conservation
  <2> QED
    BY <2>2, <2>3
<1>6. CASE UNCHANGED vars
  BY <1>6 DEF vars, TypeOK, Conservation
<1> QED
  BY <1>1, <1>2, <1>3, <1>4, <1>5, <1>6 DEF Next

(* Every field of the ledger stays a natural number whatever it is asked.   *)
THEOREM TypeCorrect == Spec => []TypeOK
<1>1. IInv => TypeOK
  BY DEF IInv
<1> QED
  BY <1>1, InitHolds, StepHolds, PTL DEF Spec

(* Nothing is lost or invented, for every limit and every amount
   (budget.rs reserve, release, spend, charge_arena).                       *)
THEOREM ConservationHolds == Spec => []Conservation
<1>1. IInv => Conservation
  BY DEF IInv
<1> QED
  BY <1>1, InitHolds, StepHolds, PTL DEF Spec

(* The types and the sums a step starts from. *)
LEMMA Facts ==
  ASSUME IInv
  PROVE  /\ remaining \in [Dims -> Nat] /\ reserved \in [Dims -> Nat]
         /\ spent \in [Dims -> Nat] /\ limit \in [Dims -> Nat]
         /\ \A d \in Dims : remaining[d] + reserved[d] + spent[d] = limit[d]
  BY MeteringAssumption DEF IInv, TypeOK, Conservation

(* A lease is granted exactly when the use it asks for fits, for every      *)
(* history of calls, although the ledger keeps no record of what was spent  *)
(* (docs/internal-contract.md, budget.rs reserve).                          *)
Answers ==
  last'.call = "reserve" /\ last'.dim \in Dims /\ last'.amount >= 0 =>
    LET d == last'.dim
    IN last'.ok <=> spent[d] + reserved[d] + last'.amount <= limit[d]

LEMMA StepAnswers == IInv /\ [Next]_vars => [Answers]_vars
<1> SUFFICES ASSUME IInv, Next PROVE Answers
  OBVIOUS
<1>1. ASSUME NEW d \in Named, NEW amount \in Amounts, DoReserve(d, amount)
      PROVE  Answers
  <2>1. /\ d \in Dims /\ remaining[d] >= amount /\ amount \in Int
        /\ last' = [call |-> "reserve", dim |-> d, amount |-> amount, ok |-> TRUE]
    BY <1>1, MeteringAssumption DEF DoReserve, Reserve, CanReserve, Answered
  <2> QED
    BY <2>1, Facts DEF Answers
<1>2. ASSUME NEW d \in Named, NEW amount \in Amounts, DoRelease(d, amount)
      PROVE  Answers
  BY <1>2 DEF Answers, DoRelease, Answered
<1>3. ASSUME NEW d \in Named, NEW amount \in Amounts, DoSpend(d, amount)
      PROVE  Answers
  BY <1>3 DEF Answers, DoSpend, Answered
<1>4. ASSUME NEW amount \in Amounts, DoCharge(amount)
      PROVE  Answers
  BY <1>4 DEF Answers, DoCharge, Answered
<1>5. ASSUME NEW d \in Named, NEW amount \in Amounts, NEW c \in Callable,
             Refuse(c, d, amount)
      PROVE  Answers
  <2>1. last' = [call |-> c, dim |-> d, amount |-> amount, ok |-> FALSE]
    BY <1>5 DEF Refuse, Answered
  <2>2. CASE c = "reserve" /\ d \in Dims /\ amount >= 0
    <3>1. amount \in Int /\ ~(remaining[d] >= amount)
      BY <1>5, <2>2, MeteringAssumption DEF Refuse, CanReserve
    <3> QED
      BY <2>1, <2>2, <3>1, Facts DEF Answers
  <2>3. CASE ~(c = "reserve" /\ d \in Dims /\ amount >= 0)
    BY <2>1, <2>3 DEF Answers
  <2> QED
    BY <2>2, <2>3
<1> QED
  BY <1>1, <1>2, <1>3, <1>4, <1>5 DEF Next

THEOREM RefusalsHold == Spec => RefusedOnlyWhenFull
<1>1. [Answers]_vars =>
        [last'.call = "reserve" /\ last'.dim \in Dims /\ last'.amount >= 0 =>
           LET d == last'.dim
           IN last'.ok <=> spent[d] + reserved[d] + last'.amount <= limit[d]]_vars
  BY DEF Answers
<1> QED
  BY <1>1, InitHolds, StepHolds, StepAnswers, PTL DEF Spec, RefusedOnlyWhenFull

-----------------------------------------------------------------------------
(* Refinement: every call is a step of the quota or leaves it unchanged.    *)
LEMMA InitMaps == Init => Promise!Init
  BY MeteringAssumption DEF Init, Open, Promise!Init

LEMMA StepMaps == IInv /\ [Next]_vars => [Promise!Next]_Promise!vars
<1> SUFFICES ASSUME IInv, [Next]_vars
             PROVE  Promise!Next \/ UNCHANGED Promise!vars
  OBVIOUS
<1>0. /\ remaining \in [Dims -> Nat] /\ reserved \in [Dims -> Nat]
      /\ spent \in [Dims -> Nat] /\ limit \in [Dims -> Nat]
      /\ \A d \in Dims : remaining[d] + reserved[d] + spent[d] = limit[d]
  BY Facts
<1>1. ASSUME NEW d \in Named, NEW amount \in Amounts, DoReserve(d, amount)
      PROVE  Promise!Next
  <2>1. /\ d \in Dims /\ amount \in Nat /\ remaining[d] >= amount
        /\ reserved' = [reserved EXCEPT ![d] = @ + amount]
        /\ UNCHANGED <<limit, spent>>
    BY <1>1, MeteringAssumption DEF DoReserve, Reserve, CanReserve
  <2>2. amount \in 0 .. limit[d] - spent[d] - reserved[d]
    BY <1>0, <2>1
  <2>3. Promise!Grant(d)
    BY <2>1, <2>2 DEF Promise!Grant
  <2> QED
    BY <2>1, <2>3 DEF Promise!Next
<1>2. ASSUME NEW d \in Named, NEW amount \in Amounts, DoRelease(d, amount)
      PROVE  Promise!Next
  <2>1. /\ d \in Dims /\ amount \in 0 .. reserved[d]
        /\ reserved' = [reserved EXCEPT ![d] = @ - amount]
        /\ UNCHANGED <<limit, spent>>
    BY <1>0, <1>2, MeteringAssumption DEF DoRelease, Release, CanReturn
  <2>2. Promise!GiveBack(d)
    BY <2>1 DEF Promise!GiveBack
  <2> QED
    BY <2>1, <2>2 DEF Promise!Next
<1>3. ASSUME NEW d \in Named, NEW amount \in Amounts, DoSpend(d, amount)
      PROVE  Promise!Next
  <2>1. /\ d \in Dims /\ amount \in 0 .. reserved[d]
        /\ reserved' = [reserved EXCEPT ![d] = @ - amount]
        /\ spent' = [spent EXCEPT ![d] = @ + amount]
        /\ UNCHANGED limit
    BY <1>0, <1>3, MeteringAssumption DEF DoSpend, Spend, CanReturn
  <2>2. Promise!Settle(d)
    BY <2>1 DEF Promise!Settle
  <2> QED
    BY <2>1, <2>2 DEF Promise!Next
<1>4. ASSUME NEW amount \in Amounts, DoCharge(amount)
      PROVE  Promise!Next
  <2> DEFINE d == DIM_ARENA_BYTES
  <2>1. /\ d \in Dims /\ amount \in Nat /\ remaining[d] >= amount
        /\ spent' = [spent EXCEPT ![d] = @ + amount]
        /\ UNCHANGED <<limit, reserved>>
    BY <1>4, MeteringAssumption, DimsFacts DEF DoCharge, ChargeArena, CanCharge
  <2> HIDE DEF d
  <2>2. amount \in 0 .. limit[d] - spent[d] - reserved[d]
    BY <1>0, <2>1
  <2>3. Promise!Consume(d)
    BY <2>1, <2>2 DEF Promise!Consume
  <2> QED
    BY <2>1, <2>3 DEF Promise!Next
<1>5. ASSUME NEW d \in Named, NEW amount \in Amounts, NEW c \in Callable,
             Refuse(c, d, amount)
      PROVE  UNCHANGED Promise!vars
  BY <1>5 DEF Refuse, Promise!vars
<1>6. CASE UNCHANGED vars
  BY <1>6 DEF vars, Promise!vars
<1> QED
  BY <1>1, <1>2, <1>3, <1>4, <1>5, <1>6 DEF Next

(* The ledger implements the quota for every set of limits and amounts.     *)
THEOREM ImplementsQuota == Spec => KeepsQuota
  BY InitHolds, StepHolds, InitMaps, StepMaps, PTL DEF Spec, KeepsQuota, Promise!Spec
=============================================================================
