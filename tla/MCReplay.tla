------------------------------ MODULE MCReplay ------------------------------
(***************************************************************************)
(* Runs of up to three answers, with the hash of hash.rs at four bits: small  *)
(* enough that different journals do collide.                               *)
(***************************************************************************)
EXTENDS Replay

CONSTANT Prime

H == INSTANCE Hash

MCMix(h, unit) == H!Fnv(h, unit)
MCAnswers ==
  {[kind |-> "Value", value |-> IntV(1)], [kind |-> "Value", value |-> IntV(2)],
   [kind |-> "Fail", value |-> IntV(1)], [kind |-> "Shutdown", value |-> Void]}

(* A zero and a tag that is not assigned. *)
MCNoise == {0, 9}
=============================================================================
