------------------------------ MODULE AsmClaims ------------------------------
(***************************************************************************)
(* What a test of the crate says of a source and assemble does not do.     *)
(***************************************************************************)
EXTENDS Asm

(* The test call_and_ret (interp.rs:541-543) assembles a source of two       *)
(* functions and runs it to 8: functions of different names are no           *)
(* duplicates of each other.                                                 *)
FnNames == {k \in DOMAIN toks : k > 1 /\ toks[k - 1] = [kind |-> "Directive", s |-> "fn"]}
FunctionsAssemble ==
  (\A j, k \in FnNames : toks[j].s = toks[k].s => j = k) =>
    ~(job = "assemble" /\ status = "DuplicateSymbol")
=============================================================================
