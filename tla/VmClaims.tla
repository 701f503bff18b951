------------------------------ MODULE VmClaims ------------------------------
(***************************************************************************)
(* What the crate's documents and tests say of the machine and the code    *)
(* does not do.  Each claim is checked alone, on images that exercise it,  *)
(* and TLC answers with a run of the machine that contradicts it.          *)
(***************************************************************************)
EXTENDS VmProperties

(* The step executes op on the top frame without an error. *)
Executes(op) ==
  /\ Fetchable /\ Fetched.op = op
  /\ steps' = steps + 1 /\ call' = "running"

(* A host answer is accepted: it is on the top frame's stack. *)
Answered == Trapped /\ call' = "running" /\ frames' # frames

(* "Traps to the host but resumes immediately with a journalled answer"     *)
(* (isa.rs:142): an oracle that was answered is behind the pc, so it is not *)
(* asked again.                                                             *)
OracleResumes ==
  [][Answered /\ result.trap.kind = "Oracle"
       => Fetched'.op # result.trap.op]_vars

(* The test call_and_ret (interp.rs:541) expects a call to come back and    *)
(* its caller to go on: a caller a callee returned to is not at a call.     *)
CallReturns ==
  [][Executes("ret") /\ frames' # <<>> => Fetched'.op # "call"]_vars

(* "Accept the current fork's arena writes into the parent" (isa.rs:302).   *)
CommitKeepsWrites == [][Executes("commit") => IsPrefix(arena, arena')]_vars

(* "Every path into a block agrees on depth. ... This is what lets the      *)
(* interpreter index the stack without checking" (README.md:291), "every    *)
(* operand has a type the instruction accepts" (lib.rs:45): no admitted     *)
(* program stops for want of an operand, of room for one, or over its tag.  *)
OperandsProved == ~StoppedBy(OperandCodes)
=============================================================================
