---------------------------- MODULE HostBoundary ----------------------------
(***************************************************************************)
(* What the host may rely on across the step boundary, whatever program    *)
(* the machine runs: calls and replies alternate; the effects it is asked  *)
(* for are numbered 1, 2, 3 with no gap and no repeat, whatever it answers *)
(* and however often it shuts the machine down; after an exit of the       *)
(* program it gets only exit statuses.  A shutdown promises nothing: the   *)
(* machine can be called again, and asks on.                               *)
(***************************************************************************)
EXTENDS Integers

VARIABLES
  phase,    \* "idle" | "running" | "dead", which no host calls again
  issued,   \* effects the host has been asked for
  reply     \* the last reply: "none" | "asked" | "stopped" | "closed" | "failed",
            \* with the id of an effect it asks for

vars == <<phase, issued, reply>>

Init ==
  /\ phase = "idle"
  /\ issued = 0
  /\ reply = [kind |-> "none", id |-> 0]

Begin ==
  /\ phase = "idle"
  /\ phase' = "running"
  /\ UNCHANGED <<issued, reply>>

AskEffect ==
  /\ phase = "running" /\ reply.kind # "stopped"
  /\ phase' = "idle"
  /\ issued' = issued + 1
  /\ reply' = [kind |-> "asked", id |-> issued + 1]

AskOther ==
  /\ phase = "running" /\ reply.kind # "stopped"
  /\ phase' = "idle"
  /\ reply' = [kind |-> "asked", id |-> 0]
  /\ UNCHANGED issued

Stop ==
  /\ phase = "running"
  /\ phase' = "idle"
  /\ reply' = [kind |-> "stopped", id |-> 0]
  /\ UNCHANGED issued

(* A running machine fails, or refuses an answer it has no room for. *)
Fail ==
  /\ \/ phase = "running" /\ reply.kind # "stopped"
     \/ phase = "idle" /\ reply.kind = "asked"
  /\ phase' = "dead"
  /\ reply' = [kind |-> "failed", id |-> 0]
  /\ UNCHANGED issued

(* The host answers with a shutdown, and gets an exit status of its own. *)
Close ==
  /\ phase = "idle" /\ reply.kind = "asked"
  /\ reply' = [kind |-> "closed", id |-> 0]
  /\ UNCHANGED <<phase, issued>>

Next == Begin \/ AskEffect \/ AskOther \/ Stop \/ Fail \/ Close

Spec == Init /\ [][Next]_vars
=============================================================================
