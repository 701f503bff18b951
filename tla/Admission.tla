----------------------------- MODULE Admission -----------------------------
(***************************************************************************)
(* Admitting an object (verify.rs admit): the object is checked function   *)
(* by function and either becomes an image or is refused with the first    *)
(* fault.  The properties relate what the checks conclude, over blocks,    *)
(* windows and counts, to the control flow of the instructions themselves. *)
(***************************************************************************)
EXTENDS Verify

CONSTANT Objects

ASSUME ObjectsAssumption == \A o \in Objects : WellFormed(o)

VARIABLES
  object,    \* the object offered
  verdict    \* "none", "ok" or the code of the fault

vars == <<object, verdict>>

Init == object \in Objects /\ verdict = "none"

Admit ==
  /\ verdict = "none"
  /\ verdict' = Verdict(object)
  /\ UNCHANGED object

Next == Admit

Spec == Init /\ [][Next]_vars

-----------------------------------------------------------------------------
(* The control flow of a function instruction by instruction, independent   *)
(* of blocks: where execution may go from i.                                *)
Succs(insns, tables, i) == ToSet(Targets(insns, tables, i))

(* Instructions that execution may reach from instruction from after one    *)
(* step or more, without passing through an instruction of cut.             *)
Onward(insns, tables, from, cut) ==
  LET grown[k \in 0 .. Len(insns)] ==
        IF k = 0 THEN Succs(insns, tables, from) \ cut
        ELSE LET before == grown[k - 1]
             IN before \cup UNION {Succs(insns, tables, i) \ cut : i \in before}
  IN grown[Len(insns)]

(* What may be executed at all. *)
Live(insns, tables) ==
  IF insns = <<>> THEN {} ELSE {0} \cup Onward(insns, tables, 0, {})

(* The steps that close a loop: back to an instruction that every execution *)
(* has passed by then.                                                      *)
LoopSteps(insns, tables) ==
  {e \in Live(insns, tables) \X Live(insns, tables) :
     /\ e[2] \in Succs(insns, tables, e[1])
     /\ \/ e[2] \in {0, e[1]}
        \/ e[1] \notin {0} \cup Onward(insns, tables, 0, {e[2]})}

Loopless(insns, tables) ==
  \A i \in Live(insns, tables) : i \notin Onward(insns, tables, i, {})

(* The object's functions whose edges are accepted. *)
Graphed == {f \in ToSet(object.funcs) : EdgesOk(Body(object, f), object.tables)}

-----------------------------------------------------------------------------
(* "Cfg::rpo lists exactly the blocks reachable from block 0" and the       *)
(* blocks partition the instructions (cfg.rs:14-18): an instruction can be  *)
(* executed exactly if its block is reachable in the block graph.           *)
BlocksCarryFlow ==
  \A f \in Graphed :
    LET insns == Body(object, f)
        reachable == Reachable(BlockGraph(insns, object.tables))
    IN \A i \in Indices(insns) :
         i \in Live(insns, object.tables) <=> BlockOf(insns, object.tables, i) \in reachable

(* The back edges are the loops (cfg.rs find_back_edges): a step from j to h *)
(* is one exactly if no execution gets to j but through h.                  *)
BackEdgesAreLoops ==
  \A f \in Graphed :
    LET insns == Body(object, f)
        block(i) == BlockOf(insns, object.tables, i)
    IN ToSet(BackEdges(BlockGraph(insns, object.tables))) =
         {<<block(e[1]), block(e[2])>> : e \in LoopSteps(insns, object.tables)}

(* An object whose code never loops is never refused over a loop            *)
(* (verify.rs:113-119 over cfg.rs dominates).                               *)
LooplessPasses ==
  (\A f \in Graphed : Loopless(Body(object, f), object.tables))
    => verdict \notin {"UnmeteredLoop", "panic"}

-----------------------------------------------------------------------------
(* A claim of the documents that does not hold: "Every cycle in the CFG     *)
(* contains at least one metering instruction" (README.md:310).             *)
CyclesMetered ==
  verdict = "ok" => \A f \in Graphed :
    LET insns == Body(object, f)
        cut == {j \in Indices(insns) : At(insns, j).op \in MeteringOps}
    IN \A i \in Live(insns, object.tables) \ cut :
         i \notin Onward(insns, object.tables, i, cut)
=============================================================================
