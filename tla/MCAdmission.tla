---------------------------- MODULE MCAdmission ----------------------------
(***************************************************************************)
(* Functions for the verifier.  Flows are all control-flow shapes of four  *)
(* instructions, and those of five that branch anywhere but to where they  *)
(* fall through; Pairs objects of two functions of three, Loops the        *)
(* objects for the claim.                                                  *)
(***************************************************************************)
EXTENDS Admission, Programs

Branches(n) == {I(op, t) : op \in {"br", "brz"}, t \in 0 .. n - 1}
Flows ==
  {Link(Main(2, body), <<Text(<<9>>)>>, << <<0, 2>> >>) :
     body \in Bodies(Branches(4) \cup {I("switch", 0), O("nop"), O("ldi")},
                     {O("trap")}, 3)
              \cup {b \in Bodies(Branches(5) \cup {O("ldi")}, {O("trap")}, 4) :
                     \A k \in 1 .. 4 : b[k] \notin {I("br", k), I("brz", k)}}}

Shapes == Bodies(Branches(3) \cup {O("ldi")}, {O("trap")}, 2)
Pairs ==
  {Link(<<Fn("main", 0, 1, 2, first), Fn("other", 0, 1, 2, second)>>, <<>>, <<>>) :
     first \in Shapes, second \in Shapes}

FlowsAndPairs == Flows \cup Pairs

(* Loops behind a metering instruction, and loops entered twice. *)
LoopBodies == Bodies({I("br", 1), I("brnz", 2), I("ldi", 0), O("queryq"), O("drop")},
                     {I("trap", 0)}, 4)
Loops == {Link(Main(2, body), <<Text(<<9>>)>>, <<>>) : body \in LoopBodies}
=============================================================================
