------------------------------ MODULE MCClaims ------------------------------
(***************************************************************************)
(* For each claim of VmClaims the admitted images that put it to the test. *)
(***************************************************************************)
EXTENDS VmClaims, Programs

(* An oracle that is asked once. *)
OracleImages == {Link(Main(3, <<O("now"), O("halt")>>), <<>>, <<>>)}

(* The test's two functions, with the exit the verifier accepts. *)
CallImages == {Link(
  <<Fn("main", 0, 1, 2, <<I("call", 1), O("ret")>>),
    Fn("twice", 0, 1, 2, <<I("ldi", 4), I("ldi", 2), O("mul"), O("ret")>>)>>,
  <<>>, <<>>)}

(* A fork that allocates and is committed. *)
CommitImages ==
  {Link(Main(4, <<O("fork"), O("argv"), O("commit"), I("ldi", 0), O("halt")>>),
        <<>>, <<>>)}

(* Two paths that reach one instruction with stacks of different depth, and *)
(* a list indexed with its operands in the order of the table's row.        *)
ProvedImages ==
  {Link(Main(2,
     <<I("ldi", 1), I("brnz", 3), I("ldi", 5), O("not"), O("halt")>>), <<>>, <<>>),
   Link(Main(3,
     <<O("argv"), O("ctxpush"), O("ctxwin"), I("ldi", 0), O("idx"), I("trap", 0)>>),
     <<Text(<<9>>)>>, <<>>)}

MCHostValues == {IntV(0)}
=============================================================================
