------------------------------ MODULE MCDurable ------------------------------
(***************************************************************************)
(* Images that stop where a snapshot can be taken, with something in the    *)
(* arena, in a second frame, in a slot above sp, in an open fork, in the    *)
(* ring or in the ledger.                                                   *)
(***************************************************************************)
EXTENDS Durable, Programs

(* A string and a list in the arena, the string also in a stale slot, which *)
(* an answer overwrites.                                                    *)
Packed == Link(Main(2,
  <<O("argv"), I("dupn", 0), I("pack", 2), O("yieldctx")>> \o Exit0), <<>>, <<>>)

(* A callee that suspends with a handle in its frame and one in its caller's. *)
InCallee == Link(
  <<Fn("main", 0, 1, 1, <<O("argv"), I("call", 1), O("ret")>>),
    Fn("leaf", 0, 0, 1, <<O("argv"), O("yieldctx"), O("drop"), O("ret")>>)>>, <<>>, <<>>)

(* A reservation in the ledger, which a snapshot leaves out, and an effect, *)
(* whose pending value no restore accepts.                                  *)
Effect == Link(Main(2,
  <<I("ldi", 0), I("reserve", 40), O("ctxwin"), I("calltool", 4), O("drop")>>
  \o Exit0), <<>>, <<>>)

(* A segment in the ring, which a snapshot leaves out, and a trap inside a  *)
(* fork, with an allocation behind the clone.                               *)
InFork == Link(Main(4,
  <<O("argv"), O("ctxpush"), O("fork"), O("argv"), O("queryq"), O("abort")>>
  \o Exit0), <<>>, <<>>)

MCImages == {Packed, InCallee, Effect, InFork}
MCHostValues == {IntV(0), HandleV(LIST, [off |-> 0, len |-> 0])}
MCNoise == {3, 9}
=============================================================================
