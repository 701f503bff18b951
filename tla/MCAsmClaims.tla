----------------------------- MODULE MCAsmClaims -----------------------------
(***************************************************************************)
(* The source of the test call_and_ret, with its callee by name: `call 1`,  *)
(* as the test has it, is refused before the second function is reached.   *)
(***************************************************************************)
EXTENDS AsmClaims, MCAsm

Twice == <<Dir("fn"), Id("twice"), Id("("), Id(")"), Id("->"), Id("i32")>>
TwoFunctions ==
  {Source(<<Main, MaxstackLine, <<Lab("main")>>, <<Id("call"), Id("twice")>>, <<Id("halt")>>,
            Twice, MaxstackLine, <<Id("ldi"), Num(4)>>, <<Id("ldi"), Num(2)>>,
            <<Id("mul")>>, <<Id("ret")>>>>)}
=============================================================================
