-------------------------------- MODULE MCAsm --------------------------------
(***************************************************************************)
(* Sources of a header and up to three lines from a pool that has each kind *)
(* of operand, right and wrong, and longer ones of branches and wide        *)
(* operands; with operands of four bits, so that 16 is wide.                *)
(***************************************************************************)
EXTENDS Asm

Dir(d) == [kind |-> "Directive", s |-> d]
Id(s) == [kind |-> "Ident", s |-> s]
Lab(s) == [kind |-> "Label", s |-> s]
Num(n) == [kind |-> "Int", n |-> n]
Text(s) == [kind |-> "Str", s |-> s]
EndLine == [kind |-> "Newline"]

Source(lines) ==
  Append(FlattenSeq([k \in DOMAIN lines |-> Append(lines[k], EndLine)]), [kind |-> "End"])

Main == <<Dir("fn"), Id("main"), Id("("), Id(")"), Id("->"), Id("i32")>>
MaxstackLine == <<Dir("maxstack"), Num(2)>>
Header == <<<<Dir("const"), Id("k"), Text("x")>>, <<Dir("tool"), Id("t")>>, Main, MaxstackLine>>

Right == {
  <<Id("ldi"), Num(-1)>>, <<Id("ldi"), Num(-9)>>, <<Id("ldi"), Num(8)>>, <<Id("ldi"), Num(16)>>,
  <<Id("br"), Id("a")>>, <<Lab("a")>>, <<Id("ldc"), Id("k")>>, <<Id("ldi"), Id("k")>>,
  <<Dir("const"), Id("k"), Num(7)>>, <<Id("trap"), Text("z")>>, <<Dir("tool"), Id("u")>>,
  <<Id("calltool"), Id("t")>>, <<Id("calltool"), Id("u")>>, <<Id("switch"), Num(20)>>,
  <<Id("dupn"), Num(-300)>>, <<Id("call"), Id("a")>>, <<Id("ret")>>}

Wrong == {
  <<Id("add"), Num(1)>>, <<Id("call"), Num(1)>>, <<Id("bogus")>>, <<Num(1)>>, <<Text("x")>>,
  <<Id("ldc"), Id("none")>>, <<Dir("fn"), Id("leaf")>>, <<Dir("maxstack")>>, <<Dir("bogus")>>,
  <<Dir("const"), Id("k")>>, <<Dir("tool")>>, <<Dir("maxstack"), Num(17)>>}

Stretch == {<<Id("ldi"), Num(16)>>, <<Id("ldi"), Num(1)>>, <<Lab("a")>>, <<Lab("b")>>,
            <<Id("br"), Id("a")>>, <<Id("brz"), Id("b")>>}

Bodies(pool, n) == UNION {[1 .. m -> pool] : m \in 0 .. n}

(* Headers of every other shape, over a function that only returns. *)
Other == {
  <<Main>>, <<MaxstackLine, Main>>, <<Main, MaxstackLine, Main, MaxstackLine>>,
  <<<<Dir("fn"), Id("leaf"), Id("->"), Id("void")>>, MaxstackLine>>,
  <<<<Dir("fn"), Lab("main")>>, MaxstackLine>>,
  <<<<Dir("fn"), Id("main"), Id("("), Id("x"), Id("y"), Id(")"), Id("->"), Num(1)>>, MaxstackLine>>,
  <<<<Dir("fn"), Id("main"), Id("("), Id("x"), Id("i32"), Id(")")>>, MaxstackLine>>,
  <<<<Dir("fn"), Num(1)>>>>,
  <<<<Dir("image"), Text("i")>>, Main, MaxstackLine>>, <<<<Dir("image"), Id("i")>>>>,
  <<<<Dir("isa"), Id("cdx/4")>>, Main, MaxstackLine>>, <<<<Dir("isa")>>, Main, MaxstackLine>>,
  <<<<Lab("a")>>, Main, MaxstackLine>>}

MCSources ==
  {Source(Header \o body) : body \in Bodies(Right, 2) \cup Bodies(Stretch, 5)}
  \cup {Source(Header \o <<x, y, z>>) : x \in Right, y \in Right, z \in {<<Id("ldc"), Id("k")>>, <<Lab("a")>>, <<Id("ret")>>}}
  \cup {Source(Header \o <<x, y>>) : x \in Wrong, y \in {<<Id("ret")>>}}
  \cup {Source(Append(lines, <<Id("ret")>>)) : lines \in Other}

MCInsns == {[op |-> "ldi", a |-> 0, b |-> 15], [op |-> "ldi", a |-> 0, b |-> 16],
            [op |-> "reserve", a |-> 2, b |-> 255]}
=============================================================================
