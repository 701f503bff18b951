-------------------------------- MODULE MCVm --------------------------------
(***************************************************************************)
(* Small images for the machine, each admitted by the verifier.  An image  *)
(* is listed for what it makes happen, named in the comment before it.     *)
(***************************************************************************)
EXTENDS VmProperties, Programs

-----------------------------------------------------------------------------
(* A metered loop that leases 40 a turn until the ledger refuses. *)
LeaseLoop == Link(Main(3,
  <<I("ldi", 1), I("reserve", 40), I("ldi", 1), I("brnz", 1)>> \o Exit0), <<>>, <<>>)

(* Lease, settle part of it, give back the rest and ask for more than that. *)
Settle == Link(Main(3,
  <<I("ldi", 0), I("reserve", 50), I("ldi", 20), O("spend"), I("ldi", 30),
    O("release"), I("ldi", 9), O("release")>> \o Exit0), <<>>, <<>>)

(* A metered loop that never ends. *)
Spin == Link(Main(3,
  <<I("ldi", 0), O("release"), I("ldi", 0), I("ldi", 1), I("brnz", 1)>> \o Exit0),
  <<>>, <<>>)

(* An allocation inside a fork, committed, then a list over what it left. *)
ForkCommit == Link(Main(4,
  <<O("argv"), O("fork"), O("argv"), O("commit"), I("pack", 1), I("dupn", 0),
    O("ctxwin"), O("drop")>> \o Exit0), <<>>, <<>>)

(* A fork that is aborted at the end of its function. *)
ForkAbort == Link(
  <<Fn("main", 0, 0, 3,
       <<O("fork"), I("brz", 4), I("ldi", 0), O("halt"), O("abort")>>),
    Fn("next", 0, 1, 2, <<O("argv"), O("ret")>>)>>, <<>>, <<>>)

(* The same with nothing behind it in the code section. *)
AbortLast == Link(Main(2,
  <<O("fork"), I("brz", 4), I("ldi", 0), O("halt"), O("abort")>>), <<>>, <<>>)

(* A call whose callee returns a value, and one that recurses. *)
CallRet == Link(
  <<Fn("main", 0, 1, 2, <<I("call", 1), O("ret")>>),
    Fn("leaf", 0, 1, 2, <<I("ldi", 4), I("ldi", 5), O("ret")>>)>>, <<>>, <<>>)
Recurse == Link(
  <<Fn("main", 0, 0, 2, <<O("argv"), I("call", 1), O("ret")>>),
    Fn("deep", 1, 0, 2, <<I("dupn", 0), I("call", 1), O("ret")>>)>>, <<>>, <<>>)

(* A tail call that carries an argument, found by a second name. *)
TailArg == Link(
  <<Fn("leaf", 1, 1, 2, <<I("dupn", 0), O("ret")>>),
    Fn("main", 0, 1, 2, <<I("ldi", 65535), I("tail", 0)>>)>>, <<>>, <<>>)

(* A switch to each of its arms and to its default. *)
Arms(n) == Link(Main(2,
  <<I("ldi", n), I("switch", 0), I("ldi", 7), O("halt"), O("ret"), I("trap", 0)>>),
  <<Text(<<9>>)>>, << <<2, 4, 5>> >>)

(* A tool issued with the window as its arguments. *)
Tool == Link(Main(3,
  <<O("ctxwin"), I("calltool", 4), O("drop")>> \o Exit0), <<>>, <<>>)

(* Oracles and suspensions. *)
AskNow == Link(Main(2, <<O("now"), O("halt")>>), <<>>, <<>>)
AskQuota == Link(Main(2, <<O("queryq"), O("halt")>>), <<>>, <<>>)
Yielding == Link(Main(2, <<O("yieldctx")>> \o Exit0), <<>>, <<>>)

(* Strings: concatenation, equality by content, search, length. *)
Strings == Link(Main(3,
  <<I("ldc", 0), I("ldc", 0), O("cat"), I("ldc", 1), O("find"), I("ldc", 0),
    O("len"), O("add"), O("halt")>>), <<Text(<<8, 9>>), Blob(<<9>>)>>, <<>>)
Equal == Link(Main(3,
  <<I("ldc", 0), I("ldc", 0), O("eq"), I("ldc", 1), I("ldc", 0), O("eq"),
    O("sub"), O("halt")>>), <<Text(<<8, 9>>), Blob(<<9>>)>>, <<>>)
FindEmpty == Link(Main(3,
  <<I("ldc", 0), I("ldc", 1), O("find"), O("halt")>>),
  <<Text(<<8>>), Text(<<>>)>>, <<>>)

(* The ring: filled past its limit, and evicted and read back. *)
RingFull == Link(Main(3,
  <<O("argv"), O("ctxpush"), O("argv"), O("ctxpush"), O("argv"), O("ctxpush")>>
  \o Exit0), <<>>, <<>>)
RingRead == Link(Main(3,
  <<O("argv"), O("ctxpush"), O("ctxwin"), I("fmt", 0), O("drop"), I("ctxpop", 1),
    O("ctxcost"), O("halt")>>), <<Text(<<9>>)>>, <<>>)

(* Code the scan types through dead instructions: list access and slicing   *)
(* with operands in the order the machine pops them.                        *)
ListAccess == Link(Main(5,
  <<I("ldi", 0), I("ldi", 7), I("pack", 1), I("br", 6), I("ldc", 0), I("ldi", 0),
    O("idx"), I("dupn", 0), O("ret")>>), <<Text(<<9>>)>>, <<>>)
Slicing == Link(Main(6,
  <<I("ldi", 65535), I("ldi", 1), I("ldc", 0), I("br", 6), I("ldi", 0),
    I("ldi", 0), O("slice"), O("len"), O("halt")>>), <<Text(<<9, 8>>)>>, <<>>)

(* Arithmetic at the edges of the word. *)
Wrap == Link(Main(4,
  <<I("ldi", 127), I("ldi", 1), O("add"), I("ldi", 65535), O("div"), I("ldi", 2),
    O("shr"), O("halt")>>), <<>>, <<>>)
DivZero == Link(Main(3,
  <<I("ldi", 65535), I("ldi", 2), O("mod"), O("not"), I("ldi", 0), O("swap"),
    O("drop"), O("dup"), O("eq"), O("halt")>>), <<>>, <<>>)

(* Every admitted program of five instructions and an exit that opens a     *)
(* fork, allocates, discards and passes or returns handles around it.       *)
ForkPool == {O("argv"), I("pack", 1), O("fork"), O("commit"), O("abort"), O("drop")}
Forked == {body \in Bodies(ForkPool, {I("trap", 0), O("ret")}, 5) :
             Contains(body, O("fork"))}
ForkImages ==
  {img \in {Link(Main(4, body), <<Text(<<9>>)>>, <<>>) : body \in Forked} : Admitted(img)}

(* Every admitted straight-line program of four instructions and an exit,   *)
(* over loads, stack shuffles, arithmetic, string, ring and metering        *)
(* instructions, and around a fork over a constant of bytes, with little    *)
(* room on the stack.  One of the first kind can only begin with a load:    *)
(* the others pop.                                                          *)
Loads == {I("ldi", 1), I("ldc", 0), O("argv")}
StraightPool ==
  Loads \cup {O("dup"), O("drop"), O("swap"), O("add"), O("not"), O("eq"), O("cat"),
             O("len"), O("find"), O("ctxpush"), O("spend")}
CommitPool == {O("fork"), O("commit"), I("ldc", 0), I("ldi", 1), O("cat"), O("len")}
Straight(firsts, pool, const) ==
  {img \in {Link(Main(m, <<first>> \o body), <<const>>, <<>>) :
             m \in 1 .. 3, first \in firsts,
             body \in Bodies(pool, {O("halt"), I("trap", 0)}, 3)} :
     Admitted(img)}
StraightImages ==
  Straight(Loads, StraightPool, Text(<<9>>))
  \cup Straight(CommitPool, CommitPool, Blob(<<9>>))

MCImages ==
  ForkImages \cup StraightImages \cup
  {LeaseLoop, Settle, Spin, ForkCommit, ForkAbort, AbortLast, CallRet, Recurse,
   TailArg, Tool, AskNow, AskQuota, Yielding, Strings, Equal, FindEmpty,
   RingFull, RingRead, ListAccess, Slicing, Wrap, DivZero}
  \cup {Arms(n) : n \in {0, 1, 2, 65535}}

(* The empty list is a value the host can name without an arena.  *)
MCHostValues == {IntV(0), HandleV(LIST, [off |-> 0, len |-> 0])}
=============================================================================
