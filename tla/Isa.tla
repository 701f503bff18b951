-------------------------------- MODULE Isa --------------------------------
(***************************************************************************)
(* The cdx/4 instruction table (isa.rs): for every opcode the class of its *)
(* operand b, the static types it pops and pushes, and whether control can *)
(* fall through to the next instruction.  The verifier and the control     *)
(* flow graph read nothing else about an opcode.                           *)
(***************************************************************************)
EXTENDS Integers, Sequences

(* Elements of the static type lattice; "Bottom" is unreachable code, "Top" *)
(* is accepted nowhere except where anything is.                            *)
Ty == {"Bottom", "Int", "Str", "Bytes", "List", "Handle", "Pending", "Top"}

(* Ty::join: the least upper bound of two static types. *)
Join(s, t) ==
  IF s = "Bottom" THEN t
  ELSE IF t = "Bottom" \/ s = t THEN s
  ELSE "Top"

(* Ty::satisfies: is a value of static type got acceptable where want is    *)
(* required?  "Handle" passes for the arena types, never the other way.     *)
Satisfies(got, want) ==
  \/ want = "Top"
  \/ got = "Bottom"
  \/ got = "Handle" /\ want \in {"Str", "Bytes", "List"}
  \/ got = want

Row(operand, pops, pushes) ==
  [operand |-> operand, pops |-> pops, pushes |-> pushes]

(* The rows of TABLE.  pops is in the order the table lists the types, the  *)
(* order in which the verifier matches them from the top of its stack.      *)
TABLE == [
  nop      |-> Row("None", <<>>, <<>>),
  ldc      |-> Row("Const", <<>>, <<"Handle">>),
  ldi      |-> Row("Imm", <<>>, <<"Int">>),
  dup      |-> Row("None", <<"Top">>, <<"Top", "Top">>),
  dupn     |-> Row("Slot", <<>>, <<"Top">>),
  drop     |-> Row("None", <<"Top">>, <<>>),
  swap     |-> Row("None", <<"Top", "Top">>, <<"Top", "Top">>),
  rot      |-> Row("None", <<"Top", "Top", "Top">>, <<"Top", "Top", "Top">>),
  ldl      |-> Row("Slot", <<>>, <<"Top">>),
  stl      |-> Row("Slot", <<"Top">>, <<>>),
  argv     |-> Row("Slot", <<>>, <<"Str">>),
  pack     |-> Row("Imm", <<>>, <<"List">>),
  unpack   |-> Row("Imm", <<"List">>, <<>>),
  idx      |-> Row("None", <<"Int", "List">>, <<"Top">>),
  len      |-> Row("None", <<"Handle">>, <<"Int">>),
  cat      |-> Row("None", <<"Handle", "Handle">>, <<"Handle">>),
  fmt      |-> Row("Const", <<"List">>, <<"Str">>),
  slice    |-> Row("None", <<"Int", "Int", "Handle">>, <<"Handle">>),
  find     |-> Row("None", <<"Handle", "Handle">>, <<"Int">>),
  add      |-> Row("None", <<"Int", "Int">>, <<"Int">>),
  sub      |-> Row("None", <<"Int", "Int">>, <<"Int">>),
  mul      |-> Row("None", <<"Int", "Int">>, <<"Int">>),
  div      |-> Row("None", <<"Int", "Int">>, <<"Int">>),
  mod      |-> Row("None", <<"Int", "Int">>, <<"Int">>),
  eq       |-> Row("None", <<"Top", "Top">>, <<"Int">>),
  lt       |-> Row("None", <<"Int", "Int">>, <<"Int">>),
  not      |-> Row("None", <<"Int">>, <<"Int">>),
  and      |-> Row("None", <<"Int", "Int">>, <<"Int">>),
  or       |-> Row("None", <<"Int", "Int">>, <<"Int">>),
  shl      |-> Row("None", <<"Int", "Int">>, <<"Int">>),
  shr      |-> Row("None", <<"Int", "Int">>, <<"Int">>),
  br       |-> Row("Target", <<>>, <<>>),
  brz      |-> Row("Target", <<"Int">>, <<>>),
  brnz     |-> Row("Target", <<"Int">>, <<>>),
  call     |-> Row("Func", <<>>, <<>>),
  ret      |-> Row("None", <<>>, <<>>),
  tail     |-> Row("Func", <<>>, <<>>),
  switch   |-> Row("JumpTable", <<"Int">>, <<>>),
  trap     |-> Row("Const", <<>>, <<>>),
  halt     |-> Row("None", <<"Int">>, <<>>),
  calltool |-> Row("Tool", <<"List">>, <<"Pending">>),
  await    |-> Row("None", <<"Pending">>, <<"Top">>),
  poll     |-> Row("None", <<"Pending">>, <<"Pending", "Int">>),
  cancel   |-> Row("None", <<"Pending">>, <<>>),
  select   |-> Row("Imm", <<>>, <<"Int", "Top">>),
  spawn    |-> Row("Func", <<"List">>, <<"Pending">>),
  join     |-> Row("None", <<"Pending">>, <<"Top">>),
  fork     |-> Row("None", <<>>, <<"Int">>),
  commit   |-> Row("None", <<>>, <<>>),
  abort    |-> Row("None", <<>>, <<>>),
  checkpoint |-> Row("Const", <<>>, <<>>),
  yieldctx |-> Row("None", <<>>, <<>>),
  resume   |-> Row("Const", <<>>, <<>>),
  reserve  |-> Row("Dimension", <<"Int">>, <<>>),
  release  |-> Row("Dimension", <<"Int">>, <<>>),
  spend    |-> Row("Dimension", <<"Int">>, <<>>),
  queryq   |-> Row("Dimension", <<>>, <<"Int">>),
  ctxpush  |-> Row("Imm", <<"Str">>, <<>>),
  ctxpop   |-> Row("Imm", <<>>, <<>>),
  ctxwin   |-> Row("None", <<>>, <<"List">>),
  ctxcost  |-> Row("None", <<>>, <<"Int">>),
  now      |-> Row("None", <<>>, <<"Int">>),
  rand     |-> Row("None", <<>>, <<"Int">>),
  env      |-> Row("Const", <<>>, <<"Str">>),
  log      |-> Row("Const", <<"Top">>, <<>>)]

Ops == DOMAIN TABLE

(* The "variadic" flag: the verifier forgets its type stack at these. *)
Variadic == {"dupn", "ldl", "stl", "pack", "unpack", "call", "ret", "tail",
             "select"}

(* The "terminal" flag: control does not fall through. *)
Terminal == {"br", "ret", "tail", "switch", "trap", "halt", "abort"}

(* Imm operands are sign-extended from 16 bits (all instructions of the     *)
(* model are narrow, four bytes each, so pc and instruction index agree).   *)
Imm(d) == IF d.b < 32768 THEN d.b ELSE d.b - 65536

Insn == [op : Ops, a : Nat, b : Nat]
=============================================================================
