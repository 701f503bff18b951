------------------------------ MODULE Programs ------------------------------
(***************************************************************************)
(* Writing small images down: instructions, functions, constants, and the  *)
(* layout of their code sections.  Used only by model-checking modules.    *)
(***************************************************************************)
EXTENDS Verify

I(op, b) == [op |-> op, a |-> 0, b |-> b]
O(op) == I(op, 0)

Fn(name, args, returns, maxstack, body) ==
  [name |-> name, args |-> args, returns |-> returns, maxstack |-> maxstack,
   body |-> body]

(* The image whose functions lie one after the other in the code section. *)
Link(fns, consts, tables) ==
  LET off[k \in 1 .. Len(fns)] ==
        IF k = 1 THEN 0 ELSE off[k - 1] + Len(fns[k - 1].body)
  IN [code |-> FlattenSeq([k \in 1 .. Len(fns) |-> fns[k].body]),
      funcs |-> [k \in 1 .. Len(fns) |->
                   [name |-> fns[k].name, args |-> fns[k].args,
                    returns |-> fns[k].returns, maxstack |-> fns[k].maxstack,
                    off |-> off[k], len |-> Len(fns[k].body)]],
      consts |-> consts, tables |-> tables]

Text(s) == [bytes |-> s, utf8 |-> TRUE]
Blob(s) == [bytes |-> s, utf8 |-> FALSE]
Main(maxstack, body) == <<Fn("main", 0, 1, maxstack, body)>>
Exit0 == <<I("ldi", 0), O("halt")>>


(* All bodies of n instructions from pool followed by one of the exits. *)
Bodies(pool, exits, n) ==
  {Append(body, exit) : body \in [1 .. n -> pool], exit \in exits}
=============================================================================
