------------------------------- MODULE Verify -------------------------------
(***************************************************************************)
(* The verifier (verify.rs): the checks an object must pass before it      *)
(* becomes an image.  An image here is the record of the tables admit      *)
(* reads: code is one instruction stream, funcs describe windows of it.    *)
(***************************************************************************)
EXTENDS Cfg

Funcs == [name : STRING, args : Nat, returns : Nat, maxstack : Nat,
          off : Nat, len : Nat]

(* Image sections the layout bounds-checks before admit (image.rs, not in   *)
(* the repository): windows lie inside the code section.                    *)
WellFormed(img) ==
  /\ img.code \in Seq(Insn)
  /\ img.funcs \in Seq(Funcs)
  /\ \A k \in 1 .. Len(img.funcs) :
       img.funcs[k].off + img.funcs[k].len <= Len(img.code)
  /\ img.tables \in Seq(Seq(Nat))

Body(img, f) == SubSeq(img.code, f.off + 1, f.off + f.len)

(* func_index maps names to indices, so of two functions with one name only *)
(* the later can be named.                                                  *)
FuncIndex(img) ==
  {i \in 0 .. Len(img.funcs) - 1 :
     \A j \in i + 1 .. Len(img.funcs) - 1 :
       img.funcs[j + 1].name # img.funcs[i + 1].name}

IndexOk(img, d) ==
  LET operand == TABLE[d.op].operand
  IN /\ operand = "Const" => d.b < Len(img.consts)
     /\ operand = "Func" => d.b \in FuncIndex(img)
     /\ operand = "JumpTable" => d.b < Len(img.tables)

-----------------------------------------------------------------------------
(* The type scan.  It walks the instructions in stream order, not along the *)
(* control flow, with one stack of static types; a variadic instruction     *)
(* empties that stack and pushes nothing.                                   *)
FromTop(types, k) == types[Len(types) - k + 1]

PopFault(types, wants) ==
  LET bad == {k \in 1 .. Len(wants) :
                k > Len(types) \/ ~Satisfies(FromTop(types, k), wants[k])}
      first == CHOOSE k \in bad : \A j \in bad : k <= j
  IN IF bad = {} THEN "ok"
     ELSE IF first > Len(types) THEN "StackUnderflow"
     ELSE "TypeMismatch"

Popped(types, wants) == SubSeq(types, 1, Len(types) - Len(wants))

(* Mutant: the room a push needs is not checked. *)
TypeFaultRoomy(types, d, maxstack) ==
  IF d.op \in Variadic THEN "ok" ELSE PopFault(types, TABLE[d.op].pops)
TypeFault(types, d, maxstack) ==
  LET row == TABLE[d.op]
  IN IF d.op \in Variadic THEN "ok"
     ELSE IF PopFault(types, row.pops) # "ok" THEN PopFault(types, row.pops)
     ELSE IF row.pushes # <<>> /\
             Len(types) - Len(row.pops) + Len(row.pushes) > maxstack
          THEN "MaxstackExceeded"
     ELSE "ok"

TypesAfter(types, d) ==
  IF d.op \in Variadic THEN <<>>
  ELSE Popped(types, TABLE[d.op].pops) \o TABLE[d.op].pushes

(* The two discipline checks on pending values, on the types left after the *)
(* instruction.                                                             *)
PendingFault(types, d) ==
  IF d.op \in {"ret", "tail"} /\ Contains(types, "Pending")
  THEN "PendingEscape"
  ELSE IF d.op \in {"checkpoint", "fork", "commit"} /\ Contains(types, "Pending")
  THEN "LivePending"
  ELSE "ok"

Examine(img, f, s, d) ==
  LET found(code) == [types |-> s.types, fault |-> code]
  IN IF s.fault # "ok" THEN s
     ELSE IF ~IndexOk(img, d) THEN found("DanglingIndex")
     ELSE IF TypeFault(s.types, d, f.maxstack) # "ok"
     THEN found(TypeFault(s.types, d, f.maxstack))
     ELSE [types |-> TypesAfter(s.types, d),
           fault |-> PendingFault(TypesAfter(s.types, d), d)]

(* The scan's state before instruction i. *)
Scan(img, f) ==
  LET insns == Body(img, f)
      state[i \in 0 .. Len(insns)] ==
        IF i = 0 THEN [types |-> <<>>, fault |-> "ok"]
        ELSE Examine(img, f, state[i - 1], insns[i])
  IN state

-----------------------------------------------------------------------------
(* Of results in order the first that is a fault, or "ok". *)
Refusal(results) ==
  LET bad == {k \in 1 .. Len(results) : results[k] # "ok"}
  IN IF bad = {} THEN "ok"
     ELSE results[CHOOSE k \in bad : \A j \in bad : k <= j]

HasExit(insns) ==
  \E i \in Indices(insns) : At(insns, i).op \in {"ret", "tail", "halt", "trap"}

MeteringOps == {"reserve", "spend", "release", "queryq"}

(* The loop check takes the window insns[tail ..= header], with the two     *)
(* BLOCK ids of the back edge used as instruction indices; a window that    *)
(* starts more than one past its end is a slice panic.                      *)
LoopFault(insns, edge) ==
  IF edge[1] > edge[2] + 1 THEN "panic"
  ELSE IF \E i \in edge[1] .. edge[2] : At(insns, i).op \in MeteringOps THEN "ok"
  ELSE "UnmeteredLoop"

(* The first fault of the back edges, in their order, or "ok". *)
LoopsFault(img, f) ==
  LET edges == BackEdges(BlockGraph(Body(img, f), img.tables))
  IN Refusal([k \in 1 .. Len(edges) |-> LoopFault(Body(img, f), edges[k])])

(* fork counts +1, commit and abort -1, over the stream. *)
Balance(insns) ==
  LET count(ops) == Cardinality({i \in Indices(insns) : At(insns, i).op \in ops})
  IN count({"fork"}) - count({"commit", "abort"})

(* check_function, as the code of the first check that fails. *)
CheckFunction(img, f) ==
  LET insns == Body(img, f)
      scanned == Scan(img, f)[Len(insns)]
  IN IF f.maxstack = 0 THEN "MissingMaxstack"
     ELSE IF ~EdgesOk(insns, img.tables)
     THEN EdgeFault(insns, img.tables,
            CHOOSE i \in Indices(insns) :
              /\ EdgeFault(insns, img.tables, i) # "ok"
              /\ \A j \in 0 .. i - 1 : EdgeFault(insns, img.tables, j) = "ok")
     ELSE IF scanned.fault # "ok" THEN scanned.fault
     ELSE IF ~HasExit(insns) THEN "BadTarget"
     ELSE IF LoopsFault(img, f) # "ok" THEN LoopsFault(img, f)
     ELSE IF Balance(insns) # 0 THEN "ForkImbalance"
     ELSE "ok"

(* admit: the first function's fault, or "ok". *)
Verdict(img) ==
  IF img.funcs = <<>> THEN "NoEntryPoint"
  ELSE Refusal([k \in 1 .. Len(img.funcs) |-> CheckFunction(img, img.funcs[k])])

Admitted(img) ==
  /\ img.funcs # <<>>
  /\ \A k \in 1 .. Len(img.funcs) : CheckFunction(img, img.funcs[k]) = "ok"
=============================================================================
