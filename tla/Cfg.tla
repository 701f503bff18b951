--------------------------------- MODULE Cfg ---------------------------------
(***************************************************************************)
(* The control-flow graph of one function (cfg.rs) over its instruction    *)
(* stream insns, a sequence of instructions whose index in the code is one *)
(* less than its position here, and the image's jump tables.               *)
(***************************************************************************)
EXTENDS Isa, FiniteSets, SequencesExt

At(insns, i) == insns[i + 1]
Indices(insns) == 0 .. Len(insns) - 1

(* The successors raw_succs gives instruction i, before they are checked.   *)
Targets(insns, tables, i) ==
  LET d == At(insns, i)
  IN CASE d.op = "br" -> <<d.b>>
       [] d.op \in {"brz", "brnz"} -> <<d.b, i + 1>>
       [] d.op = "switch" ->
            IF d.b < Len(tables) THEN tables[d.b + 1] ELSE <<>>
       [] d.op \in Terminal \ {"br", "switch"} -> <<>>
       [] OTHER -> <<i + 1>>

(* raw_succs: a switch needs a table with a default arm, and every edge,    *)
(* the fallthrough included, must name an instruction of the function.      *)
EdgeFault(insns, tables, i) ==
  LET d == At(insns, i)
  IN IF d.op = "switch" /\ d.b >= Len(tables) THEN "DanglingIndex"
     ELSE IF d.op = "switch" /\ tables[d.b + 1] = <<>> THEN "SwitchNoDefault"
     ELSE IF \E k \in 1 .. Len(Targets(insns, tables, i)) :
               Targets(insns, tables, i)[k] >= Len(insns) THEN "BadTarget"
     ELSE "ok"

EdgesOk(insns, tables) ==
  \A i \in Indices(insns) : EdgeFault(insns, tables, i) = "ok"

-----------------------------------------------------------------------------
(* Blocks.  Plain fallthrough does not split a block. *)
Plain(insns, tables, i) ==
  /\ At(insns, i).op \notin Terminal
  /\ Targets(insns, tables, i) = <<i + 1>>

(* Mutant: a branch target does not begin a block. *)
LeadersFallthrough(insns, tables) ==
  {i \in Indices(insns) : i = 0 \/ ~Plain(insns, tables, i - 1)}
Leaders(insns, tables) ==
  LET splits == {i \in Indices(insns) : ~Plain(insns, tables, i)}
  IN {i \in Indices(insns) :
        \/ i = 0
        \/ i - 1 \in splits
        \/ \E j \in splits : Contains(Targets(insns, tables, j), i)}

Starts(insns, tables) ==
  LET leaders == Leaders(insns, tables)
  IN [k \in 1 .. Cardinality(leaders) |->
        CHOOSE l \in leaders : Cardinality({m \in leaders : m < l}) = k - 1]

BlockIds(insns, tables) == 0 .. Len(Starts(insns, tables)) - 1

(* owner: the block an instruction belongs to. *)
BlockOf(insns, tables, i) ==
  Cardinality({l \in Leaders(insns, tables) : l <= i}) - 1

TerminatorOf(insns, tables, b) ==
  LET starts == Starts(insns, tables)
  IN IF b + 2 <= Len(starts) THEN starts[b + 2] - 1 ELSE Len(insns) - 1

(* The members of s in order, each once. *)
Distinct(s) ==
  LET kept[i \in 0 .. Len(s)] ==
        IF i = 0 THEN <<>>
        ELSE LET before == kept[i - 1]
             IN IF Contains(before, s[i]) THEN before ELSE Append(before, s[i])
  IN kept[Len(s)]

(* Successor blocks in the order of the terminator's targets, each once. *)
BlockSuccs(insns, tables, b) ==
  LET targets == Targets(insns, tables, TerminatorOf(insns, tables, b))
  IN Distinct(
       [k \in 1 .. Len(targets) |-> BlockOf(insns, tables, targets[k])])

(* The edges of the whole graph, computed once per function. *)
BlockGraph(insns, tables) ==
  [b \in BlockIds(insns, tables) |-> BlockSuccs(insns, tables, b)]

-----------------------------------------------------------------------------
(* Reverse postorder.  The depth-first walk of reverse_postorder, one turn  *)
(* of its loop at a time: stack holds blocks with the next successor to     *)
(* take, post the blocks that are finished.                                 *)
Turn(graph, walk) ==
  LET b == Last(walk.stack)[1]
      k == Last(walk.stack)[2]
      below == Front(walk.stack)
      stayed == Append(below, <<b, k + 1>>)
  IN IF walk.stack = <<>> THEN walk
     ELSE IF k > Len(graph[b])
     THEN [walk EXCEPT !.post = Append(@, b), !.stack = below]
     ELSE IF graph[b][k] \in walk.seen THEN [walk EXCEPT !.stack = stayed]
     ELSE [walk EXCEPT !.seen = @ \cup {graph[b][k]},
                       !.stack = Append(stayed, <<graph[b][k], 1>>)]

(* What there is to visit: of each block its successors and its end.  One   *)
(* turn for each of them empties the stack.                                 *)
Visits(graph) ==
  UNION {{b} \X (1 .. Len(graph[b]) + 1) : b \in DOMAIN graph}

Walked(graph) ==
  LET turns == Cardinality(Visits(graph))
      walk[i \in 0 .. turns] ==
        IF i = 0 THEN [seen |-> {0}, stack |-> << <<0, 1>> >>, post |-> <<>>]
        ELSE Turn(graph, walk[i - 1])
  IN walk[turns]

ReversePostorder(graph) ==
  IF DOMAIN graph = {} THEN <<>> ELSE Reverse(Walked(graph).post)

Reachable(graph) == ToSet(ReversePostorder(graph))

-----------------------------------------------------------------------------
(* Dominators.  UNDEF stands for a block not yet processed. *)
UNDEF == -1

Number(rpo) == [b \in ToSet(rpo) |-> CHOOSE i \in 1 .. Len(rpo) : rpo[i] = b]

(* intersect: of the two chains the deeper one is climbed until they meet.  *)
(* A climb lowers one of two numbers, so there are at most Len(rpo) each.   *)
(* Mutant: the chains are not climbed. *)
IntersectNot(rpo, idom, a, b) == a
Intersect(rpo, idom, a, b) ==
  LET num == Number(rpo)
      bound == 2 * Len(rpo)
      climb[k \in 0 .. bound] ==
        IF k = 0 THEN <<a, b>>
        ELSE LET at == climb[k - 1]
             IN IF at[1] = at[2] THEN at
                ELSE IF num[at[1]] > num[at[2]] THEN <<idom[at[1]], at[2]>>
                ELSE <<at[1], idom[at[2]]>>
  IN climb[bound][1]

(* One block of a sweep: the predecessors that have an idom, intersected.   *)
Revised(graph, rpo, idom, b) ==
  LET blocks == Cardinality(DOMAIN graph)
      new[i \in 0 .. blocks] ==
        IF i = 0 THEN UNDEF
        ELSE LET before == new[i - 1]
                 p == i - 1
             IN IF ~Contains(graph[p], b) \/ idom[p] = UNDEF THEN before
                ELSE IF before = UNDEF THEN p
                ELSE Intersect(rpo, idom, p, before)
  IN IF new[blocks] = UNDEF THEN idom ELSE [idom EXCEPT ![b] = new[blocks]]

(* One sweep over the blocks behind the entry, in reverse postorder. *)
Swept(graph, rpo, idom) ==
  LET upto[i \in 1 .. Len(rpo)] ==
        IF i = 1 THEN idom ELSE Revised(graph, rpo, upto[i - 1], rpo[i])
  IN upto[Len(rpo)]

(* dominators: sweeps until nothing changes.  A sweep that changes          *)
(* something takes a block off some chain, so there are at most so many.    *)
Idoms(graph, rpo) ==
  LET start == [b \in DOMAIN graph |-> IF b = 0 THEN 0 ELSE UNDEF]
      bound == Len(rpo) * Len(rpo) + 2
      sweep[k \in 0 .. bound] ==
        IF k = 0 THEN [idom |-> start, changed |-> TRUE]
        ELSE LET before == sweep[k - 1]
                 after == Swept(graph, rpo, before.idom)
             IN IF before.changed
                THEN [idom |-> after, changed |-> after # before.idom]
                ELSE before
  IN IF rpo = <<>> THEN start ELSE sweep[bound].idom

(* The chain dominates walks: from b upwards, to the entry. *)
Chain(idom, b) ==
  LET up[k \in 0 .. Cardinality(DOMAIN idom)] ==
        IF k = 0 THEN b ELSE idom[up[k - 1]]
  IN {up[k] : k \in DOMAIN up}

(* dominates, on the reachable blocks: is a on the idom chain of b?         *)
(* Mutant: the two blocks exchanged. *)
DominatesExchanged(idom, a, b) ==
  idom[a] # UNDEF /\ idom[b] # UNDEF /\ b \in Chain(idom, a)
Dominates(idom, a, b) ==
  idom[a] # UNDEF /\ idom[b] # UNDEF /\ a \in Chain(idom, b)

(* find_back_edges: pairs <<tail, header>> of BLOCK ids, in the order the   *)
(* tails are visited, and of each tail its successors.                      *)
BackEdgesOf(graph, idom, t) ==
  LET found[k \in 0 .. Len(graph[t])] ==
        IF k = 0 THEN <<>>
        ELSE IF Dominates(idom, graph[t][k], t)
             THEN Append(found[k - 1], <<t, graph[t][k]>>)
        ELSE found[k - 1]
  IN found[Len(graph[t])]

BackEdges(graph) ==
  LET idom == Idoms(graph, ReversePostorder(graph))
      blocks == Cardinality(DOMAIN graph)
      found[t \in 0 .. blocks] ==
        IF t = 0 THEN <<>> ELSE found[t - 1] \o BackEdgesOf(graph, idom, t - 1)
  IN found[blocks]
=============================================================================
