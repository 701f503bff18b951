-------------------------- MODULE Admission_proofs --------------------------
(***************************************************************************)
(* What the checks of admit conclude from blocks and dominators is true of *)
(* the instructions themselves, for every object.  The invariant is only   *)
(* that the object stays one that may be offered; the work is in what the  *)
(* recursive functions of the graph compute, by counting their steps.      *)
(***************************************************************************)
EXTENDS Admission, FiniteSetTheorems, SequenceTheorems, WellFoundedInduction,
        TLAPS

-----------------------------------------------------------------------------
(* Counting up.                                                             *)

(* A nonempty set of numbers has a least one. *)
LEMMA LeastNumber ==
  ASSUME NEW S \in SUBSET Nat, S # {}
  PROVE  \E m \in S : \A k \in S : m <= k
<1>1. PICK m \in S : \A k \in S : ~(<<k, m>> \in OpToRel(<, Nat))
  BY NatLessThanWellFounded, WFMin
<1>2. \A k \in S : ~(k < m)
  BY <1>1 DEF OpToRel
<1> QED
  BY <1>2

(* What holds at first, and of each number after the one before, holds of   *)
(* all.                                                                     *)
LEMMA Counting ==
  ASSUME NEW n \in Nat, NEW T, 0 \in T,
         \A k \in 1 .. n : k - 1 \in T => k \in T
  PROVE  0 .. n \subseteq T
<1> DEFINE bad == {k \in 0 .. n : k \notin T}
<1> SUFFICES ASSUME bad # {} PROVE FALSE
  OBVIOUS
<1>1. PICK m \in bad : \A k \in bad : m <= k
  <2> bad \in SUBSET Nat
    OBVIOUS
  <2> HIDE DEF bad
  <2> QED
    BY LeastNumber
<1>2. m \in 0 .. n /\ m \notin T
  BY <1>1
<1>3. m \in 1 .. n /\ m - 1 \in 0 .. n /\ m - 1 \notin bad
  BY <1>1, <1>2
<1> QED
  BY <1>2, <1>3

(* A function that is defined by what comes before exists, and stays where  *)
(* each of its steps stays.                                                 *)
Follows(f, n, x, F) ==
  f = [i \in 0 .. n |-> IF i = 0 THEN x ELSE F[i][f[i - 1]]]
Stays(n, F, S) == \A i \in 1 .. n : \A y \in S : F[i][y] \in S
LEMMA Recursion ==
  ASSUME NEW S, NEW x \in S, NEW n \in Nat, NEW F, Stays(n, F, S)
  PROVE  \E f \in [0 .. n -> S] : Follows(f, n, x, F)
<1> DEFINE Upto(m, f) ==
             f \in [0 .. m -> S] /\ \A i \in 0 .. m : f[i] = IF i = 0 THEN x ELSE F[i][f[i - 1]]
           T == {m \in 0 .. n : \E f : Upto(m, f)}
<1>1. 0 \in T
  <2> DEFINE f == [i \in 0 .. 0 |-> x]
  <2>1. Upto(0, f)
    OBVIOUS
  <2>2. \E g : Upto(0, g)
    <3> HIDE DEF Upto, f
    <3> QED
      BY <2>1
  <2> QED
    BY <2>2
<1>a. \A k \in 1 .. n : \A y \in S : F[k][y] \in S
  BY DEF Stays
<1>2. ASSUME NEW m \in 1 .. n, m - 1 \in T
      PROVE  m \in T
  <2>1. PICK f : Upto(m - 1, f)
    BY <1>2
  <2> DEFINE h == [i \in 0 .. m |-> IF i = m THEN F[m][f[m - 1]] ELSE f[i]]
  <2>2. h \in [0 .. m -> S]
    BY <2>1, <1>a
  <2>3. ASSUME NEW i \in 0 .. m
        PROVE  h[i] = IF i = 0 THEN x ELSE F[i][h[i - 1]]
    <3>1. CASE i = 0
      BY <2>1, <3>1
    <3>2. CASE i # 0 /\ i # m
      <4>1. i \in 0 .. m - 1 /\ i - 1 \in 0 .. m /\ i - 1 # m
        BY <3>2
      <4>2. h[i] = f[i] /\ h[i - 1] = f[i - 1]
        BY <3>2, <4>1
      <4> HIDE DEF h
      <4> QED
        BY <2>1, <3>2, <4>1, <4>2
    <3>3. CASE i = m
      <4>1. m - 1 \in 0 .. m /\ m - 1 # m /\ m # 0
        OBVIOUS
      <4>2. h[m - 1] = f[m - 1] /\ h[m] = F[m][f[m - 1]]
        BY <4>1
      <4> HIDE DEF h
      <4> QED
        BY <3>3, <4>1, <4>2
    <3> QED
      BY <3>1, <3>2, <3>3
  <2> HIDE DEF h
  <2>4. Upto(m, h)
    BY <2>2, <2>3
  <2> HIDE DEF Upto
  <2> QED
    BY <2>4
<1>3. n \in T
  <2> HIDE DEF T
  <2> QED
    BY <1>1, <1>2, Counting
<1>4. PICK f : Upto(n, f)
  BY <1>3
<1>5. f \in [0 .. n -> S] /\ Follows(f, n, x, F)
  BY <1>4 DEF Follows
<1> QED
  BY <1>5

-----------------------------------------------------------------------------
(* Blocks.                                                                  *)

(* How many members of a set of numbers lie below a number. *)
Below(L, i) == Cardinality({l \in L : l < i})

(* One number further there is one more below, if it is a member. *)
LEMMA BelowStep ==
  ASSUME NEW L \in SUBSET Nat, IsFiniteSet(L), NEW i \in Nat
  PROVE  /\ Below(L, i) \in Nat
         /\ Below(L, i + 1) = IF i \in L THEN Below(L, i) + 1 ELSE Below(L, i)
<1> DEFINE A == {l \in L : l < i}
           B == {l \in L : l < i + 1}
<1>0. \A l \in L : l \in Nat
  OBVIOUS
<1>1. IsFiniteSet(A) /\ Cardinality(A) \in Nat
  BY FS_Subset, FS_CardinalityType
<1>2. CASE i \in L
  <2>a. \A l \in L : l < i + 1 <=> (l < i \/ l = i)
    BY <1>0, <1>2
  <2>b. ~(i < i)
    OBVIOUS
  <2>1. B = A \cup {i} /\ i \notin A
    BY <1>2, <2>a, <2>b, Zenon
  <2>2. Cardinality(A \cup {i}) = Cardinality(A) + 1
    <3> HIDE DEF A
    <3> QED
      BY <1>1, <2>1, FS_AddElement
  <2> HIDE DEF A, B
  <2>3. Below(L, i) = Cardinality(A) /\ Below(L, i + 1) = Cardinality(B)
    BY DEF Below, A, B
  <2> QED
    BY <1>1, <1>2, <2>1, <2>2, <2>3
<1>3. CASE i \notin L
  <2>a. \A l \in L : l < i + 1 <=> l < i
    BY <1>0, <1>3
  <2>1. B = A
    BY <2>a, Zenon
  <2> HIDE DEF A, B
  <2>2. Below(L, i) = Cardinality(A) /\ Below(L, i + 1) = Cardinality(B)
    BY DEF Below, A, B
  <2> QED
    BY <1>1, <1>3, <2>1, <2>2
<1> QED
  BY <1>2, <1>3

(* Further up there are no fewer. *)
LEMMA BelowGrows ==
  ASSUME NEW L \in SUBSET Nat, IsFiniteSet(L), NEW i \in Nat, NEW j \in Nat, i <= j
  PROVE  Below(L, i) <= Below(L, j)
<1>0. \A l \in L : l \in Nat
  OBVIOUS
<1>a. \A l \in L : l < i => l < j
  BY <1>0
<1>1. {l \in L : l < i} \subseteq {l \in L : l < j}
  BY <1>a, Zenon
<1>2. IsFiniteSet({l \in L : l < j})
  BY FS_Subset
<1> QED
  BY <1>1, <1>2, FS_Subset DEF Below

(* Members are told apart by how many lie below. *)
LEMMA BelowApart ==
  ASSUME NEW L \in SUBSET Nat, IsFiniteSet(L), NEW l \in L, NEW m \in L,
         Below(L, l) = Below(L, m)
  PROVE  l = m
<1>1. ASSUME NEW a \in L, NEW b \in L, a < b
      PROVE  Below(L, a) < Below(L, b)
  <2>1. a \in Nat /\ b \in Nat /\ a + 1 <= b
    BY <1>1
  <2>2. Below(L, a + 1) = Below(L, a) + 1 /\ Below(L, a) \in Nat /\ Below(L, b) \in Nat
    BY <2>1, BelowStep
  <2>3. Below(L, a + 1) <= Below(L, b)
    BY <2>1, BelowGrows
  <2> QED
    BY <2>2, <2>3
<1>2. Below(L, l) \in Nat
  BY BelowStep
<1>3. l \in Nat /\ m \in Nat
  OBVIOUS
<1>4. ~(l < m) /\ ~(m < l)
  BY <1>1, <1>2
<1> QED
  BY <1>3, <1>4

(* Beyond all members there are as many as there are. *)
LEMMA BelowAll ==
  ASSUME NEW L \in SUBSET Nat, NEW i \in Nat, \A l \in L : l < i
  PROVE  Below(L, i) = Cardinality(L)
<1>1. {l \in L : l < i} = L
  OBVIOUS
<1> QED
  BY <1>1 DEF Below

(* Below the first number there are none. *)
LEMMA BelowNone ==
  ASSUME NEW L \in SUBSET Nat
  PROVE  Below(L, 0) = 0
<1>0. \A l \in L : l \in Nat
  OBVIOUS
<1>1. \A l \in L : ~(l < 0)
  BY <1>0
<1>2. {l \in L : l < 0} = {}
  BY <1>1, Zenon
<1> QED
  BY <1>2, FS_EmptySet DEF Below

(* Every count is the count of a member. *)
LEMMA BelowOnto ==
  ASSUME NEW L \in SUBSET Nat, IsFiniteSet(L), NEW n \in Nat, \A l \in L : l < n,
         NEW k \in Nat, k < Cardinality(L)
  PROVE  \E l \in L : Below(L, l) = k
<1> DEFINE more == {i \in Nat : Below(L, i) > k}
<1>1. n \in more
  BY BelowAll
<1>2. PICK i \in more : \A j \in more : i <= j
  <2> more \in SUBSET Nat
    OBVIOUS
  <2> HIDE DEF more
  <2> QED
    BY <1>1, LeastNumber
<1>3. i \in Nat /\ Below(L, i) > k
  BY <1>2
<1>4. i # 0
  BY <1>3, BelowNone
<1>5. i - 1 \in Nat /\ i - 1 \notin more /\ (i - 1) + 1 = i
  BY <1>2, <1>3, <1>4
<1>6. Below(L, i - 1) \in Nat
  BY <1>5, BelowStep
<1>7. Below(L, i - 1) <= k
  BY <1>5, <1>6
<1>8. Below(L, i) = IF i - 1 \in L THEN Below(L, i - 1) + 1 ELSE Below(L, i - 1)
  BY <1>5, BelowStep
<1>9. i - 1 \in L /\ Below(L, i - 1) = k
  BY <1>3, <1>6, <1>7, <1>8
<1> QED
  BY <1>9

-----------------------------------------------------------------------------
(* An instruction stream whose edges were accepted. *)
Accepted(insns, tables) ==
  /\ insns \in Seq(Insn) /\ tables \in Seq(Seq(Nat))
  /\ EdgesOk(insns, tables)

(* Every target of an instruction is one. *)
LEMMA TargetsInside ==
  ASSUME NEW insns, NEW tables, Accepted(insns, tables), NEW i \in Indices(insns)
  PROVE  Targets(insns, tables, i) \in Seq(Indices(insns))
<1> DEFINE d == At(insns, i)
           targets == Targets(insns, tables, i)
<1>1. insns \in Seq(Insn) /\ tables \in Seq(Seq(Nat)) /\ Len(insns) \in Nat
  BY DEF Accepted
<1>2. i \in 0 .. Len(insns) - 1 /\ i + 1 \in 1 .. Len(insns) /\ i \in Nat
  BY <1>1 DEF Indices
<1>3. d \in Insn /\ d.b \in Nat
  <2>1. insns[i + 1] \in Insn
    BY <1>1, <1>2, ElementOfSeq
  <2> QED
    BY <2>1 DEF At, Insn
<1>4. EdgeFault(insns, tables, i) = "ok"
  BY DEF Accepted, EdgesOk
<1>5. targets \in Seq(Nat)
  <2>1. d.op = "switch" => d.b < Len(tables)
    <3>1. ~(d.op = "switch" /\ d.b >= Len(tables))
      BY <1>4 DEF EdgeFault
    <3>2. Len(tables) \in Nat
      BY <1>1
    <3> HIDE DEF d
    <3> QED
      BY <1>3, <3>1, <3>2
  <2>2. d.op = "switch" => tables[d.b + 1] \in Seq(Nat)
    <3> SUFFICES ASSUME d.op = "switch" PROVE tables[d.b + 1] \in Seq(Nat)
      OBVIOUS
    <3>1. d.b + 1 \in 1 .. Len(tables)
      BY <1>1, <1>3, <2>1
    <3> QED
      BY <1>1, <3>1, ElementOfSeq
  <2>3. <<d.b>> \in Seq(Nat) /\ <<d.b, i + 1>> \in Seq(Nat) /\ <<i + 1>> \in Seq(Nat)
        /\ <<>> \in Seq(Nat)
    BY <1>2, <1>3
  <2> HIDE DEF d
  <2>4. CASE d.op = "br"
    BY <2>3, <2>4 DEF Targets, d
  <2>5. CASE d.op \in {"brz", "brnz"}
    BY <2>3, <2>5 DEF Targets, d
  <2>6. CASE d.op = "switch"
    BY <2>1, <2>2, <2>6 DEF Targets, d
  <2>7. CASE d.op \in Terminal \ {"br", "switch"}
    BY <2>3, <2>7 DEF Targets, d, Terminal
  <2>8. CASE d.op \notin {"br", "brz", "brnz", "switch"} /\ d.op \notin Terminal
    BY <2>3, <2>8 DEF Targets, d
  <2> QED
    BY <2>4, <2>5, <2>6, <2>7, <2>8
<1>6. \A k \in 1 .. Len(targets) : targets[k] < Len(insns)
  <2>1. ~\E k \in 1 .. Len(targets) : targets[k] >= Len(insns)
    BY <1>4 DEF EdgeFault
  <2>2. \A k \in 1 .. Len(targets) : targets[k] \in Nat
    BY <1>5, ElementOfSeq
  <2> HIDE DEF targets
  <2> QED
    BY <1>1, <2>1, <2>2
<1>7. \A k \in 1 .. Len(targets) : targets[k] \in Indices(insns)
  <2>1. \A k \in 1 .. Len(targets) : targets[k] \in Nat
    BY <1>5, ElementOfSeq
  <2> HIDE DEF targets
  <2> QED
    BY <1>1, <1>6, <2>1 DEF Indices
<1> HIDE DEF targets
<1>8. targets \in Seq(Indices(insns))
  BY <1>5, <1>7
<1> QED
  BY <1>8 DEF targets

(* The leaders are instructions, the first one and every target of one that *)
(* does not just fall through among them, and what stands behind it.        *)
LEMMA LeadersLead ==
  ASSUME NEW insns, NEW tables, Accepted(insns, tables)
  PROVE  /\ Leaders(insns, tables) \subseteq Indices(insns)
         /\ Leaders(insns, tables) \in SUBSET Nat
         /\ IsFiniteSet(Leaders(insns, tables))
         /\ \A l \in Leaders(insns, tables) : l < Len(insns)
         /\ Indices(insns) # {} => 0 \in Leaders(insns, tables)
         /\ \A i \in Indices(insns) : ~Plain(insns, tables, i) =>
              /\ i + 1 \in Indices(insns) => i + 1 \in Leaders(insns, tables)
              /\ ToSet(Targets(insns, tables, i)) \subseteq Leaders(insns, tables)
<1> DEFINE L == Leaders(insns, tables)
           splits == {i \in Indices(insns) : ~Plain(insns, tables, i)}
<1>1. Len(insns) \in Nat
  BY DEF Accepted
<1>2. L = {i \in Indices(insns) :
             \/ i = 0
             \/ i - 1 \in splits
             \/ \E j \in splits : Contains(Targets(insns, tables, j), i)}
  BY DEF Leaders
<1>3. L \subseteq Indices(insns)
  BY <1>2
<1>4. \A i \in Indices(insns) : i \in Nat /\ i < Len(insns)
  BY <1>1 DEF Indices
<1>5. IsFiniteSet(L)
  <2>1. IsFiniteSet(Indices(insns))
    BY <1>1, FS_Interval DEF Indices
  <2> HIDE DEF L
  <2> QED
    BY <1>3, <2>1, FS_Subset
<1>6. Indices(insns) # {} => 0 \in L
  <2>1. Indices(insns) # {} => 0 \in Indices(insns)
    BY <1>1 DEF Indices
  <2> QED
    BY <1>2, <2>1
<1>7. ASSUME NEW i \in Indices(insns), ~Plain(insns, tables, i)
      PROVE  /\ i + 1 \in Indices(insns) => i + 1 \in L
             /\ ToSet(Targets(insns, tables, i)) \subseteq L
  <2>1. i \in splits
    BY <1>7
  <2>2. (i + 1) - 1 = i
    BY <1>4
  <2>3. i + 1 \in Indices(insns) => i + 1 \in L
    <3> HIDE DEF splits, L
    <3> QED
      BY <1>2, <2>1, <2>2
  <2>4. ASSUME NEW t \in ToSet(Targets(insns, tables, i))
        PROVE  t \in L
    <3>1. Targets(insns, tables, i) \in Seq(Indices(insns))
      BY TargetsInside
    <3>2. PICK k \in DOMAIN Targets(insns, tables, i) : Targets(insns, tables, i)[k] = t
      BY DEF ToSet
    <3>3. k \in 1 .. Len(Targets(insns, tables, i))
      BY <3>1, <3>2
    <3>4. t \in Indices(insns)
      BY <3>1, <3>2, <3>3, ElementOfSeq
    <3>5. Contains(Targets(insns, tables, i), t)
      BY <3>2, <3>3 DEF Contains
    <3> HIDE DEF splits, L
    <3> QED
      BY <1>2, <2>1, <3>4, <3>5
  <2> QED
    BY <2>3, <2>4
<1> HIDE DEF L
<1>8. L \in SUBSET Nat /\ \A l \in L : l < Len(insns)
  BY <1>3, <1>4
<1> QED
  BY <1>3, <1>5, <1>6, <1>7, <1>8 DEF L

(* The block of an instruction is told by the leaders up to it. *)
LEMMA BlockCounts ==
  ASSUME NEW insns, NEW tables, Accepted(insns, tables), NEW i \in Indices(insns)
  PROVE  /\ BlockOf(insns, tables, i) = Below(Leaders(insns, tables), i + 1) - 1
         /\ BlockOf(insns, tables, i) \in 0 .. Cardinality(Leaders(insns, tables)) - 1
         /\ Cardinality(Leaders(insns, tables)) \in Nat
         /\ i \in Leaders(insns, tables) =>
              BlockOf(insns, tables, i) = Below(Leaders(insns, tables), i)
<1> DEFINE L == Leaders(insns, tables)
<1>1. L \in SUBSET Nat /\ IsFiniteSet(L) /\ (\A l \in L : l < Len(insns)) /\ 0 \in L
  BY LeadersLead
<1>2. Len(insns) \in Nat /\ i \in Nat /\ i + 1 <= Len(insns) /\ i + 1 \in Nat
  BY DEF Accepted, Indices
<1>3. Cardinality({l \in L : l <= i}) = Below(L, i + 1)
  <2> HIDE DEF L
  <2>1. \A l \in L : l \in Nat
    BY <1>1
  <2>2. \A l \in L : l <= i <=> l < i + 1
    BY <1>2, <2>1
  <2>3. {l \in L : l <= i} = {l \in L : l < i + 1}
    BY <2>2, Zenon
  <2> QED
    BY <2>3 DEF Below
<1>4. BlockOf(insns, tables, i) = Below(L, i + 1) - 1
  BY <1>3 DEF BlockOf
<1> HIDE DEF L
<1>5. Below(L, i + 1) \in Nat /\ Below(L, i + 1) <= Below(L, Len(insns))
  BY <1>1, <1>2, BelowStep, BelowGrows
<1>6. Below(L, Len(insns)) = Cardinality(L) /\ Cardinality(L) \in Nat
  BY <1>1, <1>2, BelowAll, FS_CardinalityType
<1>7. 1 <= Below(L, i + 1)
  <2>1. Below(L, 0) = 0
    BY <1>1, BelowNone
  <2>2. Below(L, 0 + 1) = Below(L, 0) + 1
    BY <1>1, BelowStep
  <2>3. Below(L, 1) <= Below(L, i + 1)
    BY <1>1, <1>2, BelowGrows
  <2> QED
    BY <2>1, <2>2, <2>3
<1>8. i \in L => Below(L, i + 1) = Below(L, i) + 1 /\ Below(L, i) \in Nat
  BY <1>1, <1>2, BelowStep
<1>9. i \in L => Below(L, i + 1) - 1 = Below(L, i)
  BY <1>8
<1>10. Below(L, i + 1) - 1 \in 0 .. Cardinality(L) - 1
  BY <1>5, <1>6, <1>7
<1> QED
  BY <1>4, <1>6, <1>9, <1>10 DEF L

(* The next instruction is in the next block if it is a leader, and else in *)
(* the same.                                                                *)
LEMMA NextBlock ==
  ASSUME NEW insns, NEW tables, Accepted(insns, tables),
         NEW i \in Indices(insns), i + 1 \in Indices(insns)
  PROVE  BlockOf(insns, tables, i + 1) =
           IF i + 1 \in Leaders(insns, tables) THEN BlockOf(insns, tables, i) + 1
           ELSE BlockOf(insns, tables, i)
<1> DEFINE L == Leaders(insns, tables)
<1>1. L \in SUBSET Nat /\ IsFiniteSet(L)
  BY LeadersLead
<1>2. i + 1 \in Nat
  BY DEF Accepted, Indices
<1>3. BlockOf(insns, tables, i) = Below(L, i + 1) - 1
      /\ BlockOf(insns, tables, i + 1) = Below(L, i + 1 + 1) - 1
  BY BlockCounts
<1> HIDE DEF L
<1>4. Below(L, i + 1) \in Nat
      /\ Below(L, i + 1 + 1) = IF i + 1 \in L THEN Below(L, i + 1) + 1 ELSE Below(L, i + 1)
  BY <1>1, <1>2, BelowStep
<1>5. IF i + 1 \in L THEN Below(L, i + 1 + 1) - 1 = Below(L, i + 1) - 1 + 1
      ELSE Below(L, i + 1 + 1) - 1 = Below(L, i + 1) - 1
  BY <1>4
<1> QED
  BY <1>3, <1>5 DEF L

(* Two leaders are not in the same block. *)
LEMMA OneLeader ==
  ASSUME NEW insns, NEW tables, Accepted(insns, tables),
         NEW l \in Leaders(insns, tables), NEW m \in Leaders(insns, tables),
         BlockOf(insns, tables, l) = BlockOf(insns, tables, m)
  PROVE  l = m
<1>1. Leaders(insns, tables) \in SUBSET Nat /\ IsFiniteSet(Leaders(insns, tables))
      /\ l \in Indices(insns) /\ m \in Indices(insns)
  BY LeadersLead
<1>2. Below(Leaders(insns, tables), l) = Below(Leaders(insns, tables), m)
  BY <1>1, BlockCounts
<1> QED
  BY <1>1, <1>2, BelowApart

(* There is a block for every leader, and starts names its leader. *)
LEMMA StartsLead ==
  ASSUME NEW insns, NEW tables, Accepted(insns, tables)
  PROVE  /\ Len(Starts(insns, tables)) = Cardinality(Leaders(insns, tables))
         /\ Cardinality(Leaders(insns, tables)) \in Nat
         /\ \A k \in 1 .. Cardinality(Leaders(insns, tables)) :
              /\ Starts(insns, tables)[k] \in Leaders(insns, tables)
              /\ Below(Leaders(insns, tables), Starts(insns, tables)[k]) = k - 1
<1> DEFINE L == Leaders(insns, tables)
           n == Cardinality(L)
<1>1. L \in SUBSET Nat /\ IsFiniteSet(L) /\ \A l \in L : l < Len(insns)
  BY LeadersLead
<1>2. n \in Nat /\ Len(insns) \in Nat
  BY <1>1, FS_CardinalityType DEF Accepted
<1>3. Starts(insns, tables) =
        [k \in 1 .. n |-> CHOOSE l \in L : Cardinality({m \in L : m < l}) = k - 1]
  BY DEF Starts
<1> HIDE DEF L, n
<1>4. Len(Starts(insns, tables)) = n
  BY <1>2, <1>3
<1>5. ASSUME NEW k \in 1 .. n
      PROVE  Starts(insns, tables)[k] \in L /\ Below(L, Starts(insns, tables)[k]) = k - 1
  <2>1. k - 1 \in Nat /\ k - 1 < n
    BY <1>2
  <2>2. \E l \in L : Below(L, l) = k - 1
    BY <1>1, <1>2, <2>1, BelowOnto DEF n
  <2>3. \E l \in L : Cardinality({m \in L : m < l}) = k - 1
    BY <2>2 DEF Below
  <2>4. Starts(insns, tables)[k] = CHOOSE l \in L : Cardinality({m \in L : m < l}) = k - 1
    BY <1>3
  <2>5. Starts(insns, tables)[k] \in L
        /\ Cardinality({m \in L : m < Starts(insns, tables)[k]}) = k - 1
    BY <2>3, <2>4, Zenon
  <2> QED
    BY <2>5 DEF Below
<1> QED
  BY <1>2, <1>4, <1>5 DEF L, n

(* A block ends where the next one begins, or the stream ends. *)
LEMMA Terminators ==
  ASSUME NEW insns, NEW tables, Accepted(insns, tables), NEW b \in BlockIds(insns, tables)
  PROVE  /\ TerminatorOf(insns, tables, b) \in Indices(insns)
         /\ BlockOf(insns, tables, TerminatorOf(insns, tables, b)) = b
         /\ TerminatorOf(insns, tables, b) + 1 \in Indices(insns) =>
              TerminatorOf(insns, tables, b) + 1 \in Leaders(insns, tables)
<1> DEFINE L == Leaders(insns, tables)
           S == Starts(insns, tables)
           n == Cardinality(L)
           t == TerminatorOf(insns, tables, b)
<1>1. Len(S) = n /\ n \in Nat
      /\ \A k \in 1 .. n : S[k] \in L /\ Below(L, S[k]) = k - 1
  BY StartsLead
<1>2. L \in SUBSET Nat /\ L \subseteq Indices(insns) /\ IsFiniteSet(L)
      /\ (\A l \in L : l < Len(insns))
      /\ (Indices(insns) # {} => 0 \in L)
  BY LeadersLead
<1>3. Len(insns) \in Nat /\ Indices(insns) = 0 .. Len(insns) - 1
  BY DEF Accepted, Indices
<1>4. b \in 0 .. n - 1 /\ b \in Nat
  BY <1>1 DEF BlockIds
<1>5. t = IF b + 2 <= Len(S) THEN S[b + 2] - 1 ELSE Len(insns) - 1
  BY DEF TerminatorOf
<1> HIDE DEF L, S, n, t
<1>6. L # {}
  <2>1. 1 \in 1 .. n
    BY <1>1, <1>4
  <2> QED
    BY <1>1, <2>1
<1>7. Len(insns) >= 1 /\ 0 \in L
  <2>1. PICK l \in L : TRUE
    BY <1>6
  <2>2. l \in Indices(insns)
    BY <1>2
  <2>3. Indices(insns) # {} /\ l \in 0 .. Len(insns) - 1
    BY <1>3, <2>2
  <2>4. Len(insns) >= 1
    BY <1>3, <2>3
  <2> QED
    BY <1>2, <2>3, <2>4
<1>8. ASSUME NEW i \in Indices(insns), i + 1 \in Indices(insns) => i + 1 \in L,
             t = i, Below(L, i + 1) = b + 1
      PROVE  /\ t \in Indices(insns) /\ BlockOf(insns, tables, t) = b
             /\ t + 1 \in Indices(insns) => t + 1 \in L
  <2>1. BlockOf(insns, tables, i) = Below(L, i + 1) - 1
    BY BlockCounts DEF L
  <2>2. BlockOf(insns, tables, i) = b
    BY <1>4, <1>8, <2>1
  <2> QED
    BY <1>8, <2>2
<1>9. CASE b + 2 <= n
  <2>1. b + 2 \in 1 .. n
    BY <1>1, <1>4, <1>9
  <2> DEFINE s == S[b + 2]
  <2>2. s \in L /\ Below(L, s) = b + 1
    <3>1. s \in L /\ Below(L, s) = (b + 2) - 1
      BY <1>1, <2>1
    <3> QED
      BY <1>4, <3>1
  <2>3. t = s - 1
    BY <1>1, <1>5, <1>9
  <2> HIDE DEF s
  <2>4. s \in Nat /\ s \in Indices(insns)
    BY <1>2, <2>2
  <2>5. s # 0
    <3>1. Below(L, 0) = 0
      BY <1>2, BelowNone
    <3>2. b + 1 # 0
      BY <1>4
    <3> QED
      BY <2>2, <3>1, <3>2
  <2>6. s - 1 \in Indices(insns) /\ (s - 1) + 1 = s
    BY <1>3, <2>4, <2>5
  <2> QED
    BY <1>8, <2>2, <2>3, <2>6 DEF L, t
<1>10. CASE b + 2 > n
  <2>1. b + 1 = n
    BY <1>1, <1>4, <1>10
  <2>2. t = Len(insns) - 1
    BY <1>1, <1>4, <1>5, <1>10
  <2>3. Len(insns) - 1 \in Indices(insns) /\ (Len(insns) - 1) + 1 = Len(insns)
        /\ Len(insns) \notin Indices(insns)
    BY <1>3, <1>7
  <2>4. Below(L, Len(insns)) = n
    BY <1>2, <1>3, BelowAll DEF n
  <2> QED
    BY <1>8, <2>1, <2>2, <2>3, <2>4 DEF L, t
<1> QED
  BY <1>1, <1>4, <1>9, <1>10

(* The last instruction of a block is its terminator. *)
LEMMA EndsItsBlock ==
  ASSUME NEW insns, NEW tables, Accepted(insns, tables), NEW i \in Indices(insns),
         i + 1 \in Indices(insns) => i + 1 \in Leaders(insns, tables)
  PROVE  /\ BlockOf(insns, tables, i) \in BlockIds(insns, tables)
         /\ TerminatorOf(insns, tables, BlockOf(insns, tables, i)) = i
<1> DEFINE L == Leaders(insns, tables)
           S == Starts(insns, tables)
           n == Cardinality(L)
           b == BlockOf(insns, tables, i)
<1>1. Len(S) = n /\ n \in Nat
      /\ \A k \in 1 .. n : S[k] \in L /\ Below(L, S[k]) = k - 1
  BY StartsLead
<1>2. L \in SUBSET Nat /\ L \subseteq Indices(insns) /\ IsFiniteSet(L)
      /\ (\A l \in L : l < Len(insns))
  BY LeadersLead
<1>3. Len(insns) \in Nat /\ Indices(insns) = 0 .. Len(insns) - 1
  BY DEF Accepted, Indices
<1>4. b = Below(L, i + 1) - 1 /\ b \in 0 .. n - 1
  BY BlockCounts
<1>5. TerminatorOf(insns, tables, b) = IF b + 2 <= Len(S) THEN S[b + 2] - 1 ELSE Len(insns) - 1
  BY DEF TerminatorOf
<1>6. b \in BlockIds(insns, tables)
  BY <1>1, <1>4 DEF BlockIds
<1> HIDE DEF L, S, n, b
<1>7. i \in Nat /\ b \in Nat
  BY <1>1, <1>3, <1>4
<1>8. CASE i + 1 \in L
  <2>1. Below(L, i + 1) = b + 1
    <3>1. Below(L, i + 1) \in Nat
      BY <1>2, <1>7, BelowStep
    <3> QED
      BY <1>4, <3>1
  <2>2. BlockOf(insns, tables, i + 1) = Below(L, i + 1) /\ BlockOf(insns, tables, i + 1) \in 0 .. n - 1
    BY <1>2, <1>8, BlockCounts DEF L, n
  <2>3. b + 2 \in 1 .. n
    BY <1>1, <1>7, <2>1, <2>2
  <2>4. S[b + 2] \in L /\ Below(L, S[b + 2]) = (b + 2) - 1
    BY <1>1, <2>3
  <2>5. (b + 2) - 1 = b + 1
    BY <1>7
  <2>6. S[b + 2] = i + 1
    <3> DEFINE s == S[b + 2]
    <3>1. s \in L /\ Below(L, s) = Below(L, i + 1)
      BY <2>1, <2>4, <2>5
    <3> HIDE DEF s
    <3>2. s = i + 1
      BY <1>2, <1>8, <3>1, BelowApart
    <3> QED
      BY <3>2 DEF s
  <2>7. TerminatorOf(insns, tables, b) = (i + 1) - 1
    BY <1>1, <1>5, <2>3, <2>6
  <2> QED
    BY <1>6, <1>7, <2>7 DEF b
<1>9. CASE i + 1 \notin Indices(insns)
  <2>1. i + 1 = Len(insns)
    BY <1>3, <1>9
  <2>2. Below(L, i + 1) = n
    BY <1>2, <1>3, <2>1, BelowAll DEF n
  <2>3. ~(b + 2 <= n)
    BY <1>1, <1>4, <2>2
  <2>4. TerminatorOf(insns, tables, b) = Len(insns) - 1
    BY <1>1, <1>5, <2>3
  <2> QED
    BY <1>6, <1>7, <2>1, <2>4 DEF b
<1> QED
  BY <1>8, <1>9 DEF L

(* Leaving repetitions out keeps what there is. *)
LEMMA DistinctKeeps ==
  ASSUME NEW S, NEW s \in Seq(S)
  PROVE  Distinct(s) \in Seq(S) /\ ToSet(Distinct(s)) = ToSet(s)
<1> DEFINE n == Len(s)
           Step(i, y) == IF Contains(y, s[i]) THEN y ELSE Append(y, s[i])
           Kept(g) == g = [i \in 0 .. n |-> IF i = 0 THEN <<>> ELSE Step(i, g[i - 1])]
           kept == CHOOSE g : Kept(g)
           F == [i \in 1 .. n |-> [y \in Seq(S) |-> Step(i, y)]]
<1>1. n \in Nat /\ \A i \in 1 .. n : s[i] \in S
  BY ElementOfSeq
<1>2. \A i \in 1 .. n : \A y \in Seq(S) : F[i][y] = Step(i, y)
  OBVIOUS
<1>3. \A i \in 1 .. n : \A y \in Seq(S) : Step(i, y) \in Seq(S)
  BY <1>1, AppendProperties
<1> HIDE DEF n, F
<1>4. \A i \in 1 .. n : \A y \in Seq(S) : F[i][y] \in Seq(S)
  <2> HIDE DEF Step
  <2> QED
    BY <1>2, <1>3
<1>5. PICK f \in [0 .. n -> Seq(S)] : Follows(f, n, <<>>, F)
  <2>1. Stays(n, F, Seq(S))
    BY <1>4 DEF Stays
  <2> QED
    BY <1>1, <2>1, EmptySeq, Recursion
<1> HIDE DEF F
<1>6. Kept(f)
  <2> HIDE DEF Step
  <2>1. ASSUME NEW i \in 0 .. n
        PROVE  f[i] = IF i = 0 THEN <<>> ELSE Step(i, f[i - 1])
    <3>1. CASE i = 0
      BY <1>5, <3>1 DEF Follows
    <3>2. CASE i # 0
      <4>1. i \in 1 .. n /\ i - 1 \in 0 .. n
        BY <1>1, <3>2
      <4>2. f[i - 1] \in Seq(S)
        BY <4>1
      <4>3. f[i] = F[i][f[i - 1]]
        BY <1>5, <3>2 DEF Follows
      <4> QED
        BY <1>2, <3>2, <4>1, <4>2, <4>3
    <3> QED
      BY <3>1, <3>2
  <2> QED
    BY <1>5, <2>1 DEF Follows
<1>7. Kept(kept)
  <2> HIDE DEF Kept
  <2> QED
    BY <1>6
<1>8. Distinct(s) = kept[n]
  BY DEF Distinct, n
<1> HIDE DEF kept
<1>9. kept[0] = <<>> /\ \A i \in 1 .. n : kept[i] = Step(i, kept[i - 1])
  <2> HIDE DEF Step
  <2>1. 0 \in 0 .. n /\ \A i \in 1 .. n : i \in 0 .. n /\ i # 0
    BY <1>1
  <2> QED
    BY <1>7, <2>1
<1> DEFINE T == {i \in 0 .. n : kept[i] \in Seq(S) /\ ToSet(kept[i]) = {s[j] : j \in 1 .. i}}
<1>10. 0 \in T
  <2>1. ToSet(<<>>) = {} /\ {s[j] : j \in 1 .. 0} = {}
    BY DEF ToSet
  <2>2. kept[0] \in Seq(S) /\ ToSet(kept[0]) = {s[j] : j \in 1 .. 0}
    BY <1>9, <2>1
  <2> QED
    BY <1>1, <2>2
<1>11. ASSUME NEW i \in 1 .. n, i - 1 \in T
       PROVE  i \in T
  <2> DEFINE y == kept[i - 1]
  <2>1. y \in Seq(S) /\ ToSet(y) = {s[j] : j \in 1 .. i - 1}
    BY <1>11
  <2>2. kept[i] = Step(i, y) /\ s[i] \in S
    BY <1>1, <1>9
  <2>3. {s[j] : j \in 1 .. i} = {s[j] : j \in 1 .. i - 1} \cup {s[i]}
    <3>1. 1 .. i = (1 .. i - 1) \cup {i}
      BY <1>1
    <3> QED
      BY <3>1, Zenon
  <2> HIDE DEF y
  <2>4. CASE Contains(y, s[i])
    <3>1. s[i] \in ToSet(y)
      BY <2>1, <2>4 DEF Contains, ToSet
    <3>2. kept[i] = y
      BY <2>2, <2>4
    <3>3. ToSet(y) = {s[j] : j \in 1 .. i}
      BY <2>1, <2>3, <3>1
    <3>4. kept[i] \in Seq(S) /\ ToSet(kept[i]) = {s[j] : j \in 1 .. i}
      BY <2>1, <3>2, <3>3
    <3> QED
      BY <1>1, <3>4
  <2>5. CASE ~Contains(y, s[i])
    <3>1. kept[i] = Append(y, s[i])
      BY <2>2, <2>5
    <3>2. ToSet(Append(y, s[i])) = ToSet(y) \cup {s[i]}
      <4>1. Append(y, s[i]) \in Seq(S) /\ Len(Append(y, s[i])) = Len(y) + 1
            /\ Append(y, s[i])[Len(y) + 1] = s[i]
            /\ \A j \in 1 .. Len(y) : Append(y, s[i])[j] = y[j]
        BY <2>1, <2>2, AppendProperties
      <4>2. DOMAIN Append(y, s[i]) = (1 .. Len(y)) \cup {Len(y) + 1} /\ DOMAIN y = 1 .. Len(y)
        BY <2>1, <4>1
      <4> DEFINE a == Append(y, s[i])
      <4> HIDE DEF a
      <4> QED
        BY <4>1, <4>2 DEF ToSet, a
    <3>3. Append(y, s[i]) \in Seq(S)
      BY <2>1, <2>2, AppendProperties
    <3>4. kept[i] \in Seq(S) /\ ToSet(kept[i]) = {s[j] : j \in 1 .. i}
      BY <2>1, <2>3, <3>1, <3>2, <3>3
    <3> QED
      BY <1>1, <3>4
  <2> QED
    BY <2>4, <2>5
<1>12. n \in T
  <2> HIDE DEF T
  <2>1. 0 .. n \subseteq T
    BY <1>1, <1>10, <1>11, Counting
  <2> QED
    BY <1>1, <2>1
<1>13. ToSet(s) = {s[j] : j \in 1 .. n}
  BY <1>1 DEF ToSet, n
<1> QED
  BY <1>8, <1>12, <1>13

(* The graph of the blocks: its nodes, and where its edges come from. *)
LEMMA GraphOfBlocks ==
  ASSUME NEW insns, NEW tables, Accepted(insns, tables)
  PROVE  LET graph == BlockGraph(insns, tables)
         IN /\ DOMAIN graph = BlockIds(insns, tables)
            /\ BlockIds(insns, tables) = 0 .. Cardinality(Leaders(insns, tables)) - 1
            /\ Cardinality(Leaders(insns, tables)) \in Nat
            /\ \A i \in Indices(insns) : BlockOf(insns, tables, i) \in BlockIds(insns, tables)
            /\ \A b \in BlockIds(insns, tables) :
                 /\ graph[b] \in Seq(BlockIds(insns, tables))
                 /\ ToSet(graph[b]) =
                      {BlockOf(insns, tables, t) :
                         t \in ToSet(Targets(insns, tables, TerminatorOf(insns, tables, b)))}
<1> DEFINE graph == BlockGraph(insns, tables)
           ids == BlockIds(insns, tables)
           n == Cardinality(Leaders(insns, tables))
<1>1. n \in Nat /\ ids = 0 .. n - 1
  BY StartsLead DEF BlockIds
<1>2. \A i \in Indices(insns) : BlockOf(insns, tables, i) \in ids
  BY <1>1, BlockCounts
<1>3. DOMAIN graph = ids /\ \A b \in ids : graph[b] = BlockSuccs(insns, tables, b)
  BY DEF BlockGraph
<1> HIDE DEF graph, ids, n
<1>4. ASSUME NEW b \in ids
      PROVE  /\ graph[b] \in Seq(ids)
             /\ ToSet(graph[b]) =
                  {BlockOf(insns, tables, t) :
                     t \in ToSet(Targets(insns, tables, TerminatorOf(insns, tables, b)))}
  <2> DEFINE ts == Targets(insns, tables, TerminatorOf(insns, tables, b))
             s == [k \in 1 .. Len(ts) |-> BlockOf(insns, tables, ts[k])]
  <2>1. ts \in Seq(Indices(insns))
    BY Terminators, TargetsInside DEF ids
  <2>2. Len(ts) \in Nat /\ DOMAIN ts = 1 .. Len(ts)
        /\ \A k \in 1 .. Len(ts) : ts[k] \in Indices(insns)
    BY <2>1, ElementOfSeq
  <2>3. graph[b] = Distinct(s)
    BY <1>3 DEF BlockSuccs
  <2> HIDE DEF ts
  <2>4. \A k \in 1 .. Len(ts) : s[k] \in ids /\ s[k] = BlockOf(insns, tables, ts[k])
    BY <1>2, <2>2
  <2>5. s \in Seq(ids) /\ DOMAIN s = 1 .. Len(ts)
    BY <2>2, <2>4
  <2> HIDE DEF s
  <2>6. Distinct(s) \in Seq(ids) /\ ToSet(Distinct(s)) = ToSet(s)
    BY <2>5, DistinctKeeps
  <2>7. ToSet(s) = {BlockOf(insns, tables, t) : t \in ToSet(ts)}
    <3>1. ToSet(s) = {s[k] : k \in 1 .. Len(ts)} /\ ToSet(ts) = {ts[k] : k \in 1 .. Len(ts)}
      BY <2>2, <2>5 DEF ToSet
    <3> QED
      BY <2>4, <3>1
  <2> QED
    BY <2>3, <2>6, <2>7 DEF ts
<1> QED
  BY <1>1, <1>2, <1>3, <1>4 DEF graph, ids, n

(* An edge between instructions stays in a block or is an edge of the       *)
(* graph, from the end of one block to the beginning of another.            *)
LEMMA EdgesLift ==
  ASSUME NEW insns, NEW tables, Accepted(insns, tables),
         NEW i \in Indices(insns), NEW j \in ToSet(Targets(insns, tables, i))
  PROVE  /\ j \in Indices(insns)
         /\ \/ /\ i + 1 \in Indices(insns) /\ i + 1 \notin Leaders(insns, tables)
               /\ Plain(insns, tables, i)
               /\ j = i + 1
               /\ BlockOf(insns, tables, j) = BlockOf(insns, tables, i)
            \/ /\ TerminatorOf(insns, tables, BlockOf(insns, tables, i)) = i
               /\ j \in Leaders(insns, tables)
               /\ BlockOf(insns, tables, j)
                    \in ToSet(BlockGraph(insns, tables)[BlockOf(insns, tables, i)])
<1> DEFINE targets == Targets(insns, tables, i)
<1>1. targets \in Seq(Indices(insns))
  BY TargetsInside
<1>2. j \in Indices(insns)
  <2>1. PICK k \in DOMAIN targets : targets[k] = j
    BY DEF ToSet
  <2> HIDE DEF targets
  <2>2. k \in 1 .. Len(targets)
    BY <1>1
  <2> QED
    BY <1>1, <2>1, <2>2, ElementOfSeq
<1>3. Plain(insns, tables, i) => j = i + 1
  <2>1. PICK k \in DOMAIN targets : targets[k] = j
    BY DEF ToSet
  <2>2. Plain(insns, tables, i) => targets = <<i + 1>>
    BY DEF Plain
  <2> HIDE DEF targets
  <2> QED
    BY <2>1, <2>2
<1>4. CASE i + 1 \in Indices(insns) /\ i + 1 \notin Leaders(insns, tables)
  <2>1. Plain(insns, tables, i)
    BY <1>4, LeadersLead
  <2>2. j = i + 1
    BY <1>3, <2>1
  <2>3. BlockOf(insns, tables, i + 1) = BlockOf(insns, tables, i)
    BY <1>4, NextBlock
  <2> QED
    BY <1>2, <1>4, <2>1, <2>2, <2>3
<1>5. CASE i + 1 \in Indices(insns) => i + 1 \in Leaders(insns, tables)
  <2> DEFINE b == BlockOf(insns, tables, i)
  <2>1. TerminatorOf(insns, tables, b) = i /\ b \in BlockIds(insns, tables)
    BY <1>5, EndsItsBlock
  <2>2. j \in Leaders(insns, tables)
    <3>1. CASE Plain(insns, tables, i)
      BY <1>2, <1>3, <1>5, <3>1
    <3>2. CASE ~Plain(insns, tables, i)
      BY <3>2, LeadersLead
    <3> QED
      BY <3>1, <3>2
  <2>3. ToSet(BlockGraph(insns, tables)[b]) =
          {BlockOf(insns, tables, t) :
             t \in ToSet(Targets(insns, tables, TerminatorOf(insns, tables, b)))}
    BY <2>1, GraphOfBlocks
  <2> HIDE DEF b
  <2>4. BlockOf(insns, tables, j) \in ToSet(BlockGraph(insns, tables)[b])
    BY <2>1, <2>3
  <2> QED
    BY <1>2, <2>1, <2>2, <2>4 DEF b
<1> QED
  BY <1>4, <1>5

(* An edge of the graph comes from the terminator of its block and goes to  *)
(* the leader of the other.                                                 *)
LEMMA EdgesFall ==
  ASSUME NEW insns, NEW tables, Accepted(insns, tables),
         NEW b \in BlockIds(insns, tables), NEW c \in ToSet(BlockGraph(insns, tables)[b])
  PROVE  \E j \in ToSet(Targets(insns, tables, TerminatorOf(insns, tables, b))) :
           j \in Leaders(insns, tables) /\ BlockOf(insns, tables, j) = c
<1> DEFINE i == TerminatorOf(insns, tables, b)
<1>1. i \in Indices(insns) /\ BlockOf(insns, tables, i) = b
      /\ (i + 1 \in Indices(insns) => i + 1 \in Leaders(insns, tables))
  BY Terminators
<1>2. PICK j \in ToSet(Targets(insns, tables, i)) : BlockOf(insns, tables, j) = c
  <2>1. ToSet(BlockGraph(insns, tables)[b]) =
          {BlockOf(insns, tables, t) : t \in ToSet(Targets(insns, tables, i))}
    BY GraphOfBlocks
  <2> QED
    BY <2>1
<1> HIDE DEF i
<1>3. j \in Leaders(insns, tables)
  BY <1>1, EdgesLift
<1> QED
  BY <1>2, <1>3 DEF i

(* Whoever is at the leader of a block and falls through where plain        *)
(* instructions do passes through all of it.                                *)
LEMMA BlockFollows ==
  ASSUME NEW insns, NEW tables, Accepted(insns, tables),
         NEW S, NEW l \in Leaders(insns, tables), l \in S,
         \A i \in Indices(insns) :
           /\ i \in S /\ i + 1 \in Indices(insns) /\ i + 1 \notin Leaders(insns, tables)
           /\ Plain(insns, tables, i)
           => i + 1 \in S
  PROVE  \A i \in Indices(insns) :
           BlockOf(insns, tables, i) = BlockOf(insns, tables, l) => i \in S
<1> DEFINE bad == {i \in Indices(insns) :
                     BlockOf(insns, tables, i) = BlockOf(insns, tables, l) /\ i \notin S}
<1> SUFFICES ASSUME bad # {} PROVE FALSE
  OBVIOUS
<1>1. Indices(insns) \subseteq Nat /\ Indices(insns) = 0 .. Len(insns) - 1
      /\ Len(insns) \in Nat
  BY DEF Accepted, Indices
<1>2. PICK i \in bad : \A k \in bad : i <= k
  <2>1. bad \in SUBSET Nat
    BY <1>1
  <2> HIDE DEF bad
  <2> QED
    BY <2>1, LeastNumber
<1>3. i \in Indices(insns) /\ BlockOf(insns, tables, i) = BlockOf(insns, tables, l) /\ i \notin S
  BY <1>2
<1>4. i \notin Leaders(insns, tables)
  BY <1>3, OneLeader
<1>5. i # 0
  BY <1>3, <1>4, LeadersLead
<1> DEFINE h == i - 1
<1>6. h \in Indices(insns) /\ h + 1 = i
  BY <1>1, <1>3, <1>5
<1>7. ~(i <= h)
  BY <1>1, <1>3
<1>8. h \notin bad
  BY <1>2, <1>7
<1> HIDE DEF h
<1>9. BlockOf(insns, tables, i) = BlockOf(insns, tables, h)
  BY <1>3, <1>4, <1>6, NextBlock
<1>10. h \in S
  BY <1>3, <1>6, <1>8, <1>9
<1>11. Plain(insns, tables, h)
  BY <1>3, <1>4, <1>6, LeadersLead
<1> QED
  BY <1>3, <1>4, <1>6, <1>10, <1>11

-----------------------------------------------------------------------------
(* The walk.                                                                *)

(* A graph over the nodes 0 .. n - 1 with its entry among them. *)
IsGraph(graph, n) ==
  /\ n \in Nat /\ n # 0
  /\ DOMAIN graph = 0 .. n - 1
  /\ \A b \in 0 .. n - 1 : graph[b] \in Seq(0 .. n - 1)

Walks(n) ==
  [seen : SUBSET (0 .. n - 1), stack : Seq((0 .. n - 1) \X (Nat \ {0})), post : Seq(0 .. n - 1)]

(* Sets that no edge leaves. *)
Closed(graph, C) == \A b \in C : \A k \in 1 .. Len(graph[b]) : graph[b][k] \in C

OnStack(w, b) == \E m \in 1 .. Len(w.stack) : w.stack[m][1] = b
Posted(w, b) == \E i \in 1 .. Len(w.post) : w.post[i] = b

(* A block is seen if it is being visited or finished, and not both.        *)
SeenOnce(graph, w) ==
  /\ \A b \in w.seen : OnStack(w, b) \/ Posted(w, b)
  /\ \A b : OnStack(w, b) \/ Posted(w, b) => b \in w.seen
  /\ \A b : ~(OnStack(w, b) /\ Posted(w, b))
  /\ \A l, m \in 1 .. Len(w.stack) : l # m => w.stack[l][1] # w.stack[m][1]
  /\ \A i, j \in 1 .. Len(w.post) : i # j => w.post[i] # w.post[j]

(* What has been taken is seen: of a block being visited the successors     *)
(* before the next one, of a finished one all.                              *)
Taken(graph, w) ==
  /\ \A m \in 1 .. Len(w.stack) :
       LET b == w.stack[m][1]
       IN /\ w.stack[m][2] <= Len(graph[b]) + 1
          /\ \A k \in 1 .. w.stack[m][2] - 1 : graph[b][k] \in w.seen
  /\ \A i \in 1 .. Len(w.post) :
       \A k \in 1 .. Len(graph[w.post[i]]) : graph[w.post[i]][k] \in w.seen

(* Nothing is seen that cannot be reached. *)
Within(graph, n, w) ==
  \A C \in SUBSET (0 .. n - 1) : 0 \in C /\ Closed(graph, C) => w.seen \subseteq C

EdgeTo(graph, p, b) == \E k \in 1 .. Len(graph[p]) : graph[p][k] = b

(* The stack is a path from the entry, and every other finished block has   *)
(* a predecessor that finishes later.                                       *)
Tree(graph, w) ==
  /\ w.stack # <<>> => w.stack[1][1] = 0
  /\ w.stack = <<>> => w.post # <<>> /\ w.post[Len(w.post)] = 0
  /\ \A m \in 2 .. Len(w.stack) : EdgeTo(graph, w.stack[m - 1][1], w.stack[m][1])
  /\ \A i \in 1 .. Len(w.post) :
       \/ w.stack = <<>> /\ i = Len(w.post)
       \/ \E m \in 1 .. Len(w.stack) : EdgeTo(graph, w.stack[m][1], w.post[i])
       \/ \E j \in i + 1 .. Len(w.post) : EdgeTo(graph, w.post[j], w.post[i])

WalkOk(graph, n, w) ==
  /\ w \in Walks(n)
  /\ SeenOnce(graph, w) /\ Taken(graph, w) /\ Within(graph, n, w) /\ Tree(graph, w)

FirstWalk == [seen |-> {0}, stack |-> << <<0, 1>> >>, post |-> <<>>]

(* The walk begins as it should. *)
LEMMA WalkBegins ==
  ASSUME NEW graph, NEW n, IsGraph(graph, n)
  PROVE  WalkOk(graph, n, FirstWalk)
<1> DEFINE w == FirstWalk
           e == <<0, 1>>
<1>1. n \in Nat /\ n # 0 /\ 0 \in 0 .. n - 1
  BY DEF IsGraph
<1>2. e \in (0 .. n - 1) \X (Nat \ {0}) /\ e[1] = 0 /\ e[2] = 1
  BY <1>1
<1> HIDE DEF e
<1>3. w.seen = {0} /\ w.stack = <<e>> /\ w.post = <<>>
  BY DEF FirstWalk, e
<1>4. Len(w.stack) = 1 /\ w.stack[1] = e /\ Len(w.post) = 0 /\ w.stack # <<>>
  BY <1>3
<1>5. w \in Walks(n)
  <2>1. w.stack \in Seq((0 .. n - 1) \X (Nat \ {0})) /\ w.post \in Seq(0 .. n - 1)
    BY <1>2, <1>3
  <2>2. w = [seen |-> w.seen, stack |-> w.stack, post |-> w.post]
    BY DEF FirstWalk
  <2>3. w.seen \in SUBSET (0 .. n - 1)
    BY <1>1, <1>3
  <2> HIDE DEF w
  <2> QED
    BY <2>1, <2>2, <2>3 DEF Walks
<1>6. \A m \in 1 .. Len(w.stack) : m = 1 /\ w.stack[m][1] = 0 /\ w.stack[m][2] = 1
  BY <1>2, <1>4
<1> HIDE DEF w
<1>7. SeenOnce(graph, w)
  BY <1>2, <1>3, <1>4, <1>6 DEF SeenOnce, OnStack, Posted
<1>8. Taken(graph, w)
  <2>1. Len(graph[0]) \in Nat
    BY <1>1 DEF IsGraph
  <2> QED
    BY <1>4, <1>6, <2>1 DEF Taken
<1>9. Within(graph, n, w)
  BY <1>3 DEF Within
<1>10. Tree(graph, w)
  BY <1>2, <1>4 DEF Tree
<1> QED
  BY <1>5, <1>7, <1>8, <1>9, <1>10 DEF WalkOk, w

(* The three things a turn does: the block on top is finished, a successor  *)
(* of it that has been seen is passed over, or another one is pushed.       *)
Finishes(graph, w, v) ==
  LET t == Len(w.stack)
      b == w.stack[t][1]
  IN /\ w.stack[t][2] > Len(graph[b])
     /\ v.seen = w.seen
     /\ Len(v.stack) = t - 1
     /\ \A m \in 1 .. t - 1 : v.stack[m] = w.stack[m]
     /\ Len(v.post) = Len(w.post) + 1 /\ v.post[Len(w.post) + 1] = b
     /\ \A i \in 1 .. Len(w.post) : v.post[i] = w.post[i]

Takes(graph, w, v) ==
  LET t == Len(w.stack)
      b == w.stack[t][1]
      k == w.stack[t][2]
  IN /\ k <= Len(graph[b])
     /\ v.seen = w.seen \cup {graph[b][k]}
     /\ v.post = w.post
     /\ \A m \in 1 .. t - 1 : v.stack[m] = w.stack[m]
     /\ v.stack[t][1] = b /\ v.stack[t][2] = k + 1
     /\ \/ graph[b][k] \in w.seen /\ Len(v.stack) = t
        \/ /\ graph[b][k] \notin w.seen /\ Len(v.stack) = t + 1
           /\ v.stack[t + 1][1] = graph[b][k] /\ v.stack[t + 1][2] = 1

LEMMA TurnShape ==
  ASSUME NEW graph, NEW n, IsGraph(graph, n), NEW w \in Walks(n), w.stack # <<>>
  PROVE  /\ Turn(graph, w) \in Walks(n)
         /\ Finishes(graph, w, Turn(graph, w)) \/ Takes(graph, w, Turn(graph, w))
<1> DEFINE N == 0 .. n - 1
           E == N \X (Nat \ {0})
           t == Len(w.stack)
           b == w.stack[t][1]
           k == w.stack[t][2]
           below == Front(w.stack)
           v == Turn(graph, w)
<1>1. /\ w.seen \in SUBSET N /\ w.stack \in Seq(E) /\ w.post \in Seq(N)
      /\ w = [seen |-> w.seen, stack |-> w.stack, post |-> w.post]
  BY DEF Walks
<1>2. t \in Nat /\ t >= 1
  BY <1>1, EmptySeq
<1>3. b \in N /\ k \in Nat \ {0} /\ Last(w.stack)[1] = b /\ Last(w.stack)[2] = k
  <2>1. w.stack[t] \in E
    BY <1>1, <1>2, ElementOfSeq
  <2> QED
    BY <2>1 DEF Last
<1>4. graph[b] \in Seq(N) /\ Len(graph[b]) \in Nat
  BY <1>3 DEF IsGraph
<1>5. below \in Seq(E) /\ Len(below) = t - 1 /\ \A m \in 1 .. t - 1 : below[m] = w.stack[m]
  <2>1. below = SubSeq(w.stack, 1, t - 1)
    BY DEF Front
  <2>2. 1 \in 1 .. t /\ t - 1 \in 0 .. t /\ t - 1 \in Nat
    BY <1>2
  <2>3. \A m \in 1 .. t - 1 : m \in 1 .. t
    BY <1>2
  <2> HIDE DEF t
  <2> DEFINE u == t - 1
  <2>4. \A m \in 1 .. u : w.stack[m] \in E
    BY <1>1, <2>3, ElementOfSeq DEF t
  <2>5. u \in Nat
    BY <2>2
  <2> HIDE DEF u
  <2>6. SubSeq(w.stack, 1, u) = [m \in 1 .. u |-> w.stack[m]]
    <3>1. SubSeq(w.stack, 1, u) = [m \in 1 .. (1 + u - 1) |-> w.stack[m + 1 - 1]]
      BY <1>1, <2>5
    <3> QED
      BY <3>1, <2>5
  <2> HIDE DEF below
  <2>7. below = [m \in 1 .. u |-> w.stack[m]]
    BY <2>1, <2>6 DEF u
  <2>8. below \in Seq(E) /\ Len(below) = u /\ \A m \in 1 .. u : below[m] = w.stack[m]
    BY <2>4, <2>5, <2>7, IsASeq
  <2> QED
    BY <2>8 DEF u
<1>6. v = IF k > Len(graph[b])
          THEN [w EXCEPT !.post = Append(@, b), !.stack = below]
          ELSE IF graph[b][k] \in w.seen
          THEN [w EXCEPT !.stack = Append(below, <<b, k + 1>>)]
          ELSE [w EXCEPT !.seen = @ \cup {graph[b][k]},
                         !.stack = Append(Append(below, <<b, k + 1>>), <<graph[b][k], 1>>)]
  <2> HIDE DEF t, b, k, below
  <2> QED
    BY <1>3 DEF Turn, below
<1> HIDE DEF v, t, b, k, below, N
<1>7. CASE k > Len(graph[b])
  <2>1. v = [w EXCEPT !.post = Append(@, b), !.stack = below]
    BY <1>6, <1>7
  <2>2. v = [seen |-> w.seen, stack |-> below, post |-> Append(w.post, b)]
    BY <1>1, <2>1
  <2>3. v.seen = w.seen /\ v.stack = below /\ v.post = Append(w.post, b)
    BY <2>2
  <2>4. /\ Append(w.post, b) \in Seq(N) /\ Len(Append(w.post, b)) = Len(w.post) + 1
        /\ Append(w.post, b)[Len(w.post) + 1] = b
        /\ \A i \in 1 .. Len(w.post) : Append(w.post, b)[i] = w.post[i]
    BY <1>1, <1>3, AppendProperties
  <2>5. v \in Walks(n)
    BY <1>1, <1>5, <2>2, <2>4 DEF Walks, N
  <2>6. Finishes(graph, w, v)
    BY <1>5, <1>7, <2>3, <2>4 DEF Finishes, t, b, k
  <2> QED
    BY <2>5, <2>6 DEF v
<1> DEFINE e == <<b, k + 1>>
           stayed == Append(below, e)
<1>8. e \in E /\ e[1] = b /\ e[2] = k + 1
  BY <1>3
<1> HIDE DEF e
<1>9. /\ stayed \in Seq(E) /\ Len(stayed) = t /\ stayed[t] = e
      /\ \A m \in 1 .. t - 1 : stayed[m] = w.stack[m]
  <2>1. /\ stayed \in Seq(E) /\ Len(stayed) = Len(below) + 1
        /\ stayed[Len(below) + 1] = e
        /\ \A m \in 1 .. Len(below) : stayed[m] = below[m]
    BY <1>5, <1>8, AppendProperties
  <2> HIDE DEF stayed
  <2>2. (t - 1) + 1 = t
    BY <1>2
  <2> QED
    BY <1>5, <2>1, <2>2
<1> HIDE DEF stayed
<1>10. CASE ~(k > Len(graph[b])) /\ graph[b][k] \in w.seen
  <2>1. v = [w EXCEPT !.stack = stayed]
    BY <1>6, <1>10 DEF stayed, e
  <2>2. v = [seen |-> w.seen, stack |-> stayed, post |-> w.post]
    BY <1>1, <2>1
  <2>3. v.seen = w.seen /\ v.stack = stayed /\ v.post = w.post
    BY <2>2
  <2>4. v \in Walks(n)
    BY <1>1, <1>9, <2>2 DEF Walks, N
  <2>5. k <= Len(graph[b])
    BY <1>3, <1>4, <1>10
  <2>6. v.seen = w.seen \cup {graph[b][k]}
    BY <1>10, <2>3
  <2>7. Takes(graph, w, v)
    BY <1>8, <1>9, <1>10, <2>3, <2>5, <2>6 DEF Takes, t, b, k
  <2> QED
    BY <2>4, <2>7 DEF v
<1>11. CASE ~(k > Len(graph[b])) /\ graph[b][k] \notin w.seen
  <2> DEFINE s == graph[b][k]
             d == <<s, 1>>
             pushed == Append(stayed, d)
  <2>1. k <= Len(graph[b])
    BY <1>3, <1>4, <1>11
  <2>2. s \in N
    BY <1>3, <1>4, <2>1, ElementOfSeq
  <2>3. d \in E /\ d[1] = s /\ d[2] = 1
    BY <2>2
  <2>4. v = [w EXCEPT !.seen = @ \cup {s}, !.stack = pushed]
    BY <1>6, <1>11 DEF stayed, e
  <2> HIDE DEF s, d
  <2>5. /\ pushed \in Seq(E) /\ Len(pushed) = t + 1 /\ pushed[t + 1] = d
        /\ \A m \in 1 .. t : pushed[m] = stayed[m]
    BY <1>9, <2>3, AppendProperties
  <2> HIDE DEF pushed
  <2>6. v = [seen |-> w.seen \cup {s}, stack |-> pushed, post |-> w.post]
    BY <1>1, <2>4
  <2>7. v.seen = w.seen \cup {s} /\ v.stack = pushed /\ v.post = w.post
    BY <2>6
  <2>8. v \in Walks(n)
    BY <1>1, <2>2, <2>5, <2>6 DEF Walks, N
  <2>9. pushed[t] = e /\ \A m \in 1 .. t - 1 : pushed[m] = w.stack[m]
    <3>1. t \in 1 .. t /\ \A m \in 1 .. t - 1 : m \in 1 .. t
      BY <1>2
    <3> QED
      BY <1>9, <2>5, <3>1
  <2>10. Takes(graph, w, v)
    BY <1>8, <1>11, <2>1, <2>3, <2>5, <2>7, <2>9 DEF Takes, t, b, k, s
  <2> QED
    BY <2>8, <2>10 DEF v
<1> QED
  BY <1>7, <1>10, <1>11

(* The types of what the walk holds, element by element. *)
WalkTypes(graph, n, w) ==
  /\ Len(w.stack) \in Nat /\ Len(w.post) \in Nat
  /\ (w.stack = <<>>) <=> (Len(w.stack) = 0)
  /\ (w.post = <<>>) <=> (Len(w.post) = 0)
  /\ \A m \in 1 .. Len(w.stack) :
       w.stack[m][1] \in 0 .. n - 1 /\ w.stack[m][2] \in Nat /\ w.stack[m][2] # 0
  /\ \A i \in 1 .. Len(w.post) : w.post[i] \in 0 .. n - 1

LEMMA WalksTyped ==
  ASSUME NEW graph, NEW n, NEW w \in Walks(n)
  PROVE  WalkTypes(graph, n, w)
<1> DEFINE N == 0 .. n - 1
           E == N \X (Nat \ {0})
<1>1. w.stack \in Seq(E) /\ w.post \in Seq(N)
  BY DEF Walks
<1> HIDE DEF N
<1>2. Len(w.stack) \in Nat /\ Len(w.post) \in Nat
      /\ ((w.stack = <<>>) <=> (Len(w.stack) = 0)) /\ ((w.post = <<>>) <=> (Len(w.post) = 0))
  BY <1>1, EmptySeq
<1>3. \A m \in 1 .. Len(w.stack) : w.stack[m] \in E
  BY <1>1, ElementOfSeq
<1>4. \A i \in 1 .. Len(w.post) : w.post[i] \in N
  BY <1>1, ElementOfSeq
<1> QED
  BY <1>2, <1>3, <1>4 DEF WalkTypes, N

(* What is finished leaves the stack for the end of post. *)
LEMMA FinishMoves ==
  ASSUME NEW graph, NEW n, IsGraph(graph, n), NEW w, WalkOk(graph, n, w), w.stack # <<>>,
         NEW v \in Walks(n), Finishes(graph, w, v)
  PROVE  LET b == w.stack[Len(w.stack)][1]
         IN /\ \A c : OnStack(v, c) <=> OnStack(w, c) /\ c # b
            /\ \A c : Posted(v, c) <=> Posted(w, c) \/ c = b
            /\ OnStack(w, b)
<1> DEFINE t == Len(w.stack)
           p == Len(w.post)
           b == w.stack[t][1]
<1>1. WalkTypes(graph, n, w)
  BY WalksTyped DEF WalkOk
<1>2. t \in Nat /\ t >= 1 /\ p \in Nat
  BY <1>1 DEF WalkTypes
<1>3. \A l, m \in 1 .. t : l # m => w.stack[l][1] # w.stack[m][1]
  BY DEF WalkOk, SeenOnce
<1>4. /\ Len(v.stack) = t - 1 /\ \A m \in 1 .. t - 1 : v.stack[m] = w.stack[m]
      /\ Len(v.post) = p + 1 /\ v.post[p + 1] = b /\ \A i \in 1 .. p : v.post[i] = w.post[i]
  BY DEF Finishes
<1>5. w.stack[t][1] = b
  OBVIOUS
<1> HIDE DEF t, p, b
<1>6. OnStack(w, b)
  BY <1>2, <1>5 DEF OnStack, t
<1>7. ASSUME NEW c
      PROVE  OnStack(v, c) <=> OnStack(w, c) /\ c # b
  <2>1. OnStack(w, c) <=> \E m \in 1 .. t : w.stack[m][1] = c
    BY DEF OnStack, t
  <2>2. OnStack(v, c) <=> \E m \in 1 .. t - 1 : w.stack[m][1] = c
    BY <1>4 DEF OnStack
  <2>3. \A m \in 1 .. t - 1 : m \in 1 .. t /\ m # t
    BY <1>2
  <2>4. \A m \in 1 .. t : m # t => m \in 1 .. t - 1
    BY <1>2
  <2>5. t \in 1 .. t
    BY <1>2
  <2> QED
    BY <1>3, <1>5, <2>1, <2>2, <2>3, <2>4, <2>5
<1>8. ASSUME NEW c
      PROVE  Posted(v, c) <=> Posted(w, c) \/ c = b
  <2>1. Posted(w, c) <=> \E i \in 1 .. p : w.post[i] = c
    BY DEF Posted, p
  <2>2. Posted(v, c) <=> \E i \in 1 .. p + 1 : v.post[i] = c
    BY <1>4 DEF Posted
  <2>3. \A i \in 1 .. p + 1 : i \in 1 .. p \/ i = p + 1
    BY <1>2
  <2>4. p + 1 \in 1 .. p + 1 /\ \A i \in 1 .. p : i \in 1 .. p + 1
    BY <1>2
  <2> QED
    BY <1>4, <2>1, <2>2, <2>3, <2>4
<1> QED
  BY <1>6, <1>7, <1>8 DEF b, t

(* A turn that finishes a block keeps the walk as it should be. *)
LEMMA FinishKeeps ==
  ASSUME NEW graph, NEW n, IsGraph(graph, n), NEW w, WalkOk(graph, n, w), w.stack # <<>>,
         NEW v \in Walks(n), Finishes(graph, w, v)
  PROVE  WalkOk(graph, n, v)
<1> DEFINE t == Len(w.stack)
           p == Len(w.post)
           b == w.stack[t][1]
           k == w.stack[t][2]
<1>1. WalkTypes(graph, n, w) /\ WalkTypes(graph, n, v)
  BY WalksTyped DEF WalkOk
<1>2. t \in Nat /\ t >= 1 /\ p \in Nat /\ b \in 0 .. n - 1 /\ k \in Nat
  BY <1>1 DEF WalkTypes
<1>3. Len(graph[b]) \in Nat
  BY <1>2 DEF IsGraph
<1>4. /\ k > Len(graph[b]) /\ v.seen = w.seen
      /\ Len(v.stack) = t - 1 /\ \A m \in 1 .. t - 1 : v.stack[m] = w.stack[m]
      /\ Len(v.post) = p + 1 /\ v.post[p + 1] = b /\ \A i \in 1 .. p : v.post[i] = w.post[i]
  BY DEF Finishes
<1>5. /\ \A c : OnStack(v, c) <=> OnStack(w, c) /\ c # b
      /\ \A c : Posted(v, c) <=> Posted(w, c) \/ c = b
      /\ OnStack(w, b)
  BY FinishMoves
<1>6. SeenOnce(graph, w) /\ Taken(graph, w) /\ Within(graph, n, w) /\ Tree(graph, w)
  BY DEF WalkOk
<1>a. w.stack[t][1] = b /\ w.stack[t][2] = k
  OBVIOUS
<1>b. t \in 1 .. t /\ \A m \in 1 .. t - 1 : m \in 1 .. t
  BY <1>2
<1>c. \A i \in 1 .. p + 1 : i \in 1 .. p \/ i = p + 1
  BY <1>2
<1> HIDE DEF t, p, b, k
<1>7. SeenOnce(graph, v)
  <2>1. \A c \in v.seen : OnStack(v, c) \/ Posted(v, c)
    BY <1>4, <1>5, <1>6 DEF SeenOnce
  <2>2. \A c : OnStack(v, c) \/ Posted(v, c) => c \in v.seen
    BY <1>4, <1>5, <1>6 DEF SeenOnce
  <2>3. \A c : ~(OnStack(v, c) /\ Posted(v, c))
    BY <1>5, <1>6 DEF SeenOnce
  <2>4. \A l, m \in 1 .. Len(v.stack) : l # m => v.stack[l][1] # v.stack[m][1]
    BY <1>4, <1>6, <1>b DEF SeenOnce, t
  <2>5. \A i, j \in 1 .. Len(v.post) : i # j => v.post[i] # v.post[j]
    <3>1. \A i \in 1 .. p : w.post[i] # b
      BY <1>5, <1>6 DEF SeenOnce, Posted, p
    <3>2. \A i, j \in 1 .. p : i # j => w.post[i] # w.post[j]
      BY <1>6 DEF SeenOnce, p
    <3> QED
      BY <1>4, <1>c, <3>1, <3>2
  <2> QED
    BY <2>1, <2>2, <2>3, <2>4, <2>5 DEF SeenOnce
<1>8. Taken(graph, v)
  <2>1. \A m \in 1 .. Len(v.stack) :
          /\ v.stack[m][2] <= Len(graph[v.stack[m][1]]) + 1
          /\ \A l \in 1 .. v.stack[m][2] - 1 : graph[v.stack[m][1]][l] \in v.seen
    BY <1>4, <1>6, <1>b DEF Taken, t
  <2>2. k <= Len(graph[b]) + 1 /\ \A l \in 1 .. k - 1 : graph[b][l] \in w.seen
    BY <1>6, <1>a, <1>b DEF Taken, t
  <2>3. \A l \in 1 .. Len(graph[b]) : l \in 1 .. k - 1
    BY <1>2, <1>3, <1>4
  <2>4. \A l \in 1 .. Len(graph[b]) : graph[b][l] \in v.seen
    BY <1>4, <2>2, <2>3
  <2>5. \A i \in 1 .. Len(v.post) : \A l \in 1 .. Len(graph[v.post[i]]) : graph[v.post[i]][l] \in v.seen
    BY <1>4, <1>6, <1>c, <2>4 DEF Taken, p
  <2> QED
    BY <2>1, <2>5 DEF Taken
<1>9. Within(graph, n, v)
  BY <1>4, <1>6 DEF Within
<1>10. Tree(graph, v)
  <2>1. w.stack[1][1] = 0 /\ \A m \in 2 .. t : EdgeTo(graph, w.stack[m - 1][1], w.stack[m][1])
    BY <1>6 DEF Tree, t
  <2>2. v.stack # <<>> => v.stack[1][1] = 0
    <3>1. ASSUME v.stack # <<>>
          PROVE  1 \in 1 .. t - 1
      BY <1>1, <1>2, <1>4, <3>1 DEF WalkTypes
    <3> QED
      BY <1>4, <2>1, <3>1
  <2>3. v.stack = <<>> => v.post # <<>> /\ v.post[Len(v.post)] = 0
    <3>1. ASSUME v.stack = <<>>
          PROVE  t = 1
      BY <1>1, <1>2, <1>4, <3>1 DEF WalkTypes
    <3>2. Len(v.post) # 0
      BY <1>2, <1>4
    <3> QED
      BY <1>1, <1>4, <1>a, <2>1, <3>1, <3>2 DEF WalkTypes
  <2>4. \A m \in 2 .. Len(v.stack) : EdgeTo(graph, v.stack[m - 1][1], v.stack[m][1])
    <3>1. \A m \in 2 .. t - 1 : m \in 2 .. t /\ m \in 1 .. t - 1 /\ m - 1 \in 1 .. t - 1
      BY <1>2
    <3> QED
      BY <1>4, <2>1, <3>1
  <2>5. ASSUME NEW i \in 1 .. Len(v.post)
        PROVE  \/ v.stack = <<>> /\ i = Len(v.post)
               \/ \E m \in 1 .. Len(v.stack) : EdgeTo(graph, v.stack[m][1], v.post[i])
               \/ \E j \in i + 1 .. Len(v.post) : EdgeTo(graph, v.post[j], v.post[i])
    <3>1. CASE i \in 1 .. p
      <4>1. v.post[i] = w.post[i]
        BY <1>4, <3>1
      <4>2. \/ \E m \in 1 .. t : EdgeTo(graph, w.stack[m][1], w.post[i])
            \/ \E j \in i + 1 .. p : EdgeTo(graph, w.post[j], w.post[i])
        BY <1>6, <3>1 DEF Tree, t, p
      <4>3. CASE \E m \in 1 .. t : EdgeTo(graph, w.stack[m][1], w.post[i])
        <5>1. PICK m \in 1 .. t : EdgeTo(graph, w.stack[m][1], w.post[i])
          BY <4>3
        <5>2. CASE m = t
          <6>1. p + 1 \in i + 1 .. Len(v.post) /\ EdgeTo(graph, v.post[p + 1], v.post[i])
            BY <1>2, <1>4, <1>a, <3>1, <4>1, <5>1, <5>2
          <6> QED
            BY <6>1
        <5>3. CASE m # t
          <6>1. m \in 1 .. t - 1
            BY <1>2, <5>3
          <6> QED
            BY <1>4, <4>1, <5>1, <6>1
        <5> QED
          BY <5>2, <5>3
      <4>4. CASE \E j \in i + 1 .. p : EdgeTo(graph, w.post[j], w.post[i])
        <5>1. PICK j \in i + 1 .. p : EdgeTo(graph, w.post[j], w.post[i])
          BY <4>4
        <5>2. j \in 1 .. p /\ j \in i + 1 .. p + 1
          BY <1>2, <3>1
        <5> QED
          BY <1>4, <4>1, <5>1, <5>2
      <4> QED
        BY <4>2, <4>3, <4>4
    <3>2. CASE i = p + 1 /\ t = 1
      BY <1>1, <1>4, <3>2 DEF WalkTypes
    <3>3. CASE i = p + 1 /\ t # 1
      <4>1. t \in 2 .. t /\ t - 1 \in 1 .. t - 1
        BY <1>2, <3>3
      <4>2. EdgeTo(graph, w.stack[t - 1][1], b)
        BY <1>a, <2>1, <4>1
      <4> QED
        BY <1>4, <3>3, <4>1, <4>2
    <3> QED
      BY <1>4, <1>c, <3>1, <3>2, <3>3
  <2> QED
    BY <2>2, <2>3, <2>4, <2>5 DEF Tree
<1> QED
  BY <1>7, <1>8, <1>9, <1>10 DEF WalkOk

(* A turn that takes a successor keeps the walk as it should be.            *)
LEMMA TakeKeeps ==
  ASSUME NEW graph, NEW n, IsGraph(graph, n), NEW w, WalkOk(graph, n, w), w.stack # <<>>,
         NEW v \in Walks(n), Takes(graph, w, v)
  PROVE  WalkOk(graph, n, v)
<1> DEFINE t == Len(w.stack)
           p == Len(w.post)
           u == Len(v.stack)
           b == w.stack[t][1]
           k == w.stack[t][2]
           s == graph[b][k]
<1>1. WalkTypes(graph, n, w) /\ WalkTypes(graph, n, v)
  BY WalksTyped DEF WalkOk
<1>2. t \in Nat /\ t >= 1 /\ p \in Nat /\ b \in 0 .. n - 1 /\ k \in Nat /\ k # 0
  BY <1>1 DEF WalkTypes
<1>3. Len(graph[b]) \in Nat
  BY <1>2 DEF IsGraph
<1>4. /\ k <= Len(graph[b])
      /\ v.seen = w.seen \cup {s}
      /\ v.post = w.post
      /\ \A m \in 1 .. t - 1 : v.stack[m] = w.stack[m]
      /\ v.stack[t][1] = b /\ v.stack[t][2] = k + 1
      /\ \/ s \in w.seen /\ u = t
         \/ s \notin w.seen /\ u = t + 1 /\ v.stack[t + 1][1] = s /\ v.stack[t + 1][2] = 1
  BY DEF Takes
<1>5. SeenOnce(graph, w) /\ Taken(graph, w) /\ Within(graph, n, w) /\ Tree(graph, w)
  BY DEF WalkOk
<1>6. w.stack[t][1] = b /\ w.stack[t][2] = k /\ graph[b][k] = s
  OBVIOUS
<1>8. OnStack(w, b)
  BY <1>2 DEF OnStack
<1> HIDE DEF t, p, u, b, k, s
<1>7. EdgeTo(graph, b, s)
  <2>1. k \in 1 .. Len(graph[b])
    BY <1>2, <1>3, <1>4
  <2> QED
    BY <1>6, <2>1 DEF EdgeTo
<1>9. \A m \in 1 .. t : m \in 1 .. t - 1 \/ m = t
  BY <1>2
<1>10. \A m \in 1 .. t : v.stack[m][1] = w.stack[m][1]
  BY <1>4, <1>6, <1>9
<1>11. u \in Nat /\ (u = t \/ u = t + 1) /\ (u = t + 1 => v.stack[t + 1][1] = s)
       /\ \A m \in 1 .. u : m \in 1 .. t \/ (m = t + 1 /\ u = t + 1)
  BY <1>2, <1>4
<1>12. \A m \in 1 .. t : m \in 1 .. u
  BY <1>2, <1>11
<1>13. t \in 1 .. t /\ (u = t + 1 => t + 1 \in 1 .. u)
  BY <1>2, <1>11
<1>14. SeenOnce(graph, v)
  <2>1. \A c : OnStack(w, c) => OnStack(v, c)
    BY <1>10, <1>12 DEF OnStack, t, u
  <2>2. s \notin w.seen => OnStack(v, s)
    BY <1>4, <1>13 DEF OnStack, u
  <2>3. \A c : OnStack(v, c) => OnStack(w, c) \/ c = s
    BY <1>10, <1>11 DEF OnStack, t, u
  <2>4. \A c : OnStack(v, c) /\ s \in w.seen => OnStack(w, c)
    <3>1. s \in w.seen => u = t
      BY <1>4
    <3> QED
      BY <1>10, <3>1 DEF OnStack, t, u
  <2>5. \A c : Posted(v, c) <=> Posted(w, c)
    BY <1>4 DEF Posted
  <2>6. \A c \in v.seen : OnStack(v, c) \/ Posted(v, c)
    BY <1>4, <1>5, <2>1, <2>2, <2>5 DEF SeenOnce
  <2>7. \A c : OnStack(v, c) \/ Posted(v, c) => c \in v.seen
    BY <1>4, <1>5, <2>3, <2>5 DEF SeenOnce
  <2>8. \A c : ~(OnStack(v, c) /\ Posted(v, c))
    BY <1>5, <2>3, <2>4, <2>5 DEF SeenOnce
  <2>9. \A l, m \in 1 .. u : l # m => v.stack[l][1] # v.stack[m][1]
    <3>1. \A l, m \in 1 .. t : l # m => w.stack[l][1] # w.stack[m][1]
      BY <1>5 DEF SeenOnce, t
    <3>2. u = t + 1 => \A m \in 1 .. t : w.stack[m][1] # s
      <4>1. u = t + 1 => s \notin w.seen
        BY <1>2, <1>4
      <4>2. \A m \in 1 .. t : w.stack[m][1] \in w.seen
        BY <1>5 DEF SeenOnce, OnStack, t
      <4> QED
        BY <4>1, <4>2
    <3> QED
      BY <1>10, <1>11, <3>1, <3>2
  <2>10. \A i, j \in 1 .. Len(v.post) : i # j => v.post[i] # v.post[j]
    BY <1>4, <1>5 DEF SeenOnce
  <2> QED
    BY <2>6, <2>7, <2>8, <2>9, <2>10 DEF SeenOnce, u
<1>15. Taken(graph, v)
  <2>1. ASSUME NEW m \in 1 .. u
        PROVE  /\ v.stack[m][2] <= Len(graph[v.stack[m][1]]) + 1
               /\ \A l \in 1 .. v.stack[m][2] - 1 : graph[v.stack[m][1]][l] \in v.seen
    <3>1. CASE m \in 1 .. t - 1
      <4>1. m \in 1 .. t /\ v.stack[m] = w.stack[m]
        BY <1>2, <1>4, <3>1
      <4>2. /\ w.stack[m][2] <= Len(graph[w.stack[m][1]]) + 1
            /\ \A l \in 1 .. w.stack[m][2] - 1 : graph[w.stack[m][1]][l] \in w.seen
        BY <1>5, <4>1 DEF Taken, t
      <4> QED
        BY <1>4, <4>1, <4>2
    <3>2. CASE m = t
      <4>1. \A l \in 1 .. k - 1 : graph[b][l] \in w.seen
        BY <1>5, <1>6, <1>13 DEF Taken, t
      <4>2. k + 1 <= Len(graph[b]) + 1 /\ \A l \in 1 .. (k + 1) - 1 : l \in 1 .. k - 1 \/ l = k
        BY <1>2, <1>3, <1>4
      <4>3. \A l \in 1 .. (k + 1) - 1 : graph[b][l] \in v.seen
        BY <1>4, <1>6, <4>1, <4>2
      <4> QED
        BY <1>4, <3>2, <4>2, <4>3
    <3>3. CASE m = t + 1 /\ u = t + 1
      <4>1. v.stack[m][1] = s /\ v.stack[m][2] = 1
        BY <1>2, <1>4, <3>3
      <4>2. s \in 0 .. n - 1
        BY <1>1, <4>1 DEF WalkTypes, u
      <4>3. Len(graph[s]) \in Nat
        BY <4>2 DEF IsGraph
      <4>4. 1 <= Len(graph[s]) + 1 /\ 1 .. 1 - 1 = {}
        BY <4>3
      <4> QED
        BY <4>1, <4>4
    <3> QED
      BY <1>9, <1>11, <3>1, <3>2, <3>3
  <2>2. \A i \in 1 .. Len(v.post) : \A l \in 1 .. Len(graph[v.post[i]]) : graph[v.post[i]][l] \in v.seen
    BY <1>4, <1>5 DEF Taken
  <2> QED
    BY <2>1, <2>2 DEF Taken, u
<1>16. Within(graph, n, v)
  <2>1. ASSUME NEW C \in SUBSET (0 .. n - 1), 0 \in C, Closed(graph, C)
        PROVE  v.seen \subseteq C
    <3>1. w.seen \subseteq C
      BY <1>5, <2>1 DEF Within
    <3>2. b \in C
      BY <1>5, <1>8, <3>1 DEF SeenOnce
    <3>3. k \in 1 .. Len(graph[b])
      BY <1>2, <1>3, <1>4
    <3>4. s \in C
      BY <1>6, <2>1, <3>2, <3>3 DEF Closed
    <3> QED
      BY <1>4, <3>1, <3>4
  <2> QED
    BY <2>1 DEF Within
<1>17. Tree(graph, v)
  <2>1. w.stack[1][1] = 0 /\ \A m \in 2 .. t : EdgeTo(graph, w.stack[m - 1][1], w.stack[m][1])
    BY <1>5 DEF Tree, t
  <2>2. 1 \in 1 .. t
    BY <1>2
  <2>3. v.stack # <<>> /\ v.stack[1][1] = 0
    <3>1. u # 0
      BY <1>2, <1>11
    <3> QED
      BY <1>1, <1>10, <2>1, <2>2, <3>1 DEF WalkTypes, u
  <2>4. ASSUME NEW m \in 2 .. u
        PROVE  EdgeTo(graph, v.stack[m - 1][1], v.stack[m][1])
    <3>1. CASE m \in 2 .. t
      <4>1. m \in 1 .. t /\ m - 1 \in 1 .. t
        BY <1>2, <3>1
      <4> QED
        BY <1>10, <2>1, <3>1, <4>1
    <3>2. CASE m = t + 1 /\ u = t + 1
      <4>1. m - 1 = t
        BY <1>2, <3>2
      <4> QED
        BY <1>4, <1>7, <1>11, <3>2, <4>1
    <3>3. m \in 2 .. t \/ (m = t + 1 /\ u = t + 1)
      BY <1>2, <1>11
    <3> QED
      BY <3>1, <3>2, <3>3
  <2>5. ASSUME NEW i \in 1 .. p
        PROVE  \/ \E m \in 1 .. u : EdgeTo(graph, v.stack[m][1], v.post[i])
               \/ \E j \in i + 1 .. p : EdgeTo(graph, v.post[j], v.post[i])
    <3>1. \/ \E m \in 1 .. t : EdgeTo(graph, w.stack[m][1], w.post[i])
          \/ \E j \in i + 1 .. p : EdgeTo(graph, w.post[j], w.post[i])
      BY <1>5 DEF Tree, t, p
    <3> QED
      BY <1>4, <1>10, <1>12, <3>1
  <2>6. Len(v.post) = p
    BY <1>4 DEF p
  <2> QED
    BY <2>3, <2>4, <2>5, <2>6 DEF Tree, u
<1> QED
  BY <1>14, <1>15, <1>16, <1>17 DEF WalkOk

(* So does every turn. *)
LEMMA TurnKeeps ==
  ASSUME NEW graph, NEW n, IsGraph(graph, n), NEW w, WalkOk(graph, n, w)
  PROVE  WalkOk(graph, n, Turn(graph, w))
<1>1. CASE w.stack = <<>>
  <2>1. Turn(graph, w) = w
    BY <1>1 DEF Turn
  <2> QED
    BY <2>1
<1>2. CASE w.stack # <<>>
  <2> DEFINE v == Turn(graph, w)
  <2>1. v \in Walks(n) /\ (Finishes(graph, w, v) \/ Takes(graph, w, v))
    BY <1>2, TurnShape DEF WalkOk
  <2> HIDE DEF v
  <2>2. WalkOk(graph, n, v)
    BY <1>2, <2>1, FinishKeeps, TakeKeeps
  <2> QED
    BY <2>2 DEF v
<1> QED
  BY <1>1, <1>2

(* There are finitely many visits. *)
LEMMA VisitsFinite ==
  ASSUME NEW graph, NEW n, IsGraph(graph, n)
  PROVE  IsFiniteSet(Visits(graph)) /\ Cardinality(Visits(graph)) \in Nat
<1> DEFINE of == [b \in 0 .. n - 1 |-> {b} \X (1 .. Len(graph[b]) + 1)]
           R == {of[b] : b \in 0 .. n - 1}
<1>1. n \in Nat /\ DOMAIN graph = 0 .. n - 1 /\ IsFiniteSet(0 .. n - 1)
  BY FS_Interval DEF IsGraph
<1>2. Visits(graph) = UNION R
  <2>1. R = {{b} \X (1 .. Len(graph[b]) + 1) : b \in 0 .. n - 1}
    OBVIOUS
  <2> HIDE DEF R
  <2> QED
    BY <1>1, <2>1 DEF Visits
<1>3. \A r \in R : IsFiniteSet(r)
  <2>1. ASSUME NEW b \in 0 .. n - 1
        PROVE  IsFiniteSet(of[b])
    <3>1. IsFiniteSet({b}) /\ IsFiniteSet(1 .. Len(graph[b]) + 1)
      <4>1. Len(graph[b]) + 1 \in Int /\ 1 \in Int
        BY <2>1 DEF IsGraph
      <4>2. IsFiniteSet(1 .. Len(graph[b]) + 1)
        <5> DEFINE m == Len(graph[b]) + 1
        <5> HIDE DEF m
        <5>1. IsFiniteSet(1 .. m)
          BY <4>1, FS_Interval DEF m
        <5> QED
          BY <5>1 DEF m
      <4>3. IsFiniteSet({b})
        BY FS_Singleton
      <4> QED
        BY <4>2, <4>3
    <3>2. IsFiniteSet({b} \X (1 .. Len(graph[b]) + 1))
      BY <3>1, FS_Product
    <3> QED
      BY <3>2
  <2> HIDE DEF of
  <2> QED
    BY <2>1
<1>4. IsFiniteSet(R)
  <2>1. of \in Surjection(0 .. n - 1, R)
    <3>1. DOMAIN of = 0 .. n - 1 /\ of \in [0 .. n - 1 -> R]
      OBVIOUS
    <3>2. \A r \in R : \E b \in 0 .. n - 1 : of[b] = r
      OBVIOUS
    <3> HIDE DEF of, R
    <3> QED
      BY <3>1, <3>2 DEF Surjection
  <2> HIDE DEF of, R
  <2> QED
    BY <1>1, <2>1, FS_Surjection
<1> HIDE DEF R
<1>5. IsFiniteSet(Visits(graph))
  BY <1>2, <1>3, <1>4, FS_UNION
<1> QED
  BY <1>5, FS_CardinalityType

(* The visits that are over. *)
Done(graph, w) ==
  {v \in Visits(graph) :
     \/ Posted(w, v[1])
     \/ \E m \in 1 .. Len(w.stack) : w.stack[m][1] = v[1] /\ v[2] < w.stack[m][2]}

(* Every turn but the idle ones ends a visit. *)
LEMMA TurnEnds ==
  ASSUME NEW graph, NEW n, IsGraph(graph, n), NEW w, WalkOk(graph, n, w), w.stack # <<>>
  PROVE  \E e \in Visits(graph) :
           /\ e \notin Done(graph, w) /\ e \in Done(graph, Turn(graph, w))
           /\ Done(graph, w) \subseteq Done(graph, Turn(graph, w))
<1> DEFINE v == Turn(graph, w)
           t == Len(w.stack)
           b == w.stack[t][1]
           k == w.stack[t][2]
           e == <<b, k>>
<1>1. v \in Walks(n) /\ (Finishes(graph, w, v) \/ Takes(graph, w, v))
  BY TurnShape DEF WalkOk
<1>2. WalkTypes(graph, n, w) /\ WalkTypes(graph, n, v)
  BY <1>1, WalksTyped DEF WalkOk
<1>3. t \in Nat /\ t >= 1 /\ t \in 1 .. t /\ b \in 0 .. n - 1 /\ k \in Nat /\ k # 0
  BY <1>2 DEF WalkTypes
<1>4. SeenOnce(graph, w) /\ Taken(graph, w)
  BY DEF WalkOk
<1>5. w.stack[t][1] = b /\ w.stack[t][2] = k /\ e[1] = b /\ e[2] = k /\ e = <<b, k>>
  OBVIOUS
<1>6. OnStack(w, b)
  BY <1>3 DEF OnStack
<1> HIDE DEF v, t, b, k, e
<1>7. e \in Visits(graph)
  <2>1. k <= Len(graph[b]) + 1 /\ b \in DOMAIN graph /\ Len(graph[b]) \in Nat
    <3>1. b \in DOMAIN graph /\ Len(graph[b]) \in Nat
      BY <1>3 DEF IsGraph
    <3>2. k <= Len(graph[b]) + 1
      BY <1>3, <1>4, <1>5 DEF Taken, t
    <3> QED
      BY <3>1, <3>2
  <2>2. k \in 1 .. Len(graph[b]) + 1
    BY <1>3, <2>1
  <2>3. e \in {b} \X (1 .. Len(graph[b]) + 1)
    BY <1>5, <2>2
  <2> QED
    BY <2>1, <2>3 DEF Visits
<1>8. e \notin Done(graph, w)
  <2>1. ~Posted(w, b)
    BY <1>4, <1>6 DEF SeenOnce
  <2>2. \A m \in 1 .. t : w.stack[m][1] = b => m = t
    BY <1>3, <1>4, <1>5 DEF SeenOnce, t
  <2>3. ~(k < k)
    BY <1>3
  <2>4. ~(\E m \in 1 .. t : w.stack[m][1] = b /\ k < w.stack[m][2])
    BY <1>5, <2>2, <2>3
  <2> QED
    BY <1>5, <2>1, <2>4 DEF Done, t
<1>9. CASE Finishes(graph, w, v)
  <2>1. \A c : Posted(v, c) <=> Posted(w, c) \/ c = b
    BY <1>1, <1>9, FinishMoves DEF b, t
  <2>2. Len(v.stack) = t - 1 /\ \A m \in 1 .. t - 1 : v.stack[m] = w.stack[m]
    BY <1>9 DEF Finishes, t
  <2>3. e \in Done(graph, v)
    BY <1>5, <1>7, <2>1 DEF Done
  <2>4. ASSUME NEW x \in Done(graph, w)
        PROVE  x \in Done(graph, v)
    <3>1. x \in Visits(graph)
      BY DEF Done
    <3>2. CASE Posted(w, x[1])
      BY <2>1, <3>1, <3>2 DEF Done
    <3>3. CASE \E m \in 1 .. t : w.stack[m][1] = x[1] /\ x[2] < w.stack[m][2]
      <4>1. PICK m \in 1 .. t : w.stack[m][1] = x[1] /\ x[2] < w.stack[m][2]
        BY <3>3
      <4>2. CASE m = t
        <5>1. Posted(v, x[1])
          BY <1>5, <2>1, <4>1, <4>2
        <5> QED
          BY <3>1, <5>1 DEF Done
      <4>3. CASE m # t
        <5>1. m \in 1 .. t - 1
          BY <1>3, <4>3
        <5>2. \E l \in 1 .. Len(v.stack) : v.stack[l][1] = x[1] /\ x[2] < v.stack[l][2]
          BY <2>2, <4>1, <5>1
        <5> QED
          BY <3>1, <5>2 DEF Done
      <4> QED
        BY <4>2, <4>3
    <3> QED
      BY <3>2, <3>3 DEF Done, t
  <2> QED
    BY <1>7, <1>8, <2>3, <2>4 DEF v
<1>10. CASE Takes(graph, w, v)
  <2>1. /\ v.post = w.post /\ \A m \in 1 .. t - 1 : v.stack[m] = w.stack[m]
        /\ v.stack[t][1] = b /\ v.stack[t][2] = k + 1
        /\ (Len(v.stack) = t \/ Len(v.stack) = t + 1)
    BY <1>10 DEF Takes, t, b, k
  <2>2. \A m \in 1 .. t : m \in 1 .. Len(v.stack)
    BY <1>3, <2>1
  <2>3. e \in Done(graph, v)
    <3>1. k < k + 1
      BY <1>3
    <3>2. \E l \in 1 .. Len(v.stack) : v.stack[l][1] = e[1] /\ e[2] < v.stack[l][2]
      BY <1>3, <1>5, <2>1, <2>2, <3>1
    <3> QED
      BY <1>7, <3>2 DEF Done
  <2>4. ASSUME NEW x \in Done(graph, w)
        PROVE  x \in Done(graph, v)
    <3>1. x \in Visits(graph)
      BY DEF Done
    <3>2. CASE Posted(w, x[1])
      <4>1. Posted(v, x[1])
        BY <2>1, <3>2 DEF Posted
      <4> QED
        BY <3>1, <4>1 DEF Done
    <3>3. CASE \E m \in 1 .. t : w.stack[m][1] = x[1] /\ x[2] < w.stack[m][2]
      <4>1. PICK m \in 1 .. t : w.stack[m][1] = x[1] /\ x[2] < w.stack[m][2]
        BY <3>3
      <4>2. CASE m = t
        <5>1. x[2] \in Nat
          <6>1. PICK c \in DOMAIN graph : x \in {c} \X (1 .. Len(graph[c]) + 1)
            BY <3>1 DEF Visits
          <6> QED
            BY <6>1
        <5>2. x[2] < k /\ x[1] = b
          BY <1>5, <4>1, <4>2
        <5>3. x[2] < k + 1
          BY <1>3, <5>1, <5>2
        <5>4. \E l \in 1 .. Len(v.stack) : v.stack[l][1] = x[1] /\ x[2] < v.stack[l][2]
          BY <1>3, <2>1, <2>2, <5>2, <5>3
        <5> QED
          BY <3>1, <5>4 DEF Done
      <4>3. CASE m # t
        <5>1. m \in 1 .. t - 1
          BY <1>3, <4>3
        <5>2. \E l \in 1 .. Len(v.stack) : v.stack[l][1] = x[1] /\ x[2] < v.stack[l][2]
          BY <2>1, <2>2, <4>1, <5>1
        <5> QED
          BY <3>1, <5>2 DEF Done
      <4> QED
        BY <4>2, <4>3
    <3> QED
      BY <3>2, <3>3 DEF Done, t
  <2> QED
    BY <1>7, <1>8, <2>3, <2>4 DEF v
<1> QED
  BY <1>1, <1>9, <1>10

(* Walked is the last of a run of turns from FirstWalk. *)
LEMMA WalkRuns ==
  ASSUME NEW graph, NEW n, IsGraph(graph, n)
  PROVE  LET turns == Cardinality(Visits(graph))
         IN \E walk :
              /\ walk[0] = FirstWalk
              /\ \A i \in 1 .. turns : walk[i] = Turn(graph, walk[i - 1])
              /\ \A i \in 0 .. turns : WalkOk(graph, n, walk[i])
              /\ Walked(graph) = walk[turns]
<1> DEFINE turns == Cardinality(Visits(graph))
           S == {w \in Walks(n) : WalkOk(graph, n, w)}
           Kept(g) == g = [i \in 0 .. turns |-> IF i = 0 THEN FirstWalk ELSE Turn(graph, g[i - 1])]
           walk == CHOOSE g : Kept(g)
           F == [i \in 1 .. turns |-> [y \in S |-> Turn(graph, y)]]
<1>1. turns \in Nat
  BY VisitsFinite
<1>2. \A i \in 1 .. turns : \A y \in S : F[i][y] = Turn(graph, y)
  OBVIOUS
<1>3. \A y \in S : Turn(graph, y) \in S
  BY TurnKeeps DEF WalkOk
<1>4. FirstWalk \in S
  BY WalkBegins DEF WalkOk
<1>5. Walked(graph) = walk[turns]
  BY DEF Walked, FirstWalk
<1> HIDE DEF turns, F, S
<1>6. PICK f \in [0 .. turns -> S] : Follows(f, turns, FirstWalk, F)
  <2>1. Stays(turns, F, S)
    BY <1>2, <1>3 DEF Stays
  <2> QED
    BY <1>1, <1>4, <2>1, Recursion
<1> HIDE DEF F
<1>7. Kept(f)
  <2>1. ASSUME NEW i \in 0 .. turns
        PROVE  f[i] = IF i = 0 THEN FirstWalk ELSE Turn(graph, f[i - 1])
    <3>1. CASE i = 0
      BY <1>6, <3>1 DEF Follows
    <3>2. CASE i # 0
      <4>1. i \in 1 .. turns /\ i - 1 \in 0 .. turns
        BY <1>1, <3>2
      <4>2. f[i - 1] \in S
        BY <4>1
      <4>3. f[i] = F[i][f[i - 1]]
        BY <1>6, <3>2 DEF Follows
      <4> QED
        BY <1>2, <3>2, <4>1, <4>2, <4>3
    <3> QED
      BY <3>1, <3>2
  <2> QED
    BY <1>6, <2>1 DEF Follows
<1>8. Kept(walk)
  <2> HIDE DEF Kept
  <2> QED
    BY <1>7
<1> HIDE DEF walk
<1>9. walk[0] = FirstWalk /\ \A i \in 1 .. turns : walk[i] = Turn(graph, walk[i - 1])
  <2>1. 0 \in 0 .. turns /\ \A i \in 1 .. turns : i \in 0 .. turns /\ i # 0
    BY <1>1
  <2> QED
    BY <1>8, <2>1
<1> DEFINE T == {i \in 0 .. turns : walk[i] \in S}
<1>10. 0 .. turns \subseteq T
  <2>1. 0 \in T
    BY <1>1, <1>4, <1>9
  <2>2. ASSUME NEW i \in 1 .. turns, i - 1 \in T
        PROVE  i \in T
    <3>1. walk[i - 1] \in S
      BY <2>2
    <3>2. walk[i] \in S
      BY <1>3, <1>9, <3>1
    <3>3. i \in 0 .. turns
      BY <1>1
    <3> QED
      BY <3>2, <3>3
  <2> HIDE DEF T
  <2> QED
    BY <1>1, <2>1, <2>2, Counting
<1>11. \A i \in 0 .. turns : WalkOk(graph, n, walk[i])
  BY <1>10 DEF S
<1> QED
  BY <1>5, <1>9, <1>11 DEF turns

(* After as many turns as there are visits the stack is empty. *)
LEMMA WalkEnds ==
  ASSUME NEW graph, NEW n, IsGraph(graph, n)
  PROVE  WalkOk(graph, n, Walked(graph)) /\ Walked(graph).stack = <<>>
<1> DEFINE turns == Cardinality(Visits(graph))
<1>1. turns \in Nat /\ IsFiniteSet(Visits(graph))
  BY VisitsFinite
<1>2. PICK walk :
        /\ \A i \in 1 .. turns : walk[i] = Turn(graph, walk[i - 1])
        /\ \A i \in 0 .. turns : WalkOk(graph, n, walk[i])
        /\ Walked(graph) = walk[turns]
  BY WalkRuns
<1> DEFINE done(i) == Cardinality(Done(graph, walk[i]))
           T == {i \in 0 .. turns : walk[i].stack = <<>> \/ done(i) >= i}
<1>3. \A w : Done(graph, w) \subseteq Visits(graph)
  BY DEF Done
<1>4. \A w : IsFiniteSet(Done(graph, w)) /\ Cardinality(Done(graph, w)) \in Nat
             /\ Cardinality(Done(graph, w)) <= turns
  BY <1>1, <1>3, FS_Subset, FS_CardinalityType
<1>5. ASSUME NEW i \in 0 .. turns, walk[i].stack # <<>>
      PROVE  Cardinality(Done(graph, Turn(graph, walk[i]))) >= done(i) + 1
             /\ done(i) < turns
  <2> DEFINE D == Done(graph, walk[i])
             E == Done(graph, Turn(graph, walk[i]))
  <2>1. PICK e \in Visits(graph) : e \notin D /\ e \in E /\ D \subseteq E
    BY <1>2, <1>5, TurnEnds
  <2>2. IsFiniteSet(D) /\ IsFiniteSet(E) /\ D \subseteq Visits(graph) /\ E \subseteq Visits(graph)
        /\ Cardinality(D) \in Nat /\ Cardinality(E) \in Nat /\ Cardinality(E) <= turns
    BY <1>3, <1>4
  <2> HIDE DEF D, E
  <2>3. Cardinality(D \cup {e}) = Cardinality(D) + 1
    BY <2>1, <2>2, FS_AddElement
  <2>4. Cardinality(D \cup {e}) <= Cardinality(E)
    BY <2>1, <2>2, FS_Subset
  <2>5. Cardinality(E) >= Cardinality(D) + 1
    BY <2>2, <2>3, <2>4
  <2>6. Cardinality(D) < turns
    <3> HIDE DEF turns
    <3> QED
      BY <1>1, <2>2, <2>5
  <2> QED
    BY <2>5, <2>6 DEF D, E
<1> HIDE DEF turns
<1>6. 0 \in T
  <2>1. done(0) \in Nat
    BY <1>4
  <2> HIDE DEF done
  <2> QED
    BY <1>1, <2>1
<1>7. ASSUME NEW i \in 1 .. turns, i - 1 \in T
      PROVE  i \in T
  <2>1. i \in 0 .. turns /\ i - 1 \in 0 .. turns /\ walk[i] = Turn(graph, walk[i - 1])
    BY <1>1, <1>2
  <2>2. CASE walk[i - 1].stack = <<>>
    <3>1. walk[i].stack = <<>>
      BY <2>1, <2>2 DEF Turn
    <3> QED
      BY <2>1, <3>1
  <2>3. CASE walk[i - 1].stack # <<>>
    <3>1. done(i - 1) >= i - 1
      BY <1>7, <2>3
    <3>2. done(i) >= done(i - 1) + 1
      BY <1>5, <2>1, <2>3
    <3>3. done(i) \in Nat /\ done(i - 1) \in Nat
      BY <1>4
    <3> HIDE DEF done
    <3>4. done(i) >= i
      BY <3>1, <3>2, <3>3
    <3> QED
      BY <2>1, <3>4
  <2> QED
    BY <2>2, <2>3
<1>8. turns \in T
  <2> HIDE DEF T
  <2>1. 0 .. turns \subseteq T
    BY <1>1, <1>6, <1>7, Counting
  <2> QED
    BY <1>1, <2>1
<1>9. walk[turns].stack = <<>>
  <2> SUFFICES ASSUME walk[turns].stack # <<>>
               PROVE  FALSE
    OBVIOUS
  <2>1. turns \in 0 .. turns
    BY <1>1
  <2>2. done(turns) >= turns
    BY <1>8
  <2>3. done(turns) < turns
    BY <1>5, <2>1
  <2>4. done(turns) \in Nat
    BY <1>4
  <2> HIDE DEF done
  <2> QED
    BY <1>1, <2>2, <2>3, <2>4
<1>10. turns \in 0 .. turns
  BY <1>1
<1> QED
  BY <1>2, <1>9, <1>10

(* The reverse postorder lists blocks once each, the entry first, and every *)
(* other one behind one of its predecessors.                                *)
LEMMA PostorderReversed ==
  ASSUME NEW graph, NEW n, IsGraph(graph, n)
  PROVE  LET rpo == ReversePostorder(graph)
         IN /\ rpo \in Seq(0 .. n - 1) /\ Len(rpo) \in Nat /\ Len(rpo) # 0
            /\ rpo[1] = 0
            /\ \A i, j \in 1 .. Len(rpo) : i # j => rpo[i] # rpo[j]
            /\ \A i \in 2 .. Len(rpo) : \E j \in 1 .. i - 1 : EdgeTo(graph, rpo[j], rpo[i])
            /\ ToSet(rpo) = Walked(graph).seen
<1> DEFINE w == Walked(graph)
           rpo == ReversePostorder(graph)
           p == Len(w.post)
<1>1. WalkOk(graph, n, w) /\ w.stack = <<>>
  BY WalkEnds
<1>2. n \in Nat /\ n # 0 /\ DOMAIN graph = 0 .. n - 1
  BY DEF IsGraph
<1>3. DOMAIN graph # {}
  <2>1. 0 \in 0 .. n - 1
    BY <1>2
  <2> QED
    BY <1>2, <2>1, Zenon
<1>4. rpo = Reverse(w.post)
  BY <1>3 DEF ReversePostorder
<1>5. WalkTypes(graph, n, w) /\ w.post \in Seq(0 .. n - 1)
  BY <1>1, WalksTyped DEF WalkOk, Walks
<1>6. SeenOnce(graph, w) /\ Tree(graph, w)
  BY <1>1 DEF WalkOk
<1> HIDE DEF w, rpo
<1>7. p \in Nat /\ p # 0 /\ w.post[p] = 0 /\ Len(w.stack) = 0
  BY <1>1, <1>5, <1>6 DEF WalkTypes, Tree
<1>8. rpo = [i \in 1 .. p |-> w.post[(p - i) + 1]]
  BY <1>4 DEF Reverse
<1>9. \A i \in 1 .. p : (p - i) + 1 \in 1 .. p
  BY <1>7
<1>10. \A i \in 1 .. p : rpo[i] = w.post[(p - i) + 1]
  BY <1>8
<1>11. \A i \in 1 .. p : w.post[i] \in 0 .. n - 1
  BY <1>5 DEF WalkTypes
<1> HIDE DEF p
<1>12. rpo \in Seq(0 .. n - 1) /\ Len(rpo) = p /\ DOMAIN rpo = 1 .. p
  <2>1. \A i \in 1 .. p : rpo[i] \in 0 .. n - 1
    BY <1>9, <1>10, <1>11
  <2> DEFINE N == 0 .. n - 1
  <2> HIDE DEF N
  <2>2. rpo \in [1 .. p -> N]
    BY <1>8, <2>1 DEF N
  <2>3. rpo \in Seq(N)
    BY <1>7, <2>2
  <2>4. Len(rpo) = p
    BY <1>7, <2>2, <2>3
  <2> QED
    BY <2>2, <2>3, <2>4 DEF N
<1>13. rpo[1] = 0
  <2>1. 1 \in 1 .. p /\ (p - 1) + 1 = p
    BY <1>7
  <2> QED
    BY <1>7, <1>10, <2>1
<1>14. \A i, j \in 1 .. p : i # j => rpo[i] # rpo[j]
  <2>1. \A i, j \in 1 .. p : i # j => (p - i) + 1 # (p - j) + 1
    BY <1>7
  <2>2. \A i, j \in 1 .. p : i # j => w.post[i] # w.post[j]
    BY <1>6 DEF SeenOnce, p
  <2> QED
    BY <1>9, <1>10, <2>1, <2>2
<1>15. ASSUME NEW i \in 2 .. p
       PROVE  \E j \in 1 .. i - 1 : EdgeTo(graph, rpo[j], rpo[i])
  <2> DEFINE h == (p - i) + 1
  <2>1. h \in 1 .. p /\ h # p /\ i \in 1 .. p
    BY <1>7
  <2>2. rpo[i] = w.post[h]
    BY <1>10, <2>1
  <2>3. \E j \in h + 1 .. p : EdgeTo(graph, w.post[j], w.post[h])
    <3>1. ~(\E m \in 1 .. Len(w.stack) : EdgeTo(graph, w.stack[m][1], w.post[h]))
      BY <1>7
    <3> HIDE DEF h
    <3> QED
      BY <1>6, <2>1, <3>1 DEF Tree, p
  <2>4. PICK j \in h + 1 .. p : EdgeTo(graph, w.post[j], w.post[h])
    BY <2>3
  <2> DEFINE q == (p - j) + 1
  <2>5. q \in 1 .. i - 1 /\ q \in 1 .. p /\ (p - q) + 1 = j
    BY <1>7
  <2> HIDE DEF h, q
  <2>6. rpo[q] = w.post[j]
    BY <1>10, <2>5
  <2> QED
    BY <2>2, <2>4, <2>5, <2>6
<1>16. ToSet(rpo) = w.seen
  <2>1. \A c : ~OnStack(w, c)
    BY <1>7 DEF OnStack
  <2>2. \A c : c \in w.seen <=> \E i \in 1 .. p : w.post[i] = c
    BY <1>6, <2>1 DEF SeenOnce, Posted, p
  <2>3. \A c : c \in ToSet(rpo) <=> \E i \in 1 .. p : rpo[i] = c
    BY <1>12 DEF ToSet
  <2>4. \A c : (\E i \in 1 .. p : rpo[i] = c) <=> (\E i \in 1 .. p : w.post[i] = c)
    <3>1. \A i \in 1 .. p : (p - i) + 1 \in 1 .. p /\ (p - ((p - i) + 1)) + 1 = i
      BY <1>7
    <3> QED
      BY <1>10, <3>1
  <2>5. \A c : c \in ToSet(rpo) <=> c \in w.seen
    BY <2>2, <2>3, <2>4
  <2> QED
    BY <2>5, Zenon
<1> QED
  BY <1>7, <1>12, <1>13, <1>14, <1>15, <1>16 DEF w, rpo

(* The reachable blocks are the least set with the entry that no edge       *)
(* leaves.                                                                  *)
LEMMA ReachableIsLeast ==
  ASSUME NEW graph, NEW n, IsGraph(graph, n)
  PROVE  /\ Reachable(graph) \subseteq 0 .. n - 1
         /\ 0 \in Reachable(graph)
         /\ Closed(graph, Reachable(graph))
         /\ \A C \in SUBSET (0 .. n - 1) :
              0 \in C /\ Closed(graph, C) => Reachable(graph) \subseteq C
<1> DEFINE w == Walked(graph)
           rpo == ReversePostorder(graph)
<1>1. WalkOk(graph, n, w) /\ w.stack = <<>>
  BY WalkEnds
<1>2. rpo \in Seq(0 .. n - 1) /\ Len(rpo) \in Nat /\ Len(rpo) # 0 /\ rpo[1] = 0
      /\ ToSet(rpo) = w.seen
  BY PostorderReversed
<1>3. Reachable(graph) = w.seen
  BY <1>2 DEF Reachable
<1>4. WalkTypes(graph, n, w) /\ w.seen \subseteq 0 .. n - 1
  BY <1>1, WalksTyped DEF WalkOk, Walks
<1>5. SeenOnce(graph, w) /\ Taken(graph, w) /\ Within(graph, n, w)
  BY <1>1 DEF WalkOk
<1> HIDE DEF w, rpo
<1>6. 0 \in w.seen
  <2>1. 1 \in DOMAIN rpo
    BY <1>2
  <2>2. rpo[1] \in ToSet(rpo)
    BY <2>1 DEF ToSet
  <2> QED
    BY <1>2, <2>2
<1>7. Closed(graph, w.seen)
  <2>1. \A c : ~OnStack(w, c)
    BY <1>1, <1>4 DEF OnStack, WalkTypes
  <2>2. ASSUME NEW c \in w.seen, NEW k \in 1 .. Len(graph[c])
        PROVE  graph[c][k] \in w.seen
    <3>1. PICK i \in 1 .. Len(w.post) : w.post[i] = c
      BY <1>5, <2>1 DEF SeenOnce, Posted
    <3> QED
      BY <1>5, <2>2, <3>1 DEF Taken
  <2> QED
    BY <2>2 DEF Closed
<1> QED
  BY <1>3, <1>4, <1>5, <1>6, <1>7 DEF Within

-----------------------------------------------------------------------------
(* Execution, instruction by instruction.                                   *)


(* Onward is the least set with the successors and theirs. *)
LEMMA OnwardIsLeast ==
  ASSUME NEW insns, NEW tables, Accepted(insns, tables), NEW from \in Indices(insns), NEW cut
  PROVE  /\ Onward(insns, tables, from, cut) \subseteq Indices(insns)
         /\ Succs(insns, tables, from) \ cut \subseteq Onward(insns, tables, from, cut)
         /\ \A i \in Onward(insns, tables, from, cut) : Succs(insns, tables, i) \ cut \subseteq Onward(insns, tables, from, cut)
         /\ \A C : /\ Succs(insns, tables, from) \ cut \subseteq C
                   /\ \A i \in C \cap Indices(insns) : Succs(insns, tables, i) \ cut \subseteq C
              => Onward(insns, tables, from, cut) \subseteq C
<1> DEFINE n == Len(insns)
           I == Indices(insns)
           S == SUBSET I
           x == Succs(insns, tables, from) \ cut
           Step(y) == y \cup UNION {Succs(insns, tables, i) \ cut : i \in y}
           Kept(g) == g = [k \in 0 .. n |-> IF k = 0 THEN x ELSE Step(g[k - 1])]
           grown == CHOOSE g : Kept(g)
           F == [k \in 1 .. n |-> [y \in S |-> Step(y)]]
<1>1. n \in Nat /\ I = 0 .. n - 1
  BY DEF Accepted, Indices
<1>2. IsFiniteSet(I) /\ Cardinality(I) = n
  <2> HIDE DEF n, I
  <2>1. 0 \in Int /\ n - 1 \in Int
    BY <1>1
  <2> DEFINE m == n - 1
  <2>2. IsFiniteSet(0 .. m) /\ Cardinality(0 .. m) = IF 0 > m THEN 0 ELSE m - 0 + 1
    <3> HIDE DEF m
    <3> QED
      BY <2>1, FS_Interval DEF m
  <2> QED
    BY <1>1, <2>2
<1>3. \A i \in I : Succs(insns, tables, i) \subseteq I
  <2>1. ASSUME NEW i \in I, NEW j \in Succs(insns, tables, i)
        PROVE  j \in I
    BY <2>1, EdgesLift DEF Succs
  <2> QED
    BY <2>1
<1>4. Onward(insns, tables, from, cut) = grown[n]
  BY DEF Onward
<1>5. \A k \in 1 .. n : \A y \in S : F[k][y] = Step(y)
  OBVIOUS
<1>6. x \in S
  BY <1>3
<1> HIDE DEF n, I, x, F
<1>7. \A y \in S : Step(y) \in S
  BY <1>3
<1>8. PICK f \in [0 .. n -> S] : Follows(f, n, x, F)
  <2> HIDE DEF Step, S
  <2>1. Stays(n, F, S)
    BY <1>5, <1>7 DEF Stays
  <2> QED
    BY <1>1, <1>6, <2>1, Recursion
<1> HIDE DEF F
<1>9. Kept(f)
  <2> HIDE DEF Step
  <2>1. ASSUME NEW i \in 0 .. n
        PROVE  f[i] = IF i = 0 THEN x ELSE Step(f[i - 1])
    <3>1. CASE i = 0
      BY <1>8, <3>1 DEF Follows
    <3>2. CASE i # 0
      <4>1. i \in 1 .. n /\ i - 1 \in 0 .. n
        BY <1>1, <3>2
      <4>2. f[i - 1] \in S
        BY <4>1
      <4>3. f[i] = F[i][f[i - 1]]
        BY <1>8, <3>2 DEF Follows
      <4> QED
        BY <1>5, <3>2, <4>1, <4>2, <4>3
    <3> QED
      BY <3>1, <3>2
  <2> QED
    BY <1>8, <2>1 DEF Follows
<1>10. Kept(grown)
  <2> HIDE DEF Kept
  <2> QED
    BY <1>9
<1> HIDE DEF grown
<1>11. grown[0] = x /\ \A k \in 1 .. n : grown[k] = Step(grown[k - 1])
  <2> HIDE DEF Step
  <2>1. 0 \in 0 .. n /\ \A k \in 1 .. n : k \in 0 .. n /\ k # 0
    BY <1>1
  <2> QED
    BY <1>10, <2>1
<1>12. \A y : y \subseteq Step(y)
  OBVIOUS
<1> HIDE DEF Step
<1> DEFINE T == {k \in 0 .. n : grown[k] \in S /\ x \subseteq grown[k]}
<1>13. 0 .. n \subseteq T
  <2>1. 0 \in T
    <3>1. 0 \in 0 .. n /\ grown[0] \in S /\ x \subseteq grown[0]
      BY <1>1, <1>6, <1>11
    <3> HIDE DEF S
    <3> QED
      BY <3>1
  <2>2. ASSUME NEW k \in 1 .. n, k - 1 \in T
        PROVE  k \in T
    <3>1. k \in 0 .. n /\ grown[k] = Step(grown[k - 1])
      BY <1>1, <1>11
    <3>2. grown[k - 1] \in S /\ x \subseteq grown[k - 1]
      BY <2>2
    <3>3. grown[k] \in S
      BY <1>7, <3>1, <3>2
    <3>4. x \subseteq grown[k]
      BY <1>12, <3>1, <3>2
    <3> QED
      BY <3>1, <3>3, <3>4
  <2> HIDE DEF T
  <2> QED
    BY <1>1, <2>1, <2>2, Counting
<1>14. \A k \in 0 .. n : grown[k] \subseteq I /\ x \subseteq grown[k]
  BY <1>13
<1>15. \A y \in S : IsFiniteSet(y) /\ Cardinality(y) \in Nat /\ Cardinality(y) <= n
  BY <1>2, FS_Subset, FS_CardinalityType
<1> DEFINE U == {k \in 0 .. n : Step(grown[k]) = grown[k] \/ Cardinality(grown[k]) >= k + 1}
<1>16. n \in U
  <2>1. 0 \in U
    <3>a. 0 \in 0 .. n
      BY <1>1
    <3>1. CASE x = {}
      <4>1. Step({}) = {}
        BY DEF Step
      <4>2. Step(grown[0]) = grown[0]
        BY <1>11, <3>1, <4>1
      <4> QED
        BY <3>a, <4>2
    <3>2. CASE x # {}
      <4>1. IsFiniteSet(x) /\ Cardinality(x) \in Nat /\ Cardinality(x) # 0
        BY <1>6, <1>15, <3>2, FS_EmptySet
      <4>2. Cardinality(grown[0]) >= 0 + 1
        BY <1>11, <4>1
      <4> QED
        BY <3>a, <4>2
    <3> QED
      BY <3>1, <3>2
  <2>2. ASSUME NEW k \in 1 .. n, k - 1 \in U
        PROVE  k \in U
    <3> DEFINE y == grown[k - 1]
    <3>1. k \in 0 .. n /\ k - 1 \in 0 .. n /\ grown[k] = Step(y)
      BY <1>1, <1>11
    <3>2. y \in S
      BY <1>14, <3>1
    <3>3. CASE Step(y) = y
      <4>1. Step(grown[k]) = grown[k]
        BY <3>1, <3>3
      <4> QED
        BY <3>1, <4>1
    <3>4. CASE Step(y) # y
      <4>1. Cardinality(y) >= (k - 1) + 1
        BY <2>2, <3>4
      <4> HIDE DEF y
      <4>2. y \subseteq Step(y) /\ Step(y) \in S
        BY <1>7, <1>12, <3>2
      <4>3. Cardinality(y) \in Nat /\ Cardinality(Step(y)) \in Nat /\ IsFiniteSet(Step(y))
        BY <1>15, <3>2, <4>2
      <4>4. Cardinality(y) <= Cardinality(Step(y)) /\ Cardinality(y) # Cardinality(Step(y))
        BY <3>4, <4>2, <4>3, FS_Subset
      <4>5. Cardinality(grown[k]) >= k + 1
        <5> DEFINE a == Cardinality(y)
                   c == Cardinality(Step(y))
        <5>1. a \in Nat /\ c \in Nat /\ a <= c /\ a # c /\ a >= (k - 1) + 1
          BY <4>1, <4>3, <4>4
        <5> HIDE DEF a, c
        <5>2. c >= k + 1
          BY <5>1
        <5> QED
          BY <3>1, <5>2 DEF c
      <4> QED
        BY <3>1, <4>5
    <3> QED
      BY <3>3, <3>4
  <2> HIDE DEF U
  <2>3. 0 .. n \subseteq U
    BY <1>1, <2>1, <2>2, Counting
  <2> QED
    BY <1>1, <2>3
<1>17. Step(grown[n]) = grown[n]
  <2>1. n \in 0 .. n /\ grown[n] \in S
    BY <1>1, <1>14
  <2>2. Cardinality(grown[n]) \in Nat /\ Cardinality(grown[n]) <= n
    BY <1>15, <2>1
  <2>3. ~(Cardinality(grown[n]) >= n + 1)
    BY <1>1, <2>2
  <2> QED
    BY <1>16, <2>3
<1>18. \A i \in grown[n] : Succs(insns, tables, i) \ cut \subseteq grown[n]
  <2> DEFINE y == grown[n]
  <2> HIDE DEF y
  <2> QED
    BY <1>17 DEF Step, y
<1>19. ASSUME NEW C, x \subseteq C, \A i \in C \cap I : Succs(insns, tables, i) \ cut \subseteq C
       PROVE  grown[n] \subseteq C
  <2> DEFINE V == {k \in 0 .. n : grown[k] \subseteq C}
  <2>1. 0 \in V
    BY <1>1, <1>11, <1>19
  <2>2. ASSUME NEW k \in 1 .. n, k - 1 \in V
        PROVE  k \in V
    <3>1. k \in 0 .. n /\ k - 1 \in 0 .. n /\ grown[k] = Step(grown[k - 1])
      BY <1>1, <1>11
    <3>2. grown[k - 1] \subseteq C /\ grown[k - 1] \subseteq I
      BY <1>14, <2>2, <3>1
    <3>3. Step(grown[k - 1]) \subseteq C
      <4> DEFINE y == grown[k - 1]
      <4> HIDE DEF y
      <4>1. y \subseteq C /\ y \subseteq I
        BY <3>2 DEF y
      <4>2. Step(y) \subseteq C
        BY <1>19, <4>1 DEF Step
      <4> QED
        BY <4>2 DEF y
    <3> QED
      BY <3>1, <3>3
  <2> HIDE DEF V
  <2>3. 0 .. n \subseteq V
    BY <1>1, <2>1, <2>2, Counting
  <2>4. n \in V
    BY <1>1, <2>3
  <2> QED
    BY <2>4 DEF V
<1>20. n \in 0 .. n
  BY <1>1
<1>21. \A C : x \subseteq C /\ (\A i \in C \cap I : Succs(insns, tables, i) \ cut \subseteq C) => grown[n] \subseteq C
  BY <1>19
<1> HIDE DEF S
<1> QED
  BY <1>4, <1>14, <1>18, <1>20, <1>21 DEF I, x

(* What may be executed is the least set with instruction 0 that execution  *)
(* does not leave.                                                          *)
LEMMA LiveIsLeast ==
  ASSUME NEW insns, NEW tables, Accepted(insns, tables), 0 \in Indices(insns)
  PROVE  /\ Live(insns, tables) \subseteq Indices(insns)
         /\ 0 \in Live(insns, tables)
         /\ \A i \in Live(insns, tables) : Succs(insns, tables, i) \subseteq Live(insns, tables)
         /\ \A C : 0 \in C /\ (\A i \in C \cap Indices(insns) : Succs(insns, tables, i) \subseteq C)
              => Live(insns, tables) \subseteq C
<1>1. /\ Onward(insns, tables, 0, {}) \subseteq Indices(insns)
      /\ Succs(insns, tables, 0) \ {} \subseteq Onward(insns, tables, 0, {})
      /\ \A i \in Onward(insns, tables, 0, {}) : Succs(insns, tables, i) \ {} \subseteq Onward(insns, tables, 0, {})
      /\ \A C : /\ Succs(insns, tables, 0) \ {} \subseteq C
                /\ \A i \in C \cap Indices(insns) : Succs(insns, tables, i) \ {} \subseteq C
           => Onward(insns, tables, 0, {}) \subseteq C
  BY OnwardIsLeast
<1>2. \A i : Succs(insns, tables, i) \ {} = Succs(insns, tables, i)
  OBVIOUS
<1>3. Live(insns, tables) = {0} \cup Onward(insns, tables, 0, {})
  <2>1. insns # <<>>
    BY DEF Indices
  <2> QED
    BY <2>1 DEF Live
<1> QED
  BY <1>1, <1>2, <1>3

(* A stream with instructions has a graph of blocks, in which instruction 0 *)
(* is in block 0.                                                           *)
LEMMA GraphHasEntry ==
  ASSUME NEW insns, NEW tables, Accepted(insns, tables), NEW i \in Indices(insns)
  PROVE  /\ IsGraph(BlockGraph(insns, tables), Cardinality(Leaders(insns, tables)))
         /\ BlockIds(insns, tables) = 0 .. Cardinality(Leaders(insns, tables)) - 1
         /\ 0 \in Indices(insns) /\ 0 \in Leaders(insns, tables)
         /\ BlockOf(insns, tables, 0) = 0
<1> DEFINE n == Cardinality(Leaders(insns, tables))
           graph == BlockGraph(insns, tables)
<1>1. /\ n \in Nat /\ BlockIds(insns, tables) = 0 .. n - 1
      /\ DOMAIN graph = BlockIds(insns, tables)
      /\ \A b \in BlockIds(insns, tables) : graph[b] \in Seq(BlockIds(insns, tables))
      /\ BlockOf(insns, tables, i) \in BlockIds(insns, tables)
  BY GraphOfBlocks
<1> HIDE DEF n, graph
<1>2. n # 0
  BY <1>1
<1>3. 0 \in Leaders(insns, tables) /\ 0 \in Indices(insns)
      /\ Leaders(insns, tables) \in SUBSET Nat
  BY LeadersLead
<1>4. BlockOf(insns, tables, 0) = 0
  BY <1>3, BlockCounts, BelowNone
<1>5. IsGraph(graph, n)
  BY <1>1, <1>2 DEF IsGraph
<1> QED
  BY <1>1, <1>3, <1>4, <1>5 DEF n, graph

(* Where an instruction of a block may be executed first all of them may,   *)
(* and so may a block it leads to.                                          *)
LEMMA LiveFollows ==
  ASSUME NEW insns, NEW tables, Accepted(insns, tables),
         NEW l \in Leaders(insns, tables), l \in Live(insns, tables)
  PROVE  \A i \in Indices(insns) :
           BlockOf(insns, tables, i) = BlockOf(insns, tables, l) => i \in Live(insns, tables)
<1>1. l \in Indices(insns)
  BY LeadersLead
<1>2. 0 \in Indices(insns)
  BY <1>1, GraphHasEntry
<1>3. ASSUME NEW i \in Indices(insns), i \in Live(insns, tables), i + 1 \in Indices(insns),
             Plain(insns, tables, i)
      PROVE  i + 1 \in Live(insns, tables)
  <2>1. Targets(insns, tables, i) = <<i + 1>>
    BY <1>3 DEF Plain
  <2>2. i + 1 \in Succs(insns, tables, i)
    BY <2>1 DEF Succs, ToSet
  <2> QED
    BY <1>2, <1>3, <2>2, LiveIsLeast
<1>4. \A i \in Indices(insns) :
        BlockOf(insns, tables, i) = BlockOf(insns, tables, l) => i \in Live(insns, tables)
  BY <1>3, BlockFollows
<1> QED
  BY <1>4

(* The blocks of what may be executed are the reachable ones. *)
LEMMA BlocksCarry ==
  ASSUME NEW insns, NEW tables, Accepted(insns, tables), NEW i \in Indices(insns)
  PROVE  i \in Live(insns, tables) <=>
           BlockOf(insns, tables, i) \in Reachable(BlockGraph(insns, tables))
<1> DEFINE graph == BlockGraph(insns, tables)
           live == Live(insns, tables)
           at(j) == BlockOf(insns, tables, j)
           succs(j) == Succs(insns, tables, j)
           n == Cardinality(Leaders(insns, tables))
           ids == BlockIds(insns, tables)
<1>1. IsGraph(graph, n) /\ ids = 0 .. n - 1
      /\ 0 \in Indices(insns) /\ 0 \in Leaders(insns, tables) /\ at(0) = 0
  BY GraphHasEntry
<1>2. /\ Reachable(graph) \subseteq ids /\ 0 \in Reachable(graph)
      /\ Closed(graph, Reachable(graph))
      /\ \A C \in SUBSET ids : 0 \in C /\ Closed(graph, C) => Reachable(graph) \subseteq C
  <2> HIDE DEF n, ids
  <2> QED
    BY <1>1, ReachableIsLeast
<1>3. /\ live \subseteq Indices(insns) /\ 0 \in live
      /\ \A j \in live : succs(j) \subseteq live
      /\ \A C : 0 \in C /\ (\A j \in C \cap Indices(insns) : succs(j) \subseteq C)
           => live \subseteq C
  BY <1>1, LiveIsLeast
<1>4. \A b \in ids : DOMAIN graph[b] = 1 .. Len(graph[b]) /\ b \in DOMAIN graph
  BY <1>1 DEF IsGraph
<1> HIDE DEF n
<1>5. ASSUME i \in live
      PROVE  at(i) \in Reachable(graph)
  <2> DEFINE C == {j \in Indices(insns) : at(j) \in Reachable(graph)}
  <2>1. 0 \in C
    BY <1>1, <1>2
  <2>2. ASSUME NEW j \in C, NEW k \in succs(j)
        PROVE  k \in C
    <3>1. j \in Indices(insns) /\ at(j) \in Reachable(graph)
      BY <2>2
    <3>2. k \in ToSet(Targets(insns, tables, j))
      BY <2>2 DEF Succs
    <3>3. /\ k \in Indices(insns)
          /\ at(k) = at(j) \/ at(k) \in ToSet(graph[at(j)])
      BY <3>1, <3>2, EdgesLift
    <3>4. ASSUME at(k) \in ToSet(graph[at(j)])
          PROVE  at(k) \in Reachable(graph)
      <4>1. PICK m \in 1 .. Len(graph[at(j)]) : graph[at(j)][m] = at(k)
        BY <1>2, <1>4, <3>1, <3>4 DEF ToSet
      <4> QED
        BY <1>2, <3>1, <4>1 DEF Closed
    <3> QED
      BY <3>1, <3>3, <3>4
  <2>3. live \subseteq C
    <3> HIDE DEF C
    <3> QED
      BY <1>3, <2>1, <2>2
  <2> QED
    BY <1>5, <2>3
<1>6. ASSUME at(i) \in Reachable(graph)
      PROVE  i \in live
  <2> DEFINE C == {b \in ids : \A j \in Indices(insns) : at(j) = b => j \in live}
  <2>1. 0 \in C
    <3>1. \A j \in Indices(insns) : at(j) = at(0) => j \in live
      BY <1>1, <1>3, LiveFollows
    <3> QED
      BY <1>1, <1>2, <3>1
  <2>2. ASSUME NEW b \in C, NEW m \in 1 .. Len(graph[b])
        PROVE  graph[b][m] \in C
    <3> DEFINE c == graph[b][m]
               last == TerminatorOf(insns, tables, b)
    <3>1. b \in ids /\ \A j \in Indices(insns) : at(j) = b => j \in live
      BY <2>2
    <3>2. c \in ToSet(graph[b])
      BY <1>4, <2>2, <3>1 DEF ToSet
    <3>3. c \in ids
      BY <1>1, <3>1, ElementOfSeq DEF IsGraph
    <3> HIDE DEF c
    <3>4. PICK j \in succs(last) : j \in Leaders(insns, tables) /\ at(j) = c
      BY <3>1, <3>2, EdgesFall DEF Succs
    <3>5. last \in Indices(insns) /\ at(last) = b
      BY <3>1, Terminators
    <3> HIDE DEF last
    <3>6. last \in live
      BY <3>1, <3>5
    <3>7. j \in live
      BY <1>3, <3>4, <3>6
    <3>8. \A h \in Indices(insns) : at(h) = at(j) => h \in live
      BY <3>4, <3>7, LiveFollows
    <3>9. c \in C
      BY <3>3, <3>4, <3>8
    <3> QED
      BY <3>9 DEF c
  <2>3. Reachable(graph) \subseteq C
    <3>1. C \subseteq ids /\ Closed(graph, C)
      BY <2>2 DEF Closed
    <3> HIDE DEF C
    <3> QED
      BY <1>2, <2>1, <3>1
  <2> QED
    BY <1>6, <2>3
<1> QED
  BY <1>5, <1>6

-----------------------------------------------------------------------------
(* The object stays what was offered. *)
Offered == object \in Objects

(* The functions whose edges are accepted are accepted streams. *)
LEMMA GraphedAccepts ==
  ASSUME Offered, NEW f \in Graphed
  PROVE  Accepted(Body(object, f), object.tables)
<1>1. WellFormed(object)
  BY ObjectsAssumption DEF Offered
<1>2. object.code \in Seq(Insn) /\ object.funcs \in Seq(Funcs) /\ object.tables \in Seq(Seq(Nat))
      /\ \A k \in 1 .. Len(object.funcs) :
           object.funcs[k].off + object.funcs[k].len <= Len(object.code)
  BY <1>1 DEF WellFormed
<1>3. PICK k \in 1 .. Len(object.funcs) : object.funcs[k] = f
  <2>1. DOMAIN object.funcs = 1 .. Len(object.funcs)
    BY <1>2
  <2> QED
    BY <2>1 DEF Graphed, ToSet
<1>4. f \in Funcs /\ f.off + f.len <= Len(object.code)
  BY <1>2, <1>3, ElementOfSeq
<1>5. f.off \in Nat /\ f.len \in Nat /\ Len(object.code) \in Nat
  BY <1>2, <1>4 DEF Funcs
<1>6. Body(object, f) \in Seq(Insn)
  <2> DEFINE lo == f.off + 1
             hi == f.off + f.len
             code == object.code
  <2>1. lo \in Int /\ hi \in Int
    BY <1>5
  <2>2. \A j \in lo .. hi : j \in 1 .. Len(code)
    BY <1>4, <1>5
  <2>3. \A j \in lo .. hi : code[j] \in Insn
    BY <1>2, <2>2, ElementOfSeq
  <2>4. Body(object, f) = SubSeq(code, lo, hi)
    BY DEF Body
  <2> HIDE DEF lo, hi, code
  <2> QED
    BY <2>1, <2>3, <2>4, SubSeqProperties
<1>7. EdgesOk(Body(object, f), object.tables)
  BY DEF Graphed
<1> QED
  BY <1>2, <1>6, <1>7 DEF Accepted

(* The object is one that may be offered, always. *)
THEOREM ObjectStays == Spec => []Offered
<1>1. Init => Offered
  BY DEF Init, Offered
<1>2. Offered /\ [Next]_vars => Offered'
  BY DEF Offered, Next, Admit, vars
<1> QED
  BY <1>1, <1>2, PTL DEF Spec

(* The reachable blocks of the graph (cfg.rs reverse_postorder) carry       *)
(* exactly the instructions that execution may reach, whatever the object.  *)
THEOREM BlocksCarryFlowHolds == Spec => []BlocksCarryFlow
<1>1. ASSUME Offered
      PROVE  BlocksCarryFlow
  <2>1. ASSUME NEW f \in Graphed, NEW i \in Indices(Body(object, f))
        PROVE  i \in Live(Body(object, f), object.tables) <=>
                 BlockOf(Body(object, f), object.tables, i)
                   \in Reachable(BlockGraph(Body(object, f), object.tables))
    <3> DEFINE insns == Body(object, f)
    <3>1. Accepted(insns, object.tables)
      BY <1>1, GraphedAccepts
    <3> HIDE DEF insns
    <3>2. \A j \in Indices(insns) :
            j \in Live(insns, object.tables) <=>
              BlockOf(insns, object.tables, j) \in Reachable(BlockGraph(insns, object.tables))
      BY <3>1, BlocksCarry
    <3> QED
      BY <3>2 DEF insns
  <2> QED
    BY <2>1 DEF BlocksCarryFlow
<1> QED
  BY <1>1, ObjectStays, PTL

-----------------------------------------------------------------------------
(* Dominators.                                                              *)

(* What the dominators need of the order of the blocks: each is listed once *)
(* and behind one of its predecessors, and no edge leaves the list.         *)
Ordered(graph, n, rpo) ==
  /\ IsGraph(graph, n)
  /\ rpo \in Seq(0 .. n - 1) /\ Len(rpo) \in Nat /\ Len(rpo) # 0
  /\ rpo[1] = 0
  /\ \A i, j \in 1 .. Len(rpo) : i # j => rpo[i] # rpo[j]
  /\ \A i \in 2 .. Len(rpo) : \E j \in 1 .. i - 1 : EdgeTo(graph, rpo[j], rpo[i])
  /\ Closed(graph, ToSet(rpo))

(* The reverse postorder is such an order. *)
LEMMA PostorderIsOrdered ==
  ASSUME NEW graph, NEW n, IsGraph(graph, n)
  PROVE  Ordered(graph, n, ReversePostorder(graph))
<1>1. Closed(graph, ToSet(ReversePostorder(graph)))
  BY ReachableIsLeast DEF Reachable
<1> QED
  BY <1>1, PostorderReversed DEF Ordered

(* The numbers of the blocks in the order. *)
LEMMA Numbered ==
  ASSUME NEW graph, NEW n, NEW rpo, Ordered(graph, n, rpo)
  PROVE  LET num == Number(rpo)
             R == ToSet(rpo)
         IN /\ R \subseteq 0 .. n - 1 /\ 0 \in R /\ num[0] = 1
            /\ \A b \in R : num[b] \in 1 .. Len(rpo) /\ rpo[num[b]] = b
            /\ \A i \in 1 .. Len(rpo) : rpo[i] \in R /\ num[rpo[i]] = i
            /\ \A a, b \in R : num[a] = num[b] => a = b
            /\ \A b \in R : b # 0 => \E p \in R : EdgeTo(graph, p, b) /\ num[p] < num[b]
            /\ \A b \in R : \A c : EdgeTo(graph, b, c) => c \in R
            /\ n \in Nat /\ Len(rpo) \in Nat /\ Len(rpo) >= 1 /\ Len(rpo) <= n
<1> DEFINE num == Number(rpo)
           R == ToSet(rpo)
           l == Len(rpo)
<1>1. /\ rpo \in Seq(0 .. n - 1) /\ l \in Nat /\ l >= 1 /\ rpo[1] = 0
      /\ \A i, j \in 1 .. l : i # j => rpo[i] # rpo[j]
      /\ \A i \in 2 .. l : \E j \in 1 .. i - 1 : EdgeTo(graph, rpo[j], rpo[i])
      /\ Closed(graph, R) /\ n \in Nat
  BY DEF Ordered, IsGraph
<1>2. DOMAIN rpo = 1 .. l /\ \A i \in 1 .. l : rpo[i] \in 0 .. n - 1
  BY <1>1, ElementOfSeq
<1>3. num = [b \in R |-> CHOOSE i \in 1 .. l : rpo[i] = b]
  BY DEF Number
<1>4. R = {rpo[i] : i \in 1 .. l}
  BY <1>2 DEF ToSet
<1> HIDE DEF num, R, l
<1>5. ASSUME NEW b \in R
      PROVE  num[b] \in 1 .. l /\ rpo[num[b]] = b
  <2>1. \E i \in 1 .. l : rpo[i] = b
    BY <1>4
  <2>2. num[b] = CHOOSE i \in 1 .. l : rpo[i] = b
    BY <1>3
  <2> QED
    BY <2>1, <2>2, Zenon
<1>6. ASSUME NEW i \in 1 .. l
      PROVE  rpo[i] \in R /\ num[rpo[i]] = i
  <2>1. rpo[i] \in R
    BY <1>4
  <2>2. num[rpo[i]] \in 1 .. l /\ rpo[num[rpo[i]]] = rpo[i]
    BY <1>5, <2>1
  <2> QED
    BY <1>1, <2>1, <2>2
<1>7. 0 \in R /\ num[0] = 1
  <2>1. 1 \in 1 .. l
    BY <1>1
  <2> QED
    BY <1>1, <1>6, <2>1
<1>8. ASSUME NEW b \in R, b # 0
      PROVE  \E p \in R : EdgeTo(graph, p, b) /\ num[p] < num[b]
  <2>1. num[b] \in 1 .. l /\ rpo[num[b]] = b /\ num[b] # 1
    BY <1>1, <1>5, <1>8
  <2>2. num[b] \in 2 .. l
    BY <1>1, <2>1
  <2>3. PICK j \in 1 .. num[b] - 1 : EdgeTo(graph, rpo[j], rpo[num[b]])
    BY <1>1, <2>2
  <2>4. j \in 1 .. l /\ j < num[b]
    BY <1>1, <2>2
  <2> QED
    BY <1>6, <2>1, <2>3, <2>4
<1>9. ASSUME NEW b \in R, NEW c, EdgeTo(graph, b, c)
      PROVE  c \in R
  BY <1>1, <1>9 DEF EdgeTo, Closed
<1>10. l <= n
  <2>1. IsFiniteSet(0 .. n - 1) /\ Cardinality(0 .. n - 1) = n
    <3> DEFINE m == n - 1
    <3>1. m \in Int /\ 0 \in Int
      BY <1>1
    <3> HIDE DEF m
    <3>2. IsFiniteSet(0 .. m) /\ Cardinality(0 .. m) = IF 0 > m THEN 0 ELSE m - 0 + 1
      BY <3>1, FS_Interval
    <3> QED
      BY <1>1, <3>2 DEF m
  <2>2. IsFiniteSet(1 .. l) /\ Cardinality(1 .. l) = l
    <3>1. 1 \in Int /\ l \in Int
      BY <1>1
    <3>2. IsFiniteSet(1 .. l) /\ Cardinality(1 .. l) = IF 1 > l THEN 0 ELSE l - 1 + 1
      BY <3>1, FS_Interval
    <3> QED
      BY <1>1, <3>2
  <2> DEFINE f == [i \in 1 .. l |-> rpo[i]]
             N == 0 .. n - 1
  <2>3. f \in Injection(1 .. l, N)
    <3>1. f \in [1 .. l -> N]
      BY <1>2
    <3>2. \A i, j \in 1 .. l : f[i] = f[j] => i = j
      BY <1>1
    <3> HIDE DEF f, N
    <3> QED
      BY <3>1, <3>2 DEF Injection, IsInjective
  <2> HIDE DEF f, N
  <2>4. Cardinality(1 .. l) <= Cardinality(N)
    BY <2>1, <2>3, FS_Injection DEF N
  <2> QED
    BY <2>1, <2>2, <2>4 DEF N
<1>11. R \subseteq 0 .. n - 1
  BY <1>2, <1>4
<1>12. \A a, b \in R : num[a] = num[b] => a = b
  BY <1>5
<1> QED
  BY <1>1, <1>5, <1>6, <1>7, <1>8, <1>9, <1>10, <1>11, <1>12 DEF num, R, l

(* Blocks that have been processed, and an assignment that climbs: each of  *)
(* them has a processed one further up.                                     *)
Known(d) == {b \in DOMAIN d : d[b] # UNDEF}
Climbs(n, rpo, d) ==
  /\ d \in [0 .. n - 1 -> (0 .. n - 1) \cup {UNDEF}]
  /\ d[0] = 0
  /\ Known(d) \subseteq ToSet(rpo)
  /\ \A b \in Known(d) : b # 0 =>
       d[b] \in Known(d) /\ Number(rpo)[d[b]] < Number(rpo)[b]

(* A chain is the least set with its block that climbing does not leave; it *)
(* ends at the entry.                                                       *)
LEMMA ChainIsLeast ==
  ASSUME NEW graph, NEW n, NEW rpo, Ordered(graph, n, rpo),
         NEW d, Climbs(n, rpo, d), NEW b \in Known(d)
  PROVE  /\ b \in Chain(d, b) /\ 0 \in Chain(d, b) /\ Chain(d, b) \subseteq Known(d)
         /\ \A x \in Chain(d, b) : d[x] \in Chain(d, b)
         /\ \A C : b \in C /\ (\A x \in C \cap Known(d) : d[x] \in C) => Chain(d, b) \subseteq C
<1> DEFINE num == Number(rpo)
           m == Cardinality(DOMAIN d)
           S == Known(d)
           Kept(g) == g = [k \in 0 .. m |-> IF k = 0 THEN b ELSE d[g[k - 1]]]
           up == CHOOSE g : Kept(g)
           F == [k \in 1 .. m |-> [y \in S |-> d[y]]]
<1>1. /\ \A x \in S : num[x] \in Nat /\ num[x] >= 1 /\ num[x] <= Len(rpo)
      /\ n \in Nat /\ Len(rpo) \in Nat /\ Len(rpo) >= 1 /\ Len(rpo) <= n
  <2>1. \A x \in ToSet(rpo) : num[x] \in 1 .. Len(rpo)
    BY Numbered
  <2>2. n \in Nat /\ Len(rpo) \in Nat /\ Len(rpo) >= 1 /\ Len(rpo) <= n
    BY Numbered
  <2> HIDE DEF num
  <2>3. S \subseteq ToSet(rpo)
    BY DEF Climbs
  <2> QED
    BY <2>1, <2>2, <2>3
<1>2. /\ d[0] = 0 /\ DOMAIN d = 0 .. n - 1
      /\ \A x \in S : x # 0 => d[x] \in S /\ num[d[x]] < num[x]
  BY DEF Climbs
<1>3. m = n
  <2> DEFINE e == n - 1
  <2>1. e \in Int /\ 0 \in Int
    BY <1>1
  <2> HIDE DEF e
  <2>2. Cardinality(0 .. e) = IF 0 > e THEN 0 ELSE e - 0 + 1
    BY <2>1, FS_Interval
  <2> QED
    BY <1>1, <1>2, <2>2 DEF e
<1>4. Chain(d, b) = {up[k] : k \in DOMAIN up}
  BY DEF Chain
<1>5. \A k \in 1 .. m : \A y \in S : F[k][y] = d[y]
  OBVIOUS
<1>6. \A y \in S : d[y] \in S
  <2>1. \A y \in S : y = 0 => d[y] \in S
    BY <1>2
  <2> QED
    BY <1>2, <2>1
<1> HIDE DEF num, m, S, F
<1>7. b \in S
  BY DEF S
<1>8. PICK f \in [0 .. m -> S] : Follows(f, m, b, F)
  <2>1. Stays(m, F, S)
    BY <1>5, <1>6 DEF Stays
  <2> QED
    BY <1>1, <1>3, <1>7, <2>1, Recursion
<1> HIDE DEF F
<1>9. Kept(f)
  <2>1. ASSUME NEW i \in 0 .. m
        PROVE  f[i] = IF i = 0 THEN b ELSE d[f[i - 1]]
    <3>1. CASE i = 0
      BY <1>8, <3>1 DEF Follows
    <3>2. CASE i # 0
      <4>1. i \in 1 .. m /\ i - 1 \in 0 .. m
        BY <1>1, <1>3, <3>2
      <4>2. f[i - 1] \in S
        BY <4>1
      <4>3. f[i] = F[i][f[i - 1]]
        BY <1>8, <3>2 DEF Follows
      <4> QED
        BY <1>5, <3>2, <4>1, <4>2, <4>3
    <3> QED
      BY <3>1, <3>2
  <2> QED
    BY <1>8, <2>1 DEF Follows
<1>10. Kept(up)
  <2> HIDE DEF Kept
  <2> QED
    BY <1>9
<1> HIDE DEF up
<1>11. /\ DOMAIN up = 0 .. m /\ up[0] = b
       /\ \A k \in 1 .. m : up[k] = d[up[k - 1]]
  <2>1. 0 \in 0 .. m /\ \A k \in 1 .. m : k \in 0 .. m /\ k # 0
    BY <1>1, <1>3
  <2> QED
    BY <1>10, <2>1
<1>12. Chain(d, b) = {up[k] : k \in 0 .. m}
  BY <1>4, <1>11
<1> DEFINE T == {k \in 0 .. m : up[k] \in S /\ (up[k] = 0 \/ num[up[k]] + k <= num[b])}
<1>13. 0 .. m \subseteq T
  <2>1. 0 \in T
    <3>1. 0 \in 0 .. m /\ up[0] \in S /\ num[up[0]] + 0 <= num[b]
      BY <1>1, <1>3, <1>7, <1>11
    <3> QED
      BY <3>1
  <2>2. ASSUME NEW k \in 1 .. m, k - 1 \in T
        PROVE  k \in T
    <3> DEFINE x == up[k - 1]
    <3>1. x \in S /\ (x = 0 \/ num[x] + (k - 1) <= num[b]) /\ up[k] = d[x] /\ k \in 0 .. m
      BY <1>1, <1>3, <1>11, <2>2
    <3> HIDE DEF x
    <3>2. CASE x = 0
      <4>1. up[k] \in S /\ up[k] = 0
        BY <1>2, <3>1, <3>2
      <4> QED
        BY <3>1, <4>1
    <3>3. CASE x # 0
      <4>1. up[k] \in S /\ num[up[k]] < num[x]
        BY <1>2, <3>1, <3>3
      <4>2. num[up[k]] \in Nat /\ num[x] \in Nat /\ num[b] \in Nat
        BY <1>1, <1>7, <3>1, <4>1
      <4>3. num[up[k]] + k <= num[b]
        BY <3>1, <3>3, <4>1, <4>2
      <4> QED
        BY <3>1, <4>1, <4>3
    <3> QED
      BY <3>2, <3>3
  <2> HIDE DEF T
  <2> QED
    BY <1>1, <1>3, <2>1, <2>2, Counting
<1>14. \A k \in 0 .. m : up[k] \in S
  BY <1>13
<1>15. up[m] = 0
  <2> SUFFICES ASSUME up[m] # 0
               PROVE  FALSE
    OBVIOUS
  <2>1. m \in 0 .. m
    BY <1>1, <1>3
  <2>2. up[m] \in S /\ num[up[m]] + m <= num[b]
    BY <1>13, <2>1
  <2>3. num[up[m]] \in Nat /\ num[up[m]] >= 1 /\ num[b] \in Nat /\ num[b] <= n
    BY <1>1, <1>7, <2>2
  <2> QED
    BY <1>1, <1>3, <2>2, <2>3
<1>16. b \in Chain(d, b)
  <2>1. 0 \in 0 .. m
    BY <1>1, <1>3
  <2> QED
    BY <1>11, <1>12, <2>1
<1>17. ASSUME NEW x \in Chain(d, b)
       PROVE  d[x] \in Chain(d, b)
  <2>1. PICK k \in 0 .. m : up[k] = x
    BY <1>12
  <2>2. CASE k = m
    BY <1>2, <1>15, <2>1, <2>2
  <2>3. CASE k # m
    <3>1. k + 1 \in 1 .. m /\ k + 1 \in 0 .. m /\ (k + 1) - 1 = k
      BY <1>1, <1>3, <2>3
    <3>2. up[k + 1] = d[x]
      BY <1>11, <2>1, <3>1
    <3> QED
      BY <1>12, <3>1, <3>2
  <2> QED
    BY <2>2, <2>3
<1>18. ASSUME NEW C, b \in C, \A x \in C \cap S : d[x] \in C
       PROVE  Chain(d, b) \subseteq C
  <2> DEFINE U == {k \in 0 .. m : up[k] \in C}
  <2>1. 0 \in U
    BY <1>1, <1>3, <1>11, <1>18
  <2>2. ASSUME NEW k \in 1 .. m, k - 1 \in U
        PROVE  k \in U
    <3>1. k \in 0 .. m /\ k - 1 \in 0 .. m /\ up[k] = d[up[k - 1]] /\ up[k - 1] \in C
      BY <1>1, <1>3, <1>11, <2>2
    <3>2. up[k] \in C
      BY <1>14, <1>18, <3>1
    <3> QED
      BY <3>1, <3>2
  <2> HIDE DEF U
  <2>3. 0 .. m \subseteq U
    BY <1>1, <1>3, <2>1, <2>2, Counting
  <2> QED
    BY <1>12, <2>3 DEF U
<1>19. Chain(d, b) \subseteq S
  BY <1>12, <1>14
<1>20. 0 \in Chain(d, b)
  <2>1. m \in 0 .. m
    BY <1>1, <1>3
  <2> QED
    BY <1>12, <1>15, <2>1
<1> QED
  BY <1>16, <1>17, <1>18, <1>19, <1>20 DEF S

(* The chain of a block is the block and the chain of the one above it; it  *)
(* goes up, and holds the chains of its blocks.                             *)
LEMMA ChainSteps ==
  ASSUME NEW graph, NEW n, NEW rpo, Ordered(graph, n, rpo),
         NEW d, Climbs(n, rpo, d), NEW b \in Known(d)
  PROVE  /\ b = 0 => Chain(d, b) = {0}
         /\ b # 0 => d[b] \in Known(d) /\ Chain(d, b) = {b} \cup Chain(d, d[b])
         /\ \A x \in Chain(d, b) : x # b => Number(rpo)[x] < Number(rpo)[b]
         /\ \A x \in Chain(d, b) : Chain(d, x) \subseteq Chain(d, b)
<1> DEFINE num == Number(rpo)
<1>1. /\ b \in Chain(d, b) /\ Chain(d, b) \subseteq Known(d)
      /\ \A x \in Chain(d, b) : d[x] \in Chain(d, b)
      /\ \A C : b \in C /\ (\A x \in C \cap Known(d) : d[x] \in C) => Chain(d, b) \subseteq C
  BY ChainIsLeast
<1>2. d[0] = 0 /\ \A x \in Known(d) : x # 0 => d[x] \in Known(d) /\ num[d[x]] < num[x]
  BY DEF Climbs
<1>3. \A x \in Known(d) : num[x] \in Nat
  <2>1. \A x \in ToSet(rpo) : num[x] \in 1 .. Len(rpo)
    BY Numbered
  <2> HIDE DEF num
  <2> QED
    BY <2>1 DEF Climbs
<1> HIDE DEF num
<1>4. b = 0 => Chain(d, b) = {0}
  <2>1. ASSUME b = 0
        PROVE  Chain(d, b) \subseteq {0}
    BY <1>1, <1>2, <2>1
  <2> QED
    BY <1>1, <2>1
<1>5. ASSUME NEW x \in Chain(d, b)
      PROVE  Chain(d, x) \subseteq Chain(d, b)
  <2>1. x \in Known(d)
    BY <1>1
  <2>2. \A C : x \in C /\ (\A y \in C \cap Known(d) : d[y] \in C) => Chain(d, x) \subseteq C
    BY <2>1, ChainIsLeast
  <2> QED
    BY <1>1, <2>2
<1>6. ASSUME b # 0
      PROVE  d[b] \in Known(d) /\ Chain(d, b) = {b} \cup Chain(d, d[b])
  <2>1. d[b] \in Known(d)
    BY <1>2, <1>6
  <2>2. d[b] \in Chain(d, d[b]) /\ \A x \in Chain(d, d[b]) : d[x] \in Chain(d, d[b])
    BY <2>1, ChainIsLeast
  <2>3. Chain(d, d[b]) \subseteq Chain(d, b)
    BY <1>1, <1>5
  <2>4. Chain(d, b) \subseteq {b} \cup Chain(d, d[b])
    BY <1>1, <2>2
  <2> QED
    BY <1>1, <2>1, <2>3, <2>4
<1>7. ASSUME NEW x \in Chain(d, b), x # b
      PROVE  num[x] < num[b]
  <2> DEFINE C == {y \in Known(d) : y = b \/ num[y] < num[b]}
  <2>1. ASSUME NEW y \in C \cap Known(d)
        PROVE  d[y] \in C
    <3>1. CASE y = 0
      BY <1>2, <2>1, <3>1
    <3>2. CASE y # 0
      <4>1. d[y] \in Known(d) /\ num[d[y]] < num[y]
        BY <1>2, <2>1, <3>2
      <4>2. num[d[y]] \in Nat /\ num[y] \in Nat /\ num[b] \in Nat
        BY <1>3, <2>1, <4>1
      <4>3. num[d[y]] < num[b]
        BY <2>1, <4>1, <4>2
      <4> QED
        BY <4>1, <4>3
    <3> QED
      BY <3>1, <3>2
  <2>2. b \in C
    OBVIOUS
  <2> HIDE DEF C
  <2>3. Chain(d, b) \subseteq C
    BY <1>1, <2>1, <2>2
  <2> QED
    BY <1>7, <2>3 DEF C
<1> QED
  BY <1>4, <1>5, <1>6, <1>7 DEF num

(* Of two blocks of a chain the higher is on the chain of the lower. *)
LEMMA ChainOrder ==
  ASSUME NEW graph, NEW n, NEW rpo, Ordered(graph, n, rpo),
         NEW d, Climbs(n, rpo, d), NEW z \in Known(d),
         NEW u \in Chain(d, z), NEW c \in Chain(d, z),
         Number(rpo)[u] <= Number(rpo)[c]
  PROVE  u \in Chain(d, c)
<1> DEFINE num == Number(rpo)
           C == {y \in Chain(d, z) : u \in Chain(d, y) \/ y \in Chain(d, u)}
<1>1. /\ z \in Chain(d, z) /\ Chain(d, z) \subseteq Known(d)
      /\ \A x \in Chain(d, z) : d[x] \in Chain(d, z)
      /\ \A D : z \in D /\ (\A x \in D \cap Known(d) : d[x] \in D) => Chain(d, z) \subseteq D
  BY ChainIsLeast
<1>2. u \in Known(d) /\ c \in Known(d)
  BY <1>1
<1>3. u \in Chain(d, u) /\ \A x \in Chain(d, u) : d[x] \in Chain(d, u)
  BY <1>2, ChainIsLeast
<1>4. \A x \in Chain(d, u) : x # u => num[x] < num[u]
  BY <1>2, ChainSteps
<1>5. d[0] = 0 /\ \A x \in Known(d) : num[x] \in Nat
  <2>1. \A x \in ToSet(rpo) : num[x] \in 1 .. Len(rpo)
    BY Numbered
  <2> HIDE DEF num
  <2> QED
    BY <2>1 DEF Climbs
<1>6. ASSUME NEW y \in C
      PROVE  d[y] \in C
  <2>1. y \in Known(d) /\ d[y] \in Chain(d, z)
    BY <1>1
  <2>2. CASE y \in Chain(d, u)
    BY <1>3, <2>1, <2>2
  <2>3. CASE y = 0
    BY <1>5, <1>6, <2>3
  <2>4. CASE y \notin Chain(d, u) /\ y # 0
    <3>1. Chain(d, y) = {y} \cup Chain(d, d[y])
      BY <2>1, <2>4, ChainSteps
    <3>2. u \in Chain(d, d[y])
      BY <1>3, <2>4, <3>1
    <3> QED
      BY <2>1, <3>2
  <2> QED
    BY <2>2, <2>3, <2>4
<1>7. z \in C
  BY <1>1
<1>8. c \in C
  BY <1>1, <1>6, <1>7
<1>9. CASE c \in Chain(d, u)
  <2>1. c = u
    <3> HIDE DEF num
    <3>1. num[u] <= num[c]
      BY DEF num
    <3> QED
      BY <1>2, <1>4, <1>5, <1>9, <3>1
  <2> QED
    BY <1>3, <2>1
<1> QED
  BY <1>8, <1>9

(* Where two chains meet: what is on both is on the chain from there. *)
LEMMA IntersectMeets ==
  ASSUME NEW graph, NEW n, NEW rpo, Ordered(graph, n, rpo),
         NEW d, Climbs(n, rpo, d), NEW p \in Known(d), NEW q \in Known(d)
  PROVE  /\ Intersect(rpo, d, p, q) \in Known(d)
         /\ Chain(d, Intersect(rpo, d, p, q)) = Chain(d, p) \cap Chain(d, q)
<1> DEFINE num == Number(rpo)
           l == Len(rpo)
           bound == 2 * l
           S == Known(d)
           Higher(at) == IF at[1] = at[2] THEN at
                         ELSE IF num[at[1]] > num[at[2]] THEN <<d[at[1]], at[2]>>
                         ELSE <<at[1], d[at[2]]>>
           Kept(g) == g = [k \in 0 .. bound |->
                             IF k = 0 THEN <<p, q>>
                             ELSE LET at == g[k - 1]
                                  IN IF at[1] = at[2] THEN at
                                     ELSE IF num[at[1]] > num[at[2]] THEN <<d[at[1]], at[2]>>
                                     ELSE <<at[1], d[at[2]]>>]
           climb == CHOOSE g : Kept(g)
           F == [k \in 1 .. bound |-> [y \in S \X S |-> Higher(y)]]
           common == Chain(d, p) \cap Chain(d, q)
<1>1. \A x \in S : num[x] \in Nat /\ num[x] >= 1 /\ num[x] <= l
  <2>1. \A x \in ToSet(rpo) : num[x] \in 1 .. l
    BY Numbered
  <2>2. l \in Nat
    BY Numbered
  <2> HIDE DEF num, l
  <2>3. S \subseteq ToSet(rpo)
    BY DEF Climbs
  <2> QED
    BY <2>1, <2>2, <2>3
<1>2. l \in Nat /\ l >= 1 /\ num[0] = 1
  BY Numbered
<1>3. /\ d[0] = 0
      /\ \A x \in S : x # 0 => d[x] \in S /\ num[d[x]] < num[x]
  BY DEF Climbs
<1>4. \A x, y \in S : num[x] = num[y] => x = y
  <2>1. \A x, y \in ToSet(rpo) : num[x] = num[y] => x = y
    BY Numbered
  <2> QED
    BY <2>1 DEF Climbs
<1>5. Intersect(rpo, d, p, q) = climb[bound][1]
  BY DEF Intersect
<1>6. bound \in Nat
  BY <1>2
<1>7. ASSUME NEW a \in S, NEW b \in S, a # b, Chain(d, a) \cap Chain(d, b) = common
      PROVE  LET at == Higher(<<a, b>>)
             IN /\ at \in S \X S /\ Chain(d, at[1]) \cap Chain(d, at[2]) = common
                /\ num[at[1]] + num[at[2]] < num[a] + num[b]
  <2>1. num[a] \in Nat /\ num[b] \in Nat /\ num[a] >= 1 /\ num[b] >= 1 /\ num[a] # num[b]
    BY <1>1, <1>4, <1>7
  <2> HIDE DEF num, S, common
  <2>2. CASE num[a] > num[b]
    <3>1. a # 0
      BY <1>2, <2>1, <2>2
    <3>2. d[a] \in S /\ num[d[a]] < num[a] /\ num[d[a]] \in Nat
      BY <1>1, <1>3, <3>1
    <3>3. Chain(d, a) = {a} \cup Chain(d, d[a])
      BY <3>1, ChainSteps DEF S
    <3>4. a \notin Chain(d, b)
      <4>1. \A x \in Chain(d, b) : x # b => num[x] < num[b]
        BY ChainSteps DEF S, num
      <4> QED
        BY <1>7, <2>1, <2>2, <4>1
    <3>5. Chain(d, d[a]) \cap Chain(d, b) = common
      BY <1>7, <3>3, <3>4
    <3>6. Higher(<<a, b>>) = <<d[a], b>>
      BY <1>7, <2>2
    <3>7. num[d[a]] + num[b] < num[a] + num[b]
      BY <2>1, <3>2
    <3> QED
      BY <3>2, <3>5, <3>6, <3>7
  <2>3. CASE ~(num[a] > num[b])
    <3>1. b # 0
      BY <1>2, <2>1, <2>3
    <3>2. d[b] \in S /\ num[d[b]] < num[b] /\ num[d[b]] \in Nat
      BY <1>1, <1>3, <3>1
    <3>3. Chain(d, b) = {b} \cup Chain(d, d[b])
      BY <3>1, ChainSteps DEF S
    <3>4. b \notin Chain(d, a)
      <4>1. \A x \in Chain(d, a) : x # a => num[x] < num[a]
        BY ChainSteps DEF S, num
      <4> QED
        BY <1>7, <2>1, <2>3, <4>1
    <3>5. Chain(d, a) \cap Chain(d, d[b]) = common
      BY <1>7, <3>3, <3>4
    <3>6. Higher(<<a, b>>) = <<a, d[b]>>
      BY <1>7, <2>3
    <3>7. num[a] + num[d[b]] < num[a] + num[b]
      BY <2>1, <3>2
    <3> QED
      BY <3>2, <3>5, <3>6, <3>7
  <2> QED
    BY <2>2, <2>3
<1>8. \A k \in 1 .. bound : \A y \in S \X S : F[k][y] = Higher(y)
  OBVIOUS
<1>9. \A y \in S \X S : Higher(y) \in S \X S
  <2>1. \A x \in S : d[x] \in S
    BY <1>3
  <2> HIDE DEF num, S
  <2> QED
    BY <2>1
<1> HIDE DEF num, l, bound, S, F, common
<1>10. PICK f \in [0 .. bound -> S \X S] : Follows(f, bound, <<p, q>>, F)
  <2>1. Stays(bound, F, S \X S)
    <3> HIDE DEF Higher
    <3> QED
      BY <1>8, <1>9 DEF Stays
  <2>2. <<p, q>> \in S \X S
    BY DEF S
  <2> QED
    BY <1>6, <2>1, <2>2, Recursion
<1> HIDE DEF F
<1>11. Kept(f)
  <2>1. ASSUME NEW i \in 0 .. bound
        PROVE  f[i] = IF i = 0 THEN <<p, q>> ELSE Higher(f[i - 1])
    <3> HIDE DEF Higher
    <3>1. CASE i = 0
      BY <1>10, <3>1 DEF Follows
    <3>2. CASE i # 0
      <4>1. i \in 1 .. bound /\ i - 1 \in 0 .. bound
        BY <1>6, <3>2
      <4>2. f[i - 1] \in S \X S
        BY <4>1
      <4>3. f[i] = F[i][f[i - 1]]
        BY <1>10, <3>2 DEF Follows
      <4> QED
        BY <1>8, <3>2, <4>1, <4>2, <4>3
    <3> QED
      BY <3>1, <3>2
  <2> QED
    BY <1>10, <2>1 DEF Follows
<1>12. Kept(climb)
  <2> HIDE DEF Kept
  <2> QED
    BY <1>11
<1> HIDE DEF climb
<1>13. climb[0] = <<p, q>> /\ \A k \in 1 .. bound : climb[k] = Higher(climb[k - 1])
  <2>1. 0 \in 0 .. bound /\ \A k \in 1 .. bound : k \in 0 .. bound /\ k # 0
    BY <1>6
  <2> QED
    BY <1>12, <2>1
<1> HIDE DEF Kept
<1> DEFINE T == {k \in 0 .. bound :
                   /\ climb[k] \in S \X S
                   /\ Chain(d, climb[k][1]) \cap Chain(d, climb[k][2]) = common
                   /\ \/ climb[k][1] = climb[k][2]
                      \/ num[climb[k][1]] + num[climb[k][2]] + k <= bound}
<1>14. 0 .. bound \subseteq T
  <2>1. 0 \in T
    <3>1. num[p] + num[q] + 0 <= bound
      <4>1. num[p] \in Nat /\ num[q] \in Nat /\ num[p] <= l /\ num[q] <= l
        BY <1>1 DEF S
      <4> QED
        BY <1>2, <4>1 DEF bound
    <3>2. p \in S /\ q \in S /\ 0 \in 0 .. bound
      BY <1>6 DEF S
    <3>3. Chain(d, p) \cap Chain(d, q) = common
      BY DEF common
    <3> QED
      BY <1>13, <3>1, <3>2, <3>3
  <2>2. ASSUME NEW k \in 1 .. bound, k - 1 \in T
        PROVE  k \in T
    <3> DEFINE at == climb[k - 1]
    <3>1. /\ at \in S \X S /\ Chain(d, at[1]) \cap Chain(d, at[2]) = common
          /\ at[1] = at[2] \/ num[at[1]] + num[at[2]] + (k - 1) <= bound
      BY <2>2
    <3>2. climb[k] = Higher(at) /\ k \in 0 .. bound
      BY <1>6, <1>13
    <3> HIDE DEF at
    <3>3. CASE at[1] = at[2]
      <4>1. climb[k] = at
        BY <3>2, <3>3
      <4> QED
        BY <3>1, <3>2, <3>3, <4>1
    <3>4. CASE at[1] # at[2]
      <4>1. at[1] \in S /\ at[2] \in S /\ at = <<at[1], at[2]>>
        BY <3>1
      <4>2. /\ climb[k] \in S \X S /\ Chain(d, climb[k][1]) \cap Chain(d, climb[k][2]) = common
            /\ num[climb[k][1]] + num[climb[k][2]] < num[at[1]] + num[at[2]]
        <5> HIDE DEF Higher
        <5> QED
          BY <1>7, <3>1, <3>2, <3>4, <4>1
      <4>3. num[climb[k][1]] + num[climb[k][2]] + k <= bound
        <5>1. climb[k][1] \in S /\ climb[k][2] \in S
          BY <4>2
        <5>2. /\ num[at[1]] \in Nat /\ num[at[2]] \in Nat
              /\ num[climb[k][1]] \in Nat /\ num[climb[k][2]] \in Nat
          BY <1>1, <4>1, <5>1
        <5> QED
          BY <1>6, <3>1, <3>4, <4>2, <5>2
      <4> QED
        BY <3>2, <4>2, <4>3
    <3> QED
      BY <3>3, <3>4
  <2> HIDE DEF T
  <2> QED
    BY <1>6, <2>1, <2>2, Counting
<1>15. /\ climb[bound] \in S \X S
       /\ Chain(d, climb[bound][1]) \cap Chain(d, climb[bound][2]) = common
       /\ \/ climb[bound][1] = climb[bound][2]
          \/ num[climb[bound][1]] + num[climb[bound][2]] + bound <= bound
  <2>1. bound \in 0 .. bound
    BY <1>6
  <2> QED
    BY <1>14, <2>1
<1>16. climb[bound][1] = climb[bound][2]
  <2>1. climb[bound][1] \in S /\ climb[bound][2] \in S
    BY <1>15
  <2> DEFINE a == num[climb[bound][1]]
             b == num[climb[bound][2]]
  <2>2. a \in Nat /\ b \in Nat /\ a >= 1 /\ b >= 1
    BY <1>1, <2>1
  <2>3. climb[bound][1] # climb[bound][2] => a + b + bound <= bound
    BY <1>15
  <2> HIDE DEF a, b
  <2> QED
    BY <1>6, <2>2, <2>3
<1> QED
  BY <1>5, <1>15, <1>16 DEF S, common

(* A block with a processed predecessor is moved to where the chains of all *)
(* its processed predecessors meet.                                         *)
LEMMA RevisedMeets ==
  ASSUME NEW graph, NEW n, NEW rpo, Ordered(graph, n, rpo),
         NEW d, Climbs(n, rpo, d), NEW b,
         \E p \in Known(d) : EdgeTo(graph, p, b)
  PROVE  \E m \in Known(d) :
           /\ Revised(graph, rpo, d, b) = [d EXCEPT ![b] = m]
           /\ \A u : u \in Chain(d, m) <=>
                \A p \in Known(d) : EdgeTo(graph, p, b) => u \in Chain(d, p)
<1> DEFINE blocks == Cardinality(DOMAIN graph)
           K == Known(d)
           S == K \cup {UNDEF}
           Meet(i, before) ==
             LET p == i - 1
             IN IF ~Contains(graph[p], b) \/ d[p] = UNDEF THEN before
                ELSE IF before = UNDEF THEN p
                ELSE Intersect(rpo, d, p, before)
           Kept(g) == g = [i \in 0 .. blocks |->
                             IF i = 0 THEN UNDEF
                             ELSE LET before == g[i - 1]
                                      p == i - 1
                                  IN IF ~Contains(graph[p], b) \/ d[p] = UNDEF THEN before
                                     ELSE IF before = UNDEF THEN p
                                     ELSE Intersect(rpo, d, p, before)]
           new == CHOOSE g : Kept(g)
           F == [i \in 1 .. blocks |-> [y \in S |-> Meet(i, y)]]
<1>1. n \in Nat /\ DOMAIN graph = 0 .. n - 1 /\ DOMAIN d = 0 .. n - 1
  BY DEF Ordered, IsGraph, Climbs
<1>2. blocks = n
  <2> DEFINE e == n - 1
  <2>1. e \in Int /\ 0 \in Int
    BY <1>1
  <2> HIDE DEF e
  <2>2. Cardinality(0 .. e) = IF 0 > e THEN 0 ELSE e - 0 + 1
    BY <2>1, FS_Interval
  <2> QED
    BY <1>1, <2>2 DEF e
<1>3. \A p : Contains(graph[p], b) <=> EdgeTo(graph, p, b)
  BY DEF Contains, EdgeTo
<1>4. /\ K \subseteq 0 .. n - 1 /\ UNDEF \notin K
      /\ \A p \in 0 .. n - 1 : p \in K <=> d[p] # UNDEF
  <2>1. K \subseteq 0 .. n - 1 /\ \A p \in 0 .. n - 1 : p \in K <=> d[p] # UNDEF
    BY <1>1 DEF Known
  <2>2. UNDEF \notin 0 .. n - 1
    BY <1>1 DEF UNDEF
  <2> QED
    BY <2>1, <2>2
<1>22. \A p \in K : p < n /\ ~(p < 0)
  <2>1. \A p \in 0 .. n - 1 : p < n /\ ~(p < 0)
    BY <1>1
  <2> HIDE DEF K
  <2> QED
    BY <1>4, <2>1
<1>5. Revised(graph, rpo, d, b) =
        IF new[blocks] = UNDEF THEN d ELSE [d EXCEPT ![b] = new[blocks]]
  BY DEF Revised
<1>6. \A p, q \in K : /\ Intersect(rpo, d, p, q) \in K
                      /\ Chain(d, Intersect(rpo, d, p, q)) = Chain(d, p) \cap Chain(d, q)
  BY IntersectMeets
<1>7. \A i \in 1 .. blocks : \A y \in S : F[i][y] = Meet(i, y)
  OBVIOUS
<1> HIDE DEF blocks, K, F
<1>8. \A i \in 1 .. blocks : \A y \in S : Meet(i, y) \in S
  <2> TAKE i \in 1 .. blocks
  <2> TAKE y \in S
  <2>1. i - 1 \in 0 .. n - 1
    BY <1>1, <1>2
  <2>2. d[i - 1] # UNDEF => i - 1 \in K
    BY <1>4, <2>1
  <2> QED
    BY <1>6, <2>2
<1> HIDE DEF S
<1>9. blocks \in Nat
  BY <1>1, <1>2
<1>10. PICK f \in [0 .. blocks -> S] : Follows(f, blocks, UNDEF, F)
  <2>1. Stays(blocks, F, S)
    <3> HIDE DEF Meet
    <3> QED
      BY <1>7, <1>8 DEF Stays
  <2>2. UNDEF \in S
    BY DEF S
  <2> QED
    BY <1>9, <2>1, <2>2, Recursion
<1>11. Kept(f)
  <2>1. ASSUME NEW i \in 0 .. blocks
        PROVE  f[i] = IF i = 0 THEN UNDEF ELSE Meet(i, f[i - 1])
    <3> HIDE DEF Meet
    <3>1. CASE i = 0
      BY <1>10, <3>1 DEF Follows
    <3>2. CASE i # 0
      <4>1. i \in 1 .. blocks /\ i - 1 \in 0 .. blocks
        BY <1>9, <3>2
      <4>2. f[i - 1] \in S
        BY <4>1
      <4>3. f[i] = F[i][f[i - 1]]
        BY <1>10, <3>2 DEF Follows
      <4> QED
        BY <1>7, <3>2, <4>1, <4>2, <4>3
    <3> QED
      BY <3>1, <3>2
  <2> QED
    BY <1>10, <2>1 DEF Follows
<1>12. Kept(new)
  <2> HIDE DEF Kept
  <2> QED
    BY <1>11
<1> HIDE DEF new
<1>13. new[0] = UNDEF /\ \A i \in 1 .. blocks : new[i] = Meet(i, new[i - 1])
  <2>1. 0 \in 0 .. blocks /\ \A i \in 1 .. blocks : i \in 0 .. blocks /\ i # 0
    BY <1>9
  <2> QED
    BY <1>12, <2>1
<1> HIDE DEF Kept
<1> DEFINE Pred(i) == {p \in K : p < i /\ EdgeTo(graph, p, b)}
           T == {i \in 0 .. blocks :
                   \/ new[i] = UNDEF /\ Pred(i) = {}
                   \/ /\ new[i] \in K /\ Pred(i) # {}
                      /\ \A u : u \in Chain(d, new[i]) <=>
                                  \A p \in Pred(i) : u \in Chain(d, p)}
<1>14. 0 .. blocks \subseteq T
  <2>1. 0 \in T
    <3>1. Pred(0) = {}
      BY <1>22
    <3>2. 0 \in 0 .. blocks
      BY <1>9
    <3> QED
      BY <1>13, <3>1, <3>2
  <2>2. ASSUME NEW i \in 1 .. blocks, i - 1 \in T
        PROVE  i \in T
    <3> DEFINE p == i - 1
               before == new[i - 1]
    <3>1. p \in 0 .. n - 1 /\ i \in 0 .. blocks
      BY <1>1, <1>2, <1>9
    <3>2. new[i] = Meet(i, before)
      BY <1>13
    <3>3. \/ before = UNDEF /\ Pred(p) = {}
          \/ /\ before \in K /\ Pred(p) # {}
             /\ \A u : u \in Chain(d, before) <=> \A q \in Pred(p) : u \in Chain(d, q)
      BY <2>2
    <3>4. \A q \in K : q < i <=> q < p \/ q = p
      BY <1>1, <1>4, <3>1
    <3> HIDE DEF before
    <3>5. CASE ~EdgeTo(graph, p, b) \/ p \notin K
      <4>1. Pred(i) = Pred(p)
        BY <3>4, <3>5
      <4>2. new[i] = before
        BY <1>3, <1>4, <3>1, <3>2, <3>5
      <4> HIDE DEF p, Pred
      <4> QED
        BY <3>1, <3>3, <4>1, <4>2
    <3>6. CASE EdgeTo(graph, p, b) /\ p \in K
      <4>1. Pred(i) = Pred(p) \cup {p}
        BY <3>4, <3>6
      <4>2. new[i] = IF before = UNDEF THEN p ELSE Intersect(rpo, d, p, before)
        BY <1>3, <1>4, <3>1, <3>2, <3>6
      <4> HIDE DEF p, Pred
      <4>3. CASE before = UNDEF
        <5>1. Pred(p) = {}
          BY <1>4, <3>3, <4>3
        <5>2. new[i] \in K /\ Pred(i) = {p} /\ new[i] = p
          BY <3>6, <4>1, <4>2, <4>3, <5>1
        <5> QED
          BY <3>1, <5>2
      <4>4. CASE before # UNDEF
        <5>1. /\ before \in K
              /\ \A u : u \in Chain(d, before) <=> \A q \in Pred(p) : u \in Chain(d, q)
          BY <3>3, <4>4
        <5>2. new[i] \in K /\ Chain(d, new[i]) = Chain(d, p) \cap Chain(d, before)
          BY <1>6, <3>6, <4>2, <4>4, <5>1
        <5>3. \A u : u \in Chain(d, new[i]) <=> \A q \in Pred(i) : u \in Chain(d, q)
          BY <4>1, <5>1, <5>2
        <5>4. Pred(i) # {}
          BY <4>1
        <5> QED
          BY <3>1, <5>2, <5>3, <5>4
      <4> QED
        BY <4>3, <4>4
    <3> QED
      BY <3>5, <3>6
  <2> HIDE DEF T
  <2> QED
    BY <1>9, <2>1, <2>2, Counting
<1>15. blocks \in T
  BY <1>9, <1>14
<1>16. Pred(blocks) = {p \in K : EdgeTo(graph, p, b)}
  BY <1>2, <1>22
<1>17. Pred(blocks) # {}
  BY <1>16 DEF K
<1>18. /\ new[blocks] \in K
       /\ \A u : u \in Chain(d, new[blocks]) <=>
                   \A p \in Pred(blocks) : u \in Chain(d, p)
  <2> HIDE DEF Pred
  <2> QED
    BY <1>15, <1>17
<1>19. new[blocks] # UNDEF
  BY <1>4, <1>18
<1>20. Revised(graph, rpo, d, b) = [d EXCEPT ![b] = new[blocks]]
  BY <1>5, <1>19
<1>21. \A u : u \in Chain(d, new[blocks]) <=>
                \A p \in K : EdgeTo(graph, p, b) => u \in Chain(d, p)
  <2> HIDE DEF Pred
  <2> QED
    BY <1>16, <1>18
<1> QED
  BY <1>18, <1>20, <1>21 DEF K

(* One block is given a block further up.  The chains keep what is not      *)
(* further up than that block, and all if they do not hold it; and nothing  *)
(* is new on them if the new place was on its chain before.                 *)
LEMMA Raised ==
  ASSUME NEW graph, NEW n, NEW rpo, Ordered(graph, n, rpo),
         NEW d, Climbs(n, rpo, d),
         NEW c \in ToSet(rpo), c # 0,
         NEW m \in Known(d), Number(rpo)[m] < Number(rpo)[c],
         NEW e, e = [d EXCEPT ![c] = m]
  PROVE  /\ Climbs(n, rpo, e) /\ Known(e) = Known(d) \cup {c}
         /\ e[c] = m /\ \A y \in Known(d) : y # c => e[y] = d[y]
         /\ \A z \in Known(d) : \A u \in ToSet(rpo) :
              Number(rpo)[u] >= Number(rpo)[c] => (u \in Chain(e, z) <=> u \in Chain(d, z))
         /\ \A z \in Known(d) : c \notin Chain(d, z) => Chain(e, z) = Chain(d, z)
         /\ (c \in Known(d) => m \in Chain(d, d[c])) =>
              \A z \in Known(d) : Chain(e, z) \subseteq Chain(d, z)
<1> DEFINE num == Number(rpo)
           R == ToSet(rpo)
<1>1. /\ R \subseteq 0 .. n - 1 /\ n \in Nat /\ num[0] = 1
      /\ \A x \in R : num[x] \in 1 .. Len(rpo)
  BY Numbered
<1>2. \A x \in R : num[x] \in Nat
  <2> HIDE DEF num, R
  <2> QED
    BY <1>1
<1>3. /\ d \in [0 .. n - 1 -> (0 .. n - 1) \cup {UNDEF}]
      /\ d[0] = 0 /\ Known(d) \subseteq R
      /\ \A b \in Known(d) : b # 0 => d[b] \in Known(d) /\ num[d[b]] < num[b]
  BY DEF Climbs
<1>4. /\ UNDEF \notin 0 .. n - 1
      /\ Known(d) \subseteq 0 .. n - 1
  BY <1>1, <1>3 DEF UNDEF
<1>5. c \in 0 .. n - 1 /\ m \in 0 .. n - 1
  BY <1>1, <1>4
<1>6. /\ e \in [0 .. n - 1 -> (0 .. n - 1) \cup {UNDEF}]
      /\ e[c] = m /\ \A y \in 0 .. n - 1 : y # c => e[y] = d[y]
  BY <1>3, <1>5
<1>7. Known(e) = Known(d) \cup {c}
  <2>1. \A y \in 0 .. n - 1 : y \in Known(e) <=> y \in Known(d) \/ y = c
    BY <1>3, <1>4, <1>5, <1>6 DEF Known
  <2>2. Known(e) \subseteq 0 .. n - 1
    BY <1>6 DEF Known
  <2> QED
    BY <1>4, <1>5, <2>1, <2>2
<1> HIDE DEF num, R
<1>8. num[m] < num[c] /\ c \in R
  BY DEF num, R
<1>9. Climbs(n, rpo, e)
  <2>1. ASSUME NEW b \in Known(e), b # 0
        PROVE  e[b] \in Known(e) /\ num[e[b]] < num[b]
    <3>1. CASE b = c
      BY <1>6, <1>7, <1>8, <3>1
    <3>2. CASE b # c
      <4>1. b \in Known(d) /\ e[b] = d[b]
        BY <1>4, <1>6, <1>7, <3>2
      <4> QED
        BY <1>3, <1>7, <2>1, <4>1
    <3> QED
      BY <3>1, <3>2
  <2>2. 0 \in 0 .. n - 1 /\ e[0] = 0
    BY <1>1, <1>3, <1>5, <1>6
  <2>3. Known(e) \subseteq R
    BY <1>3, <1>7, <1>8
  <2> QED
    BY <1>6, <2>1, <2>2, <2>3 DEF Climbs, num, R
<1>10. \A y \in Known(d) : y # c => e[y] = d[y]
  BY <1>4, <1>6
<1>11. e[0] = 0
  BY <1>9 DEF Climbs
<1>12. ASSUME NEW z \in Known(d)
       PROVE  /\ z \in Known(e)
              /\ z \in Chain(d, z) /\ Chain(d, z) \subseteq Known(d)
              /\ \A y \in Chain(d, z) : d[y] \in Chain(d, z)
              /\ \A C : z \in C /\ (\A y \in C \cap Known(d) : d[y] \in C) => Chain(d, z) \subseteq C
              /\ z \in Chain(e, z) /\ Chain(e, z) \subseteq Known(e)
              /\ \A y \in Chain(e, z) : e[y] \in Chain(e, z)
              /\ \A C : z \in C /\ (\A y \in C \cap Known(e) : e[y] \in C) => Chain(e, z) \subseteq C
  <2>1. z \in Known(e)
    BY <1>7
  <2>2. /\ z \in Chain(d, z) /\ Chain(d, z) \subseteq Known(d)
        /\ \A y \in Chain(d, z) : d[y] \in Chain(d, z)
        /\ \A C : z \in C /\ (\A y \in C \cap Known(d) : d[y] \in C) => Chain(d, z) \subseteq C
    BY ChainIsLeast
  <2>3. /\ z \in Chain(e, z) /\ Chain(e, z) \subseteq Known(e)
        /\ \A y \in Chain(e, z) : e[y] \in Chain(e, z)
        /\ \A C : z \in C /\ (\A y \in C \cap Known(e) : e[y] \in C) => Chain(e, z) \subseteq C
    <3>1. \A g : Climbs(n, rpo, g) => \A y \in Known(g) :
            /\ y \in Chain(g, y) /\ Chain(g, y) \subseteq Known(g)
            /\ \A x \in Chain(g, y) : g[x] \in Chain(g, y)
            /\ \A C : y \in C /\ (\A x \in C \cap Known(g) : g[x] \in C) => Chain(g, y) \subseteq C
      BY ChainIsLeast
    <3> QED
      BY <1>9, <2>1, <3>1, Zenon
  <2> QED
    BY <2>1, <2>2, <2>3
<1>13. ASSUME NEW z \in Known(d)
       PROVE  Chain(e, z) \subseteq Chain(d, z) \cup {y \in R : num[y] < num[c]}
  <2> DEFINE D == Chain(d, z) \cup {y \in R : num[y] < num[c]}
  <2>1. ASSUME NEW y \in D \cap Known(e)
        PROVE  e[y] \in D
    <3>1. CASE y = c
      <4>1. m \in R
        BY <1>3
      <4> QED
        BY <1>6, <1>8, <3>1, <4>1
    <3>2. CASE y # c
      <4>1. y \in Known(d) /\ e[y] = d[y]
        BY <1>7, <1>10, <3>2
      <4>2. CASE y \in Chain(d, z)
        BY <1>12, <4>1, <4>2
      <4>3. CASE num[y] < num[c] /\ y = 0
        BY <1>3, <2>1, <4>1, <4>3
      <4>4. CASE num[y] < num[c] /\ y # 0
        <5>1. d[y] \in R /\ num[d[y]] < num[y] /\ y \in R
          BY <1>3, <4>1, <4>4
        <5>2. num[d[y]] < num[c]
          BY <1>2, <1>8, <4>4, <5>1
        <5> QED
          BY <4>1, <5>1, <5>2
      <4> QED
        BY <2>1, <4>2, <4>3, <4>4
    <3> QED
      BY <3>1, <3>2
  <2>2. z \in D
    BY <1>12
  <2> HIDE DEF D
  <2>3. Chain(e, z) \subseteq D
    BY <1>12, <2>1, <2>2
  <2> QED
    BY <2>3 DEF D
<1>14. ASSUME NEW z \in Known(d)
       PROVE  Chain(d, z) \subseteq Chain(e, z) \cup {y \in R : num[y] < num[c]}
  <2> DEFINE D == Chain(e, z) \cup {y \in R : num[y] < num[c]}
  <2>1. ASSUME NEW y \in D \cap Known(d)
        PROVE  d[y] \in D
    <3>1. CASE y = 0
      BY <1>3, <2>1, <3>1
    <3>2. CASE y = c /\ y # 0
      <4>1. d[y] \in R /\ num[d[y]] < num[c]
        BY <1>3, <2>1, <3>2
      <4> QED
        BY <4>1
    <3>3. CASE y # c /\ y # 0
      <4>1. e[y] = d[y]
        BY <1>10, <2>1, <3>3
      <4>2. CASE y \in Chain(e, z)
        BY <1>12, <4>1, <4>2
      <4>3. CASE num[y] < num[c]
        <5>1. d[y] \in R /\ num[d[y]] < num[y] /\ y \in R
          BY <1>3, <2>1, <3>3
        <5>2. num[d[y]] < num[c]
          BY <1>2, <1>8, <4>3, <5>1
        <5> QED
          BY <5>1, <5>2
      <4> QED
        BY <2>1, <4>2, <4>3
    <3> QED
      BY <3>1, <3>2, <3>3
  <2>2. z \in D
    BY <1>12
  <2> HIDE DEF D
  <2>3. Chain(d, z) \subseteq D
    BY <1>12, <2>1, <2>2
  <2> QED
    BY <2>3 DEF D
<1>15. ASSUME NEW z \in Known(d), NEW u \in R, num[u] >= num[c]
       PROVE  u \in Chain(e, z) <=> u \in Chain(d, z)
  <2>1. ~(num[u] < num[c])
    BY <1>2, <1>8, <1>15
  <2> QED
    BY <1>13, <1>14, <2>1
<1>16. ASSUME c \in Known(d) => m \in Chain(d, d[c]), NEW z \in Known(d)
       PROVE  Chain(e, z) \subseteq Chain(d, z)
  <2>1. ASSUME NEW y \in Chain(d, z)
        PROVE  e[y] \in Chain(d, z)
    <3>1. CASE y = c
      <4>1. c \in Known(d) /\ d[c] \in Chain(d, z)
        BY <1>12, <2>1, <3>1
      <4>2. d[c] \in Known(d)
        BY <1>12, <4>1
      <4>3. Chain(d, d[c]) \subseteq Chain(d, z)
        BY <4>1, ChainSteps
      <4> QED
        BY <1>6, <1>16, <3>1, <4>1, <4>3
    <3>2. CASE y # c
      BY <1>10, <1>12, <3>2
    <3> QED
      BY <3>1, <3>2
  <2> QED
    BY <1>12, <2>1
<1>17. ASSUME NEW z \in Known(d), c \notin Chain(d, z)
       PROVE  Chain(e, z) = Chain(d, z)
  <2>1. \A y \in Chain(d, z) : e[y] \in Chain(d, z)
    BY <1>10, <1>12, <1>17
  <2>2. Chain(e, z) \subseteq Chain(d, z)
    BY <1>12, <2>1
  <2>3. ASSUME NEW y \in Chain(e, z)
        PROVE  d[y] \in Chain(e, z)
    <3>1. y \in Known(d) /\ y # c
      BY <1>12, <1>17, <2>2
    <3>2. e[y] = d[y] /\ e[y] \in Chain(e, z)
      BY <1>10, <1>12, <3>1
    <3> QED
      BY <3>2
  <2>4. Chain(d, z) \subseteq Chain(e, z)
    BY <1>12, <2>3
  <2> QED
    BY <2>2, <2>4
<1> QED
  BY <1>6, <1>7, <1>9, <1>10, <1>15, <1>16, <1>17 DEF num, R

(* A dominates b: the blocks one gets to from the entry but not through a   *)
(* leave b out.                                                             *)
Avoids(graph, a, C) ==
  /\ a \notin C
  /\ a # 0 => 0 \in C
  /\ \A x \in C : \A y : EdgeTo(graph, x, y) /\ y # a => y \in C
Dom(graph, a, b) == \E C : Avoids(graph, a, C) /\ b \notin C

(* What dominates a block dominates its predecessors, or is the block; and  *)
(* only the entry dominates the entry.                                      *)
LEMMA DomBack ==
  ASSUME NEW graph, NEW a, NEW b, Dom(graph, a, b)
  PROVE  /\ b = 0 => a = 0
         /\ b # a => \A p : EdgeTo(graph, p, b) => Dom(graph, a, p)
  BY DEF Dom, Avoids

(* An assignment that leaves out no dominator: what dominates a block and   *)
(* is not the block dominates the one above it.                             *)
Covers(graph, d) ==
  \A c \in Known(d) : \A a : a # c /\ Dom(graph, a, c) => Dom(graph, a, d[c])

(* Then the dominators are on the chain, and dominate what is on it down    *)
(* from them.                                                               *)
LEMMA DominatorsOnChain ==
  ASSUME NEW graph, NEW n, NEW rpo, Ordered(graph, n, rpo),
         NEW d, Climbs(n, rpo, d), Covers(graph, d),
         NEW p \in Known(d), NEW a, Dom(graph, a, p)
  PROVE  /\ a \in Chain(d, p)
         /\ \A x \in Chain(d, p) : Number(rpo)[a] <= Number(rpo)[x] => Dom(graph, a, x)
<1> DEFINE num == Number(rpo)
<1>1. /\ p \in Chain(d, p) /\ 0 \in Chain(d, p) /\ Chain(d, p) \subseteq Known(d)
      /\ \A y \in Chain(d, p) : d[y] \in Chain(d, p)
      /\ \A D : p \in D /\ (\A y \in D \cap Known(d) : d[y] \in D) => Chain(d, p) \subseteq D
  BY ChainIsLeast
<1>2. /\ d[0] = 0
      /\ \A y \in Known(d) : y # 0 => d[y] \in Known(d) /\ num[d[y]] < num[y]
  BY DEF Climbs
<1>3. \A y \in Known(d) : num[y] \in Nat
  <2>1. \A y \in ToSet(rpo) : num[y] \in 1 .. Len(rpo)
    BY Numbered
  <2> HIDE DEF num
  <2> QED
    BY <2>1 DEF Climbs
<1> HIDE DEF num
<1>4. a \in Chain(d, p)
  <2> SUFFICES ASSUME a \notin Chain(d, p)
               PROVE  FALSE
    OBVIOUS
  <2> DEFINE D == {y \in Chain(d, p) : Dom(graph, a, y)}
  <2>1. ASSUME NEW y \in D
        PROVE  d[y] \in D
    <3>1. y \in Known(d) /\ a # y /\ d[y] \in Chain(d, p)
      BY <1>1
    <3>2. Dom(graph, a, d[y])
      BY <3>1 DEF Covers
    <3> QED
      BY <3>1, <3>2
  <2>2. p \in D
    BY <1>1
  <2> HIDE DEF D
  <2>3. 0 \in D
    BY <1>1, <2>1, <2>2
  <2>4. a = 0
    BY <2>3, DomBack DEF D
  <2> QED
    BY <1>1, <2>4
<1>5. \A x \in Chain(d, p) : num[a] <= num[x] => Dom(graph, a, x)
  <2> DEFINE D == {y \in Known(d) : Dom(graph, a, y) \/ num[y] < num[a]}
  <2>1. ASSUME NEW y \in D
        PROVE  d[y] \in D
    <3>1. CASE y = 0
      BY <1>2, <2>1, <3>1
    <3>2. CASE y # 0 /\ y = a
      BY <1>2, <2>1, <3>2
    <3>3. CASE y # 0 /\ y # a /\ Dom(graph, a, y)
      <4>1. Dom(graph, a, d[y])
        BY <3>3 DEF Covers
      <4> QED
        BY <1>2, <3>3, <4>1
    <3>4. CASE y # 0 /\ num[y] < num[a]
      <4>1. d[y] \in Known(d) /\ num[d[y]] < num[y] /\ y \in Known(d) /\ a \in Known(d)
        BY <1>1, <1>2, <1>4, <3>4
      <4>2. num[d[y]] < num[a]
        BY <1>3, <3>4, <4>1
      <4> QED
        BY <4>1, <4>2
    <3> QED
      BY <2>1, <3>1, <3>2, <3>3, <3>4
  <2>2. p \in D
    BY <1>1
  <2> HIDE DEF D
  <2>3. Chain(d, p) \subseteq D
    BY <1>1, <2>1, <2>2
  <2>4. ASSUME NEW x \in Chain(d, p), num[a] <= num[x]
        PROVE  Dom(graph, a, x)
    <3>1. x \in D /\ num[a] \in Nat /\ num[x] \in Nat
      BY <1>1, <1>3, <1>4, <2>3
    <3> QED
      BY <2>4, <3>1 DEF D
  <2> QED
    BY <2>4
<1> QED
  BY <1>4, <1>5 DEF num

(* In a sweep that has come to the i-th block: for an edge to a later       *)
(* block, the chain from above that block is on the chain of the            *)
(* predecessor, as far as the sweep has not been; and wherever the chains   *)
(* of all predecessors meet, the chain from above the block has been.       *)
Forward(graph, rpo, d, i) ==
  \A x, y \in Known(d) :
    EdgeTo(graph, x, y) /\ Number(rpo)[x] < Number(rpo)[y] =>
      \A c \in Chain(d, d[y]) :
        Number(rpo)[c] >= i \/ Number(rpo)[y] < i => c \in Chain(d, x)
Waits(graph, d) ==
  \A b \in Known(d) \ {0} : \A u :
    (\A p \in Known(d) : EdgeTo(graph, p, b) => u \in Chain(d, p)) => u \in Chain(d, d[b])
Sweeping(graph, n, rpo, d, i) ==
  /\ Climbs(n, rpo, d)
  /\ \A y \in ToSet(rpo) : Number(rpo)[y] < i => y \in Known(d)
  /\ \A x \in Known(d) : \A y \in ToSet(rpo) : Number(rpo)[y] < Number(rpo)[x] => y \in Known(d)
  /\ Covers(graph, d)
  /\ Forward(graph, rpo, d, i)
  /\ Waits(graph, d)

(* What the sweep does at its i-th block c: it moves c to m. *)
Moves(graph, n, rpo, d, i, c, m, e) ==
  /\ i \in 2 .. Len(rpo) /\ c = rpo[i]
  /\ Sweeping(graph, n, rpo, d, i)
  /\ m \in Known(d) /\ e = [d EXCEPT ![c] = m]
  /\ \A u : u \in Chain(d, m) <=>
       \A p \in Known(d) : EdgeTo(graph, p, c) => u \in Chain(d, p)
LEMMA RevisedMoves ==
  ASSUME NEW graph, NEW n, NEW rpo, Ordered(graph, n, rpo),
         NEW d, NEW i \in 2 .. Len(rpo), Sweeping(graph, n, rpo, d, i)
  PROVE  \E m : Moves(graph, n, rpo, d, i, rpo[i], m, Revised(graph, rpo, d, rpo[i]))
<1>1. PICK p \in ToSet(rpo) : EdgeTo(graph, p, rpo[i]) /\ Number(rpo)[p] < i
  <2>1. /\ \A b \in ToSet(rpo) : b # 0 => \E p \in ToSet(rpo) :
             EdgeTo(graph, p, b) /\ Number(rpo)[p] < Number(rpo)[b]
        /\ \A j \in 1 .. Len(rpo) : rpo[j] \in ToSet(rpo) /\ Number(rpo)[rpo[j]] = j
        /\ Number(rpo)[0] = 1 /\ Len(rpo) \in Nat
    BY Numbered
  <2>2. rpo[i] \in ToSet(rpo) /\ Number(rpo)[rpo[i]] = i /\ rpo[i] # 0
    BY <2>1
  <2> QED
    BY <2>1, <2>2
<1>2. p \in Known(d) /\ Climbs(n, rpo, d)
  BY <1>1 DEF Sweeping
<1>3. PICK m \in Known(d) :
        /\ Revised(graph, rpo, d, rpo[i]) = [d EXCEPT ![rpo[i]] = m]
        /\ \A u : u \in Chain(d, m) <=>
             \A q \in Known(d) : EdgeTo(graph, q, rpo[i]) => u \in Chain(d, q)
  BY <1>1, <1>2, RevisedMeets
<1> QED
  BY <1>3 DEF Moves

(* The move is one further up.  It leaves the chains of the blocks before c *)
(* alone, of the others what is not before c, and takes away the rest only. *)
LEMMA MoveFacts ==
  ASSUME NEW graph, NEW n, NEW rpo, Ordered(graph, n, rpo),
         NEW d, NEW i, NEW c, NEW m, NEW e, Moves(graph, n, rpo, d, i, c, m, e)
  PROVE  /\ i \in Nat /\ c \in ToSet(rpo) /\ c # 0 /\ Number(rpo)[c] = i
         /\ Climbs(n, rpo, e) /\ Known(e) = Known(d) \cup {c}
         /\ Number(rpo)[m] < i /\ m \in Known(d)
         /\ e[c] = m /\ \A y \in Known(d) : y # c => e[y] = d[y]
         /\ \A z \in Known(d) : \A u \in ToSet(rpo) :
              Number(rpo)[u] >= i => (u \in Chain(e, z) <=> u \in Chain(d, z))
         /\ \A z \in Known(d) : Number(rpo)[z] < i => Chain(e, z) = Chain(d, z)
         /\ \A z \in Known(d) : Chain(e, z) \subseteq Chain(d, z)
         /\ c \in Known(d) => m \in Chain(d, d[c])
         /\ \A z \in Known(d) : c \notin Chain(d, z) => Chain(e, z) = Chain(d, z)
         /\ \A y \in ToSet(rpo) : Number(rpo)[y] < i => y \in Known(d)
         /\ \E x \in Known(d) : EdgeTo(graph, x, c) /\ Number(rpo)[x] < i
<1> DEFINE num == Number(rpo)
           R == ToSet(rpo)
<1>1. /\ \A b \in R : b # 0 => \E p \in R : EdgeTo(graph, p, b) /\ num[p] < num[b]
      /\ \A j \in 1 .. Len(rpo) : rpo[j] \in R /\ num[rpo[j]] = j
      /\ \A b \in R : num[b] \in 1 .. Len(rpo)
      /\ num[0] = 1 /\ Len(rpo) \in Nat
  BY Numbered
<1>2. /\ i \in 2 .. Len(rpo) /\ c = rpo[i] /\ Climbs(n, rpo, d)
      /\ \A y \in R : num[y] < i => y \in Known(d)
      /\ Waits(graph, d)
      /\ m \in Known(d) /\ e = [d EXCEPT ![c] = m]
      /\ \A u : u \in Chain(d, m) <=>
           \A p \in Known(d) : EdgeTo(graph, p, c) => u \in Chain(d, p)
  BY DEF Moves, Sweeping
<1>3. c \in R /\ num[c] = i /\ c # 0 /\ i \in Nat
  BY <1>1, <1>2
<1>4. Known(d) \subseteq R
  BY <1>2 DEF Climbs
<1>5. \A z \in Known(d) : num[z] \in Nat
  <2> HIDE DEF num
  <2> QED
    BY <1>1, <1>4
<1>6. PICK x \in Known(d) : EdgeTo(graph, x, c) /\ num[x] < i
  BY <1>1, <1>2, <1>3
<1>7. m \in Chain(d, m)
  BY <1>2, ChainIsLeast
<1>8. \A z \in Known(d) : \A u \in Chain(d, z) : u # z => num[u] < num[z]
  BY <1>2, ChainSteps
<1>9. num[m] < i
  <2>1. m \in Chain(d, x)
    BY <1>2, <1>6, <1>7
  <2>2. m = x \/ num[m] < num[x]
    BY <1>8, <2>1
  <2> HIDE DEF num
  <2> QED
    BY <1>2, <1>3, <1>5, <1>6, <2>2
<1>10. c \in Known(d) => m \in Chain(d, d[c])
  BY <1>2, <1>3, <1>7 DEF Waits
<1>11. /\ Climbs(n, rpo, e) /\ Known(e) = Known(d) \cup {c}
       /\ e[c] = m /\ \A y \in Known(d) : y # c => e[y] = d[y]
       /\ \A z \in Known(d) : \A u \in R :
            num[u] >= num[c] => (u \in Chain(e, z) <=> u \in Chain(d, z))
       /\ \A z \in Known(d) : c \notin Chain(d, z) => Chain(e, z) = Chain(d, z)
       /\ (c \in Known(d) => m \in Chain(d, d[c])) =>
              \A z \in Known(d) : Chain(e, z) \subseteq Chain(d, z)
  <2>1. \A g : g = [d EXCEPT ![c] = m] =>
          /\ Climbs(n, rpo, g) /\ Known(g) = Known(d) \cup {c}
          /\ g[c] = m /\ \A y \in Known(d) : y # c => g[y] = d[y]
          /\ \A z \in Known(d) : \A u \in R :
               num[u] >= num[c] => (u \in Chain(g, z) <=> u \in Chain(d, z))
          /\ \A z \in Known(d) : c \notin Chain(d, z) => Chain(g, z) = Chain(d, z)
          /\ (c \in Known(d) => m \in Chain(d, d[c])) =>
                 \A z \in Known(d) : Chain(g, z) \subseteq Chain(d, z)
    <3>1. c \in R /\ c # 0 /\ m \in Known(d) /\ num[m] < num[c] /\ Climbs(n, rpo, d)
      BY <1>2, <1>3, <1>9
    <3> TAKE g
    <3> HAVE g = [d EXCEPT ![c] = m]
    <3>2. Ordered(graph, n, rpo) /\ g = [d EXCEPT ![c] = m]
      OBVIOUS
    <3> QED
      BY <3>1, <3>2, Raised, ZenonT(40)
  <2>2. e = [d EXCEPT ![c] = m]
    BY <1>2
  <2> QED
    BY <2>1, <2>2, Zenon
<1>12. ASSUME NEW z \in Known(d), num[z] < i
       PROVE  Chain(e, z) = Chain(d, z)
  <2>1. c \notin Chain(d, z)
    <3>1. c \in Chain(d, z) => c = z \/ num[c] < num[z]
      BY <1>8
    <3> HIDE DEF num
    <3> QED
      BY <1>3, <1>5, <1>12, <3>1
  <2> QED
    BY <1>11, <2>1
<1> QED
  BY <1>2, <1>3, <1>6, <1>9, <1>10, <1>11, <1>12

(* A step of a sweep leaves out no dominator. *)
LEMMA CoversKept ==
  ASSUME NEW graph, NEW n, NEW rpo, Ordered(graph, n, rpo),
         NEW d, NEW i, NEW c, NEW m, NEW e, Moves(graph, n, rpo, d, i, c, m, e)
  PROVE  Covers(graph, e)
<1> DEFINE num == Number(rpo)
<1>1. /\ c \in ToSet(rpo) /\ Known(e) = Known(d) \cup {c}
      /\ m \in Known(d) /\ e[c] = m /\ \A y \in Known(d) : y # c => e[y] = d[y]
      /\ \E x \in Known(d) : EdgeTo(graph, x, c) /\ num[x] < i
  BY MoveFacts
<1>2. /\ Climbs(n, rpo, d) /\ Covers(graph, d)
      /\ \A u : u \in Chain(d, m) <=>
           \A p \in Known(d) : EdgeTo(graph, p, c) => u \in Chain(d, p)
  BY DEF Moves, Sweeping
<1>3. \A y \in Known(d) : num[y] \in Nat
  <2>1. \A y \in ToSet(rpo) : num[y] \in 1 .. Len(rpo)
    BY Numbered
  <2> HIDE DEF num
  <2> QED
    BY <1>2, <2>1 DEF Climbs
<1>4. ASSUME NEW a, a # c, Dom(graph, a, c)
      PROVE  Dom(graph, a, m)
  <2>1. \A p : EdgeTo(graph, p, c) => Dom(graph, a, p)
    BY <1>4, DomBack
  <2>2. \A p \in Known(d) : EdgeTo(graph, p, c) =>
          /\ a \in Chain(d, p)
          /\ \A x \in Chain(d, p) : num[a] <= num[x] => Dom(graph, a, x)
    BY <1>2, <2>1, DominatorsOnChain
  <2>3. a \in Chain(d, m)
    BY <1>2, <2>2
  <2>4. PICK x \in Known(d) : EdgeTo(graph, x, c)
    BY <1>1
  <2>5. m \in Chain(d, m) /\ Chain(d, m) \subseteq Known(d)
    BY <1>1, <1>2, ChainIsLeast
  <2>6. m \in Chain(d, x)
    BY <1>2, <2>4, <2>5
  <2>7. a # m => num[a] < num[m]
    BY <1>1, <1>2, <2>3, ChainSteps
  <2> HIDE DEF num
  <2>8. num[a] <= num[m]
    BY <1>1, <1>3, <2>3, <2>5, <2>7
  <2> QED
    BY <2>2, <2>4, <2>6, <2>8
<1>5. ASSUME NEW b \in Known(e), NEW a, a # b, Dom(graph, a, b)
      PROVE  Dom(graph, a, e[b])
  <2>1. CASE b = c
    BY <1>1, <1>4, <1>5, <2>1
  <2>2. CASE b # c
    BY <1>1, <1>2, <1>5, <2>2 DEF Covers
  <2> QED
    BY <2>1, <2>2
<1> QED
  BY <1>5 DEF Covers

(* It brings the block that it moves into order with the edges to it. *)
LEMMA ForwardKept ==
  ASSUME NEW graph, NEW n, NEW rpo, Ordered(graph, n, rpo),
         NEW d, NEW i, NEW c, NEW m, NEW e, Moves(graph, n, rpo, d, i, c, m, e)
  PROVE  Forward(graph, rpo, e, i + 1)
<1> DEFINE num == Number(rpo)
           R == ToSet(rpo)
<1>1. /\ i \in Nat /\ c \in R /\ c # 0 /\ num[c] = i
      /\ Climbs(n, rpo, e) /\ Known(e) = Known(d) \cup {c}
      /\ num[m] < i /\ m \in Known(d)
      /\ e[c] = m /\ \A y \in Known(d) : y # c => e[y] = d[y]
      /\ \A z \in Known(d) : \A u \in R :
           num[u] >= i => (u \in Chain(e, z) <=> u \in Chain(d, z))
      /\ \A z \in Known(d) : num[z] < i => Chain(e, z) = Chain(d, z)
  BY MoveFacts
<1>2. /\ Climbs(n, rpo, d) /\ Forward(graph, rpo, d, i)
      /\ \A x \in Known(d) : \A y \in R : num[y] < num[x] => y \in Known(d)
      /\ \A u : u \in Chain(d, m) <=>
           \A p \in Known(d) : EdgeTo(graph, p, c) => u \in Chain(d, p)
  BY DEF Moves, Sweeping
<1>3. \A x, y \in Known(d) : EdgeTo(graph, x, y) /\ num[x] < num[y] =>
        \A u \in Chain(d, d[y]) : num[u] >= i \/ num[y] < i => u \in Chain(d, x)
  BY <1>2 DEF Forward
<1>4. \A y \in R : num[y] \in Nat
  <2>1. \A y \in R : num[y] \in 1 .. Len(rpo)
    BY Numbered
  <2> HIDE DEF num, R
  <2> QED
    BY <2>1
<1>5. /\ Known(d) \subseteq R /\ Known(e) \subseteq R /\ d[0] = 0
      /\ \A y \in Known(d) : y # 0 => d[y] \in Known(d) /\ num[d[y]] < num[y]
  BY <1>1, <1>2 DEF Climbs
<1>6. \A y, z \in R : num[y] = num[z] => y = z
  BY Numbered
<1> HIDE DEF num, R
<1>7. ASSUME NEW x \in Known(e), NEW y \in Known(e), EdgeTo(graph, x, y), num[x] < num[y],
             NEW u \in Chain(e, e[y]), num[u] >= i + 1 \/ num[y] < i + 1
      PROVE  u \in Chain(e, x)
  <2>1. num[x] \in Nat /\ num[y] \in Nat /\ x \in R /\ y \in R
    BY <1>4, <1>5
  <2>2. CASE num[y] < i
    <3>1. x \in Known(d) /\ y \in Known(d) /\ num[x] < i /\ e[y] = d[y]
      BY <1>1, <1>7, <2>1, <2>2
    <3>2. d[y] \in Known(d) /\ num[d[y]] < i
      <4>1. CASE y = 0
        BY <1>5, <2>2, <3>1, <4>1
      <4>2. CASE y # 0
        <5>1. d[y] \in Known(d) /\ num[d[y]] < num[y] /\ num[d[y]] \in Nat
          BY <1>4, <1>5, <3>1, <4>2
        <5> QED
          BY <1>1, <2>1, <2>2, <5>1
      <4> QED
        BY <4>1, <4>2
    <3>3. u \in Chain(d, d[y])
      BY <1>1, <1>7, <3>1, <3>2
    <3>4. u \in Chain(d, x)
      BY <1>3, <1>7, <2>2, <3>1, <3>3
    <3> QED
      BY <1>1, <3>1, <3>4
  <2>3. CASE num[y] = i
    <3>1. y = c
      BY <1>1, <1>6, <2>1, <2>3
    <3>2. x \in Known(d) /\ num[x] < i
      BY <1>1, <1>7, <2>1, <2>3
    <3>3. u \in Chain(d, m)
      BY <1>1, <1>7, <3>1
    <3>4. u \in Chain(d, x)
      BY <1>2, <1>7, <3>1, <3>2, <3>3
    <3> QED
      BY <1>1, <3>2, <3>4
  <2>4. CASE num[y] > i
    <3>1. y \in Known(d) /\ e[y] = d[y]
      BY <1>1, <2>1, <2>4
    <3>2. d[y] \in Known(d)
      <4>1. y = 0 => d[y] = y
        BY <1>5
      <4> QED
        BY <1>5, <3>1, <4>1
    <3>3. u \in Known(e)
      <4>1. d[y] \in Known(e)
        BY <1>1, <3>2
      <4>2. Chain(e, d[y]) \subseteq Known(e)
        BY <1>1, <4>1, ChainIsLeast
      <4> QED
        BY <1>7, <3>1, <4>2
    <3>4. num[u] >= i /\ u \in R
      <4>1. num[u] \in Nat /\ u \in R
        BY <1>4, <1>5, <3>3
      <4> QED
        BY <1>1, <1>7, <2>1, <2>4, <4>1
    <3>5. u \in Chain(d, d[y])
      BY <1>1, <1>7, <3>1, <3>2, <3>4
    <3>6. x \in Known(d)
      BY <1>2, <1>7, <2>1, <3>1 DEF num, R
    <3>7. u \in Chain(d, x)
      BY <1>3, <1>7, <3>1, <3>4, <3>5, <3>6
    <3> QED
      BY <1>1, <3>4, <3>6, <3>7
  <2> QED
    BY <1>1, <2>1, <2>2, <2>3, <2>4
<1> QED
  BY <1>7 DEF Forward, num

(* It leaves no block above where the chains of its predecessors meet. *)
LEMMA WaitsKept ==
  ASSUME NEW graph, NEW n, NEW rpo, Ordered(graph, n, rpo),
         NEW d, NEW i, NEW c, NEW m, NEW e, Moves(graph, n, rpo, d, i, c, m, e)
  PROVE  Waits(graph, e)
<1> DEFINE num == Number(rpo)
           R == ToSet(rpo)
<1>1. /\ i \in Nat /\ c \in R /\ num[c] = i
      /\ Climbs(n, rpo, e) /\ Known(e) = Known(d) \cup {c}
      /\ num[m] < i /\ m \in Known(d)
      /\ e[c] = m /\ \A y \in Known(d) : y # c => e[y] = d[y]
      /\ \A z \in Known(d) : \A u \in R :
           num[u] >= i => (u \in Chain(e, z) <=> u \in Chain(d, z))
      /\ \A z \in Known(d) : num[z] < i => Chain(e, z) = Chain(d, z)
      /\ \A z \in Known(d) : Chain(e, z) \subseteq Chain(d, z)
      /\ \A z \in Known(d) : c \notin Chain(d, z) => Chain(e, z) = Chain(d, z)
  BY MoveFacts
<1>2. /\ Climbs(n, rpo, d) /\ Forward(graph, rpo, d, i) /\ Waits(graph, d)
      /\ \A x \in Known(d) : \A y \in R : num[y] < num[x] => y \in Known(d)
      /\ \A u : u \in Chain(d, m) <=>
           \A p \in Known(d) : EdgeTo(graph, p, c) => u \in Chain(d, p)
  BY DEF Moves, Sweeping
<1>3. \A x, y \in Known(d) : EdgeTo(graph, x, y) /\ num[x] < num[y] =>
        \A u \in Chain(d, d[y]) : num[u] >= i \/ num[y] < i => u \in Chain(d, x)
  BY <1>2 DEF Forward
<1>4. \A y \in R : num[y] \in Nat
  <2>1. \A y \in R : num[y] \in 1 .. Len(rpo)
    BY Numbered
  <2> HIDE DEF num, R
  <2> QED
    BY <2>1
<1>5. /\ Known(d) \subseteq R /\ Known(e) \subseteq R
      /\ \A y \in Known(d) : y # 0 => d[y] \in Known(d) /\ num[d[y]] < num[y]
  BY <1>1, <1>2 DEF Climbs
<1>6. \A b \in R : b # 0 => \E p \in R : EdgeTo(graph, p, b) /\ num[p] < num[b]
  BY Numbered
<1>7. ASSUME NEW b \in Known(e), b # 0, NEW u,
             \A p \in Known(e) : EdgeTo(graph, p, b) => u \in Chain(e, p)
      PROVE  u \in Chain(e, e[b])
  <2>1. \A p \in Known(d) : EdgeTo(graph, p, b) => u \in Chain(e, p) /\ u \in Chain(d, p)
    BY <1>1, <1>7
  <2>2. CASE b = c
    <3>1. u \in Chain(d, m)
      BY <1>2, <2>1, <2>2
    <3> QED
      BY <1>1, <2>2, <3>1
  <2>3. CASE b # c
    <3>1. b \in Known(d) /\ e[b] = d[b] /\ d[b] \in Known(d)
      BY <1>1, <1>5, <1>7, <2>3
    <3>2. u \in Chain(d, d[b])
      BY <1>2, <1>7, <2>1, <3>1 DEF Waits
    <3>3. Chain(d, d[b]) \subseteq Known(d)
      BY <1>2, <3>1, ChainIsLeast
    <3>4. u \in R /\ num[u] \in Nat
      BY <1>4, <1>5, <3>2, <3>3
    <3>5. CASE c \notin Chain(d, d[b])
      BY <1>1, <3>1, <3>2, <3>5
    <3>6. CASE num[u] >= i
      BY <1>1, <3>1, <3>2, <3>4, <3>6
    <3>7. CASE c \in Chain(d, d[b]) /\ ~(num[u] >= i)
      <4>1. PICK x \in R : EdgeTo(graph, x, b) /\ num[x] < num[b]
        BY <1>5, <1>6, <1>7
      <4>2. x \in Known(d)
        BY <1>2, <3>1, <4>1
      <4>3. num[c] >= i
        BY <1>1
      <4>4. c \in Chain(d, x)
        BY <1>3, <3>1, <3>7, <4>1, <4>2, <4>3
      <4>5. c \in Chain(e, x) /\ c \in Chain(e, d[b])
        BY <1>1, <3>1, <3>7, <4>2, <4>3, <4>4
      <4>6. u \in Chain(e, x)
        BY <2>1, <4>1, <4>2
      <4>7. num[u] <= num[c]
        <5> HIDE DEF num
        <5> QED
          BY <1>1, <3>4, <3>7
      <4>8. x \in Known(e) /\ d[b] \in Known(e)
        BY <1>1, <3>1, <4>2
      <4>9. u \in Chain(e, c)
        BY <1>1, <4>5, <4>6, <4>7, <4>8, ChainOrder
      <4>10. Chain(e, c) \subseteq Chain(e, d[b])
        BY <1>1, <4>5, <4>8, ChainSteps
      <4> QED
        BY <3>1, <4>9, <4>10
    <3> QED
      BY <3>5, <3>6, <3>7
  <2> QED
    BY <2>2, <2>3
<1> QED
  BY <1>7 DEF Waits

(* So a sweep stays a sweep from block to block, and a block that had one   *)
(* above it is moved further up or not at all.                              *)
LEMMA SweepStep ==
  ASSUME NEW graph, NEW n, NEW rpo, Ordered(graph, n, rpo),
         NEW d, NEW i \in 2 .. Len(rpo), Sweeping(graph, n, rpo, d, i)
  PROVE  LET c == rpo[i]
             e == Revised(graph, rpo, d, c)
         IN /\ Sweeping(graph, n, rpo, e, i + 1) /\ Known(e) = Known(d) \cup {c}
            /\ \A y \in Known(d) : Number(rpo)[e[y]] <= Number(rpo)[d[y]]
            /\ c \in Known(d) /\ e # d => Number(rpo)[e[c]] < Number(rpo)[d[c]]
<1> DEFINE num == Number(rpo)
           R == ToSet(rpo)
           c == rpo[i]
           e == Revised(graph, rpo, d, c)
<1>1. PICK m : Moves(graph, n, rpo, d, i, c, m, e)
  BY RevisedMoves
<1> HIDE DEF e
<1>2. /\ i \in Nat /\ c \in R /\ num[c] = i
      /\ Climbs(n, rpo, e) /\ Known(e) = Known(d) \cup {c}
      /\ m \in Known(d)
      /\ e[c] = m /\ \A y \in Known(d) : y # c => e[y] = d[y]
      /\ c \in Known(d) => m \in Chain(d, d[c])
      /\ \A y \in R : num[y] < i => y \in Known(d)
      /\ c # 0
  BY <1>1, MoveFacts
<1>3. /\ Climbs(n, rpo, d) /\ e = [d EXCEPT ![c] = m]
      /\ \A x \in Known(d) : \A y \in R : num[y] < num[x] => y \in Known(d)
  BY <1>1 DEF Moves, Sweeping
<1>4. \A y \in R : num[y] \in Nat
  <2>1. \A y \in R : num[y] \in 1 .. Len(rpo)
    BY Numbered
  <2> HIDE DEF num, R
  <2> QED
    BY <2>1
<1>5. /\ Known(d) \subseteq R
      /\ \A y \in Known(d) : d[y] \in Known(d)
      /\ d \in [0 .. n - 1 -> (0 .. n - 1) \cup {UNDEF}]
  BY <1>3 DEF Climbs
<1>6. \A y, z \in R : num[y] = num[z] => y = z
  BY Numbered
<1>7. Covers(graph, e) /\ Forward(graph, rpo, e, i + 1) /\ Waits(graph, e)
  BY <1>1, CoversKept, ForwardKept, WaitsKept
<1>8. ASSUME c \in Known(d)
      PROVE  m = d[c] \/ num[m] < num[d[c]]
  BY <1>2, <1>3, <1>5, <1>8, ChainSteps
<1> HIDE DEF num, R, c
<1>9. \A y \in R : num[y] < i + 1 => y \in Known(e)
  <2>1. ASSUME NEW y \in R, num[y] < i + 1
        PROVE  y \in Known(e)
    <3>1. num[y] < i \/ num[y] = num[c]
      BY <1>2, <1>4, <2>1
    <3> QED
      BY <1>2, <1>6, <3>1
  <2> QED
    BY <2>1
<1>10. ASSUME NEW x \in Known(e), NEW y \in R, num[y] < num[x]
       PROVE  y \in Known(e)
  <2>1. x = c => num[y] < i
    BY <1>2, <1>10
  <2> QED
    BY <1>2, <1>3, <1>10, <2>1
<1>11. Sweeping(graph, n, rpo, e, i + 1)
  BY <1>2, <1>7, <1>9, <1>10 DEF Sweeping, num, R
<1>12. ASSUME NEW y \in Known(d)
       PROVE  num[e[y]] <= num[d[y]]
  <2>1. num[d[y]] \in Nat
    BY <1>4, <1>5
  <2>2. CASE y = c
    <3>1. num[m] \in Nat
      BY <1>2, <1>4, <1>5
    <3> QED
      BY <1>2, <1>8, <2>1, <2>2, <3>1
  <2>3. CASE y # c
    BY <1>2, <2>1, <2>3
  <2> QED
    BY <2>2, <2>3
<1>13. ASSUME c \in Known(d), e # d
       PROVE  num[e[c]] < num[d[c]]
  <2>1. m = d[c] => e = d
    BY <1>3, <1>5
  <2> QED
    BY <1>2, <1>8, <1>13, <2>1
<1> QED
  BY <1>2, <1>11, <1>12, <1>13 DEF num, c, e

(* A sweep goes from block to block. *)
LEMMA SweepRuns ==
  ASSUME NEW graph, NEW n, NEW rpo, Ordered(graph, n, rpo),
         NEW d, Sweeping(graph, n, rpo, d, 2)
  PROVE  \E up : /\ up[1] = d /\ up[Len(rpo)] = Swept(graph, rpo, d)
                 /\ \A i \in 2 .. Len(rpo) : up[i] = Revised(graph, rpo, up[i - 1], rpo[i])
                 /\ \A i \in 1 .. Len(rpo) : Sweeping(graph, n, rpo, up[i], i + 1)
<1> DEFINE l == Len(rpo)
           D == [0 .. n - 1 -> (0 .. n - 1) \cup {UNDEF}]
           Good(e, i) == Sweeping(graph, n, rpo, e, i)
           Next1(e, i) == Revised(graph, rpo, e, rpo[i])
           Kept(g) == g = [i \in 1 .. l |->
                             IF i = 1 THEN d ELSE Revised(graph, rpo, g[i - 1], rpo[i])]
           up == CHOOSE g : Kept(g)
           F == [k \in 1 .. l - 1 |-> [e \in D |-> IF Good(e, k + 1) THEN Next1(e, k + 1) ELSE e]]
<1>1. l \in Nat /\ l >= 1
  BY Numbered
<1>2. Swept(graph, rpo, d) = up[l]
  BY DEF Swept
<1>3. ASSUME NEW i \in 2 .. l, NEW e, Good(e, i)
      PROVE  Good(Next1(e, i), i + 1)
  BY <1>3, SweepStep
<1>4. \A e, i : Good(e, i) => e \in D
  BY DEF Sweeping, Climbs
<1>5. Good(d, 2)
  OBVIOUS
<1> HIDE DEF l, D, Good, Next1
<1>6. \A k \in 1 .. l - 1 : \A e \in D :
        F[k][e] = IF Good(e, k + 1) THEN Next1(e, k + 1) ELSE e
  OBVIOUS
<1>7. \A k \in 1 .. l - 1 : k + 1 \in 2 .. l
  BY <1>1
<1>8. \A k \in 1 .. l - 1 : \A e \in D : F[k][e] \in D
  <2> TAKE k \in 1 .. l - 1
  <2> TAKE e \in D
  <2>1. CASE Good(e, k + 1)
    <3>1. Good(Next1(e, k + 1), (k + 1) + 1)
      BY <1>3, <1>7, <2>1
    <3>2. Next1(e, k + 1) \in D
      BY <1>4, <3>1
    <3> HIDE DEF F
    <3> QED
      BY <1>6, <2>1, <3>2
  <2>2. CASE ~Good(e, k + 1)
    <3> HIDE DEF F
    <3> QED
      BY <1>6, <2>2
  <2> QED
    BY <2>1, <2>2
<1> HIDE DEF F
<1>9. PICK f \in [0 .. l - 1 -> D] : Follows(f, l - 1, d, F)
  <2>1. Stays(l - 1, F, D)
    BY <1>8 DEF Stays
  <2>2. d \in D /\ l - 1 \in Nat
    BY <1>1, <1>4, <1>5
  <2> QED
    BY <2>1, <2>2, Recursion
<1>10. f[0] = d /\ \A k \in 1 .. l - 1 : f[k] = F[k][f[k - 1]] /\ f[k - 1] \in D
  <2>1. 0 \in 0 .. l - 1 /\ \A k \in 1 .. l - 1 : k \in 0 .. l - 1 /\ k # 0 /\ k - 1 \in 0 .. l - 1
    BY <1>1
  <2> QED
    BY <1>9, <2>1 DEF Follows
<1> DEFINE T == {k \in 0 .. l - 1 : Good(f[k], k + 2)}
<1>11. 0 .. l - 1 \subseteq T
  <2>1. 0 \in T
    <3>1. 0 \in 0 .. l - 1 /\ 0 + 2 = 2
      BY <1>1
    <3> QED
      BY <1>5, <1>10, <3>1
  <2>2. ASSUME NEW k \in 1 .. l - 1, k - 1 \in T
        PROVE  k \in T
    <3>1. k + 1 \in 2 .. l /\ (k - 1) + 2 = k + 1 /\ (k + 1) + 1 = k + 2 /\ k \in 0 .. l - 1
      BY <1>1
    <3>2. Good(f[k - 1], k + 1)
      BY <2>2, <3>1
    <3>3. f[k] = Next1(f[k - 1], k + 1)
      BY <1>6, <1>10, <3>2
    <3>4. Good(f[k], k + 2)
      BY <1>3, <3>1, <3>2, <3>3
    <3> QED
      BY <3>1, <3>4
  <2> HIDE DEF T
  <2>3. l - 1 \in Nat
    BY <1>1
  <2> QED
    BY <2>1, <2>2, <2>3, Counting
<1>12. \A k \in 0 .. l - 1 : Good(f[k], k + 2)
  BY <1>11
<1> DEFINE g == [i \in 1 .. l |-> f[i - 1]]
<1>13. Kept(g)
  <2>1. ASSUME NEW i \in 1 .. l
        PROVE  g[i] = IF i = 1 THEN d ELSE Revised(graph, rpo, g[i - 1], rpo[i])
    <3>1. CASE i = 1
      <4>1. g[1] = f[1 - 1] /\ 1 - 1 = 0
        BY <3>1
      <4> QED
        BY <1>10, <3>1, <4>1
    <3>2. CASE i # 1
      <4> DEFINE k == i - 1
      <4>1. k \in 1 .. l - 1 /\ k \in 1 .. l /\ k - 1 \in 0 .. l - 1 /\ k + 1 = i /\ (k - 1) + 2 = k + 1
        BY <1>1, <3>2
      <4>2. g[i] = f[k] /\ g[k] = f[k - 1]
        BY <4>1
      <4> HIDE DEF g, k
      <4>3. Good(f[k - 1], k + 1)
        BY <1>12, <4>1
      <4>4. f[k] = Next1(f[k - 1], k + 1)
        BY <1>6, <1>10, <4>1, <4>3
      <4>5. g[i] = Next1(g[k], i)
        BY <4>1, <4>2, <4>4
      <4>6. g[i] = Revised(graph, rpo, g[k], rpo[i])
        BY <4>5 DEF Next1
      <4> QED
        BY <3>2, <4>6 DEF k
    <3> QED
      BY <3>1, <3>2
  <2>2. g = [i \in 1 .. l |-> g[i]]
    OBVIOUS
  <2> HIDE DEF g
  <2> QED
    BY <2>1, <2>2
<1> HIDE DEF g
<1>14. Kept(up)
  <2> HIDE DEF Kept
  <2> QED
    BY <1>13
<1> HIDE DEF up
<1>15. up[1] = d /\ \A i \in 2 .. l : up[i] = Revised(graph, rpo, up[i - 1], rpo[i])
  <2>1. 1 \in 1 .. l /\ \A i \in 2 .. l : i \in 1 .. l /\ i # 1
    BY <1>1
  <2> QED
    BY <1>14, <2>1
<1> HIDE DEF Kept
<1> DEFINE U == {k \in 0 .. l - 1 : Good(up[k + 1], k + 2)}
<1>16. 0 .. l - 1 \subseteq U
  <2>1. 0 \in U
    <3>1. 0 \in 0 .. l - 1 /\ 0 + 2 = 2 /\ 0 + 1 = 1
      BY <1>1
    <3> QED
      BY <1>5, <1>15, <3>1
  <2>2. ASSUME NEW k \in 1 .. l - 1, k - 1 \in U
        PROVE  k \in U
    <3>1. /\ k + 1 \in 2 .. l /\ (k - 1) + 2 = k + 1 /\ (k + 1) + 1 = k + 2 /\ k \in 0 .. l - 1
          /\ (k - 1) + 1 = k /\ (k + 1) - 1 = k
      BY <1>1
    <3>2. Good(up[k], k + 1)
      BY <2>2, <3>1
    <3>3. up[k + 1] = Next1(up[k], k + 1)
      BY <1>15, <3>1 DEF Next1
    <3>4. Good(up[k + 1], k + 2)
      BY <1>3, <3>1, <3>2, <3>3
    <3> QED
      BY <3>1, <3>4
  <2> HIDE DEF U
  <2>3. l - 1 \in Nat
    BY <1>1
  <2> QED
    BY <2>1, <2>2, <2>3, Counting
<1>17. ASSUME NEW i \in 1 .. l
       PROVE  Good(up[i], i + 1)
  <2>1. i - 1 \in 0 .. l - 1 /\ (i - 1) + 1 = i /\ (i - 1) + 2 = i + 1
    BY <1>1
  <2>2. i - 1 \in U
    BY <1>16, <2>1
  <2> QED
    BY <2>1, <2>2
<1> QED
  BY <1>2, <1>15, <1>17 DEF l, Good

(* A settled assignment: every reachable block has one above it, and the    *)
(* sweep has been everywhere.                                               *)
Settled(graph, n, rpo, d) ==
  Known(d) = ToSet(rpo) /\ Sweeping(graph, n, rpo, d, Len(rpo) + 1)

(* A sweep leaves a settled assignment, whether it began with one or at the *)
(* beginning.                                                               *)
LEMMA SweepSettles ==
  ASSUME NEW graph, NEW n, NEW rpo, Ordered(graph, n, rpo), NEW d,
         Sweeping(graph, n, rpo, d, 2)
  PROVE  Settled(graph, n, rpo, Swept(graph, rpo, d))
<1> DEFINE l == Len(rpo)
           e == Swept(graph, rpo, d)
<1>1. PICK up : /\ up[l] = e
                /\ \A i \in 1 .. l : Sweeping(graph, n, rpo, up[i], i + 1)
  BY SweepRuns
<1>2. l \in Nat /\ l >= 1 /\ \A y \in ToSet(rpo) : Number(rpo)[y] \in 1 .. l
  BY Numbered
<1> HIDE DEF l, e
<1>3. l \in 1 .. l
  BY <1>2
<1>4. Sweeping(graph, n, rpo, e, l + 1)
  BY <1>1, <1>3
<1>5. Known(e) \subseteq ToSet(rpo)
  BY <1>4 DEF Sweeping, Climbs
<1>6. ASSUME NEW y \in ToSet(rpo)
      PROVE  y \in Known(e)
  <2>1. Number(rpo)[y] < l + 1
    <3> DEFINE j == Number(rpo)[y]
    <3>1. j \in 1 .. l
      BY <1>2
    <3> HIDE DEF j
    <3>2. j < l + 1
      BY <1>2, <3>1
    <3> QED
      BY <3>2 DEF j
  <2> QED
    BY <1>4, <2>1 DEF Sweeping
<1> QED
  BY <1>4, <1>5, <1>6 DEF Settled, l, e

LEMMA SettledSweeps ==
  ASSUME NEW graph, NEW n, NEW rpo, Ordered(graph, n, rpo), NEW d,
         Settled(graph, n, rpo, d), NEW i
  PROVE  Sweeping(graph, n, rpo, d, i)
<1> DEFINE l == Len(rpo)
           num == Number(rpo)
<1>1. l \in Nat /\ \A y \in ToSet(rpo) : num[y] \in 1 .. l
  BY Numbered
<1>2. /\ Known(d) = ToSet(rpo) /\ Climbs(n, rpo, d)
      /\ Covers(graph, d) /\ Forward(graph, rpo, d, l + 1) /\ Waits(graph, d)
  BY DEF Settled, Sweeping
<1>3. ASSUME NEW x \in Known(d), NEW y \in Known(d),
             EdgeTo(graph, x, y), num[x] < num[y], NEW c \in Chain(d, d[y])
      PROVE  c \in Chain(d, x)
  <2>1. num[y] \in 1 .. l
    BY <1>1, <1>2
  <2> HIDE DEF num, l
  <2>2. num[y] < l + 1
    BY <1>1, <2>1
  <2> QED
    BY <1>2, <1>3, <2>2 DEF Forward, num
<1>4. Forward(graph, rpo, d, i)
  BY <1>3 DEF Forward
<1> QED
  BY <1>2, <1>4 DEF Sweeping

(* A sweep of a settled assignment moves some block up, or nothing, and     *)
(* then none of its steps does.                                             *)
LEMMA SweepRaises ==
  ASSUME NEW graph, NEW n, NEW rpo, Ordered(graph, n, rpo), NEW d,
         Settled(graph, n, rpo, d)
  PROVE  LET e == Swept(graph, rpo, d)
         IN /\ \A y \in ToSet(rpo) : Number(rpo)[e[y]] <= Number(rpo)[d[y]]
            /\ \/ /\ e = d
                  /\ \A b \in ToSet(rpo) : b # 0 => Revised(graph, rpo, d, b) = d
               \/ \E y \in ToSet(rpo) : Number(rpo)[e[y]] < Number(rpo)[d[y]]
<1> DEFINE l == Len(rpo)
           num == Number(rpo)
           R == ToSet(rpo)
           e == Swept(graph, rpo, d)
           Lower(a) == \E y \in R : num[a[y]] < num[d[y]]
           Still(a, k) == a = d /\ \A j \in 2 .. k : Revised(graph, rpo, d, rpo[j]) = d
<1>1. Sweeping(graph, n, rpo, d, 2)
  BY SettledSweeps
<1>2. PICK up : /\ up[1] = d /\ up[l] = e
                /\ \A i \in 2 .. l : up[i] = Revised(graph, rpo, up[i - 1], rpo[i])
                /\ \A i \in 1 .. l : Sweeping(graph, n, rpo, up[i], i + 1)
  BY <1>1, SweepRuns
<1>3. /\ l \in Nat /\ l >= 1 /\ num[0] = 1
      /\ \A y \in R : num[y] \in 1 .. l /\ rpo[num[y]] = y
      /\ \A j \in 1 .. l : rpo[j] \in R
  BY Numbered
<1>4. \A y \in R : num[y] \in Nat
  <2> HIDE DEF num, R, l
  <2> QED
    BY <1>3
<1>5. Known(d) = R /\ \A y \in R : d[y] \in R
  <2>1. Known(d) = R /\ Climbs(n, rpo, d)
    BY DEF Settled, Sweeping
  <2>2. \A y \in Known(d) : d[y] \in Known(d)
    BY <2>1 DEF Climbs
  <2> QED
    BY <2>1, <2>2
<1>6. \A a, i : Sweeping(graph, n, rpo, a, i) => \A y \in Known(a) : a[y] \in R
  <2> TAKE a, i
  <2> HAVE Sweeping(graph, n, rpo, a, i)
  <2>1. Climbs(n, rpo, a)
    BY DEF Sweeping
  <2> QED
    BY <2>1 DEF Climbs
<1> HIDE DEF e
<1> DEFINE T == {k \in 0 .. l - 1 :
                   /\ Known(up[k + 1]) = R
                   /\ \A y \in R : num[up[k + 1][y]] <= num[d[y]]
                   /\ Still(up[k + 1], k + 1) \/ Lower(up[k + 1])}
<1>7. 0 .. l - 1 \subseteq T
  <2>1. 0 \in T
    <3>1. 0 \in 0 .. l - 1 /\ 0 + 1 = 1
      BY <1>3
    <3>2. \A y \in R : num[d[y]] <= num[d[y]]
      BY <1>4, <1>5
    <3>3. Still(d, 1)
      OBVIOUS
    <3> HIDE DEF Still, Lower, num, R
    <3> QED
      BY <1>2, <1>5, <3>1, <3>2, <3>3
  <2>2. ASSUME NEW k \in 1 .. l - 1, k - 1 \in T
        PROVE  k \in T
    <3> DEFINE i == k + 1
               a == up[k]
               z == up[k + 1]
    <3>1. i \in 2 .. l /\ (k - 1) + 1 = k /\ k \in 0 .. l - 1 /\ i - 1 = k /\ k \in 1 .. l /\ i \in 1 .. l
      BY <1>3
    <3>2. /\ Known(a) = R /\ \A y \in R : num[a[y]] <= num[d[y]]
          /\ Still(a, k) \/ Lower(a)
      BY <2>2, <3>1
    <3>3. z = Revised(graph, rpo, a, rpo[i]) /\ Sweeping(graph, n, rpo, a, i)
      BY <1>2, <3>1
    <3>4. Sweeping(graph, n, rpo, z, i + 1)
      BY <1>2, <3>1
    <3> HIDE DEF a, z, T
    <3>5. /\ Known(z) = Known(a) \cup {rpo[i]}
          /\ \A y \in Known(a) : num[z[y]] <= num[a[y]]
          /\ rpo[i] \in Known(a) /\ z # a => num[z[rpo[i]]] < num[a[rpo[i]]]
      BY <3>1, <3>3, SweepStep
    <3>6. rpo[i] \in R
      BY <1>3, <3>1
    <3> HIDE DEF num, R, i
    <3>7. Known(z) = R
      BY <3>2, <3>5, <3>6
    <3>8. \A y \in R : a[y] \in R /\ z[y] \in R
      BY <1>6, <3>2, <3>3, <3>4, <3>7
    <3>9. \A y \in R : num[a[y]] \in Nat /\ num[z[y]] \in Nat /\ num[d[y]] \in Nat
      BY <1>4, <1>5, <3>8
    <3>10. \A y \in R : num[z[y]] <= num[d[y]]
      <4> TAKE y \in R
      <4>1. num[z[y]] <= num[a[y]] /\ num[a[y]] <= num[d[y]]
        BY <3>2, <3>5
      <4> QED
        BY <3>9, <4>1
    <3>11. Still(z, i) \/ Lower(z)
      <4>1. CASE Lower(a)
        <5>1. PICK y \in R : num[a[y]] < num[d[y]]
          BY <4>1
        <5>2. num[z[y]] < num[d[y]]
          <6>1. num[z[y]] <= num[a[y]]
            BY <3>2, <3>5
          <6> QED
            BY <3>9, <5>1, <6>1
        <5> QED
          BY <5>2
      <4>2. CASE Still(a, k) /\ z # a
        <5>1. num[z[rpo[i]]] < num[d[rpo[i]]]
          BY <3>2, <3>5, <3>6, <4>2
        <5> QED
          BY <3>6, <5>1
      <4>3. CASE Still(a, k) /\ z = a
        <5>1. z = d /\ Revised(graph, rpo, d, rpo[i]) = d
          BY <3>3, <4>3
        <5>2. \A j \in 2 .. i : j \in 2 .. k \/ j = i
          BY <3>1 DEF i
        <5> QED
          BY <4>3, <5>1, <5>2
      <4> QED
        BY <3>2, <4>1, <4>2, <4>3
    <3> HIDE DEF Still, Lower
    <3> QED
      BY <3>1, <3>7, <3>10, <3>11 DEF T, i, z
  <2> HIDE DEF T
  <2>3. l - 1 \in Nat
    BY <1>3
  <2> QED
    BY <2>1, <2>2, <2>3, Counting
<1>8. l - 1 \in T /\ (l - 1) + 1 = l
  <2>1. l - 1 \in 0 .. l - 1 /\ (l - 1) + 1 = l
    BY <1>3
  <2> HIDE DEF T, l
  <2> QED
    BY <1>7, <2>1
<1>9. (\A y \in R : num[e[y]] <= num[d[y]]) /\ (Still(e, l) \/ Lower(e))
  <2> HIDE DEF Still, Lower
  <2> QED
    BY <1>2, <1>8
<1>10. ASSUME Still(e, l), NEW b \in R, b # 0
       PROVE  Revised(graph, rpo, d, b) = d
  <2>1. num[b] \in 1 .. l /\ rpo[num[b]] = b /\ num[b] # 1
    <3>1. rpo[1] = 0
      BY DEF Ordered
    <3> QED
      BY <1>3, <1>10, <3>1
  <2>2. num[b] \in 2 .. l
    <3> HIDE DEF num
    <3> QED
      BY <1>3, <2>1
  <2> QED
    BY <1>10, <2>1, <2>2
<1> QED
  BY <1>9, <1>10 DEF e

(* At the beginning only the entry is processed. *)
LEMMA StartSweeps ==
  ASSUME NEW graph, NEW n, NEW rpo, Ordered(graph, n, rpo)
  PROVE  Sweeping(graph, n, rpo, [b \in DOMAIN graph |-> IF b = 0 THEN 0 ELSE UNDEF], 2)
<1> DEFINE d == [b \in 0 .. n - 1 |-> IF b = 0 THEN 0 ELSE UNDEF]
           num == Number(rpo)
<1>1. n \in Nat /\ n # 0 /\ DOMAIN graph = 0 .. n - 1
  BY DEF Ordered, IsGraph
<1>2. /\ 0 \in ToSet(rpo) /\ num[0] = 1
      /\ \A y \in ToSet(rpo) : num[y] \in 1 .. Len(rpo)
      /\ \A y, z \in ToSet(rpo) : num[y] = num[z] => y = z
      /\ Len(rpo) \in Nat
  BY Numbered
<1>3. 0 \in 0 .. n - 1 /\ UNDEF # 0
  BY <1>1 DEF UNDEF
<1>4. d[0] = 0 /\ d \in [0 .. n - 1 -> (0 .. n - 1) \cup {UNDEF}]
  BY <1>3
<1>5. Known(d) = {0}
  BY <1>3 DEF Known
<1> HIDE DEF d, num
<1>6. Climbs(n, rpo, d)
  BY <1>2, <1>4, <1>5 DEF Climbs
<1>7. \A y \in ToSet(rpo) : num[y] < 2 => y = 0
  <2> TAKE y \in ToSet(rpo)
  <2>1. num[y] \in 1 .. Len(rpo)
    BY <1>2
  <2>2. num[y] < 2 => num[y] = 1
    BY <1>2, <2>1
  <2> QED
    BY <1>2, <2>2
<1>8. \A x \in Known(d) : \A y \in ToSet(rpo) : num[y] < num[x] => y \in Known(d)
  BY <1>2, <1>5, <1>7
<1>9. Covers(graph, d)
  BY <1>5, DomBack DEF Covers
<1>10. Forward(graph, rpo, d, 2)
  <2>1. ~(num[0] < num[0])
    BY <1>2
  <2> QED
    BY <1>5, <2>1 DEF Forward, num
<1>11. Waits(graph, d)
  BY <1>5 DEF Waits
<1>12. Sweeping(graph, n, rpo, d, 2)
  BY <1>5, <1>6, <1>7, <1>8, <1>9, <1>10, <1>11 DEF Sweeping, num
<1> QED
  BY <1>1, <1>12 DEF d

(* How far the blocks are down altogether, as a set of pairs that loses one *)
(* when a block is moved up.                                                *)
Depths(rpo, d) ==
  {e \in (1 .. Len(rpo)) \X (1 .. Len(rpo)) : e[2] <= Number(rpo)[d[rpo[e[1]]]]}
LEMMA DepthsDrop ==
  ASSUME NEW graph, NEW n, NEW rpo, Ordered(graph, n, rpo)
  PROVE  /\ \A d : /\ Cardinality(Depths(rpo, d)) \in Nat
                   /\ Cardinality(Depths(rpo, d)) <= Len(rpo) * Len(rpo)
         /\ \A d, e : /\ \A y \in ToSet(rpo) : d[y] \in ToSet(rpo) /\ e[y] \in ToSet(rpo)
                      /\ \A y \in ToSet(rpo) : Number(rpo)[e[y]] <= Number(rpo)[d[y]]
                      /\ \E y \in ToSet(rpo) : Number(rpo)[e[y]] < Number(rpo)[d[y]]
                      => Cardinality(Depths(rpo, e)) < Cardinality(Depths(rpo, d))
<1> DEFINE l == Len(rpo)
           num == Number(rpo)
           R == ToSet(rpo)
           M(d) == Depths(rpo, d)
           P == (1 .. l) \X (1 .. l)
<1>1. /\ l \in Nat /\ l >= 1
      /\ \A y \in R : num[y] \in 1 .. l /\ rpo[num[y]] = y
      /\ \A j \in 1 .. l : rpo[j] \in R
  BY Numbered
<1>2. \A d : M(d) = {e \in P : e[2] <= num[d[rpo[e[1]]]]}
  BY DEF Depths
<1> HIDE DEF l, num, R, M
<1>3. IsFiniteSet(P) /\ Cardinality(P) = l * l
  <2>1. 1 \in Int /\ l \in Int
    BY <1>1
  <2>2. IsFiniteSet(1 .. l) /\ Cardinality(1 .. l) = IF 1 > l THEN 0 ELSE l - 1 + 1
    BY <2>1, FS_Interval
  <2>3. Cardinality(1 .. l) = l
    BY <1>1, <2>2
  <2>4. IsFiniteSet(P) /\ Cardinality(P) = Cardinality(1 .. l) * Cardinality(1 .. l)
    BY <2>2, FS_Product
  <2> QED
    BY <2>3, <2>4
<1>4. \A d : M(d) \in SUBSET P
  BY <1>2
<1> HIDE DEF P
<1>5. ASSUME NEW d
      PROVE  IsFiniteSet(M(d)) /\ Cardinality(M(d)) \in Nat /\ Cardinality(M(d)) <= l * l
  <2>1. IsFiniteSet(M(d)) /\ Cardinality(M(d)) <= Cardinality(P)
    BY <1>3, <1>4, FS_Subset
  <2>2. Cardinality(M(d)) \in Nat
    BY <2>1, FS_CardinalityType
  <2> QED
    BY <1>3, <2>1, <2>2
<1>6. ASSUME NEW d, NEW e,
             \A y \in R : d[y] \in R /\ e[y] \in R,
             \A y \in R : num[e[y]] <= num[d[y]],
             NEW z \in R, num[e[z]] < num[d[z]]
      PROVE  Cardinality(M(e)) < Cardinality(M(d))
  <2>1. \A y \in R : num[d[y]] \in 1 .. l /\ num[e[y]] \in 1 .. l
    BY <1>1, <1>6
  <2>2. M(e) \subseteq M(d)
    <3> SUFFICES ASSUME NEW x \in M(e)
                 PROVE  x \in M(d)
      OBVIOUS
    <3> DEFINE y == rpo[x[1]]
    <3>1. x \in P /\ x[2] <= num[e[y]]
      BY <1>2
    <3>2. x[1] \in 1 .. l /\ x[2] \in 1 .. l
      BY <3>1 DEF P
    <3>3. y \in R
      BY <1>1, <3>2
    <3> HIDE DEF y
    <3>4. x[2] <= num[d[y]]
      <4>1. num[e[y]] <= num[d[y]] /\ num[d[y]] \in 1 .. l /\ num[e[y]] \in 1 .. l
        BY <1>6, <2>1, <3>3
      <4> QED
        BY <1>1, <3>1, <3>2, <4>1
    <3> QED
      BY <1>2, <3>1, <3>4 DEF y
  <2>3. M(e) # M(d)
    <3> DEFINE x == <<num[z], num[d[z]]>>
    <3>1. num[z] \in 1 .. l /\ num[d[z]] \in 1 .. l /\ num[e[z]] \in 1 .. l /\ rpo[num[z]] = z
      BY <1>1, <2>1
    <3>2. x \in P /\ x[1] = num[z] /\ x[2] = num[d[z]]
      BY <3>1 DEF P
    <3> HIDE DEF x
    <3>3. num[d[z]] <= num[d[z]] /\ ~(num[d[z]] <= num[e[z]])
      BY <1>1, <1>6, <3>1
    <3>4. x \in M(d)
      BY <1>2, <3>1, <3>2, <3>3
    <3>5. x \notin M(e)
      BY <1>2, <3>1, <3>2, <3>3
    <3> QED
      BY <3>4, <3>5
  <2>4. M(e) \in SUBSET M(d)
    BY <2>2
  <2>5. Cardinality(M(e)) <= Cardinality(M(d)) /\ Cardinality(M(d)) # Cardinality(M(e))
    <3>1. IsFiniteSet(M(d))
      BY <1>5
    <3> QED
      BY <2>3, <2>4, <3>1, FS_Subset
  <2>6. Cardinality(M(e)) \in Nat /\ Cardinality(M(d)) \in Nat
    BY <1>5
  <2> QED
    BY <2>5, <2>6
<1> QED
  BY <1>5, <1>6 DEF l, num, R, M

(* The sweeps end within their bound, with an assignment that none of their *)
(* steps changes.                                                           *)
LEMMA IdomsSettle ==
  ASSUME NEW graph, NEW n, NEW rpo, Ordered(graph, n, rpo)
  PROVE  LET d == Idoms(graph, rpo)
         IN /\ Settled(graph, n, rpo, d)
            /\ \A b \in ToSet(rpo) : b # 0 => Revised(graph, rpo, d, b) = d
<1> DEFINE l == Len(rpo)
           R == ToSet(rpo)
           num == Number(rpo)
           bound == l * l + 2
           start == [b \in DOMAIN graph |-> IF b = 0 THEN 0 ELSE UNDEF]
           Sweep(d) == Swept(graph, rpo, d)
           D == [0 .. n - 1 -> (0 .. n - 1) \cup {UNDEF}]
           Next1(y) == IF y.changed
                       THEN [idom |-> Sweep(y.idom), changed |-> Sweep(y.idom) # y.idom]
                       ELSE y
           Kept(g) == g = [k \in 0 .. bound |->
                             IF k = 0 THEN [idom |-> start, changed |-> TRUE]
                             ELSE LET before == g[k - 1]
                                      after == Swept(graph, rpo, before.idom)
                                  IN IF before.changed
                                     THEN [idom |-> after, changed |-> after # before.idom]
                                     ELSE before]
           sweep == CHOOSE g : Kept(g)
           S == {y \in [idom : D, changed : BOOLEAN] : Sweeping(graph, n, rpo, y.idom, 2)}
           F == [k \in 1 .. bound |-> [y \in S |-> Next1(y)]]
           init == [idom |-> start, changed |-> TRUE]
           Fixed(d) == \A b \in R : b # 0 => Revised(graph, rpo, d, b) = d
           Calm(d) == Settled(graph, n, rpo, d)
           size(d) == Cardinality(Depths(rpo, d))
<1>1. l \in Nat /\ l >= 1 /\ l * l \in Nat
  BY Numbered
<1>2. rpo # <<>>
  BY DEF Ordered
<1>3. Idoms(graph, rpo) = sweep[bound].idom
  BY <1>2 DEF Idoms
<1>4. bound \in Nat
  BY <1>1
<1>5. \A d : Sweeping(graph, n, rpo, d, 2) => Calm(Sweep(d))
  BY SweepSettles
<1>6. \A d, i : Calm(d) => Sweeping(graph, n, rpo, d, i)
  BY SettledSweeps
<1>7. \A d, i : Sweeping(graph, n, rpo, d, i) => d \in D
  BY DEF Sweeping, Climbs
<1>8. \A d : Calm(d) => /\ \A y \in R : num[Sweep(d)[y]] <= num[d[y]]
                        /\ \/ Sweep(d) = d /\ Fixed(d)
                           \/ \E y \in R : num[Sweep(d)[y]] < num[d[y]]
  BY SweepRaises
<1>9. \A d : size(d) \in Nat /\ size(d) <= l * l
  BY DepthsDrop
<1>10. \A d, e : /\ \A y \in R : d[y] \in R /\ e[y] \in R
                 /\ \A y \in R : num[e[y]] <= num[d[y]]
                 /\ \E y \in R : num[e[y]] < num[d[y]]
                 => size(e) < size(d)
  BY DepthsDrop
<1>11. \A y \in R : num[y] \in Nat
  <2>1. \A y \in R : num[y] \in 1 .. l
    BY Numbered
  <2> HIDE DEF num, R, l
  <2> QED
    BY <1>1, <2>1
<1>12. \A d : Calm(d) => \A y \in R : d[y] \in R
  <2> TAKE d
  <2> HAVE Calm(d)
  <2>1. Known(d) = R /\ Climbs(n, rpo, d)
    BY DEF Settled, Sweeping
  <2>2. \A y \in Known(d) : d[y] \in Known(d)
    BY <2>1 DEF Climbs
  <2> QED
    BY <2>1, <2>2
<1>13. Sweeping(graph, n, rpo, start, 2)
  BY StartSweeps
<1>14. \A k \in 1 .. bound : \A y \in S : F[k][y] = Next1(y)
  OBVIOUS
<1> HIDE DEF l, R, num, bound, start, Sweep, D, F, Fixed, Calm, size
<1>15. init \in S
  BY <1>7, <1>13
<1>16. \A y \in S : Next1(y) \in S
  <2> TAKE y \in S
  <2>1. /\ Sweeping(graph, n, rpo, y.idom, 2) /\ y.idom \in D /\ y.changed \in BOOLEAN
        /\ y = [idom |-> y.idom, changed |-> y.changed]
    OBVIOUS
  <2>2. Sweeping(graph, n, rpo, Sweep(y.idom), 2) /\ Sweep(y.idom) \in D
    BY <1>5, <1>6, <1>7, <2>1
  <2>3. CASE y.changed
    <3>1. Next1(y) = [idom |-> Sweep(y.idom), changed |-> Sweep(y.idom) # y.idom]
      BY <2>3
    <3>2. (Sweep(y.idom) # y.idom) \in BOOLEAN
      OBVIOUS
    <3> QED
      BY <2>2, <3>1, <3>2
  <2>4. CASE ~y.changed
    BY <2>4
  <2> QED
    BY <2>3, <2>4
<1> HIDE DEF S, init
<1>17. PICK f \in [0 .. bound -> S] : Follows(f, bound, init, F)
  <2>1. Stays(bound, F, S)
    <3> HIDE DEF Next1
    <3> QED
      BY <1>14, <1>16 DEF Stays
  <2> QED
    BY <1>4, <1>15, <2>1, Recursion
<1>18. Kept(f)
  <2>1. ASSUME NEW i \in 0 .. bound
        PROVE  f[i] = IF i = 0 THEN init ELSE Next1(f[i - 1])
    <3> HIDE DEF Next1
    <3>1. CASE i = 0
      BY <1>17, <3>1 DEF Follows
    <3>2. CASE i # 0
      <4>1. i \in 1 .. bound /\ i - 1 \in 0 .. bound
        BY <1>4, <3>2
      <4>2. f[i - 1] \in S
        BY <4>1
      <4>3. f[i] = F[i][f[i - 1]]
        BY <1>17, <3>2 DEF Follows
      <4> QED
        BY <1>14, <3>2, <4>1, <4>2, <4>3
    <3> QED
      BY <3>1, <3>2
  <2> QED
    BY <1>17, <2>1 DEF Follows, init, Sweep
<1>19. Kept(sweep)
  <2> HIDE DEF Kept
  <2> QED
    BY <1>18
<1> HIDE DEF sweep
<1>20. sweep[0] = init /\ \A k \in 1 .. bound : sweep[k] = Next1(sweep[k - 1])
  <2>1. 0 \in 0 .. bound /\ \A k \in 1 .. bound : k \in 0 .. bound /\ k # 0
    BY <1>4
  <2> QED
    BY <1>19, <2>1 DEF init, Sweep
<1> HIDE DEF Kept
<1> DEFINE T == {k \in 0 .. bound :
                   /\ Sweeping(graph, n, rpo, sweep[k].idom, 2)
                   /\ k = 0 => sweep[k].changed
                   /\ k # 0 => /\ Calm(sweep[k].idom)
                               /\ sweep[k].changed => size(sweep[k].idom) + k <= l * l + 1
                               /\ ~sweep[k].changed => Fixed(sweep[k].idom)}
<1>21. 0 .. bound \subseteq T
  <2>1. 0 \in T
    <3>1. 0 \in 0 .. bound /\ sweep[0].idom = start /\ sweep[0].changed
      BY <1>4, <1>20 DEF init
    <3> QED
      BY <1>13, <3>1
  <2>2. ASSUME NEW k \in 1 .. bound, k - 1 \in T
        PROVE  k \in T
    <3> DEFINE y == sweep[k - 1]
               z == sweep[k]
               d == y.idom
               e == Sweep(d)
    <3>1. /\ Sweeping(graph, n, rpo, d, 2)
          /\ k - 1 = 0 => y.changed
          /\ k - 1 # 0 => /\ Calm(d)
                          /\ y.changed => size(d) + (k - 1) <= l * l + 1
                          /\ ~y.changed => Fixed(d)
      BY <2>2
    <3>2. z = Next1(y) /\ k \in 0 .. bound /\ k # 0 /\ k \in Nat
      BY <1>4, <1>20
    <3> HIDE DEF y, z
    <3>3. CASE ~y.changed
      <4>1. z = y /\ k - 1 # 0 /\ Calm(d) /\ Fixed(d)
        BY <3>1, <3>2, <3>3
      <4>2. /\ Sweeping(graph, n, rpo, z.idom, 2) /\ Calm(z.idom)
            /\ ~z.changed /\ Fixed(z.idom)
        BY <3>1, <3>3, <4>1
      <4> QED
        BY <3>2, <4>2 DEF z
    <3>4. CASE y.changed
      <4>1. z.idom = e /\ (z.changed <=> e # d)
        BY <3>2, <3>4
      <4> HIDE DEF d, e
      <4>2. Calm(e) /\ Sweeping(graph, n, rpo, e, 2)
        BY <1>5, <1>6, <3>1 DEF e
      <4>3. ASSUME e = d
            PROVE  Fixed(e)
        <5>1. Calm(d) /\ \A x \in R : e[x] = d[x] /\ e[x] \in R
          BY <1>12, <4>2, <4>3
        <5>2. \A x \in R : ~(num[e[x]] < num[d[x]])
          BY <1>11, <5>1
        <5>3. \/ e = d /\ Fixed(d)
              \/ \E x \in R : num[e[x]] < num[d[x]]
          BY <1>8, <5>1 DEF e
        <5> QED
          BY <5>2, <5>3
      <4>4. ASSUME e # d
            PROVE  size(e) + k <= l * l + 1
        <5>1. CASE k - 1 = 0
          <6>1. k = 1
            BY <3>2, <5>1
          <6>2. size(e) \in Nat /\ size(e) <= l * l
            BY <1>9
          <6> DEFINE q == l * l
          <6>3. q \in Nat /\ size(e) <= q
            BY <1>1, <6>2
          <6> HIDE DEF q
          <6>4. size(e) + k <= q + 1
            BY <6>1, <6>2, <6>3
          <6> QED
            BY <6>4 DEF q
        <5>2. CASE k - 1 # 0
          <6>1. Calm(d) /\ size(d) + (k - 1) <= l * l + 1
            BY <3>1, <3>4, <5>2
          <6>2. /\ \A x \in R : num[e[x]] <= num[d[x]]
                /\ \E x \in R : num[e[x]] < num[d[x]]
            BY <1>8, <4>4, <6>1 DEF e
          <6>3. \A x \in R : d[x] \in R /\ e[x] \in R
            BY <1>12, <4>2, <6>1
          <6>4. size(e) < size(d)
            BY <1>10, <6>2, <6>3
          <6> DEFINE q == l * l
          <6>5. q \in Nat /\ size(e) \in Nat /\ size(d) \in Nat /\ size(d) + (k - 1) <= q + 1
            BY <1>1, <1>9, <6>1
          <6> HIDE DEF q
          <6>6. size(e) + k <= q + 1
            BY <3>2, <6>4, <6>5
          <6> QED
            BY <6>6 DEF q
        <5> QED
          BY <5>1, <5>2
      <4>5. /\ Sweeping(graph, n, rpo, z.idom, 2) /\ Calm(z.idom)
            /\ z.changed => size(z.idom) + k <= l * l + 1
            /\ ~z.changed => Fixed(z.idom)
        BY <4>1, <4>2, <4>3, <4>4
      <4> QED
        BY <3>2, <4>5 DEF z
    <3> QED
      BY <3>3, <3>4
  <2> HIDE DEF T
  <2> QED
    BY <1>4, <2>1, <2>2, Counting
<1>22. /\ Calm(sweep[bound].idom)
       /\ sweep[bound].changed => size(sweep[bound].idom) + bound <= l * l + 1
       /\ ~sweep[bound].changed => Fixed(sweep[bound].idom)
  <2>1. bound \in 0 .. bound /\ bound # 0
    BY <1>1, <1>4 DEF bound
  <2>2. bound \in T
    BY <1>21, <2>1
  <2> QED
    BY <2>1, <2>2
<1>23. ~sweep[bound].changed
  <2> DEFINE q == l * l
             s == size(sweep[bound].idom)
  <2>1. q \in Nat /\ s \in Nat /\ bound = q + 2
    BY <1>1, <1>9 DEF bound
  <2>2. sweep[bound].changed => s + bound <= q + 1
    BY <1>22
  <2> HIDE DEF q, s
  <2> QED
    BY <2>1, <2>2
<1> QED
  BY <1>3, <1>22, <1>23 DEF Calm, Fixed, R

(* The chains of the assignment the sweeps end with are the dominators. *)
LEMMA ChainsDominate ==
  ASSUME NEW graph, NEW n, NEW rpo, Ordered(graph, n, rpo)
  PROVE  LET d == Idoms(graph, rpo)
         IN /\ d \in [0 .. n - 1 -> (0 .. n - 1) \cup {UNDEF}] /\ Known(d) = ToSet(rpo)
            /\ \A b \in ToSet(rpo) : \A a : a \in Chain(d, b) <=> Dom(graph, a, b)
<1> DEFINE d == Idoms(graph, rpo)
           R == ToSet(rpo)
<1>1. Settled(graph, n, rpo, d) /\ \A b \in R : b # 0 => Revised(graph, rpo, d, b) = d
  BY IdomsSettle
<1> HIDE DEF d
<1>2. Known(d) = R /\ Climbs(n, rpo, d) /\ Covers(graph, d)
  BY <1>1 DEF Settled, Sweeping
<1>3. /\ d \in [0 .. n - 1 -> (0 .. n - 1) \cup {UNDEF}]
  BY <1>2 DEF Climbs
<1>4. /\ 0 \in R /\ R \subseteq 0 .. n - 1
      /\ \A b \in R : b # 0 => \E p \in R : EdgeTo(graph, p, b)
      /\ \A b \in R : \A c : EdgeTo(graph, b, c) => c \in R
  BY Numbered
<1>5. ASSUME NEW b \in R, b # 0
      PROVE  \A p \in R : EdgeTo(graph, p, b) => Chain(d, d[b]) \subseteq Chain(d, p)
  <2>1. \E p \in Known(d) : EdgeTo(graph, p, b)
    BY <1>2, <1>4, <1>5
  <2>2. PICK m \in Known(d) :
          /\ Revised(graph, rpo, d, b) = [d EXCEPT ![b] = m]
          /\ \A u : u \in Chain(d, m) <=>
               \A p \in Known(d) : EdgeTo(graph, p, b) => u \in Chain(d, p)
    BY <1>2, <2>1, RevisedMeets
  <2>3. [d EXCEPT ![b] = m] = d
    BY <1>1, <1>5, <2>2
  <2>4. [d EXCEPT ![b] = m][b] = m
    BY <1>3, <1>4
  <2>5. d[b] = m
    BY <2>3, <2>4
  <2> QED
    BY <1>2, <2>2, <2>5
<1>6. ASSUME NEW b \in R, NEW a, a \in Chain(d, b)
      PROVE  Dom(graph, a, b)
  <2> DEFINE C == {c \in R : a \notin Chain(d, c)}
  <2>1. a \in R
    <3>1. Chain(d, b) \subseteq Known(d)
      BY <1>2, ChainIsLeast
    <3> QED
      BY <1>2, <1>6, <3>1
  <2>2. a \notin C
    <3>1. a \in Chain(d, a)
      BY <1>2, <2>1, ChainIsLeast
    <3> QED
      BY <3>1
  <2>3. a # 0 => 0 \in C
    <3>1. Chain(d, 0) = {0}
      BY <1>2, <1>4, ChainSteps
    <3> QED
      BY <1>4, <3>1
  <2>4. ASSUME NEW x \in C, NEW y, EdgeTo(graph, x, y), y # a
        PROVE  y \in C
    <3>1. x \in R /\ a \notin Chain(d, x) /\ y \in R
      BY <1>4, <2>4
    <3>2. CASE y = 0
      BY <2>3, <2>4, <3>2
    <3>3. CASE y # 0
      <4>1. Chain(d, y) = {y} \cup Chain(d, d[y])
        BY <1>2, <3>1, <3>3, ChainSteps
      <4>2. Chain(d, d[y]) \subseteq Chain(d, x)
        BY <1>5, <2>4, <3>1, <3>3
      <4> QED
        BY <2>4, <3>1, <4>1, <4>2
    <3> QED
      BY <3>2, <3>3
  <2>5. b \notin C
    BY <1>6
  <2> HIDE DEF C
  <2> QED
    BY <2>2, <2>3, <2>4, <2>5 DEF Dom, Avoids
<1>7. ASSUME NEW b \in R, NEW a, Dom(graph, a, b)
      PROVE  a \in Chain(d, b)
  BY <1>2, <1>7, DominatorsOnChain
<1> QED
  BY <1>2, <1>3, <1>6, <1>7 DEF d

(* Of a block the back edges found are those to its dominators. *)
LEMMA BackEdgesOfBlock ==
  ASSUME NEW graph, NEW n, IsGraph(graph, n), NEW d, NEW t \in 0 .. n - 1
  PROVE  /\ BackEdgesOf(graph, d, t) \in Seq((0 .. n - 1) \X (0 .. n - 1))
         /\ \A e : e \in ToSet(BackEdgesOf(graph, d, t)) <=>
              \E h : EdgeTo(graph, t, h) /\ Dominates(d, h, t) /\ e = <<t, h>>
<1> DEFINE N == 0 .. n - 1
           P == N \X N
           S == Seq(P)
           l == Len(graph[t])
           More(k, y) == IF Dominates(d, graph[t][k], t)
                         THEN Append(y, <<t, graph[t][k]>>) ELSE y
           Kept(g) == g = [k \in 0 .. l |->
                             IF k = 0 THEN <<>>
                             ELSE IF Dominates(d, graph[t][k], t)
                                  THEN Append(g[k - 1], <<t, graph[t][k]>>)
                             ELSE g[k - 1]]
           found == CHOOSE g : Kept(g)
           F == [k \in 1 .. l |-> [y \in S |-> More(k, y)]]
           Good(h) == Dominates(d, h, t)
<1>1. graph[t] \in Seq(N)
  BY DEF IsGraph
<1>2. l \in Nat /\ \A k \in 1 .. l : graph[t][k] \in N
  <2>1. l \in Nat
    BY <1>1, LenProperties
  <2>2. \A k \in 1 .. l : graph[t][k] \in N
    <3> HIDE DEF N
    <3> QED
      BY <1>1, ElementOfSeq
  <2> QED
    BY <2>1, <2>2
<1>3. BackEdgesOf(graph, d, t) = found[l]
  BY DEF BackEdgesOf
<1>4. \A k \in 1 .. l : \A y \in S : F[k][y] = More(k, y)
  OBVIOUS
<1>5. \A k \in 1 .. l : <<t, graph[t][k]>> \in P
  BY <1>2
<1> HIDE DEF l, P, S, F, N
<1>6. \A k \in 1 .. l : \A y \in S : More(k, y) \in S
  <2> TAKE k \in 1 .. l
  <2> TAKE y \in S
  <2>1. Append(y, <<t, graph[t][k]>>) \in S
    BY <1>5, AppendProperties DEF S
  <2> QED
    BY <2>1
<1>7. PICK f \in [0 .. l -> S] : Follows(f, l, <<>>, F)
  <2>1. Stays(l, F, S)
    <3> HIDE DEF More
    <3> QED
      BY <1>4, <1>6 DEF Stays
  <2>2. <<>> \in S
    BY DEF S
  <2> QED
    BY <1>2, <2>1, <2>2, Recursion
<1>8. Kept(f)
  <2>1. ASSUME NEW i \in 0 .. l
        PROVE  f[i] = IF i = 0 THEN <<>> ELSE More(i, f[i - 1])
    <3> HIDE DEF More
    <3>1. CASE i = 0
      BY <1>7, <3>1 DEF Follows
    <3>2. CASE i # 0
      <4>1. i \in 1 .. l /\ i - 1 \in 0 .. l
        BY <1>2, <3>2
      <4>2. f[i - 1] \in S
        BY <4>1
      <4>3. f[i] = F[i][f[i - 1]]
        BY <1>7, <3>2 DEF Follows
      <4> QED
        BY <1>4, <3>2, <4>1, <4>2, <4>3
    <3> QED
      BY <3>1, <3>2
  <2> QED
    BY <1>7, <2>1 DEF Follows
<1>9. Kept(found)
  <2> HIDE DEF Kept
  <2> QED
    BY <1>8
<1> HIDE DEF found
<1>10. found[0] = <<>> /\ \A k \in 1 .. l : found[k] = More(k, found[k - 1])
  <2>1. 0 \in 0 .. l /\ \A k \in 1 .. l : k \in 0 .. l /\ k # 0
    BY <1>2
  <2> QED
    BY <1>9, <2>1
<1> HIDE DEF Kept
<1> DEFINE Among(k, e) == \E j \in 1 .. k : Good(graph[t][j]) /\ e = <<t, graph[t][j]>>
           T == {k \in 0 .. l : /\ found[k] \in S
                                /\ \A e : (\E i \in 1 .. Len(found[k]) : found[k][i] = e) <=> Among(k, e)}
<1>11. 0 .. l \subseteq T
  <2>1. 0 \in T
    <3>1. 0 \in 0 .. l /\ <<>> \in S /\ Len(<<>>) = 0
      BY <1>2 DEF S
    <3>2. \A e : ~Among(0, e)
      OBVIOUS
    <3>3. \A e : ~\E i \in 1 .. Len(found[0]) : found[0][i] = e
      BY <1>10
    <3> HIDE DEF Among
    <3> QED
      BY <1>10, <3>1, <3>2, <3>3
  <2>2. ASSUME NEW k \in 1 .. l, k - 1 \in T
        PROVE  k \in T
    <3> DEFINE y == found[k - 1]
               x == <<t, graph[t][k]>>
    <3>1. /\ y \in S
          /\ \A e : (\E i \in 1 .. Len(y) : y[i] = e) <=> Among(k - 1, e)
      BY <2>2
    <3>2. found[k] = (IF Good(graph[t][k]) THEN Append(y, x) ELSE y) /\ k \in 0 .. l
      BY <1>2, <1>10
    <3>3. \A e : Among(k, e) <=> Among(k - 1, e) \/ (Good(graph[t][k]) /\ e = x)
      <4>1. \A j : j \in 1 .. k <=> j \in 1 .. k - 1 \/ j = k
        BY <1>2
      <4> HIDE DEF Good
      <4> QED
        BY <4>1
    <3> HIDE DEF y, Good, Among
    <3>4. CASE ~Good(graph[t][k])
      <4>1. found[k] = y /\ \A e : Among(k, e) <=> Among(k - 1, e)
        BY <3>2, <3>3, <3>4
      <4> QED
        BY <3>1, <3>2, <4>1
    <3>5. CASE Good(graph[t][k])
      <4>1. found[k] = Append(y, x)
        BY <3>2, <3>5
      <4>2. x \in P
        BY <1>5
      <4> HIDE DEF x
      <4>3. /\ Append(y, x) \in S /\ Len(Append(y, x)) = Len(y) + 1 /\ Len(y) \in Nat
            /\ Append(y, x)[Len(y) + 1] = x
            /\ \A i \in 1 .. Len(y) : Append(y, x)[i] = y[i]
        BY <3>1, <4>2, AppendProperties, LenProperties DEF S
      <4>4. \A i : i \in 1 .. Len(y) + 1 <=> i \in 1 .. Len(y) \/ i = Len(y) + 1
        BY <4>3
      <4>5. \A e : (\E i \in 1 .. Len(found[k]) : found[k][i] = e)
                     <=> (\E i \in 1 .. Len(y) : y[i] = e) \/ e = x
        BY <4>1, <4>3, <4>4
      <4>6. \A e : Among(k, e) <=> Among(k - 1, e) \/ e = x
        BY <3>3, <3>5 DEF x
      <4>7. \A e : (\E i \in 1 .. Len(found[k]) : found[k][i] = e) <=> Among(k, e)
        BY <3>1, <4>5, <4>6
      <4> QED
        BY <3>2, <4>1, <4>3, <4>7
    <3> QED
      BY <3>4, <3>5
  <2> HIDE DEF T
  <2> QED
    BY <1>2, <2>1, <2>2, Counting
<1>12. /\ found[l] \in S
       /\ \A e : (\E i \in 1 .. Len(found[l]) : found[l][i] = e) <=> Among(l, e)
  <2>1. l \in 0 .. l
    BY <1>2
  <2> HIDE DEF Among
  <2> QED
    BY <1>11, <2>1
<1>13. \A e : e \in ToSet(found[l]) <=> \E i \in 1 .. Len(found[l]) : found[l][i] = e
  <2>1. DOMAIN found[l] = 1 .. Len(found[l])
    BY <1>12, LenProperties DEF S
  <2> QED
    BY <2>1 DEF ToSet
<1>14. \A e : Among(l, e) <=>
               \E h : EdgeTo(graph, t, h) /\ Good(h) /\ e = <<t, h>>
  <2> HIDE DEF Good
  <2> QED
    BY DEF EdgeTo, l
<1> QED
  <2> HIDE DEF Among
  <2> QED
    BY <1>3, <1>12, <1>13, <1>14 DEF S, P, N

(* The back edges of a graph are the edges from a reachable block to one    *)
(* that dominates it.                                                       *)
LEMMA BackEdgesFound ==
  ASSUME NEW graph, NEW n, IsGraph(graph, n)
  PROVE  /\ BackEdges(graph) \in Seq((0 .. n - 1) \X (0 .. n - 1))
         /\ \A e : e \in ToSet(BackEdges(graph)) <=>
              \E t \in Reachable(graph) : \E h :
                EdgeTo(graph, t, h) /\ Dom(graph, h, t) /\ e = <<t, h>>
<1> DEFINE rpo == ReversePostorder(graph)
           d == Idoms(graph, rpo)
           R == Reachable(graph)
           N == 0 .. n - 1
           P == N \X N
           S == Seq(P)
           blocks == Cardinality(DOMAIN graph)
           Of(t) == BackEdgesOf(graph, d, t)
           Kept(g) == g = [t \in 0 .. blocks |->
                             IF t = 0 THEN <<>>
                             ELSE g[t - 1] \o BackEdgesOf(graph, d, t - 1)]
           found == CHOOSE g : Kept(g)
           F == [t \in 1 .. blocks |-> [y \in S |-> y \o Of(t - 1)]]
<1>1. n \in Nat /\ n # 0 /\ DOMAIN graph = 0 .. n - 1
  BY DEF IsGraph
<1>2. blocks = n
  <2> DEFINE m == n - 1
  <2>1. m \in Int /\ 0 \in Int
    BY <1>1
  <2> HIDE DEF m
  <2>2. Cardinality(0 .. m) = IF 0 > m THEN 0 ELSE m - 0 + 1
    BY <2>1, FS_Interval
  <2> QED
    BY <1>1, <2>2 DEF m
<1>3. Ordered(graph, n, rpo)
  BY PostorderIsOrdered
<1>4. R = ToSet(rpo)
  BY DEF Reachable
<1>5. /\ d \in [0 .. n - 1 -> (0 .. n - 1) \cup {UNDEF}] /\ Known(d) = R
      /\ \A b \in R : \A a : a \in Chain(d, b) <=> Dom(graph, a, b)
      /\ R \subseteq N
      /\ \A b \in R : \A c : EdgeTo(graph, b, c) => c \in R
  BY <1>3, <1>4, ChainsDominate, Numbered
<1>6. BackEdges(graph) = found[blocks]
  BY DEF BackEdges
<1>7. \A t \in N : /\ Of(t) \in S
                   /\ \A e : e \in ToSet(Of(t)) <=>
                        \E h : EdgeTo(graph, t, h) /\ Dominates(d, h, t) /\ e = <<t, h>>
  BY BackEdgesOfBlock
<1>8. \A t \in 1 .. blocks : \A y \in S : F[t][y] = y \o Of(t - 1)
  OBVIOUS
<1>9. \A t \in 1 .. blocks : t - 1 \in N
  BY <1>1, <1>2
<1> HIDE DEF S, F, N, Of, d, blocks, R, rpo
<1>10. \A t \in 1 .. blocks : \A y \in S : y \o Of(t - 1) \in S
  <2> TAKE t \in 1 .. blocks
  <2> TAKE y \in S
  <2>1. Of(t - 1) \in S
    BY <1>7, <1>9
  <2> QED
    BY <2>1, ConcatProperties DEF S
<1>11. blocks \in Nat
  BY <1>1, <1>2
<1>12. PICK f \in [0 .. blocks -> S] : Follows(f, blocks, <<>>, F)
  <2>1. Stays(blocks, F, S)
    BY <1>8, <1>10 DEF Stays
  <2>2. <<>> \in S
    BY DEF S
  <2> QED
    BY <1>11, <2>1, <2>2, Recursion
<1>13. Kept(f)
  <2>1. ASSUME NEW i \in 0 .. blocks
        PROVE  f[i] = IF i = 0 THEN <<>> ELSE f[i - 1] \o Of(i - 1)
    <3>1. CASE i = 0
      BY <1>12, <3>1 DEF Follows
    <3>2. CASE i # 0
      <4>1. i \in 1 .. blocks /\ i - 1 \in 0 .. blocks
        BY <1>11, <3>2
      <4>2. f[i - 1] \in S
        BY <4>1
      <4>3. f[i] = F[i][f[i - 1]]
        BY <1>12, <3>2 DEF Follows
      <4> QED
        BY <1>8, <3>2, <4>1, <4>2, <4>3
    <3> QED
      BY <3>1, <3>2
  <2> QED
    BY <1>12, <2>1 DEF Follows, Of
<1>14. Kept(found)
  <2> HIDE DEF Kept
  <2> QED
    BY <1>13
<1> HIDE DEF found
<1>15. found[0] = <<>> /\ \A t \in 1 .. blocks : found[t] = found[t - 1] \o Of(t - 1)
  <2>1. 0 \in 0 .. blocks /\ \A t \in 1 .. blocks : t \in 0 .. blocks /\ t # 0
    BY <1>11
  <2> QED
    BY <1>14, <2>1 DEF Of
<1> HIDE DEF Kept
<1>16. \A s \in S : \A e : e \in ToSet(s) <=> \E i \in 1 .. Len(s) : s[i] = e
  <2> TAKE s \in S
  <2>1. DOMAIN s = 1 .. Len(s)
    BY LenProperties DEF S
  <2> QED
    BY <2>1 DEF ToSet
<1>17. \A r, s \in S : \A e : e \in ToSet(r \o s) <=> e \in ToSet(r) \/ e \in ToSet(s)
  <2> TAKE r, s \in S
  <2> TAKE e
  <2>1. /\ r \o s \in S /\ Len(r \o s) = Len(r) + Len(s) /\ Len(r) \in Nat /\ Len(s) \in Nat
        /\ \A i \in 1 .. Len(r) + Len(s) :
             (r \o s)[i] = IF i <= Len(r) THEN r[i] ELSE s[i - Len(r)]
    BY ConcatProperties, LenProperties DEF S
  <2>2. ASSUME e \in ToSet(r \o s)
        PROVE  e \in ToSet(r) \/ e \in ToSet(s)
    <3>1. PICK i \in 1 .. Len(r) + Len(s) : (r \o s)[i] = e
      BY <1>16, <2>1, <2>2
    <3>2. CASE i <= Len(r)
      <4>1. i \in 1 .. Len(r) /\ r[i] = e
        BY <2>1, <3>1, <3>2
      <4> QED
        BY <1>16, <4>1
    <3>3. CASE ~(i <= Len(r))
      <4>1. i - Len(r) \in 1 .. Len(s) /\ s[i - Len(r)] = e
        BY <2>1, <3>1, <3>3
      <4> QED
        BY <1>16, <4>1
    <3> QED
      BY <3>2, <3>3
  <2>3. ASSUME e \in ToSet(r)
        PROVE  e \in ToSet(r \o s)
    <3>1. PICK i \in 1 .. Len(r) : r[i] = e
      BY <1>16, <2>3
    <3>2. i \in 1 .. Len(r) + Len(s) /\ (r \o s)[i] = e
      BY <2>1, <3>1
    <3> QED
      BY <1>16, <2>1, <3>2
  <2>4. ASSUME e \in ToSet(s)
        PROVE  e \in ToSet(r \o s)
    <3>1. PICK i \in 1 .. Len(s) : s[i] = e
      BY <1>16, <2>4
    <3> DEFINE j == i + Len(r)
    <3>2. j \in 1 .. Len(r) + Len(s) /\ ~(j <= Len(r)) /\ j - Len(r) = i
      BY <2>1, <3>1
    <3> HIDE DEF j
    <3>3. (r \o s)[j] = e
      BY <2>1, <3>1, <3>2
    <3> QED
      BY <1>16, <2>1, <3>2, <3>3
  <2> QED
    BY <2>2, <2>3, <2>4
<1> DEFINE Earlier(k, e) == \E t \in N : t < k /\ e \in ToSet(Of(t))
           T == {k \in 0 .. blocks : found[k] \in S /\ \A e : e \in ToSet(found[k]) <=> Earlier(k, e)}
<1>18. 0 .. blocks \subseteq T
  <2>1. 0 \in T
    <3>1. 0 \in 0 .. blocks /\ <<>> \in S /\ \A e : e \notin ToSet(<<>>)
      BY <1>11 DEF S, ToSet
    <3>2. \A e : ~Earlier(0, e)
      BY <1>1 DEF N
    <3> HIDE DEF Earlier
    <3> QED
      BY <1>15, <3>1, <3>2
  <2>2. ASSUME NEW k \in 1 .. blocks, k - 1 \in T
        PROVE  k \in T
    <3>1. found[k - 1] \in S /\ \A e : e \in ToSet(found[k - 1]) <=> Earlier(k - 1, e)
      BY <2>2
    <3>2. found[k] = found[k - 1] \o Of(k - 1) /\ k \in 0 .. blocks /\ k - 1 \in N
      <4>1. found[k] = found[k - 1] \o Of(k - 1)
        BY <1>15
      <4>2. k \in 0 .. blocks
        BY <1>11
      <4>3. k - 1 \in N
        BY <1>9
      <4> QED
        BY <4>1, <4>2, <4>3
    <3>3. Of(k - 1) \in S
      BY <1>7, <3>2
    <3>4. \A e : Earlier(k, e) <=> Earlier(k - 1, e) \/ e \in ToSet(Of(k - 1))
      <4>1. \A t \in N : t < k <=> t < k - 1 \/ t = k - 1
        BY <1>1, <1>11 DEF N
      <4> QED
        BY <3>2, <4>1
    <3> HIDE DEF Earlier
    <3>5. \A e : e \in ToSet(found[k]) <=> Earlier(k, e)
      BY <1>17, <3>1, <3>2, <3>3, <3>4
    <3>6. found[k] \in S
      BY <1>10, <3>1, <3>2
    <3> QED
      BY <3>2, <3>5, <3>6
  <2> HIDE DEF T
  <2> QED
    BY <1>11, <2>1, <2>2, Counting
<1>19. found[blocks] \in S /\ \A e : e \in ToSet(found[blocks]) <=> Earlier(blocks, e)
  <2>1. blocks \in 0 .. blocks
    BY <1>11
  <2> HIDE DEF Earlier
  <2> QED
    BY <1>18, <2>1
<1>20. \A t \in N : t < blocks
  BY <1>1, <1>2 DEF N
<1>21. ASSUME NEW t \in N, NEW h, EdgeTo(graph, t, h)
       PROVE  Dominates(d, h, t) <=> t \in R /\ Dom(graph, h, t)
  <2>1. h \in N
    BY <1>21 DEF EdgeTo, IsGraph, N
  <2>2. \A b \in N : d[b] # UNDEF <=> b \in R
    BY <1>5 DEF Known, N
  <2> QED
    BY <1>5, <1>21, <2>1, <2>2 DEF Dominates
<1>22. ASSUME NEW e
       PROVE  e \in ToSet(found[blocks]) <=>
                \E t \in R : \E h : EdgeTo(graph, t, h) /\ Dom(graph, h, t) /\ e = <<t, h>>
  <2>1. e \in ToSet(found[blocks]) <=> \E t \in N : e \in ToSet(Of(t))
    BY <1>19, <1>20
  <2>2. \A t \in N : e \in ToSet(Of(t)) <=>
           \E h : EdgeTo(graph, t, h) /\ Dominates(d, h, t) /\ e = <<t, h>>
    BY <1>7
  <2> QED
    BY <1>5, <1>21, <2>1, <2>2
<1> QED
  BY <1>6, <1>19, <1>22 DEF R, S, P, N

-----------------------------------------------------------------------------
(* Loops.                                                                   *)

(* What execution gets to from instruction 0 but not through another one is *)
(* the least set that has instruction 0 and is left only to the other one.  *)
LEMMA AvoidingIsLeast ==
  ASSUME NEW insns, NEW tables, Accepted(insns, tables), NEW l, l # 0, 0 \in Indices(insns)
  PROVE  LET A == {0} \cup Onward(insns, tables, 0, {l})
         IN /\ A \subseteq Indices(insns)
            /\ \A i \in A : \A k \in Succs(insns, tables, i) : k # l => k \in A
            /\ \A C : 0 \in C /\ (\A i \in C \cap Indices(insns) :
                                    \A k \in Succs(insns, tables, i) : k # l => k \in C)
                 => A \subseteq C
<1> DEFINE O == Onward(insns, tables, 0, {l})
           succs(i) == Succs(insns, tables, i)
<1>1. /\ O \subseteq Indices(insns)
      /\ succs(0) \ {l} \subseteq O
      /\ \A i \in O : succs(i) \ {l} \subseteq O
      /\ \A C : succs(0) \ {l} \subseteq C /\ (\A i \in C \cap Indices(insns) : succs(i) \ {l} \subseteq C)
           => O \subseteq C
  BY OnwardIsLeast
<1> HIDE DEF O, succs
<1>2. ASSUME NEW i \in {0} \cup O, NEW k \in succs(i), k # l
      PROVE  k \in {0} \cup O
  BY <1>1, <1>2
<1>3. ASSUME NEW C, 0 \in C, \A i \in C \cap Indices(insns) : \A k \in succs(i) : k # l => k \in C
      PROVE  {0} \cup O \subseteq C
  <2>1. \A i \in C \cap Indices(insns) : succs(i) \ {l} \subseteq C
    BY <1>3
  <2>2. succs(0) \ {l} \subseteq C
    BY <1>3, <2>1
  <2>3. O \subseteq C
    BY <1>1, <2>1, <2>2
  <2> QED
    BY <1>3, <2>3
<1> QED
  BY <1>1, <1>2, <1>3 DEF O, succs

(* From the leader of a block that execution gets to in this way it gets to *)
(* all of the block, unless that block begins with the other one.           *)
LEMMA AvoidingFollows ==
  ASSUME NEW insns, NEW tables, Accepted(insns, tables),
         NEW l \in Leaders(insns, tables), l # 0,
         NEW m \in Leaders(insns, tables), m \in {0} \cup Onward(insns, tables, 0, {l})
  PROVE  \A i \in Indices(insns) :
           BlockOf(insns, tables, i) = BlockOf(insns, tables, m) =>
             i \in {0} \cup Onward(insns, tables, 0, {l})
<1> DEFINE A == {0} \cup Onward(insns, tables, 0, {l})
<1>1. 0 \in Indices(insns)
  <2>1. m \in Indices(insns)
    BY LeadersLead
  <2> QED
    BY <2>1, GraphHasEntry
<1>2. \A i \in A : \A k \in Succs(insns, tables, i) : k # l => k \in A
  BY <1>1, AvoidingIsLeast
<1> HIDE DEF A
<1>3. ASSUME NEW i \in Indices(insns), i \in A, i + 1 \in Indices(insns),
             i + 1 \notin Leaders(insns, tables), Plain(insns, tables, i)
      PROVE  i + 1 \in A
  <2>1. Targets(insns, tables, i) = <<i + 1>>
    BY <1>3 DEF Plain
  <2>2. i + 1 \in Succs(insns, tables, i)
    BY <2>1 DEF Succs, ToSet
  <2>3. i + 1 # l
    BY <1>3
  <2> QED
    BY <1>2, <1>3, <2>2, <2>3
<1>4. m \in A
  BY DEF A
<1>5. \A i \in Indices(insns) :
        BlockOf(insns, tables, i) = BlockOf(insns, tables, m) => i \in A
  BY <1>3, <1>4, BlockFollows
<1> QED
  BY <1>5 DEF A

(* A step that closes a loop is from the terminator of a block to the       *)
(* leader of another, or of the same.                                       *)
LEMMA LoopStepsLift ==
  ASSUME NEW insns, NEW tables, Accepted(insns, tables),
         NEW e \in LoopSteps(insns, tables)
  PROVE  /\ e[1] \in Indices(insns) /\ e[2] \in Leaders(insns, tables)
         /\ 0 \in Indices(insns)
         /\ EdgeTo(BlockGraph(insns, tables), BlockOf(insns, tables, e[1]), BlockOf(insns, tables, e[2]))
<1> DEFINE i == e[1]
           l == e[2]
           live == Live(insns, tables)
           succs(j) == Succs(insns, tables, j)
           graph == BlockGraph(insns, tables)
           at(j) == BlockOf(insns, tables, j)
           n == Cardinality(Leaders(insns, tables))
<1>1. /\ i \in live /\ l \in live /\ l \in succs(i)
      /\ l \in {0, i} \/ i \notin {0} \cup Onward(insns, tables, 0, {l})
  BY DEF LoopSteps
<1> HIDE DEF i, l
<1>2. 0 \in Indices(insns)
  <2>1. insns # <<>>
    BY <1>1 DEF Live
  <2>2. insns \in Seq(Insn)
    BY DEF Accepted
  <2>3. Len(insns) \in Nat /\ Len(insns) # 0
    BY <2>1, <2>2, EmptySeq
  <2> QED
    BY <2>3 DEF Indices
<1>3. /\ live \subseteq Indices(insns)
      /\ \A C : 0 \in C /\ (\A j \in C \cap Indices(insns) : succs(j) \subseteq C)
           => live \subseteq C
  BY <1>2, LiveIsLeast
<1> HIDE DEF live
<1>4. i \in Indices(insns) /\ \A j \in Indices(insns) : j \in Int
  BY <1>1, <1>3 DEF Indices
<1>5. \A k \in Indices(insns) : \A j \in succs(k) :
        \/ j = k + 1 /\ k + 1 \notin Leaders(insns, tables)
        \/ j \in Leaders(insns, tables) /\ at(j) \in ToSet(graph[at(k)])
  BY EdgesLift DEF Succs
<1>6. l \in Leaders(insns, tables) /\ at(l) \in ToSet(graph[at(i)])
  <2> SUFFICES ASSUME l \notin Leaders(insns, tables)
               PROVE  FALSE
    BY <1>1, <1>4, <1>5
  <2> DEFINE A == {0} \cup Onward(insns, tables, 0, {l})
  <2>1. l = i + 1
    BY <1>1, <1>4, <1>5
  <2>2. l # 0 /\ l # i
    <3>1. 0 \in Leaders(insns, tables)
      BY <1>2, LeadersLead
    <3> QED
      BY <1>4, <2>1, <3>1
  <2>3. i \notin A
    BY <1>1, <2>2
  <2>4. /\ A \subseteq Indices(insns)
        /\ \A j \in A : \A k \in succs(j) : k # l => k \in A
    BY <1>2, <2>2, AvoidingIsLeast
  <2>5. 0 \in A
    OBVIOUS
  <2> HIDE DEF A
  <2>6. ASSUME NEW j \in A
        PROVE  l \notin succs(j)
    <3>1. j \in Indices(insns)
      BY <2>4
    <3>2. l \in succs(j) => l = j + 1
      BY <1>5, <3>1
    <3>3. j # i
      BY <2>3
    <3> QED
      BY <1>4, <2>1, <3>1, <3>2, <3>3
  <2>7. \A j \in A : succs(j) \subseteq A
    BY <2>4, <2>6
  <2>8. live \subseteq A
    BY <1>3, <2>5, <2>7
  <2> QED
    BY <1>1, <2>3, <2>8
<1>7. EdgeTo(graph, at(i), at(l))
  <2>1. /\ IsGraph(graph, n) /\ at(i) \in 0 .. n - 1
    <3>1. IsGraph(graph, n) /\ BlockIds(insns, tables) = 0 .. n - 1
      BY <1>4, GraphHasEntry
    <3>2. at(i) \in BlockIds(insns, tables)
      BY <1>4, GraphOfBlocks
    <3> QED
      BY <3>1, <3>2
  <2>2. graph[at(i)] \in Seq(0 .. n - 1)
    BY <2>1 DEF IsGraph
  <2>3. DOMAIN graph[at(i)] = 1 .. Len(graph[at(i)])
    BY <2>2, LenProperties
  <2> QED
    BY <1>6, <2>3 DEF ToSet, EdgeTo
<1> QED
  BY <1>2, <1>4, <1>6, <1>7 DEF i, l

(* Its target dominates its source. *)
LEMMA LoopStepsDominate ==
  ASSUME NEW insns, NEW tables, Accepted(insns, tables),
         NEW e \in LoopSteps(insns, tables)
  PROVE  /\ BlockOf(insns, tables, e[1]) \in Reachable(BlockGraph(insns, tables))
         /\ Dom(BlockGraph(insns, tables), BlockOf(insns, tables, e[2]), BlockOf(insns, tables, e[1]))
<1> DEFINE i == e[1]
           l == e[2]
           succs(j) == Succs(insns, tables, j)
           graph == BlockGraph(insns, tables)
           at(j) == BlockOf(insns, tables, j)
           t == at(i)
           h == at(l)
           leads == Leaders(insns, tables)
           n == Cardinality(leads)
           N == 0 .. n - 1
           A == {0} \cup Onward(insns, tables, 0, {l})
<1>1. /\ i \in Live(insns, tables)
      /\ l \in {0, i} \/ i \notin A
  BY DEF LoopSteps
<1>2. /\ i \in Indices(insns) /\ l \in leads /\ 0 \in Indices(insns)
  BY LoopStepsLift
<1>3. t \in Reachable(graph)
  BY <1>2, BlocksCarry DEF LoopSteps
<1>4. /\ IsGraph(graph, n) /\ BlockIds(insns, tables) = N /\ 0 \in leads /\ at(0) = 0
      /\ \A b \in N : graph[b] \in Seq(N)
      /\ \A j \in Indices(insns) : at(j) \in N
  <2>1. /\ IsGraph(graph, n) /\ BlockIds(insns, tables) = N /\ 0 \in leads /\ at(0) = 0
    BY <1>2, GraphHasEntry
  <2>2. \A j \in Indices(insns) : at(j) \in N
    BY <2>1, GraphOfBlocks
  <2>3. \A b \in N : graph[b] \in Seq(N)
    BY <2>1 DEF IsGraph
  <2> QED
    BY <2>1, <2>2, <2>3
<1> HIDE DEF i, l, t, h, graph, A, n, N, leads
<1>5. \A b \in N : \A c : EdgeTo(graph, b, c) => c \in N /\ c \in ToSet(graph[b])
  <2> TAKE b \in N
  <2> TAKE c
  <2> HAVE EdgeTo(graph, b, c)
  <2>1. PICK k \in 1 .. Len(graph[b]) : graph[b][k] = c
    BY DEF EdgeTo
  <2>2. graph[b] \in Seq(N) /\ DOMAIN graph[b] = 1 .. Len(graph[b])
    BY <1>4, LenProperties
  <2>3. c \in N
    BY <2>1, <2>2, ElementOfSeq
  <2> QED
    BY <2>1, <2>2, <2>3 DEF ToSet
<1>6. CASE h = 0
  <2>1. Avoids(graph, 0, {})
    BY DEF Avoids
  <2> QED
    BY <1>3, <1>6, <2>1 DEF Dom, i, l, t, h, graph
<1>7. CASE h # 0 /\ h = t
  <2> DEFINE C == N \ {h}
  <2>1. 0 \in N
    BY <1>2, <1>4
  <2>2. Avoids(graph, h, C)
    BY <1>5, <2>1 DEF Avoids
  <2> HIDE DEF C
  <2>3. t \notin C
    BY <1>7 DEF C
  <2> QED
    BY <1>3, <2>2, <2>3 DEF Dom, i, l, t, h, graph
<1>8. CASE h # 0 /\ h # t
  <2>1. l # 0 /\ l # i
    BY <1>4, <1>8 DEF h, t
  <2>2. i \notin A
    BY <1>1, <2>1
  <2>3. /\ 0 \in A
        /\ \A j \in A : \A k \in succs(j) : k # l => k \in A
    BY <1>2, <2>1, AvoidingIsLeast DEF A
  <2>4. ASSUME NEW m \in leads, m \in A
        PROVE  \A j \in Indices(insns) : at(j) = at(m) => j \in A
    BY <1>2, <2>1, <2>4, AvoidingFollows DEF A, leads
  <2> DEFINE C == {b \in N : b # h /\ \A j \in Indices(insns) : at(j) = b => j \in A}
  <2>5. 0 \in C
    <3>1. \A j \in Indices(insns) : at(j) = 0 => j \in A
      BY <1>4, <2>3, <2>4
    <3>2. 0 \in N
      BY <1>2, <1>4
    <3> QED
      BY <1>8, <3>1, <3>2
  <2>6. ASSUME NEW b \in C, NEW c, EdgeTo(graph, b, c), c # h
        PROVE  c \in C
    <3> DEFINE last == TerminatorOf(insns, tables, b)
    <3>1. b \in N /\ c \in N /\ c \in ToSet(graph[b])
      BY <1>5, <2>6
    <3>2. PICK k \in succs(last) : k \in leads /\ at(k) = c
      BY <1>4, <3>1, EdgesFall DEF Succs, graph, leads
    <3>3. last \in Indices(insns) /\ at(last) = b
      BY <1>4, <3>1, Terminators
    <3> HIDE DEF last
    <3>4. last \in A
      BY <2>6, <3>3
    <3>5. k # l
      BY <2>6, <3>2 DEF h
    <3>6. k \in A
      BY <2>3, <3>2, <3>4, <3>5
    <3>7. \A j \in Indices(insns) : at(j) = c => j \in A
      BY <2>4, <3>2, <3>6
    <3> QED
      BY <2>6, <3>1, <3>7
  <2>7. h \notin C
    OBVIOUS
  <2>8. t \notin C
    BY <1>2, <2>2 DEF t
  <2> HIDE DEF C
  <2>9. Avoids(graph, h, C)
    BY <2>5, <2>6, <2>7 DEF Avoids
  <2> QED
    BY <1>3, <2>8, <2>9 DEF Dom, i, l, t, h, graph
<1> QED
  BY <1>6, <1>7, <1>8

(* An edge to a dominator comes from such a step. *)
LEMMA BackEdgesFall ==
  ASSUME NEW insns, NEW tables, Accepted(insns, tables), 0 \in Indices(insns),
         NEW t \in Reachable(BlockGraph(insns, tables)), NEW h,
         EdgeTo(BlockGraph(insns, tables), t, h), Dom(BlockGraph(insns, tables), h, t)
  PROVE  \E e \in LoopSteps(insns, tables) :
           BlockOf(insns, tables, e[1]) = t /\ BlockOf(insns, tables, e[2]) = h
<1> DEFINE succs(j) == Succs(insns, tables, j)
           graph == BlockGraph(insns, tables)
           at(j) == BlockOf(insns, tables, j)
           leads == Leaders(insns, tables)
           n == Cardinality(leads)
           N == 0 .. n - 1
           last == TerminatorOf(insns, tables, t)
           live == Live(insns, tables)
<1>1. /\ IsGraph(graph, n) /\ BlockIds(insns, tables) = N /\ 0 \in leads /\ at(0) = 0
      /\ leads \subseteq Indices(insns)
  BY GraphHasEntry, LeadersLead
<1>2. t \in N
  <2>1. Reachable(graph) \subseteq N
    <3> HIDE DEF n
    <3> QED
      BY <1>1, ReachableIsLeast
  <2> QED
    BY <2>1
<1>3. h \in ToSet(graph[t])
  <2>1. PICK k \in 1 .. Len(graph[t]) : graph[t][k] = h
    BY DEF EdgeTo
  <2>2. graph[t] \in Seq(N)
    BY <1>1, <1>2 DEF IsGraph
  <2>3. DOMAIN graph[t] = 1 .. Len(graph[t])
    <3> HIDE DEF N, graph
    <3> QED
      BY <2>2, LenProperties
  <2> QED
    BY <2>1, <2>3 DEF ToSet
<1>4. PICK l \in succs(last) : l \in leads /\ at(l) = h
  <2>1. t \in BlockIds(insns, tables)
    BY <1>1, <1>2
  <2>2. h \in ToSet(BlockGraph(insns, tables)[t])
    BY <1>3
  <2>3. \E j \in succs(last) : j \in leads /\ at(j) = h
    BY <2>1, <2>2, EdgesFall DEF Succs
  <2> QED
    BY <2>3
<1>5. last \in Indices(insns) /\ at(last) = t
  BY <1>1, <1>2, Terminators
<1>6. last \in live
  BY <1>5, BlocksCarry
<1>7. l \in live
  BY <1>4, <1>6, LiveIsLeast
<1> HIDE DEF last
<1>8. ASSUME l # 0
      PROVE  last \notin {0} \cup Onward(insns, tables, 0, {l})
  <2> DEFINE A == {0} \cup Onward(insns, tables, 0, {l})
  <2>1. PICK C : Avoids(graph, h, C) /\ t \notin C
    BY DEF Dom
  <2>2. h # 0
    <3>1. at(l) = at(0) => l = 0
      BY <1>1, <1>4, OneLeader
    <3> QED
      BY <1>1, <1>4, <1>8, <3>1
  <2> DEFINE I == {j \in Indices(insns) : at(j) \in C}
  <2>3. 0 \in I
    BY <1>1, <2>1, <2>2 DEF Avoids
  <2>4. ASSUME NEW j \in I, NEW k \in succs(j), k # l
        PROVE  k \in I
    <3>1. /\ k \in Indices(insns)
          /\ \/ at(k) = at(j)
             \/ k \in leads /\ at(k) \in ToSet(graph[at(j)])
      BY <2>4, EdgesLift DEF Succs
    <3>2. CASE k \in leads /\ at(k) \in ToSet(graph[at(j)])
      <4>1. at(k) # h
        <5>1. at(k) = at(l) => k = l
          BY <1>4, <3>2, OneLeader
        <5> QED
          BY <1>4, <2>4, <5>1
      <4>2. EdgeTo(graph, at(j), at(k))
        <5>1. at(j) \in N
          BY <1>1, <2>4, GraphOfBlocks
        <5>2. graph[at(j)] \in Seq(N)
          BY <1>1, <5>1 DEF IsGraph
        <5>3. DOMAIN graph[at(j)] = 1 .. Len(graph[at(j)])
          <6> HIDE DEF N, graph
          <6> QED
            BY <5>2, LenProperties
        <5> QED
          BY <3>2, <5>3 DEF ToSet, EdgeTo
      <4>3. at(k) \in C
        BY <2>1, <2>4, <4>1, <4>2 DEF Avoids
      <4> QED
        BY <3>1, <4>3
    <3> QED
      BY <2>4, <3>1, <3>2
  <2>5. last \notin I
    BY <1>5, <2>1
  <2> HIDE DEF I
  <2>6. A \subseteq I
    BY <1>8, <2>3, <2>4, AvoidingIsLeast
  <2> QED
    BY <2>5, <2>6
<1>9. <<last, l>> \in LoopSteps(insns, tables)
  <2> DEFINE e == <<last, l>>
  <2>1. e[1] = last /\ e[2] = l /\ e \in live \X live
    BY <1>6, <1>7
  <2> HIDE DEF e
  <2>2. e \in LoopSteps(insns, tables)
    BY <1>4, <1>8, <2>1 DEF LoopSteps
  <2> QED
    BY <2>2 DEF e
<1> QED
  BY <1>4, <1>5, <1>9

(* A function without an instruction has no loop. *)
LEMMA NoCodeNoLoops ==
  ASSUME NEW insns, NEW tables, Accepted(insns, tables), insns = <<>>
  PROVE  /\ LoopSteps(insns, tables) = {}
         /\ ToSet(BackEdges(BlockGraph(insns, tables))) = {}
<1> DEFINE graph == BlockGraph(insns, tables)
           d == Idoms(graph, ReversePostorder(graph))
           blocks == Cardinality(DOMAIN graph)
           Kept(g) == g = [t \in 0 .. blocks |->
                             IF t = 0 THEN <<>>
                             ELSE g[t - 1] \o BackEdgesOf(graph, d, t - 1)]
           found == CHOOSE g : Kept(g)
<1>1. LoopSteps(insns, tables) = {}
  BY DEF LoopSteps, Live
<1>2. Leaders(insns, tables) = {}
  <2>1. Len(insns) = 0
    OBVIOUS
  <2>2. Indices(insns) = {}
    BY <2>1 DEF Indices
  <2> QED
    BY <2>2, LeadersLead
<1>3. DOMAIN graph = {}
  <2>1. /\ DOMAIN graph = BlockIds(insns, tables)
        /\ BlockIds(insns, tables) = 0 .. Cardinality(Leaders(insns, tables)) - 1
    BY GraphOfBlocks
  <2>2. Cardinality(Leaders(insns, tables)) = 0
    BY <1>2, FS_EmptySet
  <2> QED
    BY <2>1, <2>2
<1>4. blocks = 0
  BY <1>3, FS_EmptySet
<1>5. BackEdges(graph) = found[blocks]
  BY DEF BackEdges
<1> HIDE DEF graph, d, blocks
<1>6. found[0] = <<>>
  <2> DEFINE g == [t \in 0 .. blocks |-> <<>>]
  <2>1. Kept(g)
    BY <1>4
  <2>2. Kept(found)
    <3> HIDE DEF g, Kept
    <3> QED
      BY <2>1
  <2> HIDE DEF found
  <2> QED
    BY <1>4, <2>2
<1>7. ToSet(BackEdges(graph)) = {}
  <2> HIDE DEF found
  <2>1. BackEdges(graph) = <<>>
    BY <1>4, <1>5, <1>6
  <2> QED
    BY <2>1 DEF ToSet
<1> QED
  BY <1>1, <1>7 DEF graph

(* The back edges of a function's graph are its loops. *)
LEMMA BackEdgesLoop ==
  ASSUME NEW insns, NEW tables, Accepted(insns, tables)
  PROVE  ToSet(BackEdges(BlockGraph(insns, tables))) =
           {<<BlockOf(insns, tables, e[1]), BlockOf(insns, tables, e[2])>> :
              e \in LoopSteps(insns, tables)}
<1> DEFINE graph == BlockGraph(insns, tables)
           at(j) == BlockOf(insns, tables, j)
           n == Cardinality(Leaders(insns, tables))
           steps == LoopSteps(insns, tables)
<1>1. CASE insns = <<>>
  BY <1>1, NoCodeNoLoops
<1>2. CASE insns # <<>>
  <2>1. 0 \in Indices(insns)
    <3>1. insns \in Seq(Insn)
      BY DEF Accepted
    <3>2. Len(insns) \in Nat /\ Len(insns) # 0
      BY <1>2, <3>1, EmptySeq
    <3> QED
      BY <3>2 DEF Indices
  <2>2. IsGraph(graph, n)
    BY <2>1, GraphHasEntry
  <2>3. \A e : e \in ToSet(BackEdges(graph)) <=>
          \E t \in Reachable(graph) : \E h :
            EdgeTo(graph, t, h) /\ Dom(graph, h, t) /\ e = <<t, h>>
    <3> HIDE DEF graph, n
    <3> QED
      BY <2>2, BackEdgesFound
  <2>4. \A s \in steps :
          /\ at(s[1]) \in Reachable(graph)
          /\ EdgeTo(graph, at(s[1]), at(s[2])) /\ Dom(graph, at(s[2]), at(s[1]))
    BY LoopStepsLift, LoopStepsDominate
  <2>5. \A t \in Reachable(graph) : \A h :
          EdgeTo(graph, t, h) /\ Dom(graph, h, t)
            => \E s \in steps : at(s[1]) = t /\ at(s[2]) = h
    BY <2>1, BackEdgesFall
  <2> HIDE DEF graph, at, steps
  <2>6. \A e : e \in ToSet(BackEdges(graph)) <=> \E s \in steps : e = <<at(s[1]), at(s[2])>>
    BY <2>3, <2>4, <2>5
  <2>7. ToSet(BackEdges(graph)) = {<<at(s[1]), at(s[2])>> : s \in steps}
    BY <2>6
  <2> QED
    BY <2>7 DEF graph, at, steps
<1> QED
  BY <1>1, <1>2

(* The back edges (cfg.rs find_back_edges, by the dominators of dominators) *)
(* are the loops of the code, whatever the object.                          *)
THEOREM BackEdgesHold == Spec => []BackEdgesAreLoops
<1>1. ASSUME Offered
      PROVE  BackEdgesAreLoops
  <2>1. ASSUME NEW f \in Graphed
        PROVE  ToSet(BackEdges(BlockGraph(Body(object, f), object.tables))) =
                 {<<BlockOf(Body(object, f), object.tables, e[1]),
                    BlockOf(Body(object, f), object.tables, e[2])>> :
                    e \in LoopSteps(Body(object, f), object.tables)}
    BY <1>1, GraphedAccepts, BackEdgesLoop
  <2> QED
    BY <2>1 DEF BackEdgesAreLoops
<1> QED
  BY <1>1, ObjectStays, PTL

-----------------------------------------------------------------------------
(* Refusals.                                                                *)

(* Code that never loops has no step that closes a loop. *)
LEMMA LooplessHasNoSteps ==
  ASSUME NEW insns, NEW tables, Accepted(insns, tables), 0 \in Indices(insns),
         Loopless(insns, tables)
  PROVE  LoopSteps(insns, tables) = {}
<1> SUFFICES ASSUME NEW e \in LoopSteps(insns, tables)
             PROVE  FALSE
  OBVIOUS
<1> DEFINE i == e[1]
           l == e[2]
           live == Live(insns, tables)
           succs(j) == Succs(insns, tables, j)
           on(j) == Onward(insns, tables, j, {})
           A == {0} \cup Onward(insns, tables, 0, {l})
<1>1. /\ i \in live /\ l \in live /\ l \in succs(i)
      /\ l \in {0, i} \/ i \notin A
  BY DEF LoopSteps
<1> HIDE DEF i, l
<1>2. /\ live \subseteq Indices(insns)
      /\ \A C : 0 \in C /\ (\A j \in C \cap Indices(insns) : succs(j) \subseteq C)
           => live \subseteq C
  BY LiveIsLeast
<1>3. \A k \in Indices(insns) :
        /\ succs(k) \subseteq on(k)
        /\ \A j \in on(k) : succs(j) \subseteq on(k)
  <2> TAKE k \in Indices(insns)
  <2>1. /\ Succs(insns, tables, k) \ {} \subseteq Onward(insns, tables, k, {})
        /\ \A j \in Onward(insns, tables, k, {}) :
             Succs(insns, tables, j) \ {} \subseteq Onward(insns, tables, k, {})
    BY OnwardIsLeast
  <2> QED
    BY <2>1
<1>4. i \in {l} \cup on(l)
  <2>1. CASE l = i
    BY <2>1
  <2>2. CASE l = 0
    <3>1. insns # <<>>
      BY <1>1 DEF Live
    <3> QED
      BY <1>1, <2>2, <3>1 DEF Live
  <2>3. CASE l # 0 /\ i \notin A
    <3>1. /\ 0 \in A
          /\ \A j \in A : \A k \in succs(j) : k # l => k \in A
      BY <2>3, AvoidingIsLeast
    <3> DEFINE C == A \cup ({l} \cup on(l))
    <3>2. \A j \in C : succs(j) \subseteq C
      <4> HIDE DEF A, live, on, succs
      <4> QED
        BY <1>1, <1>2, <1>3, <3>1
    <3>3. live \subseteq C
      <4> HIDE DEF C, live, succs
      <4>1. 0 \in C
        BY <3>1 DEF C
      <4> QED
        BY <1>2, <3>2, <4>1
    <3> QED
      BY <1>1, <2>3, <3>3
  <2> QED
    BY <1>1, <2>1, <2>2, <2>3
<1>5. l \in on(l)
  <2> HIDE DEF on, succs, live
  <2> QED
    BY <1>1, <1>2, <1>3, <1>4
<1> QED
  BY <1>1, <1>5 DEF Loopless

(* A refusal is one of the results. *)
LEMMA RefusalIsOne ==
  ASSUME NEW n \in Nat, NEW results, DOMAIN results = 1 .. n, Len(results) = n,
         Refusal(results) # "ok"
  PROVE  \E k \in 1 .. n : Refusal(results) = results[k]
<1> DEFINE bad == {k \in 1 .. n : results[k] # "ok"}
           first == CHOOSE k \in bad : \A j \in bad : k <= j
<1>1. bad # {} /\ Refusal(results) = results[first]
  BY DEF Refusal
<1>2. \E k \in bad : \A j \in bad : k <= j
  <2>1. bad \in SUBSET Nat
    OBVIOUS
  <2> HIDE DEF bad
  <2> QED
    BY <1>1, <2>1, LeastNumber
<1>3. first \in bad
  <2> HIDE DEF bad
  <2> QED
    BY <1>2
<1> QED
  BY <1>1, <1>3

(* The loops of code that never loops are no fault. *)
LEMMA LooplessFaultless ==
  ASSUME NEW img, NEW f, Accepted(Body(img, f), img.tables), 0 \in Indices(Body(img, f)),
         Loopless(Body(img, f), img.tables)
  PROVE  LoopsFault(img, f) = "ok"
<1> DEFINE insns == Body(img, f)
           tables == img.tables
           graph == BlockGraph(insns, tables)
           n == Cardinality(Leaders(insns, tables))
           edges == BackEdges(graph)
           results == [k \in 1 .. Len(edges) |-> LoopFault(insns, edges[k])]
<1>1. IsGraph(graph, n)
  BY GraphHasEntry
<1>2. edges \in Seq((0 .. n - 1) \X (0 .. n - 1))
  <2> HIDE DEF graph, n
  <2> QED
    BY <1>1, BackEdgesFound
<1>3. ToSet(edges) = {}
  BY LooplessHasNoSteps, BackEdgesLoop
<1>4. Len(edges) = 0
  <2> HIDE DEF edges, n
  <2>1. DOMAIN edges = 1 .. Len(edges) /\ Len(edges) \in Nat
    BY <1>2, LenProperties
  <2>2. \A k \in 1 .. Len(edges) : edges[k] \in ToSet(edges)
    BY <2>1 DEF ToSet
  <2> QED
    BY <1>3, <2>1, <2>2
<1>5. LoopsFault(img, f) = Refusal(results)
  BY DEF LoopsFault
<1> HIDE DEF edges, insns
<1>6. results = <<>>
  BY <1>4
<1> HIDE DEF results
<1>7. Len(results) = 0
  BY <1>6
<1> QED
  BY <1>5, <1>7 DEF Refusal

(* What the scan can find. *)
ScanFaults == {"ok", "DanglingIndex", "StackUnderflow", "TypeMismatch",
               "MaxstackExceeded", "PendingEscape", "LivePending"}

(* One instruction of the scan finds one of these. *)
LEMMA ExamineFinds ==
  ASSUME NEW img, NEW f, NEW s, NEW d, s.fault \in ScanFaults
  PROVE  Examine(img, f, s, d).fault \in ScanFaults
<1>1. \A types, wants : PopFault(types, wants) \in {"ok", "StackUnderflow", "TypeMismatch"}
  BY DEF PopFault
<1>2. TypeFault(s.types, d, f.maxstack) \in ScanFaults
  BY <1>1 DEF TypeFault, ScanFaults
<1>3. PendingFault(TypesAfter(s.types, d), d) \in ScanFaults
  BY DEF PendingFault, ScanFaults
<1> QED
  BY <1>2, <1>3 DEF Examine, ScanFaults

(* So does the scan. *)
LEMMA ScanFinds ==
  ASSUME NEW img, NEW f, NEW n \in Nat, n = Len(Body(img, f))
  PROVE  Scan(img, f)[n].fault \in ScanFaults
<1> DEFINE insns == Body(img, f)
           start == [types |-> <<>>, fault |-> "ok"]
           Kept(m, g) == g = [i \in 0 .. m |->
                                IF i = 0 THEN start ELSE Examine(img, f, g[i - 1], insns[i])]
           state == CHOOSE g : Kept(n, g)
           T == {m \in 0 .. n : \E g : Kept(m, g)}
           U == {k \in 0 .. n : state[k].fault \in ScanFaults}
<1>1. Scan(img, f) = state
  BY DEF Scan
<1> HIDE DEF start
<1>2. 0 .. n \subseteq T
  <2>1. 0 \in T
    <3> DEFINE g == [i \in 0 .. 0 |-> start]
    <3>1. Kept(0, g)
      OBVIOUS
    <3>2. \E h : Kept(0, h)
      <4> HIDE DEF g, Kept
      <4> QED
        BY <3>1
    <3> HIDE DEF Kept
    <3> QED
      BY <3>2
  <2>2. ASSUME NEW m \in 1 .. n, m - 1 \in T
        PROVE  m \in T
    <3>1. PICK g : Kept(m - 1, g)
      BY <2>2
    <3> DEFINE h == [i \in 0 .. m |-> IF i = m THEN Examine(img, f, g[m - 1], insns[m]) ELSE g[i]]
    <3>2. /\ DOMAIN g = 0 .. m - 1
          /\ \A i \in 0 .. m - 1 :
               g[i] = IF i = 0 THEN start ELSE Examine(img, f, g[i - 1], insns[i])
      BY <3>1
    <3>3. /\ DOMAIN h = 0 .. m
          /\ \A i \in 0 .. m - 1 : h[i] = g[i]
          /\ h[m] = Examine(img, f, g[m - 1], insns[m])
      OBVIOUS
    <3>4. h = [i \in 0 .. m |-> h[i]]
      OBVIOUS
    <3> HIDE DEF h, insns
    <3>5. \A i \in 0 .. m : h[i] = IF i = 0 THEN start ELSE Examine(img, f, h[i - 1], insns[i])
      <4> TAKE i \in 0 .. m
      <4>1. CASE i = m
        <5>1. i # 0 /\ i - 1 = m - 1 /\ m - 1 \in 0 .. m - 1
          BY <4>1
        <5>2. h[i - 1] = g[m - 1]
          BY <3>3, <5>1
        <5> QED
          BY <3>3, <4>1, <5>1, <5>2
      <4>2. CASE i # m
        <5>1. i \in 0 .. m - 1
          BY <4>2
        <5>2. i # 0 => i - 1 \in 0 .. m - 1
          BY <5>1
        <5>3. i # 0 => h[i - 1] = g[i - 1]
          BY <3>3, <5>2
        <5>4. h[i] = IF i = 0 THEN start ELSE Examine(img, f, g[i - 1], insns[i])
          BY <3>2, <3>3, <5>1
        <5> QED
          BY <5>3, <5>4
      <4> QED
        BY <4>1, <4>2
    <3>6. Kept(m, h)
      BY <3>4, <3>5
    <3> HIDE DEF Kept
    <3>7. m \in 0 .. n
      OBVIOUS
    <3> QED
      BY <3>6, <3>7
  <2> HIDE DEF T
  <2> QED
    BY <2>1, <2>2, Counting
<1>3. Kept(n, state)
  <2>1. n \in T
    BY <1>2
  <2>2. \E g : Kept(n, g)
    BY <2>1
  <2> HIDE DEF Kept
  <2> QED
    BY <2>2
<1> HIDE DEF state
<1>4. /\ state[0] = start
      /\ \A i \in 1 .. n : state[i] = Examine(img, f, state[i - 1], insns[i])
  <2>1. 0 \in 0 .. n /\ \A i \in 1 .. n : i \in 0 .. n /\ i # 0
    OBVIOUS
  <2> HIDE DEF insns
  <2> QED
    BY <1>3, <2>1
<1> HIDE DEF Kept
<1>5. 0 .. n \subseteq U
  <2>1. 0 \in U
    BY <1>4 DEF start, ScanFaults
  <2>2. ASSUME NEW k \in 1 .. n, k - 1 \in U
        PROVE  k \in U
    <3>1. state[k - 1].fault \in ScanFaults /\ k \in 0 .. n
      BY <2>2
    <3> HIDE DEF insns
    <3>2. Examine(img, f, state[k - 1], insns[k]).fault \in ScanFaults
      BY <3>1, ExamineFinds
    <3> QED
      BY <1>4, <3>1, <3>2
  <2> HIDE DEF U
  <2> QED
    BY <2>1, <2>2, Counting
<1> QED
  BY <1>1, <1>5

(* What a refusal over a loop is called. *)
LoopRefusals == {"UnmeteredLoop", "panic"}

(* A function is refused over a loop only if its code has one. *)
LEMMA LooplessFunctionPasses ==
  ASSUME NEW img, NEW f,
         EdgesOk(Body(img, f), img.tables) =>
           /\ Accepted(Body(img, f), img.tables)
           /\ Loopless(Body(img, f), img.tables)
  PROVE  CheckFunction(img, f) \notin LoopRefusals
<1> DEFINE insns == Body(img, f)
           scanned == Scan(img, f)[Len(insns)]
           i == CHOOSE i \in Indices(insns) :
                  /\ EdgeFault(insns, img.tables, i) # "ok"
                  /\ \A j \in 0 .. i - 1 : EdgeFault(insns, img.tables, j) = "ok"
<1>1. CASE f.maxstack = 0
  BY <1>1 DEF CheckFunction, LoopRefusals
<1>2. CASE f.maxstack # 0 /\ ~EdgesOk(insns, img.tables)
  <2>1. CheckFunction(img, f) = EdgeFault(insns, img.tables, i)
    BY <1>2 DEF CheckFunction
  <2> HIDE DEF i, insns
  <2>2. EdgeFault(insns, img.tables, i) \in {"ok", "DanglingIndex", "SwitchNoDefault", "BadTarget"}
    BY DEF EdgeFault
  <2> QED
    BY <2>1, <2>2 DEF LoopRefusals
<1>3. CASE f.maxstack # 0 /\ EdgesOk(insns, img.tables)
  <2>1. Accepted(insns, img.tables) /\ Loopless(insns, img.tables)
    BY <1>3
  <2>2. Len(insns) \in Nat
    BY <2>1 DEF Accepted
  <2>3. scanned.fault \in ScanFaults
    BY <2>2, ScanFinds
  <2>4. HasExit(insns) => 0 \in Indices(insns)
    <3> HIDE DEF insns
    <3> QED
      BY <2>2 DEF HasExit, Indices
  <2>5. HasExit(insns) => LoopsFault(img, f) = "ok"
    BY <2>1, <2>4, LooplessFaultless
  <2>6. CheckFunction(img, f) \in ScanFaults \cup {"BadTarget", "ForkImbalance"}
    <3>1. CheckFunction(img, f) =
            IF scanned.fault # "ok" THEN scanned.fault
            ELSE IF ~HasExit(insns) THEN "BadTarget"
            ELSE IF LoopsFault(img, f) # "ok" THEN LoopsFault(img, f)
            ELSE IF Balance(insns) # 0 THEN "ForkImbalance"
            ELSE "ok"
      BY <1>3 DEF CheckFunction
    <3> HIDE DEF insns, scanned
    <3> QED
      BY <2>3, <2>5, <3>1 DEF ScanFaults
  <2> QED
    BY <2>6 DEF ScanFaults, LoopRefusals
<1> QED
  BY <1>1, <1>2, <1>3

(* The verdict, once there is one, is that on the object offered. *)
Judged == Offered /\ verdict \in {"none", Verdict(object)}

(* Always. *)
THEOREM VerdictStands == Spec => []Judged
<1>1. Init => Judged
  BY DEF Init, Judged, Offered
<1>2. Judged /\ [Next]_vars => Judged'
  BY DEF Judged, Offered, Next, Admit, vars
<1> QED
  BY <1>1, <1>2, PTL DEF Spec

(* Of an object whose code never loops the verdict is not over a loop. *)
LEMMA LooplessVerdict ==
  ASSUME Offered,
         \A f \in Graphed : Loopless(Body(object, f), object.tables)
  PROVE  Verdict(object) \notin LoopRefusals
<1> DEFINE funcs == object.funcs
           n == Len(funcs)
           results == [k \in 1 .. n |-> CheckFunction(object, funcs[k])]
<1>1. funcs \in Seq(Funcs)
  BY ObjectsAssumption DEF Offered, WellFormed
<1>2. n \in Nat /\ DOMAIN funcs = 1 .. n
  BY <1>1, LenProperties
<1>3. ASSUME NEW k \in 1 .. n
      PROVE  CheckFunction(object, funcs[k]) \notin LoopRefusals
  <2> DEFINE f == funcs[k]
  <2>1. f \in ToSet(funcs)
    BY <1>2 DEF ToSet
  <2> HIDE DEF f
  <2>2. EdgesOk(Body(object, f), object.tables) => f \in Graphed
    BY <2>1 DEF Graphed
  <2>3. EdgesOk(Body(object, f), object.tables) =>
          /\ Accepted(Body(object, f), object.tables)
          /\ Loopless(Body(object, f), object.tables)
    BY <2>2, GraphedAccepts
  <2>4. CheckFunction(object, f) \notin LoopRefusals
    BY <2>3, LooplessFunctionPasses
  <2> QED
    BY <2>4 DEF f
<1>4. Verdict(object) = IF funcs = <<>> THEN "NoEntryPoint" ELSE Refusal(results)
  BY DEF Verdict
<1> HIDE DEF funcs, n
<1>5. DOMAIN results = 1 .. n /\ Len(results) = n
  BY <1>2
<1>6. \A k \in 1 .. n : results[k] \notin LoopRefusals
  BY <1>3
<1> HIDE DEF results
<1>7. Refusal(results) \notin LoopRefusals
  <2>1. CASE Refusal(results) = "ok"
    BY <2>1 DEF LoopRefusals
  <2>2. CASE Refusal(results) # "ok"
    BY <1>2, <1>5, <1>6, <2>2, RefusalIsOne
  <2> QED
    BY <2>1, <2>2
<1> QED
  BY <1>4, <1>7 DEF LoopRefusals

(* An object whose code never loops is never refused over a loop            *)
(* (verify.rs admit over cfg.rs find_back_edges), whatever the object.      *)
THEOREM LooplessPassesHolds == Spec => []LooplessPasses
<1>1. ASSUME Judged
      PROVE  LooplessPasses
  <2> SUFFICES ASSUME \A f \in Graphed : Loopless(Body(object, f), object.tables)
               PROVE  verdict \notin {"UnmeteredLoop", "panic"}
    BY DEF LooplessPasses
  <2>1. Verdict(object) \notin LoopRefusals
    BY <1>1, LooplessVerdict DEF Judged
  <2> QED
    BY <1>1, <2>1 DEF Judged, LoopRefusals
<1> QED
  BY <1>1, VerdictStands, PTL
=============================================================================
