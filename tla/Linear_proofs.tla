--------------------------- MODULE Linear_proofs ---------------------------
(***************************************************************************)
(* What the verifier's type scan says of a straight-line program is true   *)
(* of the machine that runs it, for every admitted image.                  *)
(***************************************************************************)
EXTENDS Memory_proofs

Blank == [types |-> <<>>, fault |-> "ok"]

(* The scan's state function exists, so it has the values it is defined by. *)
LEMMA ScanStates ==
  ASSUME NEW img, NEW f, NEW insns, insns = Body(img, f), Len(insns) \in Nat
  PROVE  /\ Scan(img, f)[0] = Blank
         /\ \A i \in 1 .. Len(insns) :
              Scan(img, f)[i] = Examine(img, f, Scan(img, f)[i - 1], insns[i])
<1> DEFINE Step(s, i) == Examine(img, f, s, insns[i])
           States(n, g) ==
             g = [i \in 0 .. n |-> IF i = 0 THEN Blank ELSE Step(g[i - 1], i)]
           bad == {n \in Nat : ~\E g : States(n, g)}
<1> HIDE DEF Step
<1>1. bad = {}
  <2> SUFFICES ASSUME bad # {} PROVE FALSE
    OBVIOUS
  <2>1. PICK m \in bad : \A j \in bad : m <= j
    <3> bad \in SUBSET Nat
      OBVIOUS
    <3> HIDE DEF bad
    <3> QED
      BY LeastNumber
  <2>2. CASE m = 0
    <3> DEFINE g == [i \in 0 .. 0 |-> Blank]
    <3>1. States(0, g)
      OBVIOUS
    <3> QED
      BY <2>1, <2>2, <3>1
  <2>3. CASE m # 0
    <3>1. m \in Nat /\ m - 1 \in Nat /\ m - 1 \notin bad
      <4>1. m \in Nat
        BY <2>1
      <4> HIDE DEF bad
      <4> QED
        BY <2>1, <2>3, <4>1
    <3>2. PICK g : States(m - 1, g)
      BY <3>1
    <3> DEFINE h == [i \in 0 .. m |-> IF i = m THEN Step(g[m - 1], m) ELSE g[i]]
    <3>3. ASSUME NEW i \in 0 .. m
          PROVE  h[i] = IF i = 0 THEN Blank ELSE Step(h[i - 1], i)
      <4>1. CASE i = 0
        BY <2>1, <2>3, <3>1, <3>2, <4>1
      <4>2. CASE i # 0 /\ i # m
        <5>1. i \in 0 .. m - 1 /\ i - 1 \in 0 .. m /\ i - 1 # m /\ h[i] = g[i] /\ h[i - 1] = g[i - 1]
          BY <2>1, <4>2
        <5>2. g[i] = Step(g[i - 1], i)
          BY <3>2, <4>2, <5>1
        <5> QED
          BY <4>2, <5>1, <5>2
      <4>3. CASE i = m
        <5>1. m - 1 \in 0 .. m /\ m - 1 # m /\ h[m - 1] = g[m - 1]
          BY <2>1, <2>3
        <5> QED
          BY <2>1, <2>3, <4>3, <5>1
      <4> QED
        BY <4>1, <4>2, <4>3
    <3>4. States(m, h)
      <4> HIDE DEF Step
      <4> QED
        BY <3>3
    <3> QED
      BY <2>1, <3>4
  <2> QED
    BY <2>2, <2>3
<1> DEFINE n == Len(insns)
           s == CHOOSE g : States(n, g)
<1>2. States(n, s)
  <2>1. \E g : States(n, g)
    BY <1>1
  <2> HIDE DEF States
  <2> QED
    BY <2>1
<1>3. Scan(img, f) = s
  BY DEF Scan, Blank, Step
<1> HIDE DEF s
<1>4. ASSUME NEW i \in 0 .. n PROVE s[i] = IF i = 0 THEN Blank ELSE Step(s[i - 1], i)
  BY <1>2
<1>5. 0 \in 0 .. n /\ \A i \in 1 .. n : i \in 0 .. n /\ i # 0
  OBVIOUS
<1> QED
  BY <1>3, <1>4, <1>5 DEF Step

(* A fault stays to the end of the scan, so an admitted function has none   *)
(* anywhere.                                                                *)
LEMMA ScanPasses ==
  ASSUME image \in Images, NEW k \in 1 .. Len(image.funcs), NEW f, f = image.funcs[k]
  PROVE  /\ f \in Funcs /\ Scan(image, f)[0] = Blank
         /\ \A i \in 0 .. f.len - 1 :
              LET types == Scan(image, f)[i].types
                  d == image.code[f.off + i + 1]
              IN /\ TypeFault(types, d, f.maxstack) = "ok"
                 /\ Scan(image, f)[i + 1].types = TypesAfter(types, d)
<1> DEFINE insns == Body(image, f)
           s == Scan(image, f)
           bad == {n \in Nat : n <= f.len /\ s[f.len - n].fault # "ok"}
<1>1. /\ f \in Funcs /\ Len(insns) = f.len /\ f.len \in Nat
      /\ \A i \in 0 .. f.len - 1 :
           /\ At(insns, i) = image.code[f.off + i + 1]
           /\ EdgeFault(insns, image.tables, i) = "ok"
  BY AdmittedFunction DEF Funcs
<1> HIDE DEF insns
<1>2. s[f.len].fault = "ok"
  <2>1. EdgesOk(insns, image.tables)
    BY <1>1 DEF EdgesOk, Indices
  <2>2. CheckFunction(image, f) = "ok"
    BY ImagesAssumption DEF Admitted
  <2> QED
    BY <1>1, <2>1, <2>2 DEF CheckFunction, insns
<1>3. /\ s[0] = Blank
      /\ \A i \in 1 .. f.len : s[i] = Examine(image, f, s[i - 1], insns[i])
  BY <1>1, ScanStates DEF insns
<1> HIDE DEF s
<1>4. bad = {}
  <2> SUFFICES ASSUME bad # {} PROVE FALSE
    OBVIOUS
  <2>1. PICK m \in bad : \A j \in bad : m <= j
    <3> bad \in SUBSET Nat
      OBVIOUS
    <3> HIDE DEF bad
    <3> QED
      BY LeastNumber
  <2>2. m \in Nat /\ m <= f.len /\ m # 0 /\ s[f.len - m].fault # "ok"
    BY <1>1, <1>2, <2>1
  <2>3. m - 1 \in Nat /\ m - 1 \notin bad
    <3> HIDE DEF bad
    <3> QED
      BY <2>1, <2>2
  <2>4. s[f.len - (m - 1)].fault = "ok" /\ f.len - (m - 1) \in 1 .. f.len
    BY <1>1, <2>2, <2>3
  <2>5. s[f.len - (m - 1)] = s[f.len - m]
    <3>1. f.len - (m - 1) - 1 = f.len - m
      BY <1>1, <2>2
    <3> QED
      BY <1>3, <2>2, <2>4, <3>1 DEF Examine
  <2> QED
    BY <2>2, <2>4, <2>5
<1>5. ASSUME NEW i \in 0 .. f.len
      PROVE  s[i].fault = "ok"
  <2>1. f.len - i \in Nat /\ f.len - i <= f.len /\ f.len - (f.len - i) = i
    BY <1>1
  <2>2. f.len - i \notin bad
    BY <1>4
  <2> QED
    BY <2>1, <2>2
<1>6. ASSUME NEW i \in 0 .. f.len - 1
      PROVE  /\ TypeFault(s[i].types, image.code[f.off + i + 1], f.maxstack) = "ok"
             /\ s[i + 1].types = TypesAfter(s[i].types, image.code[f.off + i + 1])
  <2>1. i + 1 \in 1 .. f.len /\ i \in 0 .. f.len /\ i + 1 \in 0 .. f.len /\ i + 1 - 1 = i
    BY <1>1
  <2>2. insns[i + 1] = image.code[f.off + i + 1]
    BY <1>1 DEF At
  <2>3. s[i].fault = "ok" /\ s[i + 1].fault = "ok"
    BY <1>5, <2>1
  <2>4. s[i + 1] = Examine(image, f, s[i], insns[i + 1])
    BY <1>3, <2>1
  <2> QED
    BY <2>2, <2>3, <2>4 DEF Examine
<1> QED
  BY <1>1, <1>3, <1>6 DEF s

-----------------------------------------------------------------------------
(* The rows of the table that straight-line programs use.                   *)
LEMMA Rows ==
  /\ \A op \in IntBinary : TABLE[op].pops = <<"Int", "Int">> /\ TABLE[op].pushes = <<"Int">>
  /\ \A op \in {"nop", "resume", "commit", "ctxpop", "trap"} :
       TABLE[op].pops = <<>> /\ TABLE[op].pushes = <<>>
  /\ \A op \in {"ldi", "ctxcost", "fork"} : TABLE[op].pops = <<>> /\ TABLE[op].pushes = <<"Int">>
  /\ \A op \in {"release", "spend", "halt"} :
       TABLE[op].pops = <<"Int">> /\ TABLE[op].pushes = <<>>
  /\ TABLE["dup"].pops = <<"Top">> /\ TABLE["dup"].pushes = <<"Top", "Top">>
  /\ TABLE["drop"].pops = <<"Top">> /\ TABLE["drop"].pushes = <<>>
  /\ TABLE["swap"].pops = <<"Top", "Top">> /\ TABLE["swap"].pushes = <<"Top", "Top">>
  /\ TABLE["rot"].pops = <<"Top", "Top", "Top">>
  /\ TABLE["rot"].pushes = <<"Top", "Top", "Top">>
  /\ TABLE["idx"].pops = <<"Int", "List">> /\ TABLE["idx"].pushes = <<"Top">>
  /\ TABLE["len"].pops = <<"Handle">> /\ TABLE["len"].pushes = <<"Int">>
  /\ TABLE["find"].pops = <<"Handle", "Handle">> /\ TABLE["find"].pushes = <<"Int">>
  /\ TABLE["eq"].pops = <<"Top", "Top">> /\ TABLE["eq"].pushes = <<"Int">>
  /\ TABLE["not"].pops = <<"Int">> /\ TABLE["not"].pushes = <<"Int">>
  /\ TABLE["ldc"].pops = <<>> /\ TABLE["ldc"].pushes = <<"Handle">>
  /\ TABLE["argv"].pops = <<>> /\ TABLE["argv"].pushes = <<"Str">>
  /\ TABLE["cat"].pops = <<"Handle", "Handle">> /\ TABLE["cat"].pushes = <<"Handle">>
  /\ TABLE["fmt"].pops = <<"List">> /\ TABLE["fmt"].pushes = <<"Str">>
  /\ TABLE["slice"].pops = <<"Int", "Int", "Handle">> /\ TABLE["slice"].pushes = <<"Handle">>
  /\ TABLE["ctxwin"].pops = <<>> /\ TABLE["ctxwin"].pushes = <<"List">>
  /\ TABLE["ctxpush"].pops = <<"Str">> /\ TABLE["ctxpush"].pushes = <<>>
<1>1. ASSUME NEW op \in {"add", "sub", "mul", "div", "mod", "lt", "and", "or", "shl", "shr"}
      PROVE  TABLE[op].pops = <<"Int", "Int">> /\ TABLE[op].pushes = <<"Int">>
  <2>1. /\ TABLE["add"] = Row("None", <<"Int", "Int">>, <<"Int">>)
        /\ TABLE["sub"] = Row("None", <<"Int", "Int">>, <<"Int">>)
        /\ TABLE["mul"] = Row("None", <<"Int", "Int">>, <<"Int">>)
        /\ TABLE["div"] = Row("None", <<"Int", "Int">>, <<"Int">>)
        /\ TABLE["mod"] = Row("None", <<"Int", "Int">>, <<"Int">>)
        /\ TABLE["lt"] = Row("None", <<"Int", "Int">>, <<"Int">>)
        /\ TABLE["and"] = Row("None", <<"Int", "Int">>, <<"Int">>)
        /\ TABLE["or"] = Row("None", <<"Int", "Int">>, <<"Int">>)
        /\ TABLE["shl"] = Row("None", <<"Int", "Int">>, <<"Int">>)
        /\ TABLE["shr"] = Row("None", <<"Int", "Int">>, <<"Int">>)
    BY DEF TABLE
  <2> QED
    BY <2>1 DEF Row
<1>2. ASSUME NEW op \in {"nop", "resume", "commit", "ctxpop", "trap"}
      PROVE  TABLE[op].pops = <<>> /\ TABLE[op].pushes = <<>>
  <2>1. /\ TABLE["nop"] = Row("None", <<>>, <<>>)
        /\ TABLE["resume"] = Row("Const", <<>>, <<>>)
        /\ TABLE["commit"] = Row("None", <<>>, <<>>)
        /\ TABLE["ctxpop"] = Row("Imm", <<>>, <<>>)
        /\ TABLE["trap"] = Row("Const", <<>>, <<>>)
    BY DEF TABLE
  <2> QED
    BY <2>1 DEF Row
<1>3. ASSUME NEW op \in {"ldi", "ctxcost", "fork"}
      PROVE  TABLE[op].pops = <<>> /\ TABLE[op].pushes = <<"Int">>
  <2>1. /\ TABLE["ldi"] = Row("Imm", <<>>, <<"Int">>)
        /\ TABLE["ctxcost"] = Row("None", <<>>, <<"Int">>)
        /\ TABLE["fork"] = Row("None", <<>>, <<"Int">>)
    BY DEF TABLE
  <2> QED
    BY <2>1 DEF Row
<1>4. ASSUME NEW op \in {"release", "spend", "halt"}
      PROVE  TABLE[op].pops = <<"Int">> /\ TABLE[op].pushes = <<>>
  <2>1. /\ TABLE["release"] = Row("Dimension", <<"Int">>, <<>>)
        /\ TABLE["spend"] = Row("Dimension", <<"Int">>, <<>>)
        /\ TABLE["halt"] = Row("None", <<"Int">>, <<>>)
    BY DEF TABLE
  <2> QED
    BY <2>1 DEF Row
<1>5. /\ TABLE["dup"] = Row("None", <<"Top">>, <<"Top", "Top">>)
      /\ TABLE["drop"] = Row("None", <<"Top">>, <<>>)
      /\ TABLE["swap"] = Row("None", <<"Top", "Top">>, <<"Top", "Top">>)
      /\ TABLE["rot"] = Row("None", <<"Top", "Top", "Top">>, <<"Top", "Top", "Top">>)
      /\ TABLE["idx"] = Row("None", <<"Int", "List">>, <<"Top">>)
      /\ TABLE["len"] = Row("None", <<"Handle">>, <<"Int">>)
      /\ TABLE["find"] = Row("None", <<"Handle", "Handle">>, <<"Int">>)
      /\ TABLE["eq"] = Row("None", <<"Top", "Top">>, <<"Int">>)
      /\ TABLE["not"] = Row("None", <<"Int">>, <<"Int">>)
      /\ TABLE["ldc"] = Row("Const", <<>>, <<"Handle">>)
      /\ TABLE["argv"] = Row("Slot", <<>>, <<"Str">>)
      /\ TABLE["cat"] = Row("None", <<"Handle", "Handle">>, <<"Handle">>)
      /\ TABLE["fmt"] = Row("Const", <<"List">>, <<"Str">>)
      /\ TABLE["slice"] = Row("None", <<"Int", "Int", "Handle">>, <<"Handle">>)
      /\ TABLE["ctxwin"] = Row("None", <<>>, <<"List">>)
      /\ TABLE["ctxpush"] = Row("Imm", <<"Str">>, <<>>)
  BY DEF TABLE
<1>6. /\ TABLE["dup"].pops = <<"Top">> /\ TABLE["dup"].pushes = <<"Top", "Top">>
      /\ TABLE["drop"].pops = <<"Top">> /\ TABLE["drop"].pushes = <<>>
      /\ TABLE["swap"].pops = <<"Top", "Top">> /\ TABLE["swap"].pushes = <<"Top", "Top">>
      /\ TABLE["rot"].pops = <<"Top", "Top", "Top">>
      /\ TABLE["rot"].pushes = <<"Top", "Top", "Top">>
      /\ TABLE["idx"].pops = <<"Int", "List">> /\ TABLE["idx"].pushes = <<"Top">>
      /\ TABLE["len"].pops = <<"Handle">> /\ TABLE["len"].pushes = <<"Int">>
      /\ TABLE["find"].pops = <<"Handle", "Handle">> /\ TABLE["find"].pushes = <<"Int">>
      /\ TABLE["eq"].pops = <<"Top", "Top">> /\ TABLE["eq"].pushes = <<"Int">>
      /\ TABLE["not"].pops = <<"Int">> /\ TABLE["not"].pushes = <<"Int">>
      /\ TABLE["ldc"].pops = <<>> /\ TABLE["ldc"].pushes = <<"Handle">>
      /\ TABLE["argv"].pops = <<>> /\ TABLE["argv"].pushes = <<"Str">>
      /\ TABLE["cat"].pops = <<"Handle", "Handle">> /\ TABLE["cat"].pushes = <<"Handle">>
      /\ TABLE["fmt"].pops = <<"List">> /\ TABLE["fmt"].pushes = <<"Str">>
      /\ TABLE["slice"].pops = <<"Int", "Int", "Handle">> /\ TABLE["slice"].pushes = <<"Handle">>
      /\ TABLE["ctxwin"].pops = <<>> /\ TABLE["ctxwin"].pushes = <<"List">>
      /\ TABLE["ctxpush"].pops = <<"Str">> /\ TABLE["ctxpush"].pushes = <<>>
  BY <1>5 DEF Row
<1>7. \A op \in IntBinary : TABLE[op].pops = <<"Int", "Int">> /\ TABLE[op].pushes = <<"Int">>
  BY <1>1 DEF IntBinary
<1> QED
  BY <1>2, <1>3, <1>4, <1>6, <1>7

-----------------------------------------------------------------------------
(* A stack of types and the operands of a frame, related one by one.        *)
Matches(types, f, R) ==
  /\ types \in Seq(Ty) /\ Len(types) = f.sp
  /\ \A k \in 1 .. f.sp : <<types[k], f.slots[k]>> \in R

(* n operands and their types go, values and their types come.              *)
LEMMA Restacked ==
  ASSUME NEW f \in Frames, NEW types, NEW R, Matches(types, f, R),
         NEW n \in Nat, n <= f.sp, NEW vs \in Seq(Values), NEW ps \in Seq(Ty),
         Len(vs) = Len(ps), f.sp - n + Len(vs) <= f.maxstack,
         \A k \in 1 .. Len(vs) : <<ps[k], vs[k]>> \in R
  PROVE  Matches(SubSeq(types, 1, Len(types) - n) \o ps, Replace(f, n, vs), R)
<1> DEFINE base == f.sp - n
           m == Len(vs)
           below == SubSeq(types, 1, base)
           g == Replace(f, n, vs)
<1>1. /\ f.sp \in Nat /\ f.maxstack \in Nat /\ base \in Nat /\ base <= f.sp /\ m \in Nat
      /\ types \in Seq(Ty) /\ Len(types) = f.sp /\ f.sp <= f.maxstack
  BY FrameFields DEF Matches
<1>2. /\ below \in Seq(Ty) /\ Len(below) = base
      /\ \A k \in 1 .. base : below[k] = types[k]
  <2>1. \A k \in 1 .. base : types[k] \in Ty
    BY <1>1, ElementOfSeq
  <2>2. 1 \in Int /\ base \in Int /\ base - 1 + 1 = base /\ \A k \in 1 .. base : 1 + k - 1 = k
    BY <1>1
  <2> HIDE DEF base, below
  <2>3. below = SubSeq(types, 1, base)
    BY DEF below
  <2>4. /\ below \in Seq(Ty) /\ Len(below) = (IF 1 <= base THEN base - 1 + 1 ELSE 0)
        /\ \A k \in 1 .. base - 1 + 1 : below[k] = types[1 + k - 1]
    BY <2>1, <2>2, <2>3, SubSeqProperties
  <2> QED
    BY <1>1, <2>2, <2>4
<1>3. g.sp = base + m /\ \A k \in 1 .. f.maxstack :
        g.slots[k] = IF base < k /\ k <= base + m THEN vs[k - base] ELSE f.slots[k]
  BY <1>1 DEF Replace, Frames
<1> HIDE DEF below, g
<1>4. /\ below \o ps \in Seq(Ty) /\ Len(below \o ps) = base + m
      /\ \A k \in 1 .. base + m :
           (below \o ps)[k] = IF k <= base THEN below[k] ELSE ps[k - base]
  <2>1. Len(ps) = m /\ Len(below) = base /\ below \in Seq(Ty) /\ ps \in Seq(Ty)
    BY <1>2
  <2> HIDE DEF base, m
  <2>2. /\ below \o ps \in Seq(Ty) /\ Len(below \o ps) = Len(below) + Len(ps)
        /\ \A k \in 1 .. Len(below) + Len(ps) :
             (below \o ps)[k] = IF k <= Len(below) THEN below[k] ELSE ps[k - Len(below)]
    BY <2>1, ConcatProperties
  <2> QED
    BY <2>1, <2>2
<1>5. ASSUME NEW k \in 1 .. base + m PROVE <<(below \o ps)[k], g.slots[k]>> \in R
  <2>1. k \in 1 .. f.maxstack
    BY <1>1
  <2>2. CASE k <= base
    <3>1. k \in 1 .. base /\ k \in 1 .. f.sp
      BY <1>1, <2>2
    <3>2. (below \o ps)[k] = types[k] /\ g.slots[k] = f.slots[k]
      BY <1>1, <1>2, <1>3, <1>4, <2>1, <2>2, <3>1
    <3> QED
      BY <3>1, <3>2 DEF Matches
  <2>3. CASE ~(k <= base)
    <3>1. k - base \in 1 .. m /\ base < k /\ k <= base + m
      BY <1>1, <2>3
    <3>2. (below \o ps)[k] = ps[k - base] /\ g.slots[k] = vs[k - base]
      BY <1>3, <1>4, <2>1, <2>3, <3>1
    <3> QED
      BY <3>1, <3>2
  <2> QED
    BY <2>2, <2>3
<1>6. Len(types) - n = base
  BY <1>1
<1> QED
  BY <1>3, <1>4, <1>5, <1>6 DEF Matches, below, g

(* What the scan's checks of an instruction say of the types before it.     *)
LEMMA Wanted ==
  ASSUME NEW types \in Seq(Ty), NEW d, d.op \notin Variadic, NEW m,
         TypeFault(types, d, m) = "ok",
         NEW pops, pops = TABLE[d.op].pops, Len(pops) \in Nat
  PROVE  /\ \A k \in 1 .. Len(pops) :
              k <= Len(types) /\ Satisfies(types[Len(types) - k + 1], pops[k])
         /\ Len(pops) <= Len(types)
         /\ TABLE[d.op].pushes # <<>> =>
              ~(Len(types) - Len(pops) + Len(TABLE[d.op].pushes) > m)
         /\ TypesAfter(types, d) =
              SubSeq(types, 1, Len(types) - Len(pops)) \o TABLE[d.op].pushes
<1> DEFINE bad == {k \in 1 .. Len(pops) :
                     k > Len(types) \/ ~Satisfies(FromTop(types, k), pops[k])}
<1>1. PopFault(types, pops) = "ok"
  BY DEF TypeFault
<1>2. bad = {}
  BY <1>1 DEF PopFault
<1>3. ASSUME NEW k \in 1 .. Len(pops)
      PROVE  k <= Len(types) /\ Satisfies(types[Len(types) - k + 1], pops[k])
  <2>1. Len(types) \in Nat /\ k \in Nat
    OBVIOUS
  <2>2. ~(k > Len(types)) /\ Satisfies(FromTop(types, k), pops[k])
    BY <1>2
  <2> QED
    BY <2>1, <2>2 DEF FromTop
<1>4. Len(pops) <= Len(types)
  <2>1. CASE Len(pops) = 0
    BY <2>1
  <2>2. CASE Len(pops) # 0
    <3>1. Len(pops) \in 1 .. Len(pops)
      BY <2>2
    <3> QED
      BY <1>3, <3>1
  <2> QED
    BY <2>1, <2>2
<1> QED
  BY <1>1, <1>3, <1>4 DEF TypeFault, TypesAfter, Popped

(* Any type may be forgotten, and integers are known.                       *)
Lax(R) ==
  /\ \A t \in Ty, v \in Values : <<t, v>> \in R => <<"Top", v>> \in R
  /\ \A v \in Values : v.tag = INT => <<"Int", v>> \in R

(* The operand a type describes.                                            *)
LEMMA Operand ==
  ASSUME IInv, Fetchable, NEW types, NEW R, Matches(types, Cur, R),
         NEW k \in Nat \ {0}, k <= Cur.sp
  PROVE  /\ Arg(k) \in Values /\ types[Len(types) - k + 1] \in Ty
         /\ <<types[Len(types) - k + 1], Arg(k)>> \in R
         /\ Arg(k) = Cur.slots[Cur.sp - k + 1]
<1>1. Cur \in Frames /\ Cur.sp \in Nat
  BY TopFrame, FrameFields DEF Fetchable, Ready
<1>2. Cur.sp - k + 1 \in 1 .. Cur.sp
  BY <1>1
<1>3. Arg(k) = Cur.slots[Cur.sp - k + 1]
  BY DEF Arg, Opnd
<1>4. types[Cur.sp - k + 1] \in Ty
  BY <1>2, ElementOfSeq DEF Matches
<1> QED
  BY <1>2, <1>3, <1>4, OperandType DEF Matches

(* To push the top operand once more is to pop it and push it twice.        *)
LEMMA Duplicated ==
  ASSUME NEW f \in Frames, 1 <= f.sp, NEW a, a = f.slots[f.sp]
  PROVE  Replace(f, 0, <<a>>) = Replace(f, 1, <<a, a>>)
<1> DEFINE once(i) == IF f.sp < i /\ i <= f.sp + 1 THEN <<a>>[i - f.sp] ELSE f.slots[i]
           twice(i) == IF f.sp - 1 < i /\ i <= f.sp - 1 + 2
                       THEN <<a, a>>[i - (f.sp - 1)] ELSE f.slots[i]
<1>1. f.sp \in Nat /\ f.maxstack \in Nat
  BY FrameFields
<1>2. Replace(f, 0, <<a>>) =
        [f EXCEPT !.sp = f.sp + 1, !.slots = [i \in 1 .. f.maxstack |-> once(i)]]
  <2>1. f.sp - 0 = f.sp /\ Len(<<a>>) = 1
    BY <1>1
  <2> QED
    BY <2>1 DEF Replace
<1>3. Replace(f, 1, <<a, a>>) =
        [f EXCEPT !.sp = f.sp - 1 + 2, !.slots = [i \in 1 .. f.maxstack |-> twice(i)]]
  <2>1. Len(<<a, a>>) = 2
    OBVIOUS
  <2> QED
    BY <2>1 DEF Replace
<1>4. ASSUME NEW i \in 1 .. f.maxstack PROVE once(i) = twice(i)
  <2>1. CASE i = f.sp
    <3>1. once(i) = a /\ i - (f.sp - 1) = 1
      BY <1>1, <2>1
    <3>2. twice(i) = a
      BY <1>1, <2>1, <3>1
    <3> QED
      BY <3>1, <3>2
  <2>2. CASE i = f.sp + 1
    <3>1. i - f.sp = 1 /\ i - (f.sp - 1) = 2 /\ f.sp < i /\ i <= f.sp + 1
          /\ f.sp - 1 < i /\ i <= f.sp - 1 + 2
      BY <1>1, <2>2
    <3>2. once(i) = <<a>>[1]
      BY <3>1
    <3>3. twice(i) = <<a, a>>[2]
      BY <3>1
    <3> QED
      BY <3>2, <3>3
  <2>3. CASE i # f.sp /\ i # f.sp + 1
    BY <1>1, <2>3
  <2> QED
    BY <2>1, <2>2, <2>3
<1> HIDE DEF once, twice
<1>5. f.sp + 1 = f.sp - 1 + 2
  BY <1>1
<1>6. [i \in 1 .. f.maxstack |-> once(i)] = [i \in 1 .. f.maxstack |-> twice(i)]
  BY <1>4
<1> QED
  BY <1>2, <1>3, <1>5, <1>6

(* The operands and results of an instruction, as many as its row says.     *)
LEMMA StepStacks ==
  ASSUME IInv, Fetchable, FaultOf(Fetched) = "ok", Fetched.op \notin Variadic,
         NEW types, NEW R, Matches(types, Cur, R),
         NEW m, TypeFault(types, Fetched, m) = "ok",
         Len(TABLE[Fetched.op].pops) = Arity(Fetched),
         NEW ps \in Seq(Ty), ps = TABLE[Fetched.op].pushes,
         NEW vs \in Seq(Values), Left(Fetched) = Len(vs), Len(ps) = Len(vs),
         \A k \in 1 .. Len(vs) : <<ps[k], vs[k]>> \in R
  PROVE  Matches(TypesAfter(types, Fetched), Rewrite(Fetched, vs), R)
<1> DEFINE d == Fetched
<1>1. /\ Cur \in Frames /\ types \in Seq(Ty) /\ Len(types) = Cur.sp
      /\ Cur.sp \in Nat /\ Cur.maxstack \in Nat
  BY TopFrame, FrameFields DEF Fetchable, Ready, Matches
<1>2. /\ Arity(d) \in Nat /\ Arity(d) <= Cur.sp
      /\ ~(Cur.sp - Arity(d) + Len(vs) > Cur.maxstack)
  BY Passed
<1>3. TypesAfter(types, d) = SubSeq(types, 1, Len(types) - Arity(d)) \o ps
  <2> DEFINE pops == TABLE[d.op].pops
  <2>1. Len(pops) = Arity(d) /\ Len(pops) \in Nat
    BY <1>2
  <2>2. TypesAfter(types, d) = SubSeq(types, 1, Len(types) - Len(pops)) \o TABLE[d.op].pushes
    BY <1>1, <2>1, Wanted
  <2> QED
    BY <2>1, <2>2
<1>4. Cur.sp - Arity(d) + Len(vs) <= Cur.maxstack
  BY <1>1, <1>2
<1> HIDE DEF d
<1>5. Matches(SubSeq(types, 1, Len(types) - Arity(d)) \o ps,
              Replace(Cur, Arity(d), vs), R)
  BY <1>1, <1>2, <1>4, Restacked
<1>6. Matches(TypesAfter(types, d), Rewrite(d, vs), R)
  BY <1>3, <1>5 DEF Rewrite
<1> QED
  BY <1>6 DEF d

LEMMA ComputeStacks ==
  ASSUME IInv, Fetchable, FaultOf(Fetched) = "ok",
         Fetched.op \in ComputeOps \ Variadic,
         NEW types, NEW R, Matches(types, Cur, R), Lax(R),
         NEW m, TypeFault(types, Fetched, m) = "ok",
         Fetched.op = "idx" => \A v \in Values : <<"Top", v>> \in R
  PROVE  Matches(TypesAfter(types, Fetched), Rewrite(Fetched, Results(Fetched)), R)
<1> DEFINE d == Fetched
           pops == TABLE[d.op].pops
           ps == TABLE[d.op].pushes
<1>0. /\ Cur \in Frames /\ types \in Seq(Ty) /\ Len(types) = Cur.sp
      /\ Cur.sp \in Nat /\ Cur.maxstack \in Nat
  BY TopFrame, FrameFields DEF Fetchable, Ready, Matches
<1>1. Results(d) \in Seq(Values) /\ Left(d) = Len(Results(d))
  BY ResultsType DEF Left, ComputeOps, AllocOps, IntBinary
<1>2. /\ Arity(d) \in Nat /\ Arity(d) <= Cur.sp
      /\ ~(Cur.sp - Arity(d) + Len(Results(d)) > Cur.maxstack)
  BY <1>1, Passed
<1>3. ASSUME Len(pops) = Arity(d), ps \in Seq(Ty), Len(ps) = Len(Results(d)),
             \A k \in 1 .. Len(Results(d)) : <<ps[k], Results(d)[k]>> \in R
      PROVE  Matches(TypesAfter(types, d), Rewrite(d, Results(d)), R)
  BY <1>1, <1>3, StepStacks
<1>4. \A k \in 1 .. Cur.sp : /\ <<"Top", Arg(k)>> \in R /\ Arg(k) \in Values
                             /\ Arg(k) = Cur.slots[Cur.sp - k + 1]
  <2>1. ASSUME NEW k \in 1 .. Cur.sp
        PROVE  /\ <<"Top", Arg(k)>> \in R /\ Arg(k) \in Values
               /\ Arg(k) = Cur.slots[Cur.sp - k + 1]
    <3>1. k \in Nat \ {0} /\ k <= Cur.sp
      BY <1>0
    <3> QED
      BY <3>1, Operand DEF Lax
  <2> QED
    BY <2>1
<1>5. \A t \in Ty : <<t>> \in Seq(Ty) /\ <<t, t>> \in Seq(Ty) /\ <<t, t, t>> \in Seq(Ty)
  OBVIOUS
<1>6. << >> \in Seq(Ty) /\ "Int" \in Ty /\ "Top" \in Ty
  BY DEF Ty
<1>7. CASE d.op \in IntBinary
  <2>1. Results(d) = <<Computed(d.op, Arg(2), Arg(1))>> /\ Arity(d) = 2
    BY <1>7 DEF Results, Arity, Kinds, IntBinary
  <2>2. Computed(d.op, Arg(2), Arg(1)).tag = INT
    BY <1>7 DEF Computed, IntBinary, IntV, BoolV
  <2>3. Computed(d.op, Arg(2), Arg(1)) \in Values
    BY <1>1, <2>1
  <2>4. <<"Int", Computed(d.op, Arg(2), Arg(1))>> \in R
    BY <2>2, <2>3 DEF Lax
  <2>5. pops = <<"Int", "Int">> /\ ps = <<"Int">>
    BY <1>7, Rows
  <2> QED
    BY <1>3, <1>5, <1>6, <2>1, <2>4, <2>5
<1>8. CASE d.op \in {"nop", "resume"}
  <2>1. Results(d) = <<>> /\ Arity(d) = 0
    BY <1>8 DEF Results, Arity, Kinds, IntBinary
  <2>2. pops = <<>> /\ ps = <<>>
    BY <1>8, Rows
  <2> QED
    BY <1>3, <1>6, <2>1, <2>2
<1>9. CASE d.op = "drop"
  <2>1. Results(d) = <<>> /\ Arity(d) = 1
    BY <1>9 DEF Results, Arity, Kinds, IntBinary
  <2>2. pops = <<"Top">> /\ ps = <<>>
    BY <1>9, Rows
  <2> QED
    BY <1>3, <1>6, <2>1, <2>2
<1>10. CASE d.op \in {"ldi", "ctxcost", "len", "find", "eq", "not"}
  <2>1. PICK v : Results(d) = <<v>> /\ v.tag = INT
    BY <1>10 DEF Results, IntBinary, IntV, BoolV
  <2>2. v \in Values
    BY <1>1, <2>1
  <2>3. <<"Int", v>> \in R
    BY <2>1, <2>2 DEF Lax
  <2>4. ps = <<"Int">>
    BY <1>10, Rows
  <2>5. Arity(d) = Len(pops)
    <3>1. CASE d.op \in {"ldi", "ctxcost"}
      BY <3>1, Rows DEF Arity, Kinds, IntBinary
    <3>2. CASE d.op = "len"
      BY <3>2, Rows DEF Arity, Kinds, IntBinary
    <3>3. CASE d.op = "not"
      BY <3>3, Rows DEF Arity, Kinds, IntBinary
    <3>4. CASE d.op = "find"
      BY <3>4, Rows DEF Arity, Kinds, IntBinary
    <3>5. CASE d.op = "eq"
      <4>1. Len(Kinds(d)) = 2
        BY <3>5 DEF Kinds, IntBinary
      <4>2. Len(pops) = 2
        BY <3>5, Rows
      <4> QED
        BY <4>1, <4>2 DEF Arity
    <3> QED
      BY <1>10, <3>1, <3>2, <3>3, <3>4, <3>5
  <2> QED
    BY <1>3, <1>5, <1>6, <2>1, <2>3, <2>4, <2>5
<1>11. CASE d.op = "idx"
  <2>1. PICK v : Results(d) = <<v>>
    BY <1>11 DEF Results, IntBinary
  <2>2. v \in Values
    BY <1>1, <2>1
  <2>3. pops = <<"Int", "List">> /\ ps = <<"Top">>
    BY <1>11, Rows
  <2>4. Arity(d) = 2
    BY <1>11 DEF Arity, Kinds, IntBinary
  <2> QED
    BY <1>3, <1>5, <1>6, <1>11, <2>1, <2>2, <2>3, <2>4
<1>12. CASE d.op = "swap"
  <2>1. Results(d) = <<Arg(1), Arg(2)>> /\ Arity(d) = 2
    BY <1>12 DEF Results, Arity, Kinds, IntBinary
  <2>2. pops = <<"Top", "Top">> /\ ps = <<"Top", "Top">>
    BY <1>12, Rows
  <2>3. 1 \in 1 .. Cur.sp /\ 2 \in 1 .. Cur.sp
    BY <1>0, <1>2, <2>1
  <2> QED
    BY <1>3, <1>4, <1>5, <1>6, <2>1, <2>2, <2>3
<1>13. CASE d.op = "rot"
  <2>1. Results(d) = <<Arg(1), Arg(3), Arg(2)>> /\ Arity(d) = 3
    BY <1>13 DEF Results, Arity, Kinds, IntBinary
  <2>2. pops = <<"Top", "Top", "Top">> /\ ps = <<"Top", "Top", "Top">>
    BY <1>13, Rows
  <2>3. 1 \in 1 .. Cur.sp /\ 2 \in 1 .. Cur.sp /\ 3 \in 1 .. Cur.sp
    BY <1>0, <1>2, <2>1
  <2> QED
    BY <1>3, <1>4, <1>5, <1>6, <2>1, <2>2, <2>3
<1>14. CASE d.op = "dup"
  <2> DEFINE a == Arg(1)
             vs == <<a, a>>
  <2>1. Results(d) = <<a>> /\ Arity(d) = 0
    BY <1>14 DEF Results, Arity, Kinds, IntBinary
  <2>2. pops = <<"Top">> /\ ps = <<"Top", "Top">> /\ Len(pops) = 1
    BY <1>14, Rows
  <2>3. 1 <= Cur.sp /\ TypesAfter(types, d) = SubSeq(types, 1, Len(types) - 1) \o ps
    BY <1>0, <2>2, Wanted
  <2>4. a \in Values /\ <<"Top", a>> \in R /\ a = Cur.slots[Cur.sp]
    <3>1. 1 \in 1 .. Cur.sp /\ Cur.sp - 1 + 1 = Cur.sp /\ 1 \in Nat \ {0}
      BY <1>0, <2>3
    <3> QED
      BY <1>4, <3>1
  <2>5. Cur.sp - 1 + 2 <= Cur.maxstack
    BY <1>0, <1>2, <2>1
  <2>6. Rewrite(d, Results(d)) = Replace(Cur, 1, vs)
    <3>1. Rewrite(d, Results(d)) = Replace(Cur, 0, <<a>>)
      BY <2>1 DEF Rewrite
    <3> HIDE DEF a, d
    <3> QED
      BY <1>0, <2>3, <2>4, <3>1, Duplicated
  <2>7. vs \in Seq(Values) /\ Len(vs) = 2 /\ vs[1] = a /\ vs[2] = a
    BY <2>4
  <2>8. /\ ps \in Seq(Ty) /\ Len(vs) = Len(ps) /\ Cur.sp - 1 + Len(vs) <= Cur.maxstack
        /\ \A k \in 1 .. Len(vs) : <<ps[k], vs[k]>> \in R
    BY <1>5, <1>6, <2>2, <2>4, <2>5, <2>7
  <2> HIDE DEF vs, a, ps, pops, d
  <2>9. Matches(SubSeq(types, 1, Len(types) - 1) \o ps, Replace(Cur, 1, vs), R)
    BY <1>0, <2>3, <2>7, <2>8, Restacked
  <2>10. Matches(TypesAfter(types, d), Rewrite(d, Results(d)), R)
    BY <2>3, <2>6, <2>9
  <2> QED
    BY <2>10 DEF d
<1> QED
  BY <1>7, <1>8, <1>9, <1>10, <1>11, <1>12, <1>13, <1>14 DEF ComputeOps, Variadic

(* A handle more, of the type the row of the instruction says.              *)
LEMMA AllocateStacks ==
  ASSUME IInv, Fetchable, FaultOf(Fetched) = "ok",
         Fetched.op \in AllocOps \ Variadic,
         NEW types, NEW R, Matches(types, Cur, R),
         NEW m, TypeFault(types, Fetched, m) = "ok",
         NEW v \in Values, <<TABLE[Fetched.op].pushes[1], v>> \in R
  PROVE  Matches(TypesAfter(types, Fetched), Rewrite(Fetched, <<v>>), R)
<1> DEFINE d == Fetched
           pops == TABLE[d.op].pops
           ps == TABLE[d.op].pushes
           vs == <<v>>
<1>1. d.op \in {"ldc", "argv", "cat", "fmt", "slice", "ctxwin"}
  BY DEF AllocOps, Variadic
<1>2. Left(d) = 1
  BY <1>1 DEF Left, ComputeOps, AllocOps, IntBinary
<1>3. ps = <<"Handle">> \/ ps = <<"Str">> \/ ps = <<"List">>
  BY <1>1, Rows
<1>4. ps \in Seq(Ty) /\ Len(ps) = 1
  <2>1. \A t \in Ty : <<t>> \in Seq(Ty)
    OBVIOUS
  <2>2. "Handle" \in Ty /\ "Str" \in Ty /\ "List" \in Ty
    BY DEF Ty
  <2> QED
    BY <1>3, <2>1, <2>2
<1>5. Len(pops) = Arity(d)
  <2>1. CASE d.op \in {"ldc", "argv", "ctxwin"}
    BY <2>1, Rows DEF Arity, Kinds, IntBinary
  <2>2. CASE d.op = "cat"
    BY <2>2, Rows DEF Arity, Kinds, IntBinary
  <2>3. CASE d.op = "fmt"
    BY <2>3, Rows DEF Arity, Kinds, IntBinary
  <2>4. CASE d.op = "slice"
    BY <2>4, Rows DEF Arity, Kinds, IntBinary
  <2> QED
    BY <1>1, <2>1, <2>2, <2>3, <2>4
<1>6. vs \in Seq(Values) /\ Len(vs) = 1 /\ \A k \in 1 .. Len(vs) : <<ps[k], vs[k]>> \in R
  OBVIOUS
<1> HIDE DEF vs
<1> SUFFICES Matches(TypesAfter(types, Fetched), Rewrite(Fetched, vs), R)
  BY DEF vs
<1> QED
  BY <1>2, <1>4, <1>5, <1>6, StepStacks

(* The pc moves on and the stack stays.                                     *)
LEMMA AdvanceMatches ==
  ASSUME NEW types, NEW R, NEW f \in Frames, Matches(types, f, R)
  PROVE  Matches(types, Advance(f), R)
BY FrameFields DEF Matches, Advance, Frames

LEMMA WiderMatches ==
  ASSUME NEW types, NEW R, NEW Q, R \subseteq Q, NEW f, Matches(types, f, R)
  PROVE  Matches(types, f, Q)
BY DEF Matches

(* Instructions whose row pops and pushes nothing. *)
LEMMA TypesStay ==
  ASSUME NEW types \in Seq(Ty), NEW d,
         d.op \in {"commit", "ctxpop"}, NEW m, TypeFault(types, d, m) = "ok"
  PROVE  TypesAfter(types, d) = types
<1>1. TABLE[d.op].pops = <<>> /\ TABLE[d.op].pushes = <<>> /\ d.op \notin Variadic
  BY Rows DEF Variadic
<1>2. TypesAfter(types, d) = SubSeq(types, 1, Len(types) - 0) \o <<>>
  BY <1>1 DEF TypesAfter, Popped
<1>3. SubSeq(types, 1, Len(types)) = types
  BY SubSeqFull
<1> QED
  BY <1>2, <1>3

-----------------------------------------------------------------------------
(* A value has the type the scan gave it; and in the agreeing programs it   *)
(* is an integer, a string or a list that lies in the cells, and what is    *)
(* only known to be a handle is a string.                                   *)
Loose == {p \in Ty \X Values : Describes(p[1], p[2])}
Firm(cells) ==
  {p \in Loose : /\ p[2].tag \in {INT, STR, LIST}
                 /\ p[1] = "Handle" => p[2].tag = STR
                 /\ IsArena(p[2]) => Extent(p[2]) <= Len(cells)}

TypesAt == Scan(image, FuncOf(Cur))[Cur.pc].types

Fitting ==
  frames # <<>> =>
    /\ Cur.maxstack = FuncOf(Cur).maxstack
    /\ Matches(TypesAt, Cur, Loose)
    /\ Agreeing => Matches(TypesAt, Cur, Firm(arena))

Unasked == pending = <<>> /\ result.kind # "trap"

ScanInv == Linear => Fitting /\ Unasked

LEMMA Relations ==
  /\ Lax(Loose) /\ \A v \in Values : <<"Top", v>> \in Loose
  /\ \A cells : Lax(Firm(cells)) /\ Firm(cells) \subseteq Loose
  /\ \A a \in Seq(Word), b \in Seq(Word) : Len(a) <= Len(b) => Firm(a) \subseteq Firm(b)
<1>1. \A t \in Ty, v \in Values : <<t, v>> \in Ty \X Values /\ <<t, v>>[1] = t /\ <<t, v>>[2] = v
  OBVIOUS
<1>2. "Top" \in Ty /\ "Int" \in Ty
  BY DEF Ty
<1>3. \A v \in Values : v.tag = INT => TyOf(v) = "Int"
  BY DEF TyOf, VOID, INT, STR, BYTES, LIST, PENDING
<1>4. \A v \in Values : <<"Top", v>> \in Loose
  BY <1>1, <1>2 DEF Loose, Describes
<1>5. \A v \in Values : v.tag = INT => <<"Int", v>> \in Loose
  BY <1>1, <1>2, <1>3 DEF Loose, Describes
<1>6. ASSUME NEW cells
      PROVE  Lax(Firm(cells)) /\ Firm(cells) \subseteq Loose
  <2>1. ASSUME NEW t \in Ty, NEW v \in Values, <<t, v>> \in Firm(cells)
        PROVE  <<"Top", v>> \in Firm(cells)
    BY <1>1, <1>2, <1>4, <2>1 DEF Firm
  <2>2. ASSUME NEW v \in Values, v.tag = INT PROVE <<"Int", v>> \in Firm(cells)
    <3>1. ~IsArena(v)
      BY <2>2 DEF IsArena, INT, STR, BYTES, LIST
    <3> QED
      BY <1>1, <1>2, <1>5, <2>2, <3>1 DEF Firm
  <2> QED
    BY <2>1, <2>2 DEF Lax, Firm
<1>7. ASSUME NEW a \in Seq(Word), NEW b \in Seq(Word), Len(a) <= Len(b)
      PROVE  Firm(a) \subseteq Firm(b)
  <2>1. SUFFICES ASSUME NEW p \in Firm(a) PROVE p \in Firm(b)
    OBVIOUS
  <2>2. p[2] \in Values
    BY DEF Firm, Loose
  <2>3. Extent(p[2]) \in Nat
    BY <2>2, HandleOfType DEF Extent
  <2>4. Len(a) \in Nat /\ Len(b) \in Nat
    OBVIOUS
  <2>5. Extent(p[2]) <= Len(a) => Extent(p[2]) <= Len(b)
    BY <1>7, <2>3, <2>4
  <2> QED
    BY <2>5 DEF Firm
<1> QED
  BY <1>4, <1>5, <1>6, <1>7 DEF Lax

(* A new handle has the type its row says.                                  *)
LEMMA NewHandles ==
  ASSUME IInv, Fetchable, FaultOf(Fetched) = "ok", Fetched.op \in AllocOps \ Variadic,
         NEW v, v = HandleV(PayloadTag(Fetched), NewHandle(arena, Payload(Fetched)))
  PROVE  /\ v \in Values
         /\ <<TABLE[Fetched.op].pushes[1], v>> \in Loose
         /\ Agreeing /\ Uses(Fetched.op) =>
              <<TABLE[Fetched.op].pushes[1], v>> \in Firm(Alloc(arena, Payload(Fetched)))
<1> DEFINE d == Fetched
           bytes == Payload(Fetched)
           tag == PayloadTag(Fetched)
           t == TABLE[d.op].pushes[1]
<1>1. /\ bytes \in Seq(Word) /\ tag \in Tags /\ arena \in Seq(Word)
      /\ CanAlloc(arena, bytes)
  BY PayloadType, Passed DEF IInv, StoreOk, RoomFault
<1>2. /\ v \in Values /\ v.tag = tag /\ Extent(v) <= Len(Alloc(arena, bytes))
  <2>1. v = HandleV(tag, NewHandle(arena, bytes))
    OBVIOUS
  <2> HIDE DEF bytes, tag
  <2> QED
    BY <1>1, <2>1, GetNew
<1>3. d.op \in {"ldc", "argv", "cat", "fmt", "slice", "ctxwin"}
  BY DEF AllocOps, Variadic
<1>4. t \in Ty /\ Describes(t, v)
  <2>1. CASE d.op \in {"ldc", "cat", "slice"}
    <3>1. t = "Handle"
      BY <2>1, Rows
    <3>2. tag \in {STR, BYTES}
      BY <2>1 DEF PayloadTag
    <3> QED
      BY <1>2, <3>1, <3>2 DEF Ty, Describes, IsArena
  <2>2. CASE d.op \in {"argv", "fmt"}
    <3>1. t = "Str"
      BY <2>2, Rows
    <3>2. tag = STR
      BY <2>2 DEF PayloadTag
    <3>3. TyOf(v) = "Str"
      BY <1>2, <3>2 DEF TyOf, VOID, INT, STR, BYTES, LIST, PENDING
    <3> QED
      BY <3>1, <3>3 DEF Ty, Describes
  <2>3. CASE d.op = "ctxwin"
    <3>1. t = "List"
      BY <2>3, Rows
    <3>2. tag = LIST
      BY <2>3 DEF PayloadTag
    <3>3. TyOf(v) = "List"
      BY <1>2, <3>2 DEF TyOf, VOID, INT, STR, BYTES, LIST, PENDING
    <3> QED
      BY <3>1, <3>3 DEF Ty, Describes
  <2> QED
    BY <1>3, <2>1, <2>2, <2>3
<1>5. <<t, v>> \in Loose
  BY <1>2, <1>4 DEF Loose
<1>6. ASSUME Agreeing, Uses(d.op)
      PROVE  tag \in {STR, LIST} /\ (t = "Handle" => tag = STR)
  <2>1. d.op \in {"ldc", "argv", "cat", "ctxwin"}
    BY <1>3, <1>6 DEF Agreeing
  <2>2. CASE d.op = "ldc"
    <3>1. Const(d.b).utf8 = TRUE
      <4>1. CASE d.b < Len(image.consts)
        <5>1. d.b + 1 \in 1 .. Len(image.consts)
          BY <4>1, FetchedType, ImageFacts DEF IInv
        <5> QED
          BY <1>6, <4>1, <5>1 DEF Agreeing, Const
      <4>2. CASE ~(d.b < Len(image.consts))
        BY <4>2 DEF Const
      <4> QED
        BY <4>1, <4>2
    <3> QED
      BY <2>2, <3>1 DEF PayloadTag
  <2>3. CASE d.op \in {"argv", "cat"}
    BY <2>3 DEF PayloadTag
  <2>4. CASE d.op = "ctxwin"
    <3>1. t = "List"
      BY <2>4, Rows
    <3> QED
      BY <2>4, <3>1 DEF PayloadTag
  <2> QED
    BY <2>1, <2>2, <2>3, <2>4
<1> HIDE DEF t, bytes, tag, d
<1>7. Agreeing /\ Uses(d.op) => <<t, v>> \in Firm(Alloc(arena, bytes))
  BY <1>2, <1>5, <1>6 DEF Firm
<1> QED
  BY <1>2, <1>5, <1>7 DEF t, bytes, d

-----------------------------------------------------------------------------
(* The scan at the instruction that is executed, and behind it.             *)
LEMMA ScanStep ==
  ASSUME IInv, Fetchable, Cur.pc < FuncOf(Cur).len, Cur.maxstack = FuncOf(Cur).maxstack
  PROVE  /\ TypeFault(TypesAt, Fetched, Cur.maxstack) = "ok"
         /\ Scan(image, FuncOf(Cur))[Cur.pc + 1].types = TypesAfter(TypesAt, Fetched)
<1> DEFINE f == FuncOf(Cur)
           i == Cur.pc
<1>1. /\ Cur \in Frames /\ Cur.func \in Nat /\ i \in Nat /\ Cur.func < Len(image.funcs)
      /\ image \in Images
  BY TopFrame, FrameFields DEF Fetchable, Ready, IInv
<1>2. Cur.func + 1 \in 1 .. Len(image.funcs)
  BY <1>1, ImageFacts
<1>3. f = image.funcs[Cur.func + 1]
  BY DEF FuncOf
<1>4. Fetched = image.code[f.off + i + 1]
  BY DEF Fetched, Offset
<1> HIDE DEF f
<1>5. /\ f \in Funcs
      /\ \A j \in 0 .. f.len - 1 :
           LET types == Scan(image, f)[j].types
               d == image.code[f.off + j + 1]
           IN /\ TypeFault(types, d, f.maxstack) = "ok"
              /\ Scan(image, f)[j + 1].types = TypesAfter(types, d)
  BY <1>1, <1>2, <1>3, ScanPasses
<1>6. i \in 0 .. f.len - 1
  BY <1>1, <1>5 DEF f, Funcs
<1>7. /\ TypeFault(Scan(image, f)[i].types, Fetched, f.maxstack) = "ok"
      /\ Scan(image, f)[i + 1].types = TypesAfter(Scan(image, f)[i].types, Fetched)
  BY <1>4, <1>5, <1>6
<1> QED
  BY <1>7 DEF f, TypesAt

(* Before the pc moves, the frame matches the types behind the instruction. *)
Restacks(g) ==
  /\ g \in Frames /\ g.func = Cur.func /\ g.pc = Cur.pc /\ g.maxstack = Cur.maxstack
  /\ SetTop(Advance(g))
  /\ Matches(TypesAfter(TypesAt, Fetched), g, Loose)
  /\ Agreeing => Matches(TypesAfter(TypesAt, Fetched), g, Firm(arena'))

LEMMA RewriteKeeps ==
  ASSUME IInv, Fetchable, FaultOf(Fetched) = "ok",
         NEW vs \in Seq(Values), Left(Fetched) = Len(vs)
  PROVE  LET g == Rewrite(Fetched, vs)
         IN /\ g \in Frames /\ g.func = Cur.func /\ g.pc = Cur.pc
            /\ g.maxstack = Cur.maxstack
<1>1. Cur \in Frames
  BY TopFrame DEF Fetchable, Ready
<1>2. Rewrite(Fetched, vs).maxstack = Cur.maxstack
  BY <1>1 DEF Rewrite, Replace, Frames
<1> QED
  BY <1>2, Rewritten

LEMMA AdvanceScans ==
  ASSUME IInv, Linear, Fitting, Cur.pc < FuncOf(Cur).len,
         Compute \/ Allocate \/ Fork \/ Commit \/ Meter \/ CtxPush \/ CtxPop
  PROVE  \E g : Restacks(g)
<1> DEFINE d == Fetched
           types == TypesAt
           m == Cur.maxstack
<1>1. Fetchable /\ FaultOf(d) = "ok" /\ frames # <<>> /\ UNCHANGED image
  BY DEF Compute, Allocate, Fork, Commit, Meter, CtxPush, CtxPop, Executing,
         Fetchable, Ready, rest
<1>2. /\ Matches(types, Cur, Loose)
      /\ Agreeing => Matches(types, Cur, Firm(arena))
      /\ Cur \in Frames /\ Cur.maxstack = FuncOf(Cur).maxstack
  BY <1>1, TopFrame DEF Fitting
<1>3. TypeFault(types, d, m) = "ok"
  BY <1>1, <1>2, ScanStep
<1>4. Uses(d.op) /\ d.op \in StraightOps /\ d.op # "abort"
  <2>1. Uses(d.op)
    BY <1>1, Successors
  <2>2. d.op \in StraightOps
    BY <2>1 DEF Uses, Linear
  <2> QED
    BY <2>1, <2>2 DEF StraightOps, ComputeOps, AllocOps, IntBinary
<1>5. \A v \in Values : <<v>> \in Seq(Values) /\ Len(<<v>>) = 1
  OBVIOUS
<1>6. << >> \in Seq(Values) /\ Len(<< >>) = 0
  OBVIOUS
<1> HIDE DEF types, m
<1>7. CASE Compute
  <2> DEFINE g == Rewrite(d, Results(d))
  <2>1. d.op \in ComputeOps \ Variadic
    <3>1. d.op \in ComputeOps
      BY <1>7 DEF Compute, Executing
    <3> QED
      BY <1>4, <3>1 DEF StraightOps, Variadic
  <2>2. Results(d) \in Seq(Values) /\ Left(d) = Len(Results(d))
    BY <1>1, <2>1, ResultsType DEF Left, ComputeOps, AllocOps, IntBinary
  <2>3. Matches(TypesAfter(types, d), g, Loose)
    BY <1>1, <1>2, <1>3, <2>1, Relations, ComputeStacks
  <2>4. ASSUME Agreeing PROVE Matches(TypesAfter(types, d), g, Firm(arena))
    <3>1. d.op # "idx" /\ Lax(Firm(arena)) /\ Matches(types, Cur, Firm(arena))
      BY <1>2, <1>4, <2>4, Relations DEF Agreeing
    <3> QED
      BY <1>1, <1>3, <2>1, <3>1, ComputeStacks
  <2>5. arena' = arena /\ SetTop(Advance(g))
    BY <1>7 DEF Compute, store
  <2> QED
    BY <1>1, <2>2, <2>3, <2>4, <2>5, RewriteKeeps DEF Restacks, types
<1>8. CASE Allocate
  <2> DEFINE v == HandleV(PayloadTag(d), NewHandle(arena, Payload(d)))
             g == Rewrite(d, <<v>>)
  <2>1. d.op \in AllocOps \ Variadic
    <3>1. d.op \in AllocOps
      BY <1>8 DEF Allocate, Executing
    <3> QED
      BY <1>4, <3>1 DEF StraightOps, Variadic
  <2>2. arena' = Alloc(arena, Payload(d)) /\ SetTop(Advance(g))
    BY <1>8 DEF Allocate
  <2>3. /\ v \in Values /\ <<TABLE[d.op].pushes[1], v>> \in Loose
        /\ Agreeing => <<TABLE[d.op].pushes[1], v>> \in Firm(arena')
    BY <1>1, <1>4, <2>1, <2>2, NewHandles
  <2>4. arena \in Seq(Word) /\ arena' \in Seq(Word) /\ Len(arena) <= Len(arena')
    <3>1. Payload(d) \in Seq(Word) /\ arena \in Seq(Word) /\ CanAlloc(arena, Payload(d))
      BY <1>1, <2>1, PayloadType, Passed DEF IInv, StoreOk, RoomFault
    <3> QED
      BY <2>2, <3>1, AllocType
  <2>5. Left(d) = 1
    BY <2>1 DEF Left, ComputeOps, AllocOps, IntBinary
  <2> HIDE DEF v
  <2>6. Matches(TypesAfter(types, d), g, Loose)
    BY <1>1, <1>2, <1>3, <2>1, <2>3, AllocateStacks
  <2>7. ASSUME Agreeing PROVE Matches(TypesAfter(types, d), g, Firm(arena'))
    <3>1. Matches(types, Cur, Firm(arena'))
      BY <1>2, <2>4, <2>7, Relations, WiderMatches
    <3> QED
      BY <1>1, <1>3, <2>1, <2>3, <2>7, <3>1, AllocateStacks
  <2>8. g \in Frames /\ g.func = Cur.func /\ g.pc = Cur.pc /\ g.maxstack = Cur.maxstack
    BY <1>1, <1>5, <2>3, <2>5, RewriteKeeps
  <2>9. SetTop(Advance(g))
    BY <2>2 DEF v
  <2> QED
    BY <2>6, <2>7, <2>8, <2>9 DEF Restacks, types
<1>9. CASE Fork
  <2> DEFINE g == Rewrite(d, <<IntV(0)>>)
  <2>1. d.op = "fork" /\ SetTop(Advance(g)) /\ arena' = arena
    BY <1>9 DEF Fork, Executing
  <2>2. IntV(0) \in Values /\ IntV(0).tag = INT
    BY IntVType DEF IntV
  <2>3. /\ Left(d) = 1 /\ Arity(d) = 0 /\ d.op \notin Variadic
        /\ TABLE[d.op].pops = <<>> /\ TABLE[d.op].pushes = <<"Int">>
    BY <2>1, Rows DEF Left, ComputeOps, AllocOps, IntBinary, Arity, Kinds, Variadic
  <2>4. /\ <<"Int">> \in Seq(Ty) /\ Len(<<"Int">>) = 1 /\ Len(<<>>) = 0
    BY DEF Ty
  <2>5. ASSUME NEW R, Lax(R), Matches(types, Cur, R)
        PROVE  Matches(TypesAfter(types, d), g, R)
    <3>1. <<"Int", IntV(0)>> \in R
      BY <2>2, <2>5 DEF Lax
    <3> QED
      BY <1>1, <1>3, <1>5, <2>2, <2>3, <2>4, <2>5, <3>1, StepStacks
  <2>6. g \in Frames /\ g.func = Cur.func /\ g.pc = Cur.pc /\ g.maxstack = Cur.maxstack
    BY <1>1, <1>5, <2>2, <2>3, RewriteKeeps
  <2> QED
    BY <1>2, <2>1, <2>5, <2>6, Relations DEF Restacks, types
<1>10. CASE Commit \/ CtxPop
  <2>1. d.op \in {"commit", "ctxpop"} /\ SetTop(Advance(Cur))
    BY <1>10 DEF Commit, CtxPop, Executing
  <2>2. TypesAfter(types, d) = types
    BY <1>2, <1>3, <2>1, TypesStay DEF Matches
  <2>3. Agreeing => arena' = arena
    <3>1. CASE CtxPop
      BY <3>1 DEF CtxPop, store
    <3>2. CASE Commit
      <4>1. Uses("commit")
        BY <1>4, <3>2 DEF Commit, Executing
      <4> QED
        BY <4>1 DEF Agreeing
    <3> QED
      BY <1>10, <3>1, <3>2
  <2> QED
    BY <1>2, <2>1, <2>2, <2>3 DEF Restacks, types
<1>11. CASE Meter \/ CtxPush
  <2> DEFINE g == Rewrite(d, <<>>)
  <2>1. /\ d.op \in {"release", "spend", "ctxpush"} /\ SetTop(Advance(g))
        /\ arena' = arena
    <3>1. /\ d.op \in {"reserve", "release", "spend", "ctxpush"} /\ SetTop(Advance(g))
          /\ arena' = arena
      BY <1>11 DEF Meter, CtxPush, Executing, store
    <3> QED
      BY <1>4, <3>1 DEF StraightOps, ComputeOps, AllocOps, IntBinary
  <2>2. Left(d) = 0 /\ d.op \notin Variadic
    BY <2>1 DEF Left, ComputeOps, AllocOps, IntBinary, Variadic
  <2>3. TABLE[d.op].pushes = <<>> /\ Len(TABLE[d.op].pops) = Arity(d)
    <3>1. TABLE[d.op].pushes = <<>> /\ Len(TABLE[d.op].pops) = 1
      <4>1. CASE d.op \in {"release", "spend"}
        <5>1. TABLE[d.op].pops = <<"Int">> /\ TABLE[d.op].pushes = <<>>
          BY <4>1, Rows
        <5> QED
          BY <5>1
      <4>2. CASE d.op = "ctxpush"
        BY <4>2, Rows
      <4> QED
        BY <2>1, <4>1, <4>2
    <3>2. CASE d.op = "ctxpush"
      BY <3>1, <3>2 DEF Arity, Kinds, IntBinary
    <3>3. CASE d.op = "release"
      BY <3>1, <3>3 DEF Arity, Kinds, IntBinary
    <3>4. CASE d.op = "spend"
      BY <3>1, <3>4 DEF Arity, Kinds, IntBinary
    <3> QED
      BY <2>1, <3>2, <3>3, <3>4
  <2>4. ASSUME NEW R, Matches(types, Cur, R)
        PROVE  Matches(TypesAfter(types, d), g, R)
    <3> DEFINE ps == TABLE[d.op].pushes
               vs == <<>>
    <3>1. /\ ps \in Seq(Ty) /\ vs \in Seq(Values) /\ Len(vs) = 0 /\ Len(ps) = 0
          /\ \A k \in 1 .. Len(vs) : <<ps[k], vs[k]>> \in R
      BY <2>3
    <3> HIDE DEF ps, vs
    <3>2. Matches(TypesAfter(types, Fetched), Rewrite(Fetched, vs), R)
      BY <1>1, <1>3, <2>2, <2>3, <2>4, <3>1, StepStacks DEF ps
    <3> QED
      BY <3>2 DEF vs
  <2>5. g \in Frames /\ g.func = Cur.func /\ g.pc = Cur.pc /\ g.maxstack = Cur.maxstack
    BY <1>1, <1>6, <2>2, RewriteKeeps
  <2> QED
    BY <1>2, <2>1, <2>4, <2>5 DEF Restacks, types
<1> QED
  BY <1>7, <1>8, <1>9, <1>10, <1>11

(* The instruction behind the one executed finds its types.                 *)
LEMMA StackMoves ==
  ASSUME IInv, Fitting, Fetchable, Cur.pc < FuncOf(Cur).len, image' = image,
         NEW g, Restacks(g)
  PROVE  Fitting'
<1> DEFINE f == Advance(g)
<1>1. frames # <<>> /\ Cur.maxstack = FuncOf(Cur).maxstack
  BY DEF Fetchable, Ready, Fitting
<1>2. /\ g \in Frames /\ SetTop(f)
      /\ g.func = Cur.func /\ g.pc = Cur.pc /\ g.maxstack = Cur.maxstack
  BY DEF Restacks
<1>3. /\ f \in Frames /\ f.func = Cur.func /\ f.pc = Cur.pc + 1
      /\ f.maxstack = Cur.maxstack
  <2>1. f.maxstack = g.maxstack
    BY <1>2 DEF Advance, Frames
  <2> QED
    BY <1>2, <2>1, Moved
<1>4. Matches(TypesAfter(TypesAt, Fetched), f, Loose)
  BY <1>2, AdvanceMatches DEF Restacks
<1>5. Agreeing => Matches(TypesAfter(TypesAt, Fetched), f, Firm(arena'))
  BY <1>2, AdvanceMatches DEF Restacks
<1> HIDE DEF f
<1>6. frames' # <<>> /\ Cur' = f
  <2>1. /\ frames' \in Seq(Frames) /\ Len(frames') = Len(frames)
        /\ Len(frames) \in 1 .. MaxFrames
        /\ \A k \in 1 .. Len(frames) :
             frames'[k] = IF k = Len(frames) THEN f ELSE frames[k]
    BY <1>1, <1>2, <1>3, TopShape, TopFrame
  <2>2. Len(frames) \in 1 .. Len(frames) /\ Len(frames) # 0
    BY <2>1, LimitsAssumption
  <2> QED
    BY <2>1, <2>2 DEF Cur
<1>7. FuncOf(Cur)' = FuncOf(Cur)
  BY <1>3, <1>6 DEF FuncOf
<1>8. TypesAt' = TypesAfter(TypesAt, Fetched)
  <2>1. TypesAt' = Scan(image, FuncOf(Cur))[Cur.pc + 1].types
    BY <1>3, <1>6, <1>7 DEF TypesAt
  <2> QED
    BY <1>1, <2>1, ScanStep
<1>9. Agreeing' = Agreeing
  BY DEF Agreeing, Linear, Uses
<1> QED
  BY <1>1, <1>3, <1>4, <1>5, <1>6, <1>7, <1>8, <1>9 DEF Fitting, Loose, Firm

LEMMA InitScan == Init => ScanInv
<1> SUFFICES ASSUME Init PROVE Fitting /\ Unasked
  BY DEF ScanInv
<1> DEFINE e == Entry(image)
           f == image.funcs[e + 1]
<1>1. image \in Images /\ e \in Nat /\ e + 1 \in 1 .. Len(image.funcs)
  BY EntryType, ImageFacts DEF Init
<1> HIDE DEF e
<1>2. f \in Funcs /\ Scan(image, f)[0] = Blank
  BY <1>1, ScanPasses
<1>3. f.maxstack \in Nat
  BY <1>2 DEF Funcs
<1>4. /\ frames = <<NewFrame(e, <<>>, f.maxstack, f.returns)>>
      /\ pending = <<>> /\ result.kind # "trap"
  BY DEF Init, e
<1>5. /\ Cur.func = e /\ Cur.pc = 0 /\ Cur.sp = 0 /\ Cur.maxstack = f.maxstack
  BY <1>3, <1>4 DEF Cur, NewFrame
<1>6. FuncOf(Cur) = f
  BY <1>5 DEF FuncOf
<1>7. TypesAt = <<>>
  BY <1>2, <1>5, <1>6 DEF TypesAt, Blank
<1>8. \A R : Matches(TypesAt, Cur, R)
  BY <1>5, <1>7 DEF Matches
<1> QED
  BY <1>4, <1>5, <1>6, <1>8 DEF Fitting, Unasked

(* A straight-line program has no abort, so the pc is in its function.      *)
LEMMA LinearPc ==
  ASSUME IInv, Linear, PcInFunction, Fetchable
  PROVE  Cur.pc < FuncOf(Cur).len
<1>1. ~Uses("abort")
  BY DEF Linear, Uses, StraightOps, ComputeOps, AllocOps, IntBinary
<1>2. frames # <<>> /\ Len(frames) \in DOMAIN frames
  <2>1. frames # <<>> /\ Len(frames) \in 1 .. MaxFrames /\ frames \in Seq(Frames)
    BY TopFrame DEF Fetchable, Ready, IInv, FramesOk
  <2> QED
    BY <2>1, LimitsAssumption
<1> QED
  BY <1>1, <1>2 DEF PcInFunction, Cur

(* Of the instructions only those that advance the pc and halt run in a     *)
(* straight line.                                                           *)
LEMMA LinearSteps ==
  ASSUME IInv, Linear, PcInFunction, Execute
  PROVE  /\ Fetchable /\ Cur.pc < FuncOf(Cur).len
         /\ \/ Compute \/ Allocate \/ Fork \/ Commit \/ Meter \/ CtxPush \/ CtxPop
            \/ Halt
<1>1. Fetchable
  BY DEF Execute, Compute, Allocate, Branch, Switch, Call, TailCall, Ret, Halt,
     IssueEffect, Suspend, AskOracle, QueryQ, Fork, Commit, Abort, Meter, CtxPush,
     CtxPop, Executing
<1>2. Cur.pc < FuncOf(Cur).len
  BY <1>1, LinearPc
<1>3. Fetched.op \in StraightOps
  <2>1. Uses(Fetched.op)
    BY <1>1, <1>2, Successors
  <2> QED
    BY <2>1 DEF Uses, Linear
<1>4. Fetched.op \notin
        {"br", "brz", "brnz", "switch", "call", "tail", "ret", "calltool", "spawn",
         "await", "poll", "join", "select", "cancel", "checkpoint", "yieldctx",
         "now", "rand", "env", "log", "queryq", "abort"}
  BY <1>3 DEF StraightOps, ComputeOps, AllocOps, IntBinary
<1>5. ~(Branch \/ Switch \/ Call \/ TailCall \/ Ret \/ IssueEffect \/ Suspend
        \/ AskOracle \/ QueryQ \/ Abort)
  BY <1>4 DEF Branch, Switch, Call, TailCall, Ret, IssueEffect, Suspend, AskOracle,
     QueryQ, Abort, Executing
<1> QED
  BY <1>1, <1>2, <1>5 DEF Execute

(* A straight-line program never asks, so the host has nothing to answer;   *)
(* what else the machine does between two instructions leaves the frames.   *)
LEMMA QuietSteps ==
  ASSUME Unasked, [Next]_vars
  PROVE  \/ Execute
         \/ /\ UNCHANGED <<image, frames, arena, pending>>
            /\ \/ UNCHANGED result \/ result'.kind = "halted"
               \/ StepLimit \/ PcEscape \/ Fault
<1>1. pending = <<>> /\ result.kind # "trap"
  BY DEF Unasked
<1>2. CASE ReturnTrap
  BY <1>1, <1>2 DEF ReturnTrap
<1>3. CASE ReturnHalt \/ ReturnEmpty
  BY <1>3 DEF ReturnHalt, ReturnEmpty, Return, machine, store
<1>4. CASE StepLimit \/ PcEscape \/ Fault
  BY <1>4 DEF StepLimit, PcEscape, Fault, Die, store, outcome
<1>5. CASE Host
  BY <1>1, <1>5 DEF Host, Resume, Answer, Shutdown, Trapped, machine
<1>6. CASE Stopped \/ UNCHANGED vars
  BY <1>6 DEF Stopped, vars
<1> QED
  BY <1>2, <1>3, <1>4, <1>5, <1>6 DEF Next, Internal

LEMMA ScanKept ==
  ASSUME IInv, PcInFunction, ScanInv, [Next]_vars
  PROVE  ScanInv'
<1> SUFFICES ASSUME Linear' PROVE Fitting' /\ Unasked'
  BY DEF ScanInv
<1>1. image' = image
  BY ImageStays
<1>2. Linear /\ Fitting /\ Unasked
  BY <1>1 DEF Linear, ScanInv
<1>3. CASE Execute
  <2>1. /\ Fetchable /\ Cur.pc < FuncOf(Cur).len
        /\ \/ Compute \/ Allocate \/ Fork \/ Commit \/ Meter \/ CtxPush \/ CtxPop
           \/ Halt
    BY <1>2, <1>3, LinearSteps
  <2>2. UNCHANGED <<pending, result>>
    BY <2>1 DEF Compute, Allocate, Fork, Commit, Meter, CtxPush, CtxPop, Halt,
       Executing, rest, outcome
  <2>3. Unasked'
    BY <1>2, <2>2 DEF Unasked
  <2>4. CASE Halt
    BY <2>3, <2>4 DEF Halt, Fitting
  <2>5. CASE ~Halt
    <3>1. Compute \/ Allocate \/ Fork \/ Commit \/ Meter \/ CtxPush \/ CtxPop
      BY <2>1, <2>5
    <3>2. PICK g : Restacks(g)
      BY <1>2, <2>1, <3>1, AdvanceScans
    <3> QED
      BY <1>1, <1>2, <2>1, <2>3, <3>2, StackMoves
  <2> QED
    BY <2>4, <2>5
<1>4. CASE /\ UNCHANGED <<image, frames, arena, pending>>
           /\ \/ UNCHANGED result \/ result'.kind = "halted"
              \/ StepLimit \/ PcEscape \/ Fault
  <2>1. Unasked'
    <3>1. (StepLimit \/ PcEscape \/ Fault) => result'.kind = "err"
      BY DEF StepLimit, PcEscape, Fault, Die
    <3> QED
      BY <1>2, <1>4, <3>1 DEF Unasked
  <2>2. Fitting'
    <3>1. Cur' = Cur /\ FuncOf(Cur)' = FuncOf(Cur) /\ TypesAt' = TypesAt
      BY <1>4 DEF Cur, FuncOf, TypesAt
    <3>2. Agreeing' = Agreeing
      BY <1>1 DEF Agreeing, Linear, Uses
    <3> QED
      BY <1>2, <1>4, <3>1, <3>2 DEF Fitting, Loose, Firm
  <2> QED
    BY <2>1, <2>2
<1> QED
  BY <1>2, <1>3, <1>4, QuietSteps

(* For every straight-line program, of every image the verifier admits, the *)
(* static stack at each instruction is the operand stack: as deep, and each *)
(* operand of the type it was given.  It follows from ScanInv, which relates *)
(* the types that the scan of verify.rs check_function has reached at the   *)
(* pc with the slots below sp, and adds that such a program raises no trap, *)
(* so that the host has nothing to push.                                    *)
THEOREM ScanDescribes == Spec => []ScanDescribesStack
<1>1. ScanInv => ScanDescribesStack
  <2> SUFFICES ASSUME ScanInv, Linear, frames # <<>>
               PROVE  /\ Len(TypesAt) = Cur.sp
                      /\ \A k \in 1 .. Cur.sp : Describes(TypesAt[k], Cur.slots[k])
    BY DEF ScanDescribesStack, TypesAt
  <2>1. Matches(TypesAt, Cur, Loose)
    BY DEF ScanInv, Fitting
  <2>2. \A t, v : <<t, v>> \in Loose => Describes(t, v)
    BY DEF Loose
  <2> QED
    BY <2>1, <2>2 DEF Matches
<1> QED
  BY <1>1, InitScan, ScanKept, Invariant, PcStays, PTL DEF Spec

-----------------------------------------------------------------------------
(* The instructions of the agreeing programs ask of their operands what the *)
(* rows want, and leave what the rows push.                                 *)
AgreeingOps ==
  IntBinary \cup
  {"nop", "resume", "ldi", "dup", "drop", "swap", "rot", "len", "find", "eq", "not",
   "ctxcost", "ldc", "argv", "cat", "ctxwin", "fork", "release", "spend", "ctxpush",
   "ctxpop", "halt", "trap"}

Asks(kind, ty) ==
  \/ kind = "any"
  \/ kind = "int" /\ ty = "Int"
  \/ kind = "str" /\ ty \in {"Handle", "Str"}
  \/ kind = "arena" /\ ty = "Handle"
  \/ /\ kind = "arena" /\ Fetched.op = "eq"
     /\ Arg(1).tag = Arg(2).tag /\ ~IsInt(Arg(1))

RowAsks(n, m, p, q) ==
  LET d == Fetched
  IN /\ n \in Nat /\ m \in Nat /\ p \in Nat /\ q \in Nat
     /\ Arity(d) = n /\ Len(TABLE[d.op].pops) = m /\ n <= m
     /\ Left(d) = p /\ Len(TABLE[d.op].pushes) = q
     /\ q = 0 => TABLE[d.op].pushes = <<>> /\ p = 0
     /\ q # 0 => p - n = q - m
     /\ \A k \in 1 .. n : Asks(Kinds(d)[k], TABLE[d.op].pops[k])

LEMMA AskedRows ==
  ASSUME Fetched.op \in AgreeingOps
  PROVE  \E n, m, p, q : RowAsks(n, m, p, q)
<1> DEFINE d == Fetched
           ks == Kinds(d)
           pops == TABLE[d.op].pops
           ps == TABLE[d.op].pushes
<1>1. CASE d.op \in IntBinary
  <2>1. ks = <<"int", "int">> /\ pops = <<"Int", "Int">> /\ ps = <<"Int">>
    <3>1. ks = <<"int", "int">>
      BY <1>1 DEF Kinds, IntBinary
    <3>2. pops = <<"Int", "Int">> /\ ps = <<"Int">>
      BY <1>1, Rows
    <3> QED
      BY <3>1, <3>2
  <2>2. Left(d) = 1
    <3>1. Results(d) = <<Computed(d.op, Arg(2), Arg(1))>>
      BY <1>1 DEF Results, IntBinary
    <3> QED
      BY <1>1, <3>1 DEF Left, ComputeOps, AllocOps, IntBinary
  <2> QED
    BY <2>1, <2>2 DEF RowAsks, Arity, Asks
<1>2. CASE d.op \in {"nop", "resume", "ctxpop", "trap"}
  <2>1. ks = <<>> /\ pops = <<>> /\ ps = <<>>
    BY <1>2, Rows DEF Kinds, IntBinary
  <2>2. Left(d) = 0
    BY <1>2 DEF Left, ComputeOps, AllocOps, Results, IntBinary
  <2> QED
    BY <2>1, <2>2 DEF RowAsks, Arity, Asks
<1>3. CASE d.op \in {"ldi", "ctxcost", "fork", "ldc", "argv", "ctxwin"}
  <2>1. ks = <<>> /\ pops = <<>> /\ Len(ps) = 1
    <3>1. ks = <<>>
      BY <1>3 DEF Kinds, IntBinary
    <3>2. pops = <<>>
      BY <1>3, Rows
    <3>3. ps \in {<<"Int">>, <<"Handle">>, <<"Str">>, <<"List">>}
      BY <1>3, Rows
    <3> QED
      BY <3>1, <3>2, <3>3
  <2>2. Left(d) = 1
    BY <1>3 DEF Left, ComputeOps, AllocOps, Results, IntBinary
  <2> QED
    BY <2>1, <2>2 DEF RowAsks, Arity, Asks
<1>4. CASE d.op = "dup"
  <2>1. ks = <<>> /\ pops = <<"Top">> /\ ps = <<"Top", "Top">>
    BY <1>4, Rows DEF Kinds, IntBinary
  <2>2. Left(d) = 1
    BY <1>4 DEF Left, ComputeOps, Results, IntBinary
  <2> QED
    BY <2>1, <2>2 DEF RowAsks, Arity, Asks
<1>5. CASE d.op = "drop"
  <2>1. ks = <<"any">> /\ pops = <<"Top">> /\ ps = <<>>
    BY <1>5, Rows DEF Kinds, IntBinary
  <2>2. Left(d) = 0
    <3>1. Results(d) = <<>>
      BY <1>5 DEF Results, IntBinary
    <3> QED
      BY <1>5, <3>1 DEF Left, ComputeOps, AllocOps, IntBinary
  <2> QED
    BY <2>1, <2>2 DEF RowAsks, Arity, Asks
<1>6. CASE d.op = "swap"
  <2>1. ks = <<"any", "any">> /\ pops = <<"Top", "Top">> /\ ps = <<"Top", "Top">>
    BY <1>6, Rows DEF Kinds, IntBinary
  <2>2. Left(d) = 2
    <3>1. Results(d) = <<Arg(1), Arg(2)>>
      BY <1>6 DEF Results, IntBinary
    <3> QED
      BY <1>6, <3>1 DEF Left, ComputeOps, AllocOps, IntBinary
  <2> QED
    BY <2>1, <2>2 DEF RowAsks, Arity, Asks
<1>7. CASE d.op = "rot"
  <2>1. /\ ks = <<"any", "any", "any">> /\ pops = <<"Top", "Top", "Top">>
        /\ ps = <<"Top", "Top", "Top">>
    BY <1>7, Rows DEF Kinds, IntBinary
  <2>2. Left(d) = 3
    <3>1. Results(d) = <<Arg(1), Arg(3), Arg(2)>>
      BY <1>7 DEF Results, IntBinary
    <3> QED
      BY <1>7, <3>1 DEF Left, ComputeOps, AllocOps, IntBinary
  <2> QED
    BY <2>1, <2>2 DEF RowAsks, Arity, Asks
<1>8. CASE d.op \in {"len", "not"}
  <2>1. Left(d) = 1 /\ ps = <<"Int">>
    BY <1>8, Rows DEF Left, ComputeOps, Results, IntBinary
  <2>2. CASE d.op = "len"
    <3>1. ks = <<"arena">> /\ pops = <<"Handle">>
      BY <2>2, Rows DEF Kinds, IntBinary
    <3> QED
      BY <2>1, <3>1 DEF RowAsks, Arity, Asks
  <2>3. CASE d.op = "not"
    <3>1. ks = <<"int">> /\ pops = <<"Int">>
      BY <2>3, Rows DEF Kinds, IntBinary
    <3> QED
      BY <2>1, <3>1 DEF RowAsks, Arity, Asks
  <2> QED
    BY <1>8, <2>2, <2>3
<1>9. CASE d.op = "find"
  <2>1. ks = <<"arena", "arena">> /\ pops = <<"Handle", "Handle">> /\ ps = <<"Int">>
    BY <1>9, Rows DEF Kinds, IntBinary
  <2>2. Left(d) = 1
    BY <1>9 DEF Left, ComputeOps, Results, IntBinary
  <2> QED
    BY <2>1, <2>2 DEF RowAsks, Arity, Asks
<1>10. CASE d.op = "eq"
  <2>1. pops = <<"Top", "Top">> /\ ps = <<"Int">>
    BY <1>10, Rows
  <2>2. Left(d) = 1
    BY <1>10 DEF Left, ComputeOps, Results, IntBinary
  <2>3. CASE Arg(1).tag = Arg(2).tag /\ ~IsInt(Arg(1))
    <3>1. ks = <<"arena", "arena">>
      BY <1>10, <2>3 DEF Kinds, IntBinary, Arg
    <3> QED
      BY <1>10, <2>1, <2>2, <2>3, <3>1 DEF RowAsks, Arity, Asks
  <2>4. CASE ~(Arg(1).tag = Arg(2).tag /\ ~IsInt(Arg(1)))
    <3>1. ks = <<"any", "any">>
      BY <1>10, <2>4 DEF Kinds, IntBinary, Arg
    <3> QED
      BY <2>1, <2>2, <3>1 DEF RowAsks, Arity, Asks
  <2> QED
    BY <2>3, <2>4
<1>11. CASE d.op = "cat"
  <2>1. ks = <<"str", "str">> /\ pops = <<"Handle", "Handle">> /\ ps = <<"Handle">>
    BY <1>11, Rows DEF Kinds, IntBinary
  <2>2. Left(d) = 1
    BY <1>11 DEF Left, ComputeOps, AllocOps, IntBinary
  <2> QED
    BY <2>1, <2>2 DEF RowAsks, Arity, Asks
<1>12. CASE d.op \in {"release", "spend", "ctxpush", "halt"}
  <2>1. Left(d) = 0
    BY <1>12 DEF Left, ComputeOps, AllocOps, IntBinary
  <2>2. CASE d.op \in {"release", "spend"}
    <3>1. ks = <<"int">> /\ pops = <<"Int">> /\ ps = <<>>
      BY <2>2, Rows DEF Kinds, IntBinary
    <3> QED
      BY <2>1, <3>1 DEF RowAsks, Arity, Asks
  <2>3. CASE d.op = "ctxpush"
    <3>1. ks = <<"str">> /\ pops = <<"Str">> /\ ps = <<>>
      BY <2>3, Rows DEF Kinds, IntBinary
    <3> QED
      BY <2>1, <3>1 DEF RowAsks, Arity, Asks
  <2>4. CASE d.op = "halt"
    <3>1. ks = <<>> /\ pops = <<"Int">> /\ ps = <<>>
      BY <2>4, Rows DEF Kinds, IntBinary
    <3> QED
      BY <2>1, <3>1 DEF RowAsks, Arity, Asks
  <2> QED
    BY <1>12, <2>2, <2>3, <2>4
<1> QED
  BY <1>1, <1>2, <1>3, <1>4, <1>5, <1>6, <1>7, <1>8, <1>9, <1>10, <1>11, <1>12
     DEF AgreeingOps

(* An operand the scan accepted passes the checks of the instruction.       *)
LEMMA AcceptedOperand ==
  ASSUME IInv, Agreeing, Fetchable, Fitting, Cur.pc < FuncOf(Cur).len,
         NEW n, NEW m, NEW p, NEW q, RowAsks(n, m, p, q), Fetched.op \notin Variadic,
         NEW k \in 1 .. n
  PROVE  /\ k <= Cur.sp
         /\ Kinds(Fetched)[k] = "int" => IsInt(Arg(k))
         /\ DerefFault(k, Kinds(Fetched)[k]) = "ok"
<1> DEFINE d == Fetched
           types == TypesAt
           pops == TABLE[d.op].pops
           got == types[Len(types) - k + 1]
           want == pops[k]
           kind == Kinds(d)[k]
           v == Arg(k)
<1>1. /\ Cur \in Frames /\ Cur.maxstack = FuncOf(Cur).maxstack
      /\ Matches(types, Cur, Firm(arena)) /\ types \in Seq(Ty) /\ Len(types) = Cur.sp
      /\ Cur.sp \in Nat
  BY TopFrame, FrameFields DEF Fitting, Fetchable, Ready, Matches
<1>2. TypeFault(types, d, Cur.maxstack) = "ok"
  BY <1>1, ScanStep
<1>3. /\ n \in Nat /\ Len(pops) = m /\ m \in Nat /\ n <= m /\ Asks(kind, want)
  BY DEF RowAsks
<1>4. k \in 1 .. Len(pops)
  BY <1>3
<1>5. k <= Len(types) /\ Satisfies(got, want)
  <2>1. Len(pops) \in Nat
    BY <1>3
  <2> QED
    BY <1>1, <1>2, <1>4, <2>1, Wanted
<1>6. v \in Values /\ got \in Ty /\ <<got, v>> \in Firm(arena)
  <2>1. k \in Nat \ {0} /\ k <= Cur.sp
    BY <1>1, <1>3, <1>5
  <2> QED
    BY <1>1, <2>1, Operand
<1> HIDE DEF got, want, kind, v
<1>7. /\ Describes(got, v) /\ v.tag \in {INT, STR, LIST}
      /\ got = "Handle" => v.tag = STR
      /\ IsArena(v) => Extent(v) <= Len(arena)
  BY <1>6 DEF Firm, Loose
<1>8. got # "Bottom"
  BY <1>7 DEF Describes, TyOf, VOID, INT, STR, BYTES, LIST, PENDING
<1>9. /\ got = "Int" => v.tag = INT
      /\ got = "Str" => v.tag = STR
  BY <1>7 DEF Describes, TyOf, VOID, INT, STR, BYTES, LIST, PENDING
<1>10. /\ kind \in {"any", "int", "str", "arena"}
       /\ kind = "int" => v.tag = INT
       /\ kind = "str" => v.tag = STR
       /\ kind = "arena" => IsArena(v)
  <2>1. CASE kind = "any"
    BY <2>1
  <2>2. CASE kind = "int" /\ want = "Int"
    BY <1>5, <1>8, <1>9, <2>2 DEF Satisfies
  <2>3. CASE kind = "str" /\ want \in {"Handle", "Str"}
    BY <1>5, <1>7, <1>8, <1>9, <2>3 DEF Satisfies
  <2>4. CASE kind = "arena" /\ want = "Handle"
    BY <1>5, <1>7, <1>8, <2>4 DEF Satisfies, IsArena
  <2>5. CASE /\ kind = "arena" /\ d.op = "eq"
             /\ Arg(1).tag = Arg(2).tag /\ ~IsInt(Arg(1))
    <3>1. n = 2
      BY <2>5 DEF RowAsks, Arity, Kinds, IntBinary, Arg
    <3>2. v = Arg(1) \/ v = Arg(2)
      BY <3>1 DEF v
    <3>3. v.tag # INT
      BY <2>5, <3>2 DEF IsInt
    <3> QED
      BY <1>7, <2>5, <3>3 DEF IsArena
  <2> QED
    BY <1>3, <2>1, <2>2, <2>3, <2>4, <2>5 DEF Asks
<1>11. IsArena(v) => Within(arena, HandleOf(v))
  BY <1>6, <1>7, EndExact DEF IInv, StoreOk
<1>12. v.tag = STR => IsArena(v)
  BY DEF IsArena
<1>13. DerefFault(k, kind) = "ok"
  BY <1>10, <1>11, <1>12 DEF DerefFault, TagOk, v
<1> QED
  BY <1>1, <1>5, <1>10, <1>13 DEF kind, v, IsInt

LEMMA AgreeingFetch ==
  ASSUME IInv, Agreeing, Fetchable, Cur.pc < FuncOf(Cur).len
  PROVE  Fetched.op \in AgreeingOps /\ Fetched.op \notin Variadic
<1>1. Uses(Fetched.op)
  BY Successors
<1>2. Fetched.op \in StraightOps \ {"idx", "slice", "fmt", "commit"}
  BY <1>1 DEF Agreeing, Linear, Uses
<1> QED
  BY <1>2 DEF StraightOps, ComputeOps, AllocOps, IntBinary, Variadic, AgreeingOps

(* Whatever else stops an agreeing program, it is none of these.            *)
LEMMA OtherFaults ==
  ASSUME IInv, Agreeing, Fetchable, Fitting, Cur.pc < FuncOf(Cur).len
  PROVE  FaultOf(Fetched) \notin OperandCodes \cup {"BadHandle"}
<1> DEFINE d == Fetched
           types == TypesAt
           ps == TABLE[d.op].pushes
<1>1. d.op \in AgreeingOps /\ d.op \notin Variadic
  BY AgreeingFetch
<1>2. PICK n, m, p, q : RowAsks(n, m, p, q)
  BY <1>1, AskedRows
<1>3. /\ n \in Nat /\ m \in Nat /\ p \in Nat /\ q \in Nat /\ n <= m
      /\ Arity(d) = n /\ Len(TABLE[d.op].pops) = m /\ Left(d) = p /\ Len(ps) = q
      /\ q = 0 => ps = <<>> /\ p = 0
      /\ q # 0 => p - n = q - m
  BY <1>2 DEF RowAsks
<1>4. /\ Cur \in Frames /\ Cur.maxstack = FuncOf(Cur).maxstack
      /\ types \in Seq(Ty) /\ Len(types) = Cur.sp
      /\ Cur.sp \in Nat /\ Cur.maxstack \in Nat /\ Cur.sp <= Cur.maxstack
  BY TopFrame, FrameFields DEF Fitting, Fetchable, Ready, Matches
<1>5. TypeFault(types, d, Cur.maxstack) = "ok"
  BY <1>4, ScanStep
<1>6. \A k \in 1 .. n : /\ k <= Cur.sp
                        /\ Kinds(d)[k] = "int" => IsInt(Arg(k))
                        /\ DerefFault(k, Kinds(d)[k]) = "ok"
  BY <1>1, <1>2, AcceptedOperand
<1>7. /\ m <= Cur.sp
      /\ ps # <<>> => ~(Cur.sp - m + q > Cur.maxstack)
  <2>1. Len(TABLE[d.op].pops) \in Nat
    BY <1>3
  <2> QED
    BY <1>1, <1>3, <1>4, <1>5, <2>1, Wanted
<1>8. PopsFault(d) = "ok"
  <2>1. \A k \in 1 .. n : ~(Cur.sp < k) /\ ~(Kinds(d)[k] = "int" /\ ~IsInt(Arg(k)))
    BY <1>3, <1>4, <1>6
  <2> QED
    BY <1>3, <2>1 DEF PopsFault
<1>9. DerefsFault(d) = "ok"
  <2>1. d.op = "find" => DerefFault(2, Kinds(d)[2]) = "ok"
    <3>1. d.op = "find" => n = 2
      BY <1>3 DEF Arity, Kinds, IntBinary
    <3> QED
      BY <1>6, <3>1
  <2> QED
    BY <1>3, <1>6, <2>1 DEF DerefsFault
<1>10. OwnFault(d) \notin OperandCodes \cup {"BadHandle"}
  <2>1. d.op = "dup" => CanPeek(Cur, 0)
    <3>1. d.op = "dup" => m = 1
      <4>1. TABLE["dup"].pops = <<"Top">>
        BY Rows
      <4>2. Len(TABLE["dup"].pops) = 1
        BY <4>1
      <4>3. Len(TABLE[d.op].pops) = m
        BY <1>3
      <4> QED
        BY <4>2, <4>3
    <3> QED
      BY <1>4, <1>7, <3>1 DEF CanPeek
  <2>2. d.op \notin {"dupn", "ldl", "stl"}
    BY <1>1 DEF Variadic
  <2> QED
    BY <2>1, <2>2 DEF OwnFault, OperandCodes
<1>11. RoomFault(d) \notin OperandCodes \cup {"BadHandle"}
  <2>1. ~(Cur.sp - n + p > Cur.maxstack)
    <3>1. CASE q = 0
      BY <1>3, <1>4, <3>1
    <3>2. CASE q # 0
      <4>1. ps # <<>>
        BY <1>3, <3>2
      <4> QED
        BY <1>3, <1>4, <1>7, <3>2, <4>1
    <3> QED
      BY <3>1, <3>2
  <2>2. d.op # "ret"
    BY <1>1 DEF Variadic
  <2> QED
    BY <1>3, <2>1, <2>2 DEF RoomFault, OperandCodes
<1>12. d.op \notin {"call", "tail"}
  BY <1>1 DEF Variadic
<1> QED
  BY <1>8, <1>9, <1>10, <1>11, <1>12 DEF FaultOf, OperandCodes

(* Of the straight-line programs those in which every type the verifier     *)
(* accepts is one the machine does never stop for want of an operand or of  *)
(* room for one, over an operand's tag or over a handle, in any admitted    *)
(* image (what verify.rs check_function is there to establish).  Behind     *)
(* ScanInv stands that their values are integers, strings and lists which   *)
(* lie in the arena, and what the scan calls a handle is a string.          *)
THEOREM NoOperandFaults == Spec => []LinearNeverFaults
<1> DEFINE codes == OperandCodes \cup {"BadHandle"}
<1>1. Init => LinearNeverFaults
  BY DEF Init, LinearNeverFaults, StoppedBy
<1>2. IInv /\ PcInFunction /\ ScanInv /\ LinearNeverFaults /\ [Next]_vars
        => LinearNeverFaults'
  <2> SUFFICES ASSUME IInv, PcInFunction, ScanInv, LinearNeverFaults, [Next]_vars,
                      Agreeing'
               PROVE  ~StoppedBy(codes)'
    BY DEF LinearNeverFaults
  <2>1. image' = image
    BY ImageStays
  <2>2. Agreeing /\ Linear /\ Fitting /\ Unasked /\ ~StoppedBy(codes)
    <3>1. Agreeing
      BY <2>1 DEF Agreeing, Linear, Uses
    <3> QED
      BY <3>1 DEF Agreeing, ScanInv, LinearNeverFaults
  <2>3. CASE UNCHANGED result
    BY <2>2, <2>3 DEF StoppedBy
  <2>4. CASE result'.kind = "halted"
    BY <2>4 DEF StoppedBy
  <2>5. CASE StepLimit \/ PcEscape
    BY <2>5 DEF StepLimit, PcEscape, Die, StoppedBy, OperandCodes
  <2>6. CASE Fault
    <3>1. Fetchable /\ Cur.pc < FuncOf(Cur).len
      <4>1. Fetchable
        BY <2>6 DEF Fault
      <4> QED
        BY <2>2, <4>1, LinearPc
    <3>2. FaultOf(Fetched) \notin codes
      BY <2>2, <3>1, OtherFaults
    <3>3. result'.fault = FaultOf(Fetched)
      BY <2>6 DEF Fault, Die
    <3> QED
      BY <3>2, <3>3 DEF StoppedBy
  <2>7. CASE Execute
    <3>1. UNCHANGED result
      BY <2>7 DEF Execute, Compute, Allocate, Branch, Switch, Call, TailCall, Ret, Halt,
         IssueEffect, Suspend, AskOracle, QueryQ, Fork, Commit, Abort, Meter, CtxPush,
         CtxPop, Executing, rest
    <3> QED
      BY <2>3, <3>1
  <2> QED
    BY <2>2, <2>3, <2>4, <2>5, <2>6, <2>7, QuietSteps
<1> QED
  BY <1>1, <1>2, InitScan, ScanKept, Invariant, PcStays, PTL DEF Spec
=============================================================================
