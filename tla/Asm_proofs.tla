----------------------------- MODULE Asm_proofs -----------------------------
(***************************************************************************)
(* The assembler for every width of the narrow operand: what the two        *)
(* encodings of an instruction promise, and what an object's functions are  *)
(* and say, for every source and every sequence of calls of a Builder.      *)
(***************************************************************************)
EXTENDS Asm, SequenceTheorems, FiniteSetTheorems, WellFoundedInduction, TLAPS

(* The two halves of an operand make it up. *)
LEMMA Halves ==
  ASSUME NEW b \in Operands
  PROVE  /\ b \div Units \in 0 .. Units - 1 /\ b % Units \in 0 .. Units - 1
         /\ (b \div Units) * Units + (b % Units) = b
<1>1. Units \in Nat \ {0} /\ b \in Nat /\ b < Units * Units
  BY UnitsAssumption, Z3 DEF Operands
<1>2. b = Units * (b \div Units) + (b % Units) /\ b % Units \in 0 .. Units - 1
      /\ b \div Units \in Nat
  BY <1>1, Z3
<1>3. b \div Units < Units
  BY <1>1, <1>2, Z3
<1> QED
  BY <1>1, <1>2, <1>3, Z3

(* No opcode is the prefix. *)
LEMMA PrefixIsNoOp == WIDE_PREFIX \notin Ops
  BY DEF WIDE_PREFIX, Ops, TABLE

(* An encoded instruction is one word or two, each of them a word of code. *)
LEMMA Encoded ==
  ASSUME NEW op \in Ops, NEW a \in Nat, NEW b \in Operands
  PROVE  /\ Encode(op, a, b) \in Seq(CodeWords)
         /\ b < Units => Encode(op, a, b) = <<CodeWord(op, a, b)>>
         /\ b >= Units => Encode(op, a, b) =
              <<CodeWord(WIDE_PREFIX, 0, b \div Units), CodeWord(op, a, b % Units)>>
<1>1. Units \in Nat /\ b \in Nat
  BY UnitsAssumption DEF Operands
<1>2. CodeWord(WIDE_PREFIX, 0, b \div Units) \in CodeWords
      /\ CodeWord(op, a, b % Units) \in CodeWords
  BY Halves DEF CodeWord, CodeWords
<1>3. b < Units => CodeWord(op, a, b) \in CodeWords
  BY <1>1 DEF CodeWord, CodeWords
<1> QED
  BY <1>1, <1>2, <1>3 DEF Encode

(* What stands in the code where a part of it was placed. *)
LEMMA PlacedAt ==
  ASSUME NEW s \in Seq(CodeWords), NEW m \in Seq(CodeWords), NEW t \in Seq(CodeWords),
         NEW k \in 0 .. Len(m) - 1
  PROVE  WordAt(s \o m \o t, Len(s) + k) = <<m[k + 1]>>
<1>1. s \o m \in Seq(CodeWords) /\ Len(s \o m) = Len(s) + Len(m)
      /\ (s \o m)[Len(s) + k + 1] = m[k + 1]
  OBVIOUS
<1>2. Len(s \o m \o t) = Len(s) + Len(m) + Len(t)
      /\ (s \o m \o t)[Len(s) + k + 1] = (s \o m)[Len(s) + k + 1]
  BY <1>1
<1>3. Len(s) \in Nat /\ Len(m) \in Nat /\ Len(t) \in Nat /\ k \in Nat /\ k < Len(m)
  OBVIOUS
<1>4. Len(s) + k < Len(s \o m \o t)
  BY <1>2, <1>3
<1> QED
  BY <1>1, <1>2, <1>4 DEF WordAt

(* Wherever in the code an instruction is encoded, and whatever is ahead of *)
(* and behind it, decode at its first word returns its opcode and operands  *)
(* and how many words it takes (isa.rs encode, decode).                     *)
THEOREM DecodeEncodes ==
  ASSUME NEW op \in Ops, NEW a \in Nat, NEW b \in Operands,
         NEW s \in Seq(CodeWords), NEW t \in Seq(CodeWords)
  PROVE  Decode(s \o Encode(op, a, b) \o t, Len(s)) =
           <<[op |-> op, a |-> a, b |-> b, len |-> Len(Encode(op, a, b))]>>
<1> DEFINE m == Encode(op, a, b)
           code == s \o m \o t
<1>1. m \in Seq(CodeWords)
  BY Encoded
<1>4. Len(s) \in Nat /\ op # WIDE_PREFIX /\ Units \in Nat /\ b \in Nat
  BY PrefixIsNoOp, UnitsAssumption DEF Operands
<1>2. CASE b < Units
  <2>1. m = <<CodeWord(op, a, b)>>
    BY <1>2, Encoded
  <2> HIDE DEF m
  <2>2. WordAt(code, Len(s)) = <<CodeWord(op, a, b)>>
    <3>1. 0 \in 0 .. Len(m) - 1 /\ m[0 + 1] = CodeWord(op, a, b) /\ Len(s) + 0 = Len(s)
      BY <1>4, <2>1
    <3>2. WordAt(code, Len(s) + 0) = <<m[0 + 1]>>
      BY <1>1, <3>1, PlacedAt
    <3> QED
      BY <3>1, <3>2
  <2> HIDE DEF code
  <2>3. Len(m) = 1
    BY <2>1
  <2>4. CodeWord(op, a, b).op = op /\ CodeWord(op, a, b).a = a /\ CodeWord(op, a, b).b = b
    BY DEF CodeWord
  <2>5. 0 * Units + b = b
    BY <1>4
  <2>6. Decode(code, Len(s)) = <<[op |-> op, a |-> a, b |-> b, len |-> 1]>>
    BY <1>4, <2>2, <2>4, <2>5 DEF Decode
  <2> QED
    BY <2>3, <2>6 DEF m, code
<1>3. CASE b >= Units
  <2> DEFINE upper == b \div Units
             lower == b % Units
  <2>1. m = <<CodeWord(WIDE_PREFIX, 0, upper), CodeWord(op, a, lower)>>
    BY <1>3, Encoded
  <2>2. upper * Units + lower = b
    BY Halves
  <2> HIDE DEF upper, lower, m
  <2>3. Len(m) = 2 /\ m[1] = CodeWord(WIDE_PREFIX, 0, upper) /\ m[2] = CodeWord(op, a, lower)
    BY <2>1
  <2>4. WordAt(code, Len(s)) = <<m[1]>>
    <3>1. 0 \in 0 .. Len(m) - 1 /\ 0 + 1 = 1 /\ Len(s) + 0 = Len(s)
      BY <1>4, <2>3
    <3>2. WordAt(code, Len(s) + 0) = <<m[0 + 1]>>
      BY <1>1, <3>1, PlacedAt
    <3> QED
      BY <3>1, <3>2
  <2>5. WordAt(code, Len(s) + 1) = <<m[2]>>
    <3>1. 1 \in 0 .. Len(m) - 1 /\ 1 + 1 = 2
      BY <2>3
    <3>2. WordAt(code, Len(s) + 1) = <<m[1 + 1]>>
      BY <1>1, <3>1, PlacedAt
    <3> QED
      BY <3>1, <3>2
  <2> HIDE DEF code
  <2>6. m[1].op = WIDE_PREFIX /\ m[1].b = upper /\ m[2].op = op /\ m[2].a = a /\ m[2].b = lower
    BY <2>3 DEF CodeWord
  <2>7. Decode(code, Len(s)) = <<[op |-> op, a |-> a, b |-> b, len |-> 2]>>
    BY <1>4, <2>2, <2>4, <2>5, <2>6 DEF Decode
  <2> QED
    BY <2>3, <2>7 DEF m, code
<1> QED
  BY <1>2, <1>3, <1>4

(* A cut at an instruction's end never turns what is left into another one: *)
(* the prefix of a wide instruction alone decodes to nothing.               *)
THEOREM HalfAnInstruction ==
  ASSUME NEW op \in Ops, NEW a \in Nat, NEW b \in Operands, b >= Units,
         NEW s \in Seq(CodeWords)
  PROVE  Decode(s \o <<Encode(op, a, b)[1]>>, Len(s)) = <<>>
<1> DEFINE w == Encode(op, a, b)[1]
           code == s \o <<w>>
<1>1. w \in CodeWords /\ w.op = WIDE_PREFIX
  BY Encoded, Halves DEF CodeWord, CodeWords
<1> HIDE DEF w
<1>2. Len(code) = Len(s) + 1 /\ code[Len(s) + 1] = w /\ Len(s) \in Nat
  BY <1>1
<1> HIDE DEF code
<1>3. WordAt(code, Len(s)) = <<w>> /\ WordAt(code, Len(s) + 1) = <<>>
  BY <1>2 DEF WordAt
<1>4. Decode(code, Len(s)) = <<>>
  BY <1>1, <1>3 DEF Decode
<1> QED
  BY <1>4 DEF code, w

(* A signed number in the range of the narrow form, kept by its low bits,   *)
(* is read back as itself; every other operand that is encoded narrow comes *)
(* back as a number that is Units less (isa.rs imm, asm.rs operand).        *)
THEOREM NarrowImmediate ==
  ASSUME NEW op, NEW a, NEW n \in -(Units \div 2) .. Units - 1
  PROVE  Imm2([op |-> op, a |-> a, b |-> n % Units, len |-> 1]) =
           IF n < Units \div 2 THEN n ELSE n - Units
<1>1. Units \in Nat /\ Units > 1 /\ Units % 2 = 0
  BY UnitsAssumption
<1>2. Units = 2 * (Units \div 2) /\ Units \div 2 \in Nat
  BY <1>1
<1>3. n % Units = IF n < 0 THEN n + Units ELSE n
  <2>1. CASE n < 0
    <3>1. n + Units \in 0 .. Units - 1 /\ n = (-1) * Units + (n + Units)
      BY <1>2, <2>1
    <3> QED
      BY <1>1, <2>1, <3>1, Z3
  <2>2. CASE n >= 0
    BY <1>1, <1>2, <2>2, Z3
  <2> QED
    BY <1>2, <2>1, <2>2
<1> DEFINE d == [op |-> op, a |-> a, b |-> n % Units, len |-> 1]
<1>4. d.b = n % Units /\ d.len = 1
  OBVIOUS
<1> HIDE DEF d
<1>5. Imm2(d) = IF n < Units \div 2 THEN n ELSE n - Units
  BY <1>2, <1>3, <1>4 DEF Imm2
<1> QED
  BY <1>5 DEF d

-----------------------------------------------------------------------------
(* Sequences of whatever it may be, and the two records of the state.       *)
IsSeq(s) == \E S : s \in Seq(S)

IsFn(f) ==
  f = [name |-> f.name, maxstack |-> f.maxstack, args |-> f.args,
       returns |-> f.returns, labels |-> f.labels, pending |-> f.pending, off |-> f.off]
IsObj(o) ==
  o = [code |-> o.code, funcs |-> o.funcs, constants |-> o.constants,
       tools |-> o.tools, tables |-> o.tables, entry |-> o.entry]

(* Functions one behind the other, and where the last ends. *)
Tiles(fs) ==
  /\ IsSeq(fs)
  /\ \A k \in 1 .. Len(fs) : fs[k].off \in Nat /\ fs[k].len \in Int
  /\ \A k \in 1 .. Len(fs) - 1 : fs[k + 1].off = fs[k].off + fs[k].len
End(fs) == fs[Len(fs)].off + fs[Len(fs)].len

(* Inductive: the open function begins where the last one closed ends.      *)
IInv ==
  /\ IsFn(fn) /\ IsObj(obj) /\ IsSeq(obj.code) /\ Tiles(obj.funcs)
  /\ fn.name # <<>> => fn.off \in Nat
  /\ status = "open" =>
       /\ obj.funcs # <<>> => fn.name # <<>> /\ fn.off = End(obj.funcs)
       /\ obj.funcs = <<>> => obj.entry = <<>>
  /\ status = "done" => obj.funcs # <<>> /\ End(obj.funcs) = Len(obj.code)

-----------------------------------------------------------------------------
(* A sequence has a length, and grows. *)
LEMMA SeqGrows ==
  ASSUME NEW s, IsSeq(s)
  PROVE  /\ Len(s) \in Nat /\ (s # <<>> => Len(s) > 0)
         /\ \A x : /\ IsSeq(Append(s, x)) /\ Len(Append(s, x)) = Len(s) + 1
                   /\ Append(s, x)[Len(s) + 1] = x
                   /\ \A k \in 1 .. Len(s) : Append(s, x)[k] = s[k]
<1>1. PICK S : s \in Seq(S)
  BY DEF IsSeq
<1>2. ASSUME NEW x
      PROVE  /\ IsSeq(Append(s, x)) /\ Len(Append(s, x)) = Len(s) + 1
             /\ Append(s, x)[Len(s) + 1] = x
             /\ \A k \in 1 .. Len(s) : Append(s, x)[k] = s[k]
  <2>1. s \in Seq(S \cup {x}) /\ x \in S \cup {x}
    BY <1>1, SeqMonotonic
  <2>2. Append(s, x) \in Seq(S \cup {x})
    BY <2>1
  <2> QED
    BY <2>1, <2>2 DEF IsSeq
<1> QED
  BY <1>1, <1>2

(* The code stays a sequence. *)
LEMMA CodeGrows ==
  ASSUME NEW s, IsSeq(s), NEW op, NEW a, NEW b
  PROVE  IsSeq(s \o Encode(op, a, b))
<1>1. PICK S : s \in Seq(S)
  BY DEF IsSeq
<1> DEFINE u == CodeWord(WIDE_PREFIX, 0, b \div Units)
           v == CodeWord(op, a, b % Units)
           w == CodeWord(op, a, b)
           T == S \cup {u, v, w}
<1>2. Encode(op, a, b) \in {<<u, v>>, <<w>>}
  BY DEF Encode
<1> HIDE DEF u, v, w
<1>3. <<u, v>> \in Seq(T) /\ <<w>> \in Seq(T) /\ s \in Seq(T)
  BY <1>1, SeqMonotonic
<1> HIDE DEF T
<1>4. Encode(op, a, b) \in Seq(T)
  BY <1>2, <1>3
<1>5. s \o Encode(op, a, b) \in Seq(T)
  BY <1>3, <1>4
<1> QED
  BY <1>5 DEF IsSeq

(* Closing a function that begins where the last one ends. *)
LEMMA Closes ==
  ASSUME NEW o, NEW f, NEW m, IsObj(o), IsSeq(o.code), Tiles(o.funcs), f.name # <<>>,
         f.off \in Nat, o.funcs # <<>> => f.off = End(o.funcs)
  PROVE  LET c == Closed(o, f, m)
         IN /\ IsObj(c) /\ c.code = o.code /\ Tiles(c.funcs) /\ c.funcs # <<>>
            /\ End(c.funcs) = Len(o.code)
<1> DEFINE r == [name |-> f.name[1], off |-> f.off, len |-> Len(o.code) - f.off,
                 maxstack |-> m, args |-> f.args, returns |-> f.returns]
           e == IF f.name = <<"main">> THEN f.name ELSE o.entry
           fs == Append(o.funcs, r)
           c == Closed(o, f, m)
<1>1. c = [code |-> o.code, funcs |-> fs, constants |-> o.constants,
           tools |-> o.tools, tables |-> o.tables, entry |-> e]
  BY DEF Closed, IsObj
<1>2. r.off = f.off /\ r.len = Len(o.code) - f.off
  OBVIOUS
<1> HIDE DEF r, e, c
<1>3. IsObj(c) /\ c.code = o.code /\ c.funcs = fs
  BY <1>1 DEF IsObj
<1>4. Len(o.code) \in Nat /\ Len(o.funcs) \in Nat
  BY SeqGrows DEF Tiles
<1>5. /\ IsSeq(fs) /\ Len(fs) = Len(o.funcs) + 1 /\ fs[Len(fs)] = r
      /\ \A k \in 1 .. Len(o.funcs) : fs[k] = o.funcs[k]
  BY SeqGrows DEF Tiles
<1> HIDE DEF fs
<1>6. \A k \in 1 .. Len(fs) : fs[k].off \in Nat /\ fs[k].len \in Int
  <2>1. \A k \in 1 .. Len(o.funcs) : fs[k].off \in Nat /\ fs[k].len \in Int
    BY <1>5 DEF Tiles
  <2>2. fs[Len(fs)].off \in Nat /\ fs[Len(fs)].len \in Int
    BY <1>2, <1>4, <1>5
  <2>3. \A k \in 1 .. Len(fs) : k \in 1 .. Len(o.funcs) \/ k = Len(fs)
    BY <1>4, <1>5
  <2> QED
    BY <2>1, <2>2, <2>3
<1>7. ASSUME NEW k \in 1 .. Len(fs) - 1
      PROVE  fs[k + 1].off = fs[k].off + fs[k].len
  <2>1. CASE k = Len(o.funcs)
    <3>1. fs[k] = o.funcs[k] /\ fs[k + 1] = r /\ o.funcs # <<>>
      BY <1>4, <1>5, <2>1
    <3>2. r.off = o.funcs[k].off + o.funcs[k].len
      BY <1>2, <2>1, <3>1 DEF End
    <3> QED
      BY <3>1, <3>2
  <2>2. CASE k # Len(o.funcs)
    <3>1. k \in 1 .. Len(o.funcs) - 1 /\ fs[k] = o.funcs[k] /\ fs[k + 1] = o.funcs[k + 1]
      BY <1>4, <1>5, <2>2
    <3>2. o.funcs[k + 1].off = o.funcs[k].off + o.funcs[k].len
      BY <3>1 DEF Tiles
    <3> QED
      BY <3>1, <3>2
  <2> QED
    BY <2>1, <2>2
<1>8. fs # <<>>
  BY <1>4, <1>5
<1>9. End(fs) = Len(o.code)
  BY <1>2, <1>4, <1>5 DEF End
<1> QED
  BY <1>3, <1>5, <1>6, <1>7, <1>8, <1>9 DEF Tiles, c
-----------------------------------------------------------------------------
(* A step that leaves the functions, where the open one begins, and, unless *)
(* it is open, the code.                                                    *)
LEMMA Stays ==
  ASSUME IInv, IsFn(fn'), fn'.name = fn.name, fn'.off = fn.off,
         IsObj(obj'), obj'.funcs = obj.funcs, obj'.entry = obj.entry, IsSeq(obj'.code),
         status' = status \/ status' \notin {"open", "done"},
         status' = "done" => obj'.code = obj.code
  PROVE  IInv'
<1>1. Tiles(obj'.funcs)
  BY DEF IInv
<1>2. End(obj'.funcs) = End(obj.funcs)
  OBVIOUS
<1> HIDE DEF End
<1> QED
  BY <1>1, <1>2 DEF IInv, Tiles

(* The error codes are none of the other states of a call. *)
LEMMA Codes ==
  /\ FaultHere \notin {"open", "done"}
  /\ FinishFault \notin {"open", "done"}
<1>1. DirectiveFault \notin {"open", "done"}
  BY DEF DirectiveFault
<1>2. LabelFault \notin {"open", "done"} /\ HeaderFault \notin {"open", "done"}
  BY DEF LabelFault, HeaderFault
<1>3. \A class, t : OperandFault(class, t) \notin {"open", "done"}
  BY DEF OperandFault
<1>4. InsnFault \notin {"open", "done"}
  BY <1>3 DEF InsnFault
<1>5. FaultHere \notin {"open", "done"}
  BY <1>1, <1>2, <1>4 DEF FaultHere
<1>6. FinishFault \notin {"open", "done"}
  BY DEF FinishFault
<1> QED
  BY <1>5, <1>6

(* Nothing is closed or open at the start. *)
LEMMA InitHolds == Init => IInv
<1> SUFFICES ASSUME Init PROVE IInv
  OBVIOUS
<1>1. IsFn(fn) /\ fn.name = <<>>
  BY DEF Init, NewFn, IsFn
<1>2. IsObj(obj) /\ obj.code = <<>> /\ obj.funcs = <<>> /\ obj.entry = <<>> /\ status = "open"
  BY DEF Init, NewObject, IsObj
<1>3. IsSeq(<<>>) /\ Tiles(<<>>)
  <2>1. <<>> \in Seq({}) /\ Len(<<>>) = 0
    OBVIOUS
  <2> QED
    BY <2>1 DEF IsSeq, Tiles
<1> QED
  BY <1>1, <1>2, <1>3 DEF IInv
(* The constructs that neither begin nor close a function, and add no code. *)
Construct ==
  IsaLine \/ Image \/ FnHeader \/ Signature \/ Maxstack \/ Tool \/ Const \/ Label \/ LineEnd

(* What a construct inside assemble does to the object and the open function. *)
LEMMA ConstructShape ==
  ASSUME IInv, Construct
  PROVE  /\ status = "open" /\ job = "assemble" /\ i <= Len(toks) /\ UNCHANGED <<status, job, toks>>
         /\ IsFn(fn') /\ fn'.name = fn.name /\ fn'.off = fn.off
         /\ IsObj(obj') /\ obj'.funcs = obj.funcs /\ obj'.entry = obj.entry
         /\ obj'.code = obj.code
<1> USE DEF Construct, Skip
<1>1. IsFn(fn) /\ IsObj(obj) /\ IsSeq(obj.code)
  BY DEF IInv
<1>2. status = "open" /\ job = "assemble" /\ i <= Len(toks) /\ UNCHANGED <<status, job, toks>>
  BY DEF IsaLine, Image, FnHeader, Signature, Maxstack, Tool, Const, Label, LineEnd,
         Directive, Accepting, Reading
<1>3. IsFn(fn') /\ fn'.name = fn.name /\ fn'.off = fn.off
  <2>1. CASE FnHeader
    BY <1>1, <2>1 DEF FnHeader, IsFn
  <2>4. CASE Maxstack
    BY <1>1, <2>4 DEF Maxstack, IsFn
  <2>5. CASE Label
    <3>1. PICK x : fn' = [fn EXCEPT !.labels = x]
      BY <2>5 DEF Label
    <3> QED
      BY <1>1, <3>1 DEF IsFn
  <2>2. CASE Signature
    <3>1. PICK x : fn' \in {fn, [fn EXCEPT !.returns = x], [fn EXCEPT !.args = x]}
      BY <2>2 DEF Signature
    <3> QED
      BY <1>1, <3>1 DEF IsFn
  <2>3. CASE IsaLine \/ Image \/ Tool \/ Const \/ LineEnd
    BY <1>1, <2>3 DEF IsaLine, Image, Tool, Const, LineEnd
  <2> QED
    BY <2>1, <2>2, <2>3, <2>4, <2>5
<1>4. IsObj(obj') /\ obj'.funcs = obj.funcs /\ obj'.entry = obj.entry /\ obj'.code = obj.code
  <2>1. CASE Tool
    BY <1>1, <2>1 DEF Tool, IsObj
  <2>2. CASE Const
    BY <1>1, <2>2 DEF Const, IsObj
  <2>3. CASE IsaLine \/ Image \/ FnHeader \/ Signature \/ Maxstack \/ Label \/ LineEnd
    BY <1>1, <2>3 DEF IsaLine, Image, FnHeader, Signature, Maxstack, Label, LineEnd
  <2> QED
    BY <2>1, <2>2, <2>3
<1> QED
  BY <1>2, <1>3, <1>4

(* A construct other than an instruction or a header keeps the invariant. *)
LEMMA ConstructKeeps == ASSUME IInv, Construct PROVE IInv'
<1>1. IsSeq(obj.code)
  BY DEF IInv
<1> QED
  BY <1>1, ConstructShape, Stays

(* A refused source keeps the invariant. *)
LEMMA RejectKeeps == ASSUME IInv, Reject PROVE IInv'
<1>1. IsFn(fn) /\ IsObj(obj) /\ IsSeq(obj.code) /\ obj' = obj /\ fn' = fn
  BY DEF IInv, Reject
<1>2. status' \notin {"open", "done"}
  BY Codes DEF Reject
<1> QED
  BY <1>1, <1>2, Stays

(* An instruction appends words to the code and leaves the functions. *)
LEMMA InstructionShape ==
  ASSUME IInv, Instruction
  PROVE  /\ status = "open" /\ job = "assemble" /\ i <= Len(toks) /\ UNCHANGED <<status, job, toks>>
         /\ IsFn(fn') /\ fn'.name = fn.name /\ fn'.off = fn.off
         /\ IsObj(obj') /\ obj'.funcs = obj.funcs /\ obj'.entry = obj.entry
         /\ IsSeq(obj'.code)
<1>1. IsFn(fn) /\ IsObj(obj) /\ IsSeq(obj.code)
  BY DEF IInv
<1>2. status = "open" /\ job = "assemble" /\ i <= Len(toks) /\ UNCHANGED <<status, job, toks>>
  BY DEF Instruction, Accepting, Reading, Skip
<1>3. IsFn(fn') /\ fn'.name = fn.name /\ fn'.off = fn.off
  <2>1. PICK x : fn' \in {fn, [fn EXCEPT !.pending = x]}
    BY DEF Instruction
  <2> QED
    BY <1>1, <2>1 DEF IsFn
<1>4. PICK cs, ts, b :
        obj' = [obj EXCEPT !.constants = cs, !.tables = ts,
                           !.code = obj.code \o Encode(Tok.s, 0, b)]
  BY DEF Instruction
<1>5. IsObj(obj') /\ obj'.funcs = obj.funcs /\ obj'.entry = obj.entry
      /\ obj'.code = obj.code \o Encode(Tok.s, 0, b)
  BY <1>1, <1>4 DEF IsObj
<1>6. IsSeq(obj'.code)
  BY <1>1, <1>5, CodeGrows
<1> QED
  BY <1>2, <1>3, <1>5, <1>6

(* An instruction keeps the invariant. *)
LEMMA InstructionKeeps == ASSUME IInv, Instruction PROVE IInv'
  BY InstructionShape, Stays

(* The function that begins has no words yet; no other one is open.         *)
LEMMA FnBeginKeeps == ASSUME IInv, FnBegin PROVE IInv'
<1>1. IsSeq(obj.code) /\ Len(obj.code) \in Nat
  BY SeqGrows DEF IInv
<1>2. status = "open" /\ status' = status /\ obj' = obj
  BY DEF FnBegin, Reading, Skip
<1>3. fn.name = <<>>
  BY DEF FnBegin, FaultHere, HeaderFault
<1>4. IsFn(fn') /\ fn'.name # <<>> /\ fn'.off = Len(obj.code)
  BY DEF FnBegin, NewFn, IsFn
<1>5. obj.funcs = <<>>
  BY <1>2, <1>3 DEF IInv
<1> QED
  BY <1>1, <1>2, <1>4, <1>5 DEF IInv

(* The end of the source closes the open function over the rest of the code. *)
LEMMA FinishKeeps == ASSUME IInv, Finish PROVE IInv'
<1>1. IsFn(fn) /\ IsObj(obj) /\ IsSeq(obj.code) /\ fn' = fn /\ status = "open"
  BY DEF IInv, Finish
<1>2. CASE FinishFault # "ok"
  <2>1. obj' = obj /\ status' \notin {"open", "done"}
    BY <1>2, Codes DEF Finish
  <2> QED
    BY <1>1, <2>1, Stays
<1>3. CASE FinishFault = "ok"
  <2>1. fn.name # <<>>
    BY <1>3 DEF FinishFault
  <2>2. obj' = Closed(obj, fn, fn.maxstack[1]) /\ status' = "done"
    BY <1>3 DEF Finish
  <2>3. /\ IsObj(obj') /\ obj'.code = obj.code /\ Tiles(obj'.funcs) /\ obj'.funcs # <<>>
        /\ End(obj'.funcs) = Len(obj.code)
    BY <1>1, <2>1, <2>2, Closes DEF IInv
  <2> HIDE DEF End
  <2> QED
    BY <1>1, <2>1, <2>2, <2>3 DEF IInv
<1> QED
  BY <1>2, <1>3

-----------------------------------------------------------------------------
(* What close_fn of a Builder makes of its object.                          *)
LEMMA CloseFnKeeps ==
  ASSUME IInv, status = "open"
  PROVE  LET c == CloseFn
         IN /\ IsObj(c) /\ c.code = obj.code /\ Tiles(c.funcs)
            /\ c.funcs # <<>> => End(c.funcs) = Len(obj.code)
            /\ c.funcs = <<>> => c.entry = <<>>
<1>1. CASE fn.name = <<>>
  BY <1>1 DEF CloseFn, Closed, IInv
<1>2. CASE fn.name # <<>>
  BY <1>2, Closes DEF CloseFn, IInv
<1> QED
  BY <1>1, <1>2

(* begin_fn closes what is open and begins where the code ends. *)
LEMMA BeginFnKeeps == ASSUME IInv, BeginFn PROVE IInv'
<1>1. status = "open" /\ status' = status /\ obj' = CloseFn
  BY DEF BeginFn, Calling, Skip
<1>2. IsSeq(obj.code) /\ Len(obj.code) \in Nat
  BY SeqGrows DEF IInv
<1>3. IsFn(fn') /\ fn'.name # <<>> /\ fn'.off = Len(obj.code)
  BY DEF BeginFn, NewFn, IsFn
<1>4. /\ IsObj(obj') /\ obj'.code = obj.code /\ Tiles(obj'.funcs)
      /\ obj'.funcs # <<>> => End(obj'.funcs) = Len(obj.code)
      /\ obj'.funcs = <<>> => obj'.entry = <<>>
  BY <1>1, CloseFnKeeps
<1> HIDE DEF End
<1> QED
  BY <1>1, <1>2, <1>3, <1>4 DEF IInv

(* A call of a Builder that begins nothing keeps the invariant. *)
LEMMA CallKeeps ==
  ASSUME IInv, BuilderLabel \/ BuilderInsn \/ ConstStr
  PROVE  IInv'
<1>1. IsFn(fn) /\ IsObj(obj) /\ IsSeq(obj.code)
  BY DEF IInv
<1>2. status = "open" /\ status' = status
  BY DEF BuilderLabel, BuilderInsn, ConstStr, Calling, Skip
<1>3. IsFn(fn') /\ fn'.name = fn.name /\ fn'.off = fn.off
  <2>1. CASE BuilderLabel
    <3>1. PICK x : fn' \in {fn, [fn EXCEPT !.labels = x]}
      BY <2>1 DEF BuilderLabel
    <3> QED
      BY <1>1, <3>1 DEF IsFn
  <2>2. CASE BuilderInsn \/ ConstStr
    BY <1>1, <2>2 DEF BuilderInsn, ConstStr
  <2> QED
    BY <2>1, <2>2
<1>4. IsObj(obj') /\ obj'.funcs = obj.funcs /\ obj'.entry = obj.entry /\ IsSeq(obj'.code)
  <2>1. CASE BuilderLabel
    BY <1>1, <2>1 DEF BuilderLabel
  <2>2. CASE ConstStr
    BY <1>1, <2>2 DEF ConstStr, IsObj
  <2>3. CASE BuilderInsn
    <3>1. PICK d \in Insns : obj' = [obj EXCEPT !.code = @ \o Encode(d.op, d.a, d.b)]
      BY <2>3 DEF BuilderInsn
    <3>2. IsObj(obj') /\ obj'.funcs = obj.funcs /\ obj'.entry = obj.entry
          /\ obj'.code = obj.code \o Encode(d.op, d.a, d.b)
      BY <1>1, <3>1 DEF IsObj
    <3> QED
      BY <1>1, <3>2, CodeGrows
  <2> QED
    BY <2>1, <2>2, <2>3
<1> QED
  BY <1>2, <1>3, <1>4, Stays

(* A Builder's finish closes the last function, or refuses. *)
LEMMA BuilderFinishKeeps == ASSUME IInv, BuilderFinish PROVE IInv'
<1>1. status = "open" /\ obj' = CloseFn /\ fn' = fn /\ IsFn(fn) /\ IsSeq(obj.code)
      /\ status' = IF CloseFn.entry = <<>> THEN "NoEntryPoint" ELSE "done"
  BY DEF BuilderFinish, IInv
<1>2. /\ IsObj(obj') /\ obj'.code = obj.code /\ Tiles(obj'.funcs)
      /\ obj'.funcs # <<>> => End(obj'.funcs) = Len(obj.code)
      /\ obj'.funcs = <<>> => obj'.entry = <<>>
  BY <1>1, CloseFnKeeps
<1> HIDE DEF End
<1> QED
  BY <1>1, <1>2 DEF IInv

(* Every step keeps the invariant. *)
LEMMA StepHolds == IInv /\ [Next]_vars => IInv'
<1> SUFFICES ASSUME IInv, [Next]_vars PROVE IInv'
  OBVIOUS
<1>1. CASE Construct
  BY <1>1, ConstructKeeps
<1>2. CASE Reject
  BY <1>2, RejectKeeps
<1>3. CASE Instruction
  BY <1>3, InstructionKeeps
<1>4. CASE FnBegin
  BY <1>4, FnBeginKeeps
<1>5. CASE Finish
  BY <1>5, FinishKeeps
<1>6. CASE BeginFn
  BY <1>6, BeginFnKeeps
<1>7. CASE BuilderLabel \/ BuilderInsn \/ ConstStr
  BY <1>7, CallKeeps
<1>8. CASE BuilderFinish
  BY <1>8, BuilderFinishKeeps
<1>9. CASE UNCHANGED vars
  <2>1. fn' = fn /\ obj' = obj /\ status' = status
    BY <1>9 DEF vars
  <2> QED
    BY <2>1 DEF IInv, Tiles, End, IsFn, IsObj, IsSeq
<1> QED
  BY <1>1, <1>2, <1>3, <1>4, <1>5, <1>6, <1>7, <1>8, <1>9
     DEF Next, Assembling, Building, Returned, Construct

-----------------------------------------------------------------------------
(* The functions of a finished object lie one behind the other and the last *)
(* ends with the code, whoever made it and however (asm.rs finish_fn,       *)
(* Builder's begin_fn and finish).                                          *)
THEOREM WindowsAlwaysTile == Spec => []WindowsTile
<1>1. IInv => WindowsTile
  BY DEF IInv, WindowsTile, Tiles, End
<1>2. Init => IInv
  BY InitHolds
<1>3. IInv /\ [Next]_vars => IInv'
  BY StepHolds
<1> QED
  BY <1>1, <1>2, <1>3, PTL DEF Spec
-----------------------------------------------------------------------------
(* While assemble reads, no function is closed, and the one that is open     *)
(* began with the code.                                                      *)
OneOpen ==
  /\ obj.funcs = <<>> /\ fn.off = 0
  /\ fn.name = <<>> => obj.code = <<>>
  /\ i > Len(toks) => header = <<>>

OneInv ==
  job = "assemble" =>
    /\ toks \in Sources /\ i \in 1 .. Len(toks) + 1
    /\ status = "open" => OneOpen

(* A source is a nonempty sequence of tokens, the last of them the end. *)
LEMMA SourceFacts ==
  ASSUME NEW src \in Sources
  PROVE  /\ Len(src) \in Nat \ {0} /\ DOMAIN src = 1 .. Len(src)
         /\ src[Len(src)].kind = "End"
BY SourcesAssumption

(* What its checks have made sure of when a construct is accepted. *)
LEMMA Accepted ==
  ASSUME NEW kind, Accepting(kind)
  PROVE  /\ toks[i].kind = kind /\ header = <<>> /\ status = "open" /\ job = "assemble"
         /\ kind = "Directive" => DirectiveFault = "ok"
         /\ kind = "Ident" => InsnFault = "ok"
         /\ kind = "Label" => LabelFault = "ok"
<1>1. /\ toks[i].kind = kind /\ header = <<>> /\ status = "open" /\ job = "assemble"
      /\ FaultHere = "ok" /\ Tok.kind = kind
  BY DEF Accepting, Reading, Tok
<1>2. kind = "Directive" => DirectiveFault = "ok"
  BY <1>1 DEF FaultHere, LineEnds
<1>3. kind = "Ident" => InsnFault = "ok"
  BY <1>1 DEF FaultHere, LineEnds
<1>4. kind = "Label" => LabelFault = "ok"
  BY <1>1 DEF FaultHere, LineEnds
<1> QED
  BY <1>1, <1>2, <1>3, <1>4

(* A construct passes some token and not the end. *)
LEMMA Passes ==
  ASSUME toks \in Sources, i \in 1 .. Len(toks),
         IsaLine \/ Image \/ FnHeader \/ Signature \/ Maxstack \/ Tool \/ Const \/ Label
           \/ Instruction
  PROVE  i' \in Nat /\ i' > i /\ i' <= Len(toks)
<1> DEFINE n == Len(toks)
<1>1. n \in Nat \ {0} /\ toks[n].kind = "End" /\ i \in Nat
  BY SourceFacts
<1>2. /\ i' \in {i + 1, i + 2, i + 3} /\ toks[i].kind # "End"
      /\ i' \in {i + 2, i + 3} => toks[i + 1].kind \notin {"End", "Directive"}
      /\ i' = i + 3 => toks[i + 2].kind \notin {"End", "Directive"}
  <2>1. CASE IsaLine
    BY <2>1 DEF IsaLine, Directive, Accepting, Skip, Tok
  <2>2. CASE Image
    <3>1. Accepting("Directive") /\ Tok.s = "image" /\ i' = i + 2
      BY <2>2 DEF Image, Directive, Skip
    <3>2. toks[i].kind = "Directive" /\ DirectiveFault = "ok"
      BY <3>1, Accepted
    <3>3. toks[i + 1].kind \in {"Ident", "Label", "Str", "Int"}
      BY <3>1, <3>2 DEF DirectiveFault, After
    <3> QED
      BY <1>1, <3>1, <3>2, <3>3
  <2>3. CASE FnHeader
    <3>1. Accepting("Directive") /\ Tok.s = "fn" /\ i' = i + 2
      BY <2>3 DEF FnHeader, Directive, Skip
    <3>2. toks[i].kind = "Directive" /\ DirectiveFault = "ok"
      BY <3>1, Accepted
    <3>3. toks[i + 1].kind \in {"Ident", "Label", "Str", "Int"}
      BY <3>1, <3>2 DEF DirectiveFault, After
    <3> QED
      BY <1>1, <3>1, <3>2, <3>3
  <2>4. CASE Signature
    BY <2>4 DEF Signature, InSignature, Skip, Tok, After
  <2>5. CASE Maxstack
    <3>1. Accepting("Directive") /\ Tok.s = "maxstack" /\ i' = i + 2
      BY <2>5 DEF Maxstack, Directive, Skip
    <3>2. toks[i].kind = "Directive" /\ DirectiveFault = "ok"
      BY <3>1, Accepted
    <3>3. toks[i + 1].kind \in {"Ident", "Label", "Str", "Int"}
      BY <3>1, <3>2 DEF DirectiveFault, After
    <3> QED
      BY <1>1, <3>1, <3>2, <3>3
  <2>6. CASE Tool
    <3>1. Accepting("Directive") /\ Tok.s = "tool" /\ i' = i + 2
      BY <2>6 DEF Tool, Directive, Skip
    <3>2. toks[i].kind = "Directive" /\ DirectiveFault = "ok"
      BY <3>1, Accepted
    <3>3. toks[i + 1].kind \in {"Ident", "Label", "Str", "Int"}
      BY <3>1, <3>2 DEF DirectiveFault, After
    <3> QED
      BY <1>1, <3>1, <3>2, <3>3
  <2>7. CASE Const
    <3>1. Accepting("Directive") /\ Tok.s = "const" /\ i' = i + 3
      BY <2>7 DEF Const, Directive, Skip
    <3>2. toks[i].kind = "Directive" /\ DirectiveFault = "ok"
      BY <3>1, Accepted
    <3>3. toks[i + 1].kind \in {"Ident", "Label", "Str", "Int"}
      BY <3>1, <3>2 DEF DirectiveFault, After
    <3>4. toks[i + 2].kind \in {"Str", "Int"}
      BY <3>1, <3>2 DEF DirectiveFault, After
    <3> QED
      BY <1>1, <3>1, <3>2, <3>3, <3>4
  <2>8. CASE Label
    BY <2>8 DEF Label, Accepting, Skip, Tok
  <2>9. CASE Instruction
    <3> DEFINE class == TABLE[Tok.s].operand
    <3>1. toks[i].kind = "Ident" /\ InsnFault = "ok"
      BY <2>9, Accepted DEF Instruction
    <3>2. OperandFault(class, toks[i + 1]) = "ok"
      BY <3>1 DEF InsnFault, After
    <3>3. i' = i + (1 + (IF class = "None" THEN 0 ELSE 1)
                      + IF toks[i + (1 + IF class = "None" THEN 0 ELSE 1)].kind = "Newline"
                        THEN 1 ELSE 0)
      BY <2>9 DEF Instruction, Skip, After, Tok
    <3>4. class # "None" => toks[i + 1].kind \in {"Int", "Ident", "Str"}
      <4> HIDE DEF class
      <4> QED
        BY <3>2 DEF OperandFault, Takes
    <3> HIDE DEF class
    <3> QED
      BY <1>1, <3>1, <3>3, <3>4
  <2> QED
    BY <2>1, <2>2, <2>3, <2>4, <2>5, <2>6, <2>7, <2>8, <2>9
<1>3. i' \in Nat /\ i' > i
  BY <1>1, <1>2
<1>4. \A k \in i .. i' - 1 : k = i \/ (k = i + 1 /\ i' \in {i + 2, i + 3})
                            \/ (k = i + 2 /\ i' = i + 3)
  <2>1. i' = i + 1 \/ i' = i + 2 \/ i' = i + 3
    BY <1>2
  <2>2. CASE i' = i + 1
    BY <1>1, <2>2
  <2>3. CASE i' = i + 2
    BY <1>1, <2>3
  <2>4. CASE i' = i + 3
    BY <1>1, <2>4
  <2> QED
    BY <2>1, <2>2, <2>3, <2>4
<1>5. \A k \in i .. i' - 1 : toks[k].kind # "End"
  BY <1>2, <1>4
<1>6. i' <= n
  <2>1. SUFFICES ASSUME n < i' PROVE FALSE
    BY <1>1, <1>3
  <2>2. n \in i .. i' - 1
    BY <1>1, <1>3, <2>1
  <2> QED
    BY <1>1, <1>5, <2>2
<1> QED
  BY <1>3, <1>6

(* A construct that opens and closes nothing. *)
LEMMA QuietKeeps ==
  ASSUME OneOpen, job = "assemble", status = "open", toks \in Sources,
         UNCHANGED <<job, status, toks>>, i' \in 1 .. Len(toks) + 1,
         i' > Len(toks) => header' = <<>>, header' = <<>> <=> header = <<>>,
         fn'.name = fn.name, fn'.off = fn.off,
         obj'.funcs = obj.funcs, fn.name = <<>> => obj'.code = obj.code
  PROVE  OneInv'
<1>1. OneOpen'
  BY DEF OneOpen
<1> QED
  BY <1>1 DEF OneInv

(* A construct closes nothing. *)
LEMMA OneConstruct ==
  ASSUME IInv, OneInv, Construct \/ Instruction
  PROVE  OneInv'
<1>1. /\ job = "assemble" /\ status = "open" /\ UNCHANGED <<status, job, toks>>
      /\ i <= Len(toks)
      /\ fn'.name = fn.name /\ fn'.off = fn.off /\ obj'.funcs = obj.funcs
  BY ConstructShape, InstructionShape
<1>2. OneOpen /\ toks \in Sources /\ i \in 1 .. Len(toks) /\ Len(toks) \in Nat
  BY <1>1, SourceFacts DEF OneInv
<1>3. fn.name = <<>> => obj'.code = obj.code
  <2>1. CASE Construct
    BY <2>1, ConstructShape
  <2>2. CASE Instruction
    BY <2>2, Accepted DEF Instruction, InsnFault
  <2> QED
    BY <2>1, <2>2
<1>4. CASE LineEnd
  <2>1. i' = i + 1 /\ header = <<>> /\ header' = header
    BY <1>4 DEF LineEnd, Skip
  <2> QED
    BY <1>1, <1>2, <1>3, <2>1, QuietKeeps
<1>5. CASE FnHeader
  <2>1. i' \in 1 .. Len(toks)
    BY <1>1, <1>2, <1>5, Passes
  <2>2. ~ (i' > Len(toks))
    BY <1>2, <2>1
  <2>3. OneOpen'
    BY <1>1, <1>2, <1>3, <2>2 DEF OneOpen
  <2> QED
    BY <1>1, <1>2, <2>1, <2>3 DEF OneInv
<1>6. CASE IsaLine \/ Image \/ Signature \/ Maxstack \/ Tool \/ Const \/ Label \/ Instruction
  <2>1. header' = <<>> <=> header = <<>>
    <3>1. CASE Signature
      BY <3>1 DEF Signature
    <3>2. CASE IsaLine \/ Image \/ Maxstack \/ Tool \/ Const \/ Label \/ Instruction
      BY <3>2 DEF IsaLine, Image, Maxstack, Tool, Const, Label, Instruction
    <3> QED
      BY <1>6, <3>1, <3>2
  <2>2. i' \in 1 .. Len(toks) /\ i' \in 1 .. Len(toks) + 1 /\ ~(i' > Len(toks))
    BY <1>1, <1>2, <1>6, Passes
  <2> QED
    BY <1>1, <1>2, <1>3, <2>1, <2>2, QuietKeeps
<1> QED
  BY <1>4, <1>5, <1>6 DEF Construct

(* A function that begins is the first. *)
LEMMA OneFnBegin == ASSUME IInv, OneInv, FnBegin PROVE OneInv'
<1>1. /\ job = "assemble" /\ status = "open" /\ UNCHANGED <<status, job, toks, obj>>
      /\ header # <<>> /\ header' = <<>> /\ i' = i + 0 /\ i <= Len(toks)
  BY DEF FnBegin, Reading, Skip
<1>2. OneOpen /\ toks \in Sources /\ i \in 1 .. Len(toks) /\ Len(toks) \in Nat
  BY <1>1, SourceFacts DEF OneInv
<1>3. fn.name = <<>> /\ fn'.name # <<>> /\ fn'.off = Len(obj.code)
  BY DEF FnBegin, FaultHere, HeaderFault, NewFn
<1>4. obj.code = <<>> /\ fn'.off = 0 /\ i' = i
  BY <1>1, <1>2, <1>3 DEF OneOpen
<1>5. OneOpen'
  BY <1>1, <1>2, <1>3, <1>4 DEF OneOpen
<1> QED
  BY <1>1, <1>2, <1>4, <1>5 DEF OneInv

(* The end of a source ends the reading. *)
LEMMA OneFinish == ASSUME IInv, OneInv, Finish PROVE OneInv'
<1>1. /\ UNCHANGED <<job, toks, i>> /\ job = "assemble"
      /\ FinishFault # "ok" => status' = FinishFault
      /\ FinishFault = "ok" => status' = "done"
  BY DEF Finish
<1>2. status' # "open"
  BY <1>1, Codes
<1> QED
  BY <1>1, <1>2 DEF OneInv

(* Every step keeps it. *)
LEMMA OneStep == IInv /\ OneInv /\ [Next]_vars => OneInv'
<1> SUFFICES ASSUME IInv, OneInv, [Next]_vars PROVE OneInv'
  OBVIOUS
<1>1. CASE Construct \/ Instruction
  BY <1>1, OneConstruct
<1>2. CASE FnBegin
  BY <1>2, OneFnBegin
<1>3. CASE Finish
  BY <1>3, OneFinish
<1>4. CASE Reject
  <2>1. status' \notin {"open", "done"}
    BY <1>4, Codes DEF Reject
  <2> QED
    BY <1>4, <2>1 DEF OneInv, Reject
<1>5. CASE Building
  <2>1. job = "build" /\ job' = job
    BY <1>5 DEF Building, BeginFn, BuilderLabel, BuilderInsn, ConstStr, BuilderFinish,
                Calling, Skip
  <2> QED
    BY <2>1 DEF OneInv
<1>6. CASE UNCHANGED vars
  BY <1>6 DEF vars, OneInv, OneOpen
<1> QED
  BY <1>1, <1>2, <1>3, <1>4, <1>5, <1>6 DEF Next, Assembling, Returned, Construct

(* Nothing is open at the start. *)
LEMMA InitOne == Init => OneInv
<1> SUFFICES ASSUME Init, job = "assemble" PROVE OneInv
  BY DEF OneInv
<1>1. /\ toks \in Sources /\ i = 1 /\ status = "open" /\ header = <<>>
      /\ fn.name = <<>> /\ fn.off = 0 /\ obj.funcs = <<>> /\ obj.code = <<>>
  BY DEF Init, NewFn, NewObject
<1>2. Len(toks) \in Nat \ {0}
  BY <1>1, SourceFacts
<1> QED
  BY <1>1, <1>2 DEF OneInv, OneOpen

-----------------------------------------------------------------------------
(* Reading back.  A body of code is read as the instructions ds when decode *)
(* finds each of them where the words of those ahead of it end.             *)
Insn2 == [op : Ops, a : Nat, b : Operands, len : {1, 2}]
Reads(body, ds) ==
  /\ ds \in Seq(Insn2)
  /\ StartOf(ds, Len(ds) + 1) = Len(body)
  /\ \A n \in 1 .. Len(ds) : Decode(body, StartOf(ds, n)) = <<ds[n]>>

(* A set of numbers has a least one. *)
LEMMA LeastOne ==
  ASSUME NEW S \in SUBSET Nat, S # {}
  PROVE  \E m \in S : \A k \in S : m <= k
<1>1. PICK m \in S : \A k \in S : ~(<<k, m>> \in OpToRel(<, Nat))
  BY WFMin, NatLessThanWellFounded
<1>2. \A k \in S : ~(k < m)
  BY <1>1 DEF OpToRel
<1> QED
  BY <1>2

(* Where an instruction starts, the one ahead of it ends. *)
LEMMA Starts ==
  ASSUME NEW ds \in Seq(Insn2)
  PROVE  /\ StartOf(ds, 1) = 0
         /\ \A n \in 1 .. Len(ds) + 1 : StartOf(ds, n) \in Nat
         /\ \A n \in 1 .. Len(ds) : StartOf(ds, n + 1) = StartOf(ds, n) + ds[n].len
         /\ \A n \in 1 .. Len(ds) + 1 : StartOf(ds, n) <= StartOf(ds, Len(ds) + 1)
<1> DEFINE wide(n) == {m \in 1 .. n - 1 : ds[m].len = 2}
<1>1. ASSUME NEW n \in Nat
      PROVE  IsFiniteSet(wide(n)) /\ Cardinality(wide(n)) \in Nat
  <2>1. IsFiniteSet(1 .. n - 1) /\ wide(n) \subseteq 1 .. n - 1
    BY FS_Interval
  <2>2. IsFiniteSet(wide(n))
    BY <2>1, FS_Subset
  <2> QED
    BY <2>2, FS_CardinalityType
<1>2. \A n \in Nat : StartOf(ds, n) = n - 1 + Cardinality(wide(n))
  BY DEF StartOf
<1>3. StartOf(ds, 1) = 0
  <2>1. wide(1) = {}
    OBVIOUS
  <2>2. Cardinality(wide(1)) = 0
    <3> HIDE DEF wide
    <3> QED
      BY <2>1, FS_EmptySet
  <2>3. StartOf(ds, 1) = 1 - 1 + Cardinality(wide(1))
    BY <1>2
  <2> HIDE DEF wide
  <2> QED
    BY <2>2, <2>3
<1>4. ASSUME NEW n \in 1 .. Len(ds)
      PROVE  StartOf(ds, n + 1) = StartOf(ds, n) + ds[n].len
  <2>0. ds[n] \in Insn2
    OBVIOUS
  <2>1. n \in Nat /\ n + 1 \in Nat /\ n \notin wide(n) /\ ds[n].len \in {1, 2}
    BY <2>0 DEF Insn2
  <2>4. StartOf(ds, n) = n - 1 + Cardinality(wide(n))
        /\ StartOf(ds, n + 1) = (n + 1) - 1 + Cardinality(wide(n + 1))
    BY <1>2, <2>1
  <2>5. Cardinality(wide(n)) \in Nat
    BY <1>1, <2>1
  <2>2. CASE ds[n].len = 2
    <3>1. wide(n + 1) = wide(n) \cup {n}
      BY <2>2
    <3>2. Cardinality(wide(n) \cup {n}) = Cardinality(wide(n)) + 1
      <4> HIDE DEF wide
      <4> QED
        BY <1>1, <2>1, FS_AddElement
    <3> HIDE DEF wide
    <3>3. Cardinality(wide(n + 1)) = Cardinality(wide(n)) + 1
      BY <3>1, <3>2
    <3> QED
      BY <2>1, <2>2, <2>4, <2>5, <3>3
  <2>3. CASE ds[n].len = 1
    <3>1. wide(n + 1) = wide(n)
      BY <2>3
    <3> HIDE DEF wide
    <3> QED
      BY <2>1, <2>3, <2>4, <2>5, <3>1
  <2>6. ds[n].len = 1 \/ ds[n].len = 2
    BY <2>1
  <2> QED
    BY <2>2, <2>3, <2>6
<1>5. ASSUME NEW n \in 1 .. Len(ds) + 1
      PROVE  StartOf(ds, n) \in Nat /\ StartOf(ds, n) <= StartOf(ds, Len(ds) + 1)
  <2>1. n \in Nat /\ n - 1 \in Nat /\ Len(ds) + 1 \in Nat /\ wide(n) \subseteq wide(Len(ds) + 1)
    OBVIOUS
  <2> HIDE DEF wide
  <2>2. Cardinality(wide(n)) <= Cardinality(wide(Len(ds) + 1))
    BY <1>1, <2>1, FS_Subset
  <2>3. Cardinality(wide(n)) \in Nat /\ Cardinality(wide(Len(ds) + 1)) \in Nat
    BY <1>1, <2>1
  <2>4. StartOf(ds, n) = n - 1 + Cardinality(wide(n))
        /\ StartOf(ds, Len(ds) + 1) = (Len(ds) + 1) - 1 + Cardinality(wide(Len(ds) + 1))
    BY <1>2, <2>1
  <2>5. n - 1 <= (Len(ds) + 1) - 1
    OBVIOUS
  <2> QED
    BY <2>1, <2>2, <2>3, <2>4, <2>5
<1> QED
  BY <1>3, <1>4, <1>5

(* Where instructions start depends on those ahead of them only. *)
LEMMA StartsAlike ==
  ASSUME NEW ds, NEW es, NEW n \in Nat, \A m \in 1 .. n - 1 : es[m] = ds[m]
  PROVE  StartOf(es, n) = StartOf(ds, n)
<1>1. {m \in 1 .. n - 1 : es[m].len = 2} = {m \in 1 .. n - 1 : ds[m].len = 2}
  OBVIOUS
<1> QED
  BY <1>1 DEF StartOf

(* What decode returns is within the body. *)
LEMMA DecodeFits ==
  ASSUME NEW body, Len(body) \in Nat, NEW at \in Nat
  PROVE  /\ at >= Len(body) => Decode(body, at) = <<>>
         /\ Decode(body, at) # <<>> =>
              /\ Decode(body, at)[1].len \in {1, 2}
              /\ at + Decode(body, at)[1].len \in 0 .. Len(body)
<1> DEFINE first == WordAt(body, at)
           next == WordAt(body, at + 1)
<1>1. /\ at < Len(body) => first = <<body[at + 1]>>
      /\ at >= Len(body) => first = <<>>
      /\ at + 1 >= Len(body) => next = <<>>
  BY DEF WordAt
<1>2. ASSUME Decode(body, at) # <<>>
      PROVE  first # <<>>
  BY <1>2 DEF Decode
<1>3. ASSUME Decode(body, at) # <<>>
      PROVE  \/ Decode(body, at)[1].len = 1
             \/ Decode(body, at)[1].len = 2 /\ next # <<>>
  BY <1>3 DEF Decode
<1> HIDE DEF first, next
<1> QED
  BY <1>1, <1>2, <1>3

(* The graph builder's loop gives what it is defined to give from every     *)
(* place in the body on.                                                    *)
LEMMA DecodedFrom ==
  ASSUME NEW body, Len(body) \in Nat
  PROVE  \E s : /\ Decoded(body) = s[0]
                /\ \A at \in 0 .. Len(body) :
                     LET d == Decode(body, at)
                     IN s[at] = IF d = <<>> THEN <<>> ELSE d \o s[at + d[1].len]
<1> DEFINE len == Len(body)
           D(at) == Decode(body, at)
           Step(g, at) == IF D(at) = <<>> THEN <<>> ELSE D(at) \o g[at + D(at)[1].len]
           States(n, g) == g = [at \in len - n .. len |-> Step(g, at)]
           bad == {n \in 0 .. len : ~\E g : States(n, g)}
<1>0. \A at \in 0 .. len : /\ at >= len => D(at) = <<>>
                           /\ D(at) # <<>> => /\ D(at)[1].len \in {1, 2}
                                              /\ at + D(at)[1].len \in 0 .. len
  BY DecodeFits
<1> HIDE DEF D
<1>1. bad = {}
  <2> SUFFICES ASSUME bad # {} PROVE FALSE
    OBVIOUS
  <2>1. PICK m \in bad : \A j \in bad : m <= j
    <3> bad \in SUBSET Nat
      OBVIOUS
    <3> HIDE DEF bad
    <3> QED
      BY LeastOne
  <2>2. CASE m = 0
    <3> DEFINE g == [at \in len .. len |-> <<>>]
    <3>1. \A at \in len .. len : Step(g, at) = <<>>
      BY <1>0
    <3>2. g = [at \in len - 0 .. len |-> Step(g, at)]
      <4> HIDE DEF Step
      <4>1. len - 0 = len
        OBVIOUS
      <4> QED
        BY <3>1, <4>1
    <3>3. States(0, g)
      BY <3>2
    <3> QED
      BY <2>1, <2>2, <3>3
  <2>3. CASE m # 0
    <3>1. m \in 1 .. len /\ m - 1 \in 0 .. len /\ m - 1 \notin bad
      <4>1. m \in 0 .. len
        BY <2>1
      <4> HIDE DEF bad
      <4> QED
        BY <2>1, <2>3, <4>1
    <3>2. PICK g : States(m - 1, g)
      BY <3>1
    <3> DEFINE a == len - m
               h == [at \in a .. len |-> IF at = a THEN Step(g, a) ELSE g[at]]
    <3>3. len - (m - 1) = a + 1 /\ a \in 0 .. len /\ a < len
      BY <3>1
    <3>4. ASSUME NEW at \in a .. len, D(at) # <<>>
          PROVE  at + D(at)[1].len \in a + 1 .. len
                 /\ h[at + D(at)[1].len] = g[at + D(at)[1].len]
      <4>1. at \in 0 .. len /\ at \in Nat
        BY <3>3
      <4>2. at + D(at)[1].len \in a + 1 .. len
        <5> DEFINE n == D(at)[1].len
        <5>1. n \in {1, 2} /\ at + n \in 0 .. len
          BY <1>0, <3>4, <4>1
        <5> HIDE DEF n
        <5>2. at + n \in a + 1 .. len
          BY <3>3, <5>1
        <5> QED
          BY <5>2 DEF n
      <4>3. \A k \in a + 1 .. len : h[k] = g[k]
        BY <3>3
      <4> HIDE DEF h
      <4> QED
        BY <4>2, <4>3
    <3>5. ASSUME NEW at \in a .. len
          PROVE  h[at] = Step(h, at)
      <4>1. Step(h, at) = Step(g, at)
        <5> HIDE DEF h
        <5> QED
          BY <3>4
      <4>2. CASE at = a
        BY <4>1, <4>2
      <4>3. CASE at # a
        <5>1. at \in a + 1 .. len /\ h[at] = g[at]
          BY <3>3, <4>3
        <5>2. g = [k \in a + 1 .. len |-> Step(g, k)]
          BY <3>2, <3>3
        <5> HIDE DEF Step, h
        <5>3. g[at] = Step(g, at)
          BY <5>1, <5>2
        <5> QED
          BY <4>1, <5>1, <5>3
      <4> QED
        BY <4>2, <4>3
    <3>6. States(m, h)
      <4>1. h = [at \in a .. len |-> h[at]]
        OBVIOUS
      <4> HIDE DEF h, Step
      <4> QED
        BY <3>5, <4>1
    <3> QED
      BY <2>1, <3>6
  <2> QED
    BY <2>2, <2>3
<1> DEFINE s == CHOOSE g : g = [at \in 0 .. len |-> Step(g, at)]
<1>2. s = [at \in 0 .. len |-> Step(s, at)]
  <2>1. \E g : g = [at \in 0 .. len |-> Step(g, at)]
    <3>1. len \in 0 .. len /\ len - len = 0
      OBVIOUS
    <3>2. PICK g : States(len, g)
      BY <1>1, <3>1
    <3> HIDE DEF Step
    <3> QED
      BY <3>1, <3>2
  <2> HIDE DEF Step
  <2> QED
    BY <2>1
<1>3. Decoded(body) = s[0]
  BY DEF Decoded, D
<1> HIDE DEF s
<1>4. ASSUME NEW at \in 0 .. len PROVE s[at] = Step(s, at)
  <2> HIDE DEF Step
  <2> QED
    BY <1>2
<1> QED
  BY <1>3, <1>4 DEF D

(* A sequence from its n-th element on is that element and the rest. *)
LEMMA Headed ==
  ASSUME NEW S, NEW s \in Seq(S), NEW n \in 1 .. Len(s)
  PROVE  <<s[n]>> \o SubSeq(s, n + 1, Len(s)) = SubSeq(s, n, Len(s))
<1> DEFINE rest == SubSeq(s, n + 1, Len(s))
           all == SubSeq(s, n, Len(s))
<1>1. /\ rest \in Seq(S) /\ Len(rest) = Len(s) - n
      /\ \A k \in 1 .. Len(rest) : rest[k] = s[n + k]
  OBVIOUS
<1>2. /\ all \in Seq(S) /\ Len(all) = Len(s) - n + 1
      /\ \A k \in 1 .. Len(all) : all[k] = s[n - 1 + k]
  OBVIOUS
<1>3. s[n] \in S
  OBVIOUS
<1> HIDE DEF rest, all
<1>4. /\ <<s[n]>> \o rest \in Seq(S) /\ Len(<<s[n]>> \o rest) = 1 + Len(rest)
      /\ (<<s[n]>> \o rest)[1] = s[n]
      /\ \A k \in 2 .. 1 + Len(rest) : (<<s[n]>> \o rest)[k] = rest[k - 1]
  BY <1>1, <1>3
<1>5. ASSUME NEW k \in 1 .. Len(all) PROVE (<<s[n]>> \o rest)[k] = all[k]
  <2>1. CASE k = 1
    BY <1>2, <1>4, <2>1
  <2>2. CASE k # 1
    <3>1. k \in 2 .. 1 + Len(rest) /\ k - 1 \in 1 .. Len(rest)
      BY <1>1, <1>2, <2>2
    <3>2. rest[k - 1] = s[n + (k - 1)] /\ all[k] = s[n - 1 + k]
      BY <1>1, <1>2, <3>1
    <3>3. n + (k - 1) = n - 1 + k
      OBVIOUS
    <3> QED
      BY <1>4, <3>1, <3>2, <3>3
  <2> QED
    BY <2>1, <2>2
<1>6. Len(<<s[n]>> \o rest) = Len(all)
  BY <1>1, <1>2, <1>4
<1>7. <<s[n]>> \o rest = all
  BY <1>2, <1>4, <1>5, <1>6, SeqEqual
<1> QED
  BY <1>7 DEF rest, all

(* A body is read back as it was read: decode_range finds the same          *)
(* instructions, all of them and no others.                                 *)
LEMMA ReadBack ==
  ASSUME NEW body, Len(body) \in Nat, NEW ds, Reads(body, ds)
  PROVE  Decoded(body) = ds
<1> DEFINE len == Len(ds)
           At(n) == StartOf(ds, n)
<1>1. /\ ds \in Seq(Insn2) /\ len \in Nat /\ At(len + 1) = Len(body)
      /\ \A n \in 1 .. len : Decode(body, At(n)) = <<ds[n]>>
  BY DEF Reads
<1>2. /\ At(1) = 0
      /\ \A n \in 1 .. len + 1 : At(n) \in 0 .. Len(body)
      /\ \A n \in 1 .. len : At(n + 1) = At(n) + ds[n].len
  BY <1>1, Starts
<1>3. PICK s : /\ Decoded(body) = s[0]
               /\ \A at \in 0 .. Len(body) :
                    LET d == Decode(body, at)
                    IN s[at] = IF d = <<>> THEN <<>> ELSE d \o s[at + d[1].len]
  BY DecodedFrom
<1> HIDE DEF At
<1> DEFINE bad == {m \in 0 .. len : s[At(len + 1 - m)] # SubSeq(ds, len + 1 - m, len)}
<1>4. bad = {}
  <2> SUFFICES ASSUME bad # {} PROVE FALSE
    OBVIOUS
  <2>1. PICK m \in bad : \A j \in bad : m <= j
    <3> bad \in SUBSET Nat
      BY <1>1
    <3> HIDE DEF bad
    <3> QED
      BY LeastOne
  <2>2. CASE m = 0
    <3>1. len + 1 - m = len + 1
      BY <1>1, <2>2
    <3>2. Decode(body, Len(body)) = <<>>
      BY DecodeFits
    <3>3. s[Len(body)] = <<>>
      <4>1. Len(body) \in 0 .. Len(body)
        OBVIOUS
      <4> QED
        BY <1>3, <3>2, <4>1
    <3>4. SubSeq(ds, len + 1, len) = <<>>
      BY <1>1
    <3> QED
      BY <1>1, <2>1, <3>1, <3>3, <3>4
  <2>3. CASE m # 0
    <3> DEFINE n == len + 1 - m
    <3>1. /\ m \in 1 .. len /\ m - 1 \in 0 .. len /\ m - 1 \notin bad
          /\ n \in 1 .. len /\ n + 1 \in 1 .. len + 1 /\ len + 1 - (m - 1) = n + 1
      <4>1. m \in 0 .. len
        BY <2>1
      <4> HIDE DEF bad
      <4> QED
        BY <1>1, <2>1, <2>3, <4>1
    <3>2. s[At(n + 1)] = SubSeq(ds, n + 1, len)
      BY <3>1
    <3>3. Decode(body, At(n)) = <<ds[n]>> /\ At(n) \in 0 .. Len(body)
          /\ At(n) + ds[n].len = At(n + 1)
      <4>1. n \in 1 .. len + 1
        BY <3>1
      <4> HIDE DEF n, bad
      <4> QED
        BY <1>1, <1>2, <3>1, <4>1
    <3>4. s[At(n)] = <<ds[n]>> \o SubSeq(ds, n + 1, len)
      <4>1. <<ds[n]>> # <<>> /\ <<ds[n]>>[1] = ds[n]
        OBVIOUS
      <4> QED
        BY <1>3, <3>2, <3>3, <4>1
    <3>5. <<ds[n]>> \o SubSeq(ds, n + 1, len) = SubSeq(ds, n, len)
      <4> HIDE DEF bad, n
      <4> QED
        BY <1>1, <3>1, Headed
    <3> QED
      BY <2>1, <3>4, <3>5
  <2> QED
    BY <2>2, <2>3
<1>5. s[At(1)] = SubSeq(ds, 1, len)
  <2>1. len \in 0 .. len /\ len + 1 - len = 1
    BY <1>1
  <2> QED
    BY <1>4, <2>1
<1>6. SubSeq(ds, 1, len) = ds
  BY <1>1
<1> QED
  BY <1>2, <1>3, <1>5, <1>6

-----------------------------------------------------------------------------
(* Types.  What the open function and the tables of names hold, and that an *)
(* assembled source never has more words, constants or tools than tokens:   *)
(* what keeps every index within the width of an operand.                   *)
Fields ==
  /\ fn.name = <<>> \/ \E s : fn.name = <<s>>
  /\ fn.maxstack = <<>> \/ \E n \in 0 .. Units - 1 : fn.maxstack = <<n>>
  /\ fn.args \in 0 .. 255 /\ fn.returns \in 0 .. 1
  /\ fn.off \in 0 .. Len(obj.code)
Tabled ==
  /\ index = [constants |-> index.constants, tools |-> index.tools]
  /\ IsSeq(obj.constants) /\ IsSeq(obj.tools)
  /\ \A s \in DOMAIN index.constants : index.constants[s] \in 0 .. Len(obj.constants) - 1
  /\ \A s \in DOMAIN index.tools : index.tools[s] \in 0 .. Len(obj.tools) - 1
Counted ==
  job = "assemble" =>
    Len(obj.code) < i /\ Len(obj.constants) < i /\ Len(obj.tools) < i
TypeInv == TypeOK /\ Fields /\ Tabled /\ Counted

(* A token with a number has an integer; the token after one that is not    *)
(* the end is a token.                                                      *)
LEMMA TokenFacts ==
  ASSUME toks \in Sources
  PROVE  /\ 4 * Len(toks) < Units * Units
         /\ \A k \in 1 .. Len(toks) : /\ toks[k] \in Tokens
                                      /\ toks[k].kind = "Int" => toks[k].n \in Int
         /\ \A k \in 1 .. Len(toks) : toks[k].kind # "End" => k + 1 \in 1 .. Len(toks)
<1>1. toks \in Seq(Tokens) /\ 4 * Len(toks) < Units * Units /\ toks[Len(toks)].kind = "End"
  BY SourcesAssumption
<1>2. \A t \in Tokens : t.kind = "Int" => t.n \in Int
  BY DEF Tokens
<1>3. \A k \in 1 .. Len(toks) : toks[k] \in Tokens
  BY <1>1
<1> QED
  BY <1>1, <1>2, <1>3

(* Numbers of the two widths. *)
LEMMA Widths ==
  /\ Units \in Nat /\ Units > 1 /\ Units * Units \in Nat /\ Units < Units * Units
  /\ \A n \in Int : Magnitude(n) \in Nat /\ n % Units \in 0 .. Units - 1
  /\ \A n, top \in Nat : AtMost(n, top) \in 0 .. top
<1>1. Units \in Nat /\ Units > 1
  BY UnitsAssumption
<1>2. Units * Units \in Nat /\ Units < Units * Units
  BY <1>1, Z3
<1>3. \A n \in Int : n % Units \in 0 .. Units - 1
  BY <1>1
<1>4. \A n \in Int : Magnitude(n) \in Nat
  BY DEF Magnitude
<1>5. \A n, top \in Nat : AtMost(n, top) \in 0 .. top
  BY DEF AtMost
<1> QED
  BY <1>1, <1>2, <1>3, <1>4, <1>5

(* What the operand of an accepted instruction is: none, a number, a string *)
(* or a name of the right kind; and the word encoded for it.                *)
LEMMA OperandCases ==
  ASSUME NEW class, NEW t, OperandFault(class, t) = "ok"
  PROVE  \/ class = "None" /\ OperandWord(class, t) = 0 /\ t.kind \in LineEnds
         \/ class # "None" /\ t.kind = "Int" /\ OperandWord(class, t) = Literal(class, t.n)
              /\ class \notin {"Const", "Tool", "Func", "Target"}
         \/ class = "Const" /\ t.kind = "Str" /\ OperandWord(class, t) = Len(obj.constants)
         \/ class \in {"Imm", "Const"} /\ t.kind = "Ident" /\ t.s \in DOMAIN index.constants
              /\ OperandWord(class, t) = index.constants[t.s]
         \/ class = "Tool" /\ t.kind = "Ident" /\ t.s \in DOMAIN index.tools
              /\ OperandWord(class, t) = index.tools[t.s]
         \/ class \in {"Func", "Target"} /\ t.kind = "Ident" /\ Defers(class, t)
              /\ OperandWord(class, t) = 0
         \/ class = "Target" /\ t.kind = "Ident" /\ ~Defers(class, t)
              /\ t.s \in DOMAIN fn.labels /\ OperandWord(class, t) = fn.labels[t.s]
<1>1. t.kind \in Takes(class) /\ ~Unknown(class, t)
  BY DEF OperandFault
<1>2. CASE class = "None"
  <2>1. t.kind \in LineEnds
    BY <1>1, <1>2 DEF Takes
  <2>2. OperandWord(class, t) = 0
    BY <1>2, <2>1 DEF OperandWord, LineEnds
  <2> QED
    BY <1>2, <2>1, <2>2
<1>3. CASE class # "None" /\ t.kind = "Int"
  <2>1. class \notin {"Const", "Tool", "Func", "Target"}
    BY <1>1, <1>3 DEF Takes
  <2>2. OperandWord(class, t) = Literal(class, t.n)
    BY <1>3, <2>1 DEF OperandWord
  <2> QED
    BY <1>3, <2>1, <2>2
<1>4. CASE class # "None" /\ t.kind = "Str"
  <2>1. class = "Const"
    BY <1>1, <1>4 DEF Takes, LineEnds
  <2> QED
    BY <1>4, <2>1 DEF OperandWord
<1>5. CASE class \in {"Imm", "Const"} /\ t.kind = "Ident"
  BY <1>1, <1>5 DEF Unknown, OperandWord
<1>6. CASE class = "Tool" /\ t.kind = "Ident"
  BY <1>1, <1>6 DEF Unknown, OperandWord
<1>7. CASE class \in {"Func", "Target"} /\ t.kind = "Ident"
  BY <1>7 DEF OperandWord, Defers
<1>8. class # "None" => t.kind \in {"Int", "Str", "Ident"}
  BY <1>1 DEF Takes
<1>9. class # "None" /\ t.kind = "Ident" => class \in {"Imm", "Const", "Tool", "Func", "Target"}
  BY <1>1 DEF Takes
<1> QED
  BY <1>2, <1>3, <1>4, <1>5, <1>6, <1>7, <1>8, <1>9

(* An accepted instruction: its opcode, the token after it and the word of  *)
(* its operand, which 32 bits hold, and how many words it comes to.         *)
LEMMA Accepts ==
  ASSUME IInv, OneInv, TypeInv, Instruction
  PROVE  LET op == toks[i].s
             class == TABLE[op].operand
             t == toks[i + 1]
             b == OperandWord(class, t)
         IN /\ i \in 1 .. Len(toks) /\ op \in Ops /\ t \in Tokens
            /\ OperandFault(class, t) = "ok"
            /\ t.kind = "Int" => t.n \in Int
            /\ b \in Operands
            /\ Len(Encode(op, 0, b)) \in 1 .. i' - i
            /\ i' \in Nat
<1> DEFINE op == toks[i].s
           class == TABLE[op].operand
           t == toks[i + 1]
           b == OperandWord(class, t)
<1>1. /\ job = "assemble" /\ toks \in Sources /\ i \in 1 .. Len(toks) /\ i \in Nat
      /\ toks[i].kind = "Ident" /\ fn.name # <<>> /\ InsnFault = "ok"
  BY InstructionShape, SourceFacts, Accepted DEF OneInv, Instruction, InsnFault
<1>2. op \in Ops /\ OperandFault(class, t) = "ok"
  BY <1>1 DEF InsnFault, Tok, After
<1>3. t \in Tokens /\ (t.kind = "Int" => t.n \in Int) /\ i + 1 \in 1 .. Len(toks)
      /\ 4 * Len(toks) < Units * Units
  BY <1>1, TokenFacts
<1>4. i' = i + (1 + (IF class = "None" THEN 0 ELSE 1)
                  + IF toks[i + (1 + IF class = "None" THEN 0 ELSE 1)].kind = "Newline"
                    THEN 1 ELSE 0)
  BY DEF Instruction, Skip, After, Tok
<1>5. Len(obj.code) \in Nat /\ Len(obj.code) < i /\ Len(obj.constants) \in Nat
      /\ Len(obj.constants) < i /\ Len(obj.tools) \in Nat /\ Len(obj.tools) < i
  BY <1>1, SeqGrows DEF TypeInv, Counted, Tabled, IInv
<1>6. /\ \A s \in DOMAIN fn.labels : fn.labels[s] \in 0 .. Len(obj.code)
      /\ \A s \in DOMAIN index.constants : index.constants[s] \in 0 .. Len(obj.constants) - 1
      /\ \A s \in DOMAIN index.tools : index.tools[s] \in 0 .. Len(obj.tools) - 1
  BY DEF TypeInv, TypeOK, Tabled
<1> DEFINE top == Units * Units
<1>7. /\ top \in Nat /\ Units \in Nat /\ 1 < Units /\ Units < top /\ Operands = 0 .. top - 1
      /\ \A n : Literal(class, n) = IF class = "Imm" /\ n < 0 THEN n % Units
                                    ELSE AtMost(Magnitude(n), top - 1)
      /\ 4 * Len(toks) < top
  BY <1>3, Widths DEF Operands, Literal
<1> HIDE DEF op, class, t, top
<1>10. Len(toks) \in Nat /\ i < top
  BY <1>1, <1>7, SourceFacts
<1>8. b \in Operands /\ (class = "None" => b = 0)
  <2>1. \A n \in Nat : n < top => n \in Operands
    BY <1>7
  <2>2. CASE t.kind = "Int" /\ class # "None" /\ b = Literal(class, t.n)
    <3>1. t.n % Units \in 0 .. Units - 1 /\ Magnitude(t.n) \in Nat
      BY <1>3, <2>2, Widths
    <3>2. AtMost(Magnitude(t.n), top - 1) \in 0 .. top - 1
      <4>1. top - 1 \in Nat
        BY <1>7
      <4> QED
        BY <3>1, <4>1, Widths
    <3>3. 0 .. Units - 1 \subseteq 0 .. top - 1
      BY <1>7
    <3> HIDE DEF b
    <3> QED
      BY <1>7, <2>2, <3>1, <3>2, <3>3
  <2> HIDE DEF b
  <2>3. CASE b = 0
    BY <1>7, <2>1, <2>3
  <2>5. CASE class # "None" /\ b = Len(obj.constants)
    BY <1>1, <1>5, <1>10, <1>7, <2>1, <2>5
  <2>6. CASE class # "None" /\ b \in 0 .. Len(obj.constants) - 1
    BY <1>1, <1>5, <1>10, <1>7, <2>1, <2>6
  <2>7. CASE class # "None" /\ b \in 0 .. Len(obj.tools) - 1
    BY <1>1, <1>5, <1>10, <1>7, <2>1, <2>7
  <2>8. CASE class # "None" /\ b \in 0 .. Len(obj.code)
    BY <1>1, <1>5, <1>10, <1>7, <2>1, <2>8
  <2> QED
    BY <1>2, <1>6, <2>2, <2>3, <2>5, <2>6, <2>7, <2>8, OperandCases DEF b
<1> HIDE DEF b
<1>9. Len(Encode(op, 0, b)) \in 1 .. i' - i /\ i' \in Nat
  <2>1. Len(Encode(op, 0, b)) \in {1, 2} /\ (b = 0 => Len(Encode(op, 0, b)) = 1)
    <3>1. b = 0 => b < Units
      BY <1>7
    <3>2. b < Units \/ b >= Units
      BY <1>7, <1>8
    <3>3. 0 \in Nat /\ op \in Ops
      BY <1>2
    <3> QED
      BY <1>8, <3>1, <3>2, <3>3, Encoded
  <2>2. i' \in Nat /\ i' >= i + 1 /\ (class # "None" => i' >= i + 2)
    BY <1>1, <1>4
  <2>3. i' - i \in Nat /\ (class # "None" => i' - i >= 2) /\ i' - i >= 1
    <3>1. i \in Nat
      BY <1>1, <1>10
    <3>2. \A m, n \in Nat : /\ n >= m + 1 => n - m \in Nat /\ n - m >= 1
                            /\ n >= m + 2 => n - m >= 2
      OBVIOUS
    <3> QED
      BY <2>2, <3>1, <3>2
  <2>4. \A m \in {1, 2} : \A k \in Nat : m <= k => m \in 1 .. k
    OBVIOUS
  <2>5. Len(Encode(op, 0, b)) <= i' - i
    <3>1. CASE class = "None"
      BY <1>8, <2>1, <2>3, <3>1
    <3>2. CASE class # "None"
      BY <2>1, <2>3, <3>2
    <3> QED
      BY <3>1, <3>2
  <2> QED
    BY <2>1, <2>2, <2>3, <2>4, <2>5
<1> QED
  BY <1>1, <1>2, <1>3, <1>8, <1>9 DEF op, class, t, b

(* A step that leaves the object and the tables keeps their types. *)
LEMMA TypesStay ==
  ASSUME TypeInv, obj' = obj, index' = index, job' = job, i' \in Nat, i' >= i,
         Fields', \A s \in DOMAIN fn'.labels : fn'.labels[s] \in 0 .. Len(obj.code),
         Len(obj.code) \in Nat, Len(obj.constants) \in Nat, Len(obj.tools) \in Nat
  PROVE  TypeInv'
<1>1. i \in Nat
  BY DEF TypeInv, TypeOK
<1>2. TypeOK'
  BY DEF TypeInv, TypeOK
<1>3. Tabled'
  BY DEF TypeInv, Tabled
<1>4. Counted'
  <2> SUFFICES ASSUME job' = "assemble"
               PROVE  Len(obj'.code) < i' /\ Len(obj'.constants) < i' /\ Len(obj'.tools) < i'
    BY DEF Counted
  <2>1. Len(obj.code) < i /\ Len(obj.constants) < i /\ Len(obj.tools) < i
    BY DEF TypeInv, Counted
  <2> QED
    BY <1>1, <2>1
<1> QED
  BY <1>2, <1>3, <1>4 DEF TypeInv

(* Lengths that the types give. *)
LEMMA Lengths ==
  ASSUME TypeInv
  PROVE  Len(obj.code) \in Nat /\ Len(obj.constants) \in Nat /\ Len(obj.tools) \in Nat
         /\ i \in Nat /\ LabelIndex \in 0 .. Len(obj.code)
<1>1. obj.code \in Seq(CodeWords) /\ IsSeq(obj.constants) /\ IsSeq(obj.tools) /\ i \in Nat
      /\ fn.off \in 0 .. Len(obj.code)
  BY DEF TypeInv, TypeOK, Tabled, Fields
<1>2. Len(obj.code) \in Nat /\ Len(obj.constants) \in Nat /\ Len(obj.tools) \in Nat
  BY <1>1, SeqGrows
<1> QED
  BY <1>1, <1>2 DEF LabelIndex

(* A construct that only concerns the open function. *)
LEMMA FunctionTypes ==
  ASSUME IInv, OneInv, TypeInv,
         Reject \/ IsaLine \/ Image \/ LineEnd \/ FnHeader \/ Signature \/ FnBegin
           \/ Maxstack \/ Label \/ BuilderLabel
  PROVE  TypeInv'
<1>1. /\ obj' = obj /\ index' = index /\ job' = job
      /\ i' \in {i, i + 1, i + 2}
  <2>1. i \in Nat
    BY Lengths
  <2>2. CASE Reject \/ IsaLine \/ Image \/ LineEnd \/ FnHeader \/ FnBegin \/ Maxstack \/ Label
    BY <2>1, <2>2 DEF Reject, IsaLine, Image, LineEnd, FnHeader, FnBegin, Maxstack, Label, Skip
  <2>3. CASE Signature
    BY <2>1, <2>3 DEF Signature, Skip
  <2>4. CASE BuilderLabel
    BY <2>1, <2>4 DEF BuilderLabel, Calling, Skip
  <2> QED
    BY <2>2, <2>3, <2>4
<1>2. /\ i \in Nat /\ i' \in Nat /\ i' >= i /\ LabelIndex \in 0 .. Len(obj.code)
      /\ Len(obj.code) \in Nat /\ Len(obj.constants) \in Nat /\ Len(obj.tools) \in Nat
  BY <1>1, Lengths
<1>3. IsFn(fn) /\ Fields /\ \A s \in DOMAIN fn.labels : fn.labels[s] \in 0 .. Len(obj.code)
  BY DEF IInv, TypeInv, TypeOK
<1>4. CASE Reject \/ IsaLine \/ Image \/ LineEnd
  <2>1. fn' = fn
    BY <1>4 DEF Reject, IsaLine, Image, LineEnd
  <2>2. Fields'
    BY <1>1, <1>3, <2>1 DEF Fields
  <2> QED
    BY <1>1, <1>2, <1>3, <2>1, <2>2, TypesStay
<1>5. CASE FnHeader \/ Signature
  <2>1. PICK a \in 0 .. 255, r \in 0 .. 1 : fn' = [fn EXCEPT !.args = a, !.returns = r]
    <3>1. CASE FnHeader
      BY <3>1 DEF FnHeader
    <3>2. CASE Signature
      <4>1. fn = [fn EXCEPT !.args = fn.args, !.returns = fn.returns]
        BY <1>3 DEF IsFn
      <4>2. fn.args \in 0 .. 255 /\ fn.returns \in 0 .. 1
        BY <1>3 DEF Fields
      <4>3. AtMost(fn.args + 1, 255) \in 0 .. 255
        BY <4>2 DEF AtMost
      <4>4. \/ fn' = fn
            \/ \E r \in 0 .. 1 : fn' = [fn EXCEPT !.returns = r]
            \/ fn' = [fn EXCEPT !.args = AtMost(@ + 1, 255)]
        BY <3>2 DEF Signature
      <4>5. \A r : [fn EXCEPT !.returns = r] = [fn EXCEPT !.args = fn.args, !.returns = r]
        BY <1>3 DEF IsFn
      <4>6. \A a : [fn EXCEPT !.args = a] = [fn EXCEPT !.args = a, !.returns = fn.returns]
        BY <1>3 DEF IsFn
      <4>7. CASE fn' = fn
        BY <4>1, <4>2, <4>7
      <4>8. CASE \E r \in 0 .. 1 : fn' = [fn EXCEPT !.returns = r]
        BY <4>2, <4>5, <4>8
      <4>9. CASE fn' = [fn EXCEPT !.args = AtMost(@ + 1, 255)]
        <5> DEFINE more == AtMost(fn.args + 1, 255)
        <5>1. fn' = [fn EXCEPT !.args = more]
          BY <4>9
        <5>2. more \in 0 .. 255
          BY <4>3
        <5> HIDE DEF more
        <5>3. fn' = [fn EXCEPT !.args = more, !.returns = fn.returns]
          BY <4>6, <5>1
        <5> QED
          BY <4>2, <5>2, <5>3
      <4> QED
        BY <4>4, <4>7, <4>8, <4>9
    <3> QED
      BY <1>5, <3>1, <3>2
  <2>2. /\ fn'.name = fn.name /\ fn'.maxstack = fn.maxstack /\ fn'.off = fn.off
        /\ fn'.labels = fn.labels /\ fn'.args = a /\ fn'.returns = r
    BY <1>3, <2>1 DEF IsFn
  <2>3. Fields'
    BY <1>1, <1>3, <2>1, <2>2 DEF Fields
  <2> QED
    BY <1>1, <1>2, <1>3, <2>2, <2>3, TypesStay
<1>6. CASE FnBegin
  <2>1. fn' = [NewFn(<<header[1].name>>, Len(obj.code)) EXCEPT
                 !.args = fn.args, !.returns = fn.returns]
    BY <1>6 DEF FnBegin
  <2>2. /\ fn'.name = <<header[1].name>> /\ fn'.maxstack = <<>> /\ fn'.off = Len(obj.code)
        /\ fn'.labels = NoNames /\ fn'.args = fn.args /\ fn'.returns = fn.returns
    BY <2>1 DEF NewFn
  <2>3. Fields'
    BY <1>1, <1>2, <1>3, <2>2 DEF Fields
  <2>4. DOMAIN fn'.labels = {}
    BY <2>2 DEF NoNames
  <2> QED
    BY <1>1, <1>2, <2>3, <2>4, TypesStay
<1>7. CASE Maxstack
  <2>1. fn' = [fn EXCEPT !.maxstack = <<AtMost(Magnitude(toks[i + 1].n), Units - 1)>>]
    BY <1>7 DEF Maxstack, After
  <2>2. toks[i + 1].kind = "Int" /\ toks[i].kind = "Directive" /\ toks \in Sources
        /\ i \in 1 .. Len(toks)
    <3>1. Accepting("Directive") /\ Tok.s = "maxstack"
      BY <1>7 DEF Maxstack, Directive
    <3>2. DirectiveFault = "ok" /\ toks[i].kind = "Directive" /\ job = "assemble"
          /\ i <= Len(toks)
      BY <3>1, Accepted DEF Accepting, Reading
    <3>3. toks \in Sources /\ i \in 1 .. Len(toks) + 1
      BY <3>2 DEF OneInv
    <3> QED
      BY <1>2, <3>1, <3>2, <3>3, SourceFacts DEF DirectiveFault, After
  <2>3. toks[i + 1].n \in Int
    BY <2>2, TokenFacts
  <2> DEFINE n == AtMost(Magnitude(toks[i + 1].n), Units - 1)
  <2>4. n \in 0 .. Units - 1
    <3>1. Units - 1 \in Nat /\ Magnitude(toks[i + 1].n) \in Nat
      <4>1. \A m \in Int : Magnitude(m) \in Nat
        BY Widths
      <4>2. Units - 1 \in Nat
        BY UnitsAssumption
      <4> QED
        BY <2>3, <4>1, <4>2
    <3> QED
      BY <3>1, Widths
  <2>5. /\ fn'.name = fn.name /\ fn'.maxstack = <<n>> /\ fn'.off = fn.off
        /\ fn'.labels = fn.labels /\ fn'.args = fn.args /\ fn'.returns = fn.returns
    BY <1>3, <2>1 DEF IsFn
  <2> HIDE DEF n
  <2>6. Fields'
    BY <1>1, <1>3, <2>4, <2>5 DEF Fields
  <2> QED
    BY <1>1, <1>2, <1>3, <2>5, <2>6, TypesStay
<1>8. CASE Label \/ BuilderLabel
  <2>1. PICK ls : /\ fn' = [fn EXCEPT !.labels = ls]
                  /\ ls = fn.labels \/ \E s : ls = Put(fn.labels, s, LabelIndex)
    <3>1. CASE Label
      BY <3>1 DEF Label
    <3>2. CASE BuilderLabel
      <4>1. fn = [fn EXCEPT !.labels = fn.labels]
        BY <1>3 DEF IsFn
      <4> QED
        BY <3>2, <4>1 DEF BuilderLabel
    <3> QED
      BY <1>8, <3>1, <3>2
  <2>2. /\ fn'.name = fn.name /\ fn'.maxstack = fn.maxstack /\ fn'.off = fn.off
        /\ fn'.labels = ls /\ fn'.args = fn.args /\ fn'.returns = fn.returns
    BY <1>3, <2>1 DEF IsFn
  <2>3. Fields'
    BY <1>1, <1>3, <2>2 DEF Fields
  <2>4. \A s \in DOMAIN ls : ls[s] \in 0 .. Len(obj.code)
    <3>1. CASE ls = fn.labels
      BY <1>3, <3>1
    <3>2. ASSUME NEW s, ls = Put(fn.labels, s, LabelIndex)
          PROVE  \A x \in DOMAIN ls : ls[x] \in 0 .. Len(obj.code)
      <4>1. /\ DOMAIN ls = DOMAIN fn.labels \cup {s} /\ ls[s] = LabelIndex
            /\ \A x \in DOMAIN fn.labels : x # s => ls[x] = fn.labels[x]
        BY <3>2 DEF Put
      <4> QED
        BY <1>2, <1>3, <4>1
    <3> QED
      BY <2>1, <3>1, <3>2
  <2> QED
    BY <1>1, <1>2, <2>2, <2>3, <2>4, TypesStay
<1> QED
  BY <1>4, <1>5, <1>6, <1>7, <1>8

(* Nothing is out of range at the start. *)
LEMMA InitTypes == Init => TypeInv
<1> SUFFICES ASSUME Init PROVE TypeInv
  OBVIOUS
<1>1. /\ obj.code = <<>> /\ obj.funcs = <<>> /\ obj.constants = <<>> /\ obj.tools = <<>>
      /\ obj.entry = <<>>
  BY DEF Init, NewObject
<1>2. /\ fn.name = <<>> /\ fn.maxstack = <<>> /\ fn.args = 0 /\ fn.returns = 1
      /\ fn.labels = NoNames /\ fn.off = 0
  BY DEF Init, NewFn
<1>3. DOMAIN NoNames = {}
  BY DEF NoNames
<1>4. <<>> \in Seq(CodeWords) /\ IsSeq(<<>>) /\ Len(<<>>) = 0 /\ DOMAIN <<>> = {}
  <2>1. <<>> \in Seq({})
    OBVIOUS
  <2> QED
    BY <2>1 DEF IsSeq
<1>5. i \in Nat /\ (job = "assemble" => i = 1)
  BY DEF Init
<1>6. index = [constants |-> NoNames, tools |-> NoNames]
  BY DEF Init
<1>7. TypeOK
  BY <1>1, <1>2, <1>3, <1>4, <1>5 DEF TypeOK
<1>8. Fields
  BY <1>1, <1>2, <1>4 DEF Fields
<1>9. Tabled
  BY <1>1, <1>3, <1>4, <1>6 DEF Tabled
<1>10. Counted
  BY <1>1, <1>4, <1>5 DEF Counted
<1> QED
  BY <1>7, <1>8, <1>9, <1>10 DEF TypeInv

(* A step that lets the code or the tables grow keeps the types. *)
LEMMA GrowTypes ==
  ASSUME TypeInv, job' = job, i' \in Nat, Tabled',
         fn'.name = fn.name, fn'.maxstack = fn.maxstack, fn'.args = fn.args,
         fn'.returns = fn.returns, fn'.off = fn.off, fn'.labels = fn.labels,
         obj'.funcs = obj.funcs, obj'.entry = obj.entry,
         obj'.code \in Seq(CodeWords), Len(obj'.code) >= Len(obj.code),
         job = "assemble" =>
           Len(obj'.code) < i' /\ Len(obj'.constants) < i' /\ Len(obj'.tools) < i'
  PROVE  TypeInv'
<1>1. Len(obj.code) \in Nat /\ Len(obj'.code) \in Nat
  BY Lengths
<1>2. 0 .. Len(obj.code) \subseteq 0 .. Len(obj'.code)
  BY <1>1
<1>3. TypeOK'
  <2>1. TypeOK
    BY DEF TypeInv
  <2>2. \A s \in DOMAIN fn.labels : fn.labels[s] \in 0 .. Len(obj'.code)
    BY <1>2, <2>1 DEF TypeOK
  <2> QED
    BY <2>1, <2>2 DEF TypeOK
<1>4. Fields'
  BY <1>2 DEF TypeInv, Fields
<1>5. Counted'
  BY DEF Counted
<1> QED
  BY <1>3, <1>4, <1>5 DEF TypeInv

(* A tool or a constant gets the next index, and a name for it. *)
LEMMA TableTypes ==
  ASSUME IInv, OneInv, TypeInv, Tool \/ Const \/ ConstStr
  PROVE  TypeInv'
<1>1. /\ IsObj(obj) /\ job' = job /\ fn' = fn /\ i \in Nat
      /\ Len(obj.code) \in Nat /\ Len(obj.constants) \in Nat /\ Len(obj.tools) \in Nat
  BY Lengths DEF IInv, Tool, Const, ConstStr, Calling, Skip
<1>2. Tabled /\ obj.code \in Seq(CodeWords)
      /\ (job = "assemble" => Len(obj.code) < i /\ Len(obj.constants) < i /\ Len(obj.tools) < i)
  BY DEF TypeInv, TypeOK, Counted
<1>3. CASE Tool
  <2>1. i' = i + 2 /\ obj' = [obj EXCEPT !.tools = Append(@, toks[i + 1].s)]
        /\ index' = [index EXCEPT !.tools = Put(@, toks[i + 1].s, Len(obj.tools))]
    BY <1>3 DEF Tool, Skip, After
  <2>2. /\ obj'.funcs = obj.funcs /\ obj'.entry = obj.entry /\ obj'.code = obj.code
        /\ obj'.constants = obj.constants /\ obj'.tools = Append(obj.tools, toks[i + 1].s)
    BY <1>1, <2>1 DEF IsObj
  <2>3. IsSeq(obj'.tools) /\ Len(obj'.tools) = Len(obj.tools) + 1
    BY <1>2, <2>2, SeqGrows DEF Tabled
  <2>4. Tabled'
    <3>1. /\ index' = [constants |-> index.constants, tools |-> index'.tools]
          /\ index'.tools = Put(index.tools, toks[i + 1].s, Len(obj.tools))
          /\ index'.constants = index.constants
      BY <1>2, <2>1 DEF Tabled
    <3>2. \A s \in DOMAIN index'.tools : index'.tools[s] \in 0 .. Len(obj.tools)
      BY <1>1, <1>2, <3>1 DEF Tabled, Put
    <3>3. Len(obj'.tools) - 1 = Len(obj.tools)
      BY <1>1, <2>3
    <3> QED
      BY <1>2, <2>2, <2>3, <3>1, <3>2, <3>3 DEF Tabled
  <2> QED
    BY <1>1, <1>2, <2>1, <2>2, <2>3, <2>4, GrowTypes
<1>4. CASE Const
  <2>1. i' = i + 3 /\ obj' = [obj EXCEPT !.constants = Append(@, toks[i + 2])]
        /\ index' = [index EXCEPT !.constants = Put(@, toks[i + 1].s, Len(obj.constants))]
    BY <1>4 DEF Const, Skip, After
  <2>2. /\ obj'.funcs = obj.funcs /\ obj'.entry = obj.entry /\ obj'.code = obj.code
        /\ obj'.tools = obj.tools /\ obj'.constants = Append(obj.constants, toks[i + 2])
    BY <1>1, <2>1 DEF IsObj
  <2>3. IsSeq(obj'.constants) /\ Len(obj'.constants) = Len(obj.constants) + 1
    BY <1>2, <2>2, SeqGrows DEF Tabled
  <2>4. Tabled'
    <3>1. /\ index' = [constants |-> index'.constants, tools |-> index.tools]
          /\ index'.constants = Put(index.constants, toks[i + 1].s, Len(obj.constants))
          /\ index'.tools = index.tools
      BY <1>2, <2>1 DEF Tabled
    <3>2. \A s \in DOMAIN index'.constants : index'.constants[s] \in 0 .. Len(obj.constants)
      BY <1>1, <1>2, <3>1 DEF Tabled, Put
    <3>3. Len(obj'.constants) - 1 = Len(obj.constants)
      BY <1>1, <2>3
    <3> QED
      BY <1>2, <2>2, <2>3, <3>1, <3>2, <3>3 DEF Tabled
  <2> QED
    BY <1>1, <1>2, <2>1, <2>2, <2>3, <2>4, GrowTypes
<1>5. CASE ConstStr
  <2>1. job = "build" /\ i' = i + 1 /\ index' = index
        /\ obj' = [obj EXCEPT !.constants = Append(@, [kind |-> "Str", s |-> "c"])]
    BY <1>5 DEF ConstStr, Calling, Skip
  <2>2. /\ obj'.funcs = obj.funcs /\ obj'.entry = obj.entry /\ obj'.code = obj.code
        /\ obj'.tools = obj.tools
        /\ obj'.constants = Append(obj.constants, [kind |-> "Str", s |-> "c"])
    BY <1>1, <2>1 DEF IsObj
  <2>3. IsSeq(obj'.constants) /\ Len(obj'.constants) = Len(obj.constants) + 1
    BY <1>2, <2>2, SeqGrows DEF Tabled
  <2>4. Tabled'
    <3>1. 0 .. Len(obj.constants) - 1 \subseteq 0 .. Len(obj'.constants) - 1
      BY <1>1, <2>3
    <3> QED
      BY <1>2, <2>1, <2>2, <2>3, <3>1 DEF Tabled
  <2>5. i' \in Nat /\ job # "assemble"
    BY <1>1, <2>1
  <2> QED
    BY <1>1, <1>2, <2>2, <2>4, <2>5, GrowTypes
<1> QED
  BY <1>3, <1>4, <1>5

(* An instruction of the source adds the words of its encoding. *)
LEMMA InstructionTypes == ASSUME IInv, OneInv, TypeInv, Instruction PROVE TypeInv'
<1> DEFINE op == toks[i].s
           class == TABLE[op].operand
           t == toks[i + 1]
           b == OperandWord(class, t)
           word == Encode(op, 0, b)
<1>1. /\ i \in 1 .. Len(toks) /\ op \in Ops /\ b \in Operands
      /\ Len(word) \in 1 .. i' - i /\ i' \in Nat
  BY Accepts
<1>2. /\ IsObj(obj) /\ IsFn(fn) /\ i \in Nat /\ job' = job /\ index' = index
      /\ Len(obj.code) \in Nat /\ Len(obj.constants) \in Nat /\ Len(obj.tools) \in Nat
      /\ Tabled /\ obj.code \in Seq(CodeWords)
      /\ (job = "assemble" => Len(obj.code) < i /\ Len(obj.constants) < i /\ Len(obj.tools) < i)
  BY Lengths DEF IInv, Instruction, Skip, TypeInv, TypeOK, Counted
<1>3. /\ obj' = [obj EXCEPT
                  !.constants = IF class = "Const" /\ t.kind = "Str" THEN Append(@, t) ELSE @,
                  !.tables = IF op = "switch" THEN Append(@, <<0>>) ELSE @,
                  !.code = @ \o word]
      /\ \E x : fn' \in {fn, [fn EXCEPT !.pending = x]}
  BY DEF Instruction, Tok, After
<1>4. word \in Seq(CodeWords)
  BY <1>1, Encoded
<1> HIDE DEF op, class, t, b, word
<1>5. /\ obj'.funcs = obj.funcs /\ obj'.entry = obj.entry /\ obj'.code = obj.code \o word
      /\ obj'.tools = obj.tools
      /\ obj'.constants = obj.constants \/ obj'.constants = Append(obj.constants, t)
  BY <1>2, <1>3 DEF IsObj
<1>6. /\ fn'.name = fn.name /\ fn'.maxstack = fn.maxstack /\ fn'.args = fn.args
      /\ fn'.returns = fn.returns /\ fn'.off = fn.off /\ fn'.labels = fn.labels
  BY <1>2, <1>3 DEF IsFn
<1>7. IsSeq(obj'.constants) /\ Len(obj'.constants) \in Len(obj.constants) .. Len(obj.constants) + 1
  <2>1. IsSeq(obj.constants)
    BY <1>2 DEF Tabled
  <2>2. IsSeq(Append(obj.constants, t)) /\ Len(Append(obj.constants, t)) = Len(obj.constants) + 1
    BY <2>1, SeqGrows
  <2>3. Len(obj.constants) \in Len(obj.constants) .. Len(obj.constants) + 1
        /\ Len(obj.constants) + 1 \in Len(obj.constants) .. Len(obj.constants) + 1
    BY <1>2
  <2>4. CASE obj'.constants = obj.constants
    BY <2>1, <2>3, <2>4
  <2>5. CASE obj'.constants = Append(obj.constants, t)
    BY <2>2, <2>3, <2>5
  <2> QED
    BY <1>5, <2>4, <2>5
<1>8. obj'.code \in Seq(CodeWords) /\ Len(obj'.code) = Len(obj.code) + Len(word)
      /\ Len(word) \in Nat
  BY <1>2, <1>4, <1>5
<1>9. Tabled'
  <2>1. 0 .. Len(obj.constants) - 1 \subseteq 0 .. Len(obj'.constants) - 1
    BY <1>2, <1>7
  <2> QED
    BY <1>2, <1>5, <1>7, <2>1 DEF Tabled
<1>10. i' >= i + Len(word) /\ Len(word) >= 1
  BY <1>1, <1>2, <1>8
<1>11. Len(obj'.code) >= Len(obj.code)
  BY <1>2, <1>8
<1>12. job = "assemble" =>
         Len(obj'.code) < i' /\ Len(obj'.constants) < i' /\ Len(obj'.tools) < i'
  <2> SUFFICES ASSUME job = "assemble"
               PROVE  Len(obj'.code) < i' /\ Len(obj'.constants) < i' /\ Len(obj'.tools) < i'
    OBVIOUS
  <2>1. Len(obj.code) < i /\ Len(obj.constants) < i /\ Len(obj.tools) < i
    BY <1>2
  <2>2. Len(obj'.tools) < i'
    BY <1>1, <1>2, <1>5, <1>8, <1>10, <2>1
  <2>3. Len(obj'.constants) < i'
    BY <1>1, <1>2, <1>7, <1>8, <1>10, <2>1
  <2>4. Len(obj'.code) < i'
    BY <1>1, <1>2, <1>8, <1>10, <2>1
  <2> QED
    BY <2>2, <2>3, <2>4
<1> QED
  BY <1>1, <1>2, <1>5, <1>6, <1>8, <1>9, <1>11, <1>12, GrowTypes

(* An instruction of a front end, which fits by its types. *)
LEMMA BuilderInsnTypes == ASSUME IInv, OneInv, TypeInv, BuilderInsn PROVE TypeInv'
<1>1. /\ IsObj(obj) /\ fn' = fn /\ i \in Nat /\ i' = i + 1 /\ job' = job /\ job = "build"
      /\ index' = index /\ Len(obj.code) \in Nat /\ Tabled /\ obj.code \in Seq(CodeWords)
  BY Lengths DEF IInv, BuilderInsn, Calling, Skip, TypeInv, TypeOK
<1>2. PICK d \in Insns : obj' = [obj EXCEPT !.code = @ \o Encode(d.op, d.a, d.b)]
  BY DEF BuilderInsn
<1>3. d.op \in Ops /\ d.a \in Nat /\ d.b \in Operands
  BY InsnsAssumption
<1>4. Encode(d.op, d.a, d.b) \in Seq(CodeWords)
  BY <1>3, Encoded
<1>5. /\ obj'.funcs = obj.funcs /\ obj'.entry = obj.entry /\ obj'.tools = obj.tools
      /\ obj'.constants = obj.constants /\ obj'.code = obj.code \o Encode(d.op, d.a, d.b)
  BY <1>1, <1>2 DEF IsObj
<1> DEFINE word == Encode(d.op, d.a, d.b)
<1>6. obj'.code \in Seq(CodeWords) /\ Len(obj'.code) >= Len(obj.code)
  <2> HIDE DEF word
  <2>1. Len(word) \in Nat /\ obj'.code = obj.code \o word /\ word \in Seq(CodeWords)
    BY <1>4, <1>5 DEF word
  <2>2. Len(obj'.code) = Len(obj.code) + Len(word) /\ obj'.code \in Seq(CodeWords)
    BY <1>1, <2>1
  <2> QED
    BY <1>1, <2>1, <2>2
<1>7. Tabled'
  BY <1>1, <1>5 DEF Tabled
<1>8. i' \in Nat /\ job # "assemble"
  BY <1>1
<1> QED
  BY <1>1, <1>5, <1>6, <1>7, <1>8, GrowTypes

(* A function that is closed has fields of their widths. *)
LEMMA ClosedTypes ==
  ASSUME IInv, TypeInv, NEW m \in 0 .. Units - 1
  PROVE  LET c == Closed(obj, fn, m)
         IN /\ c.code = obj.code /\ c.constants = obj.constants /\ c.tools = obj.tools
            /\ Len(c.entry) <= 1
            /\ \A k \in DOMAIN c.funcs :
                 /\ c.funcs[k].maxstack \in 0 .. Units - 1
                 /\ c.funcs[k].args \in 0 .. 255 /\ c.funcs[k].returns \in 0 .. 1
                 /\ c.funcs[k].off \in Nat /\ c.funcs[k].len \in Nat
<1> DEFINE c == Closed(obj, fn, m)
           Fits(f) == /\ f.maxstack \in 0 .. Units - 1
                      /\ f.args \in 0 .. 255 /\ f.returns \in 0 .. 1
                      /\ f.off \in Nat /\ f.len \in Nat
           r == [name |-> fn.name[1], off |-> fn.off, len |-> Len(obj.code) - fn.off,
                 maxstack |-> m, args |-> fn.args, returns |-> fn.returns]
<1>1. /\ IsObj(obj) /\ IsSeq(obj.funcs) /\ Fields /\ Len(obj.entry) <= 1
      /\ \A k \in DOMAIN obj.funcs : Fits(obj.funcs[k])
      /\ Len(obj.code) \in Nat
  BY Lengths DEF IInv, Tiles, TypeInv, TypeOK
<1>2. CASE fn.name = <<>>
  BY <1>1, <1>2 DEF Closed
<1>3. CASE fn.name # <<>>
  <2>1. /\ c.code = obj.code /\ c.constants = obj.constants /\ c.tools = obj.tools
        /\ c.funcs = Append(obj.funcs, r)
        /\ c.entry = IF fn.name = <<"main">> THEN fn.name ELSE obj.entry
    BY <1>1, <1>3 DEF Closed, IsObj
  <2>2. Fits(r)
    BY <1>1 DEF Fields
  <2> HIDE DEF c, Fits, r
  <2>3. Len(c.entry) <= 1
    <3>1. Len(<<"main">>) = 1
      OBVIOUS
    <3>2. c.entry = <<"main">> \/ c.entry = obj.entry
      BY <2>1
    <3>3. Len(obj.entry) <= 1
      BY <1>1
    <3>4. CASE c.entry = <<"main">>
      <4>1. Len(c.entry) = 1
        BY <3>1, <3>4
      <4> QED
        BY <4>1
    <3>5. CASE c.entry = obj.entry
      BY <3>3, <3>5
    <3> QED
      BY <3>2, <3>4, <3>5
  <2>4. PICK S : obj.funcs \in Seq(S)
    BY <1>1 DEF IsSeq
  <2>5. obj.funcs \in Seq(S \cup {r}) /\ r \in S \cup {r}
    BY <2>4, SeqMonotonic
  <2>6. \A k \in DOMAIN c.funcs : Fits(c.funcs[k])
    BY <1>1, <2>1, <2>2, <2>5
  <2> QED
    BY <2>1, <2>3, <2>6 DEF Fits, c
<1> QED
  BY <1>2, <1>3

(* The code, the tables and what is counted stay when a function is closed. *)
LEMMA CloseStays ==
  ASSUME IInv, TypeInv, NEW m \in 0 .. Units - 1, job' = job, index' = index,
         obj' = Closed(obj, fn, m), i' \in Nat, i' >= i, Fields',
         \A s \in DOMAIN fn'.labels : fn'.labels[s] \in 0 .. Len(obj.code)
  PROVE  TypeInv'
<1>1. /\ obj'.code = obj.code /\ obj'.constants = obj.constants /\ obj'.tools = obj.tools
      /\ Len(obj'.entry) <= 1
      /\ \A k \in DOMAIN obj'.funcs :
           /\ obj'.funcs[k].maxstack \in 0 .. Units - 1
           /\ obj'.funcs[k].args \in 0 .. 255 /\ obj'.funcs[k].returns \in 0 .. 1
           /\ obj'.funcs[k].off \in Nat /\ obj'.funcs[k].len \in Nat
  <2> DEFINE c == Closed(obj, fn, m)
  <2>1. /\ c.code = obj.code /\ c.constants = obj.constants /\ c.tools = obj.tools
        /\ Len(c.entry) <= 1
        /\ \A k \in DOMAIN c.funcs :
             /\ c.funcs[k].maxstack \in 0 .. Units - 1
             /\ c.funcs[k].args \in 0 .. 255 /\ c.funcs[k].returns \in 0 .. 1
             /\ c.funcs[k].off \in Nat /\ c.funcs[k].len \in Nat
    BY ClosedTypes
  <2>2. obj' = c
    OBVIOUS
  <2> HIDE DEF c
  <2> QED
    BY <2>1, <2>2
<1>2. TypeOK'
  BY <1>1 DEF TypeInv, TypeOK
<1>3. Tabled'
  BY <1>1 DEF TypeInv, Tabled
<1>4. Counted'
  <2> SUFFICES ASSUME job' = "assemble"
               PROVE  Len(obj'.code) < i' /\ Len(obj'.constants) < i' /\ Len(obj'.tools) < i'
    BY DEF Counted
  <2>1. Len(obj.code) < i /\ Len(obj.constants) < i /\ Len(obj.tools) < i
    BY DEF TypeInv, Counted
  <2> QED
    BY <1>1, <2>1, Lengths
<1> QED
  BY <1>2, <1>3, <1>4 DEF TypeInv

(* The two ends and the start of a Builder's function. *)
LEMMA ClosingTypes ==
  ASSUME IInv, OneInv, TypeInv, Finish \/ BeginFn \/ BuilderFinish
  PROVE  TypeInv'
<1>1. /\ i \in Nat /\ Len(obj.code) \in Nat /\ Fields /\ Units > 1 /\ Units \in Nat
      /\ \A s \in DOMAIN fn.labels : fn.labels[s] \in 0 .. Len(obj.code)
  BY Lengths, UnitsAssumption DEF TypeInv, TypeOK
<1>2. CASE Finish
  <2>1. job' = job /\ index' = index /\ i' = i /\ fn' = fn
    BY <1>2 DEF Finish
  <2>2. CASE FinishFault # "ok"
    <3>1. obj' = obj
      BY <1>2, <2>2 DEF Finish
    <3>2. Fields'
      BY <1>1, <2>1, <3>1 DEF Fields
    <3> QED
      BY <1>1, <2>1, <3>1, <3>2, Lengths, TypesStay
  <2>3. CASE FinishFault = "ok"
    <3>1. obj' = Closed(obj, fn, fn.maxstack[1]) /\ fn.name # <<>> /\ fn.maxstack # <<>>
      BY <1>2, <2>3 DEF Finish, FinishFault
    <3>2. fn.maxstack[1] \in 0 .. Units - 1
      BY <1>1, <3>1 DEF Fields
    <3>3. obj'.code = obj.code
      BY <3>1, <3>2, ClosedTypes
    <3>4. Fields'
      BY <1>1, <2>1, <3>3 DEF Fields
    <3> QED
      BY <1>1, <2>1, <3>1, <3>2, <3>4, CloseStays
  <2> QED
    BY <2>2, <2>3
<1> DEFINE m == IF fn.maxstack = <<>> THEN 0 ELSE fn.maxstack[1]
<1>3. m \in 0 .. Units - 1 /\ CloseFn = Closed(obj, fn, m)
  BY <1>1 DEF Fields, CloseFn
<1>4. Closed(obj, fn, m).code = obj.code
  BY <1>3, ClosedTypes
<1> HIDE DEF m
<1>5. CASE BeginFn
  <2>1. job' = job /\ index' = index /\ i' = i + 1 /\ obj' = Closed(obj, fn, m)
    BY <1>3, <1>5 DEF BeginFn, Calling, Skip
  <2>2. PICK name : fn' = [NewFn(<<name>>, Len(obj.code)) EXCEPT !.maxstack = <<1>>]
    BY <1>5 DEF BeginFn
  <2>3. /\ fn'.name = <<name>> /\ fn'.maxstack = <<1>> /\ fn'.args = 0 /\ fn'.returns = 1
        /\ fn'.off = Len(obj.code) /\ fn'.labels = NoNames /\ DOMAIN NoNames = {}
    BY <2>2 DEF NewFn, NoNames
  <2>4. Fields'
    BY <1>1, <1>4, <2>1, <2>3 DEF Fields
  <2>5. i' \in Nat /\ i' >= i
    BY <1>1, <2>1
  <2> QED
    BY <1>3, <2>1, <2>3, <2>4, <2>5, CloseStays
<1>6. CASE BuilderFinish
  <2>1. job' = job /\ index' = index /\ i' = i /\ fn' = fn /\ obj' = Closed(obj, fn, m)
    BY <1>3, <1>6 DEF BuilderFinish
  <2>2. Fields'
    BY <1>1, <1>4, <2>1 DEF Fields
  <2> QED
    BY <1>1, <1>3, <2>1, <2>2, CloseStays
<1> QED
  BY <1>2, <1>5, <1>6

(* Every step keeps the types. *)
LEMMA TypesStep == IInv /\ OneInv /\ TypeInv /\ [Next]_vars => TypeInv'
<1> SUFFICES ASSUME IInv, OneInv, TypeInv, [Next]_vars PROVE TypeInv'
  OBVIOUS
<1>1. CASE Reject \/ IsaLine \/ Image \/ LineEnd \/ FnHeader \/ Signature \/ FnBegin
             \/ Maxstack \/ Label \/ BuilderLabel
  BY <1>1, FunctionTypes
<1>2. CASE Tool \/ Const \/ ConstStr
  BY <1>2, TableTypes
<1>3. CASE Instruction
  BY <1>3, InstructionTypes
<1>4. CASE BuilderInsn
  BY <1>4, BuilderInsnTypes
<1>5. CASE Finish \/ BeginFn \/ BuilderFinish
  BY <1>5, ClosingTypes
<1>6. CASE UNCHANGED vars
  <2>1. UNCHANGED <<obj, fn, index, i, job>>
    BY <1>6 DEF vars
  <2>2. TypeOK' <=> TypeOK
    BY <2>1 DEF TypeOK
  <2>3. Fields' <=> Fields
    BY <2>1 DEF Fields
  <2>4. Tabled' <=> Tabled
    BY <2>1 DEF Tabled
  <2>5. Counted' <=> Counted
    BY <2>1 DEF Counted
  <2> QED
    BY <2>2, <2>3, <2>4, <2>5 DEF TypeInv
<1> QED
  BY <1>1, <1>2, <1>3, <1>4, <1>5, <1>6 DEF Next, Assembling, Building, Returned

(* Every field of an object fits its width, whatever is assembled or built:  *)
(* operands above all, which are indices of tables as long as the source.   *)
THEOREM TypeCorrect == Spec => []TypeOK
<1>1. Init => IInv /\ OneInv /\ TypeInv
  BY InitHolds, InitOne, InitTypes
<1>2. (IInv /\ OneInv /\ TypeInv) /\ [Next]_vars => (IInv /\ OneInv /\ TypeInv)'
  BY StepHolds, OneStep, TypesStep
<1>3. TypeInv => TypeOK
  BY DEF TypeInv
<1> QED
  BY <1>1, <1>2, <1>3, PTL DEF Spec

-----------------------------------------------------------------------------
(* Meaning.  The instruction that decode returns of an encoded one; what it  *)
(* has in common with the one asked for, by an object's tables; and a body   *)
(* of code that keeps, in order, every instruction asked for.                *)
InsnOf(op, a, b) == [op |-> op, a |-> a, b |-> b, len |-> Len(Encode(op, a, b))]

Says(o, x, d) ==
  /\ x.op = d.op /\ x.a = d.a
  /\ Unsigned(x) => d.b = AtMost(Magnitude(x.operand.n), Units * Units - 1)
  /\ Class(x) = "Imm" /\ x.operand.kind = "Int" /\ Keepable(x.operand.n) =>
       Imm2(d) = x.operand.n
  /\ Class(x) = "Const" /\ x.operand.kind \in {"Ident", "Str"} =>
       /\ d.b + 1 \in 1 .. Len(o.constants)
       /\ o.constants[d.b + 1] = IF x.operand.kind = "Str" THEN x.operand ELSE x.meant
  /\ Class(x) = "Tool" /\ x.operand.kind = "Ident" =>
       d.b + 1 \in 1 .. Len(o.tools) /\ o.tools[d.b + 1] = x.operand.s

Branches(x, ds, d) ==
  Class(x) = "Target" /\ x.meant # <<>> =>
    x.meant[1] \in 1 .. Len(ds) + 1 /\ d.b = StartOf(ds, x.meant[1])

Keeps(o, body, xs) ==
  LET ds == Decoded(body)
  IN /\ body \in Seq(CodeWords) /\ IsSeq(xs)
     /\ Reads(body, ds) /\ Len(ds) = Len(xs)
     /\ \A n \in 1 .. Len(xs) : Says(o, xs[n], ds[n]) /\ Branches(xs[n], ds, ds[n])

(* Code behind an instruction does not change how it decodes. *)
LEMMA DecodeStays ==
  ASSUME NEW body \in Seq(CodeWords), NEW t \in Seq(CodeWords), NEW at \in Nat,
         Decode(body, at) # <<>>
  PROVE  Decode(body \o t, at) = Decode(body, at)
<1> DEFINE code == body \o t
<1>1. /\ Len(body) \in Nat /\ Len(code) \in Nat /\ Len(body) <= Len(code)
      /\ \A k \in 1 .. Len(body) : code[k] = body[k]
  OBVIOUS
<1> HIDE DEF code
<1>2. \A k \in Nat : k < Len(body) => WordAt(code, k) = WordAt(body, k)
  <2> TAKE k \in Nat
  <2>1. k < Len(body) => k + 1 \in 1 .. Len(body) /\ k < Len(code)
    BY <1>1
  <2> QED
    BY <1>1, <2>1 DEF WordAt
<1>3. \A k \in Nat : k >= Len(body) => WordAt(body, k) = <<>>
  BY <1>1 DEF WordAt
<1>4. at < Len(body)
  <2>1. WordAt(body, at) # <<>>
    BY DEF Decode
  <2> QED
    BY <1>1, <1>3, <2>1
<1>5. WordAt(code, at) = WordAt(body, at)
  BY <1>2, <1>4
<1>6. CASE WordAt(body, at)[1].op = WIDE_PREFIX
  <2>1. WordAt(body, at + 1) # <<>>
    BY <1>6 DEF Decode
  <2>2. at + 1 < Len(body)
    BY <1>1, <1>3, <2>1
  <2>3. WordAt(code, at + 1) = WordAt(body, at + 1)
    BY <1>2, <2>2
  <2>4. Decode(code, at) = Decode(body, at)
    BY <1>5, <2>3 DEF Decode
  <2> QED
    BY <2>4 DEF code
<1>7. CASE WordAt(body, at)[1].op # WIDE_PREFIX
  <2>1. Decode(code, at) = Decode(body, at)
    BY <1>5, <1>7 DEF Decode
  <2> QED
    BY <2>1 DEF code
<1> QED
  BY <1>6, <1>7

(* A body that is read is read on when an instruction is encoded behind it. *)
LEMMA ReadsOn ==
  ASSUME NEW body \in Seq(CodeWords), NEW ds, Reads(body, ds),
         NEW op \in Ops, NEW a \in Nat, NEW b \in Operands
  PROVE  Reads(body \o Encode(op, a, b), Append(ds, InsnOf(op, a, b)))
<1> DEFINE w == Encode(op, a, b)
           d == InsnOf(op, a, b)
           es == Append(ds, d)
           len == Len(ds)
<1>1. /\ ds \in Seq(Insn2) /\ len \in Nat /\ StartOf(ds, len + 1) = Len(body)
      /\ \A n \in 1 .. len : Decode(body, StartOf(ds, n)) = <<ds[n]>>
  BY DEF Reads
<1>2. w \in Seq(CodeWords) /\ Len(w) \in {1, 2} /\ Len(body) \in Nat
  <2>1. b < Units \/ b >= Units
    BY UnitsAssumption DEF Operands
  <2> QED
    BY <2>1, Encoded
<1>3. d \in Insn2 /\ d.len = Len(w)
  BY <1>2 DEF InsnOf, Insn2
<1>4. Decode(body \o w, Len(body)) = <<d>>
  <2>1. Decode(body \o w \o <<>>, Len(body)) = <<d>>
    <3>1. <<>> \in Seq(CodeWords)
      OBVIOUS
    <3>2. Decode(body \o w \o <<>>, Len(body)) =
            <<[op |-> op, a |-> a, b |-> b, len |-> Len(w)]>>
      BY <3>1, DecodeEncodes
    <3> QED
      BY <3>2 DEF InsnOf
  <2>2. body \o w \in Seq(CodeWords)
    BY <1>2
  <2>3. (body \o w) \o <<>> = body \o w
    <3> HIDE DEF w
    <3> QED
      BY <2>2
  <2> QED
    BY <2>1, <2>3
<1> HIDE DEF d, w
<1>5. /\ es \in Seq(Insn2) /\ Len(es) = len + 1 /\ es[len + 1] = d
      /\ \A m \in 1 .. len : es[m] = ds[m]
  BY <1>1, <1>3
<1>6. Len(body \o w) = Len(body) + Len(w)
  BY <1>2
<1> HIDE DEF es
<1>7. \A n \in 1 .. len + 1 : StartOf(es, n) = StartOf(ds, n) /\ StartOf(ds, n) \in Nat
  <2> TAKE n \in 1 .. len + 1
  <2>1. n \in Nat /\ \A m \in 1 .. n - 1 : es[m] = ds[m]
    BY <1>1, <1>5
  <2>2. StartOf(es, n) = StartOf(ds, n)
    BY <2>1, StartsAlike
  <2>3. StartOf(ds, n) \in Nat
    BY <1>1, Starts
  <2> QED
    BY <2>2, <2>3
<1>8. StartOf(es, Len(es) + 1) = Len(body \o w)
  <2>1. len + 1 \in 1 .. Len(es) /\ len + 1 \in 1 .. len + 1
    BY <1>1, <1>5
  <2>2. StartOf(es, (len + 1) + 1) = StartOf(es, len + 1) + es[len + 1].len
    BY <1>5, <2>1, Starts
  <2>3. StartOf(es, len + 1) = Len(body)
    BY <1>1, <1>7, <2>1
  <2> QED
    BY <1>3, <1>5, <1>6, <2>2, <2>3
<1>9. ASSUME NEW n \in 1 .. Len(es)
      PROVE  Decode(body \o w, StartOf(es, n)) = <<es[n]>>
  <2>1. n \in 1 .. len + 1
    BY <1>5
  <2>2. CASE n \in 1 .. len
    <3>1. Decode(body, StartOf(ds, n)) = <<ds[n]>> /\ StartOf(ds, n) \in Nat
      BY <1>1, <1>7, <2>1, <2>2
    <3>2. Decode(body, StartOf(ds, n)) # <<>>
      BY <3>1
    <3>3. Decode(body \o w, StartOf(ds, n)) = <<ds[n]>>
      BY <1>2, <3>1, <3>2, DecodeStays
    <3> QED
      BY <1>5, <1>7, <2>1, <2>2, <3>3
  <2>3. CASE n = len + 1
    BY <1>1, <1>4, <1>5, <1>7, <2>1, <2>3
  <2> QED
    BY <1>1, <2>1, <2>2, <2>3
<1>10. Reads(body \o w, es)
  BY <1>5, <1>8, <1>9 DEF Reads
<1> QED
  BY <1>10 DEF w, es, d

(* Nothing is read of nothing. *)
LEMMA NothingKept == \A o : Keeps(o, <<>>, <<>>) /\ Decoded(<<>>) = <<>>
<1>1. <<>> \in Seq(Insn2) /\ <<>> \in Seq(CodeWords) /\ Len(<<>>) = 0 /\ IsSeq(<<>>)
  <2>1. <<>> \in Seq({}) /\ <<>> \in Seq(Insn2) /\ <<>> \in Seq(CodeWords) /\ Len(<<>>) = 0
    OBVIOUS
  <2> QED
    BY <2>1 DEF IsSeq
<1>2. StartOf(<<>>, 1) = 0
  BY <1>1, Starts
<1>3. Reads(<<>>, <<>>)
  <2>1. Len(<<>>) + 1 = 1 /\ \A n \in 1 .. Len(<<>>) : FALSE
    BY <1>1
  <2> QED
    BY <1>1, <1>2, <2>1 DEF Reads
<1>4. Decoded(<<>>) = <<>>
  BY <1>1, <1>3, ReadBack
<1>5. \A n \in 1 .. Len(<<>>) : FALSE
  BY <1>1
<1> QED
  BY <1>1, <1>3, <1>4, <1>5 DEF Keeps

(* A body keeps what was asked for with one more instruction encoded. *)
LEMMA KeepsOn ==
  ASSUME NEW o, NEW body, NEW xs, Keeps(o, body, xs),
         NEW op \in Ops, NEW a \in Nat, NEW b \in Operands, NEW x,
         Says(o, x, InsnOf(op, a, b)), Branches(x, Decoded(body), InsnOf(op, a, b))
  PROVE  /\ Keeps(o, body \o Encode(op, a, b), Append(xs, x))
         /\ Decoded(body \o Encode(op, a, b)) = Append(Decoded(body), InsnOf(op, a, b))
<1> DEFINE ds == Decoded(body)
           d == InsnOf(op, a, b)
           w == Encode(op, a, b)
           es == Append(ds, d)
           ys == Append(xs, x)
<1>1. /\ body \in Seq(CodeWords) /\ IsSeq(xs) /\ Reads(body, ds) /\ Len(ds) = Len(xs)
      /\ ds \in Seq(Insn2)
      /\ \A n \in 1 .. Len(xs) : Says(o, xs[n], ds[n]) /\ Branches(xs[n], ds, ds[n])
  BY DEF Keeps, Reads
<1>2. Says(o, x, d) /\ Branches(x, ds, d) /\ Reads(body \o w, es)
  BY <1>1, ReadsOn
<1>3. w \in Seq(CodeWords)
  BY Encoded
<1> HIDE DEF w
<1>4. body \o w \in Seq(CodeWords) /\ Len(body \o w) \in Nat
  BY <1>1, <1>3
<1>5. Decoded(body \o w) = es
  BY <1>2, <1>4, ReadBack
<1> HIDE DEF ds, d, es
<1>6. /\ IsSeq(ys) /\ Len(ys) = Len(xs) + 1 /\ Len(xs) \in Nat /\ ys[Len(xs) + 1] = x
      /\ \A n \in 1 .. Len(xs) : ys[n] = xs[n]
  BY <1>1, SeqGrows
<1>7. /\ es \in Seq(Insn2) /\ Len(es) = Len(xs) + 1 /\ es[Len(xs) + 1] = d
      /\ \A n \in 1 .. Len(xs) : es[n] = ds[n]
  <2>1. es \in Seq(Insn2)
    BY <1>2 DEF Reads
  <2>2. IsSeq(ds)
    BY <1>1 DEF IsSeq
  <2> QED
    BY <1>1, <2>1, <2>2, SeqGrows DEF es
<1>8. \A k \in 1 .. Len(ds) + 1 : StartOf(es, k) = StartOf(ds, k)
  <2> TAKE k \in 1 .. Len(ds) + 1
  <2>1. k \in Nat /\ \A m \in 1 .. k - 1 : es[m] = ds[m]
    BY <1>1, <1>6, <1>7
  <2> QED
    BY <2>1, StartsAlike
<1>9. \A y, e : Branches(y, ds, e) => Branches(y, es, e)
  <2> SUFFICES ASSUME NEW y, NEW e, Branches(y, ds, e), Class(y) = "Target", y.meant # <<>>
               PROVE  y.meant[1] \in 1 .. Len(es) + 1 /\ e.b = StartOf(es, y.meant[1])
    BY DEF Branches
  <2>1. y.meant[1] \in 1 .. Len(ds) + 1 /\ e.b = StartOf(ds, y.meant[1])
    BY DEF Branches
  <2> QED
    BY <1>1, <1>6, <1>7, <1>8, <2>1
<1>10. \A n \in 1 .. Len(ys) : Says(o, ys[n], es[n]) /\ Branches(ys[n], es, es[n])
  <2> TAKE n \in 1 .. Len(ys)
  <2>1. CASE n \in 1 .. Len(xs)
    BY <1>1, <1>6, <1>7, <1>9, <2>1
  <2>2. CASE n = Len(xs) + 1
    BY <1>2, <1>6, <1>7, <1>9, <2>2
  <2> QED
    BY <1>6, <2>1, <2>2
<1> HIDE DEF ys
<1>11. Keeps(o, body \o w, ys)
  BY <1>2, <1>4, <1>5, <1>6, <1>7, <1>10 DEF Keeps
<1> QED
  BY <1>5, <1>11 DEF w, ds, d, es, ys

-----------------------------------------------------------------------------
(* What a finished function keeps, and what the open one does.              *)
Widens(s, t) ==
  IsSeq(s) /\ IsSeq(t) /\ Len(s) <= Len(t) /\ \A k \in 1 .. Len(s) : t[k] = s[k]
Targeted(xs, names) ==
  \A n \in 1 .. Len(xs) :
    Class(xs[n]) = "Target" /\ xs[n].operand.kind = "Ident" => xs[n].operand.s \in names
Part(o, off, len) == SubSeq(o.code, off + 1, off + len)
ClosedKept(o, src, names) ==
  \A k \in 1 .. Len(o.funcs) :
    LET f == o.funcs[k]
    IN /\ f.off \in Nat /\ f.len \in Nat /\ f.off + f.len <= Len(o.code)
       /\ k + 1 <= Len(src)
       /\ Keeps(o, Part(o, f.off, f.len), src[k + 1]) /\ Targeted(src[k + 1], names)

OpenBody == SubSeq(obj.code, fn.off + 1, Len(obj.code))
Awaited == IF job = "assemble" THEN DOMAIN fn.labels \cup ToSet(fn.pending) ELSE {}
Labelled ==
  job = "assemble" =>
    /\ DOMAIN fn.labels = DOMAIN meaning.labels
    /\ \A s \in DOMAIN fn.labels :
         /\ meaning.labels[s] \in 1 .. Len(Latest) + 1
         /\ fn.labels[s] = StartOf(Decoded(OpenBody), meaning.labels[s])
Sourced == IsSeq(source) /\ Len(source) = Len(obj.funcs) + Len(fn.name) + 1
OpenKept ==
  /\ Sourced /\ Labelled /\ IsSeq(fn.pending)
  /\ Keeps(obj, OpenBody, Latest) /\ Targeted(Latest, Awaited)
Named ==
  /\ meaning = [constants |-> meaning.constants, labels |-> meaning.labels]
  /\ DOMAIN index.constants = DOMAIN meaning.constants
  /\ \A s \in DOMAIN index.constants :
       obj.constants[index.constants[s] + 1] = meaning.constants[s]
  /\ \A s \in DOMAIN index.tools : obj.tools[index.tools[s] + 1] = s

(* Inductive: the closed functions and the open one keep what was asked of  *)
(* them, and the tables say what the names mean.                            *)
MeantInv ==
  /\ Named
  /\ status = "open" => OpenKept
  /\ ClosedKept(obj, source, DOMAIN meaning.labels)

(* A sequence widens to itself and to itself with one more. *)
LEMMA WidensOn ==
  ASSUME NEW s, IsSeq(s)
  PROVE  Widens(s, s) /\ \A x : Widens(s, Append(s, x))
<1>1. Len(s) \in Nat
  BY SeqGrows
<1>2. Widens(s, s)
  BY <1>1 DEF Widens
<1>3. ASSUME NEW x PROVE Widens(s, Append(s, x))
  <2> DEFINE t == Append(s, x)
  <2>1. IsSeq(t) /\ Len(t) = Len(s) + 1 /\ \A k \in 1 .. Len(s) : t[k] = s[k]
    BY SeqGrows
  <2> HIDE DEF t
  <2>2. Widens(s, t)
    BY <1>1, <2>1 DEF Widens
  <2> QED
    BY <2>2 DEF t
<1> QED
  BY <1>2, <1>3

(* What an instruction says by the tables it says by longer ones. *)
LEMMA SaysStays ==
  ASSUME NEW o, NEW p, Widens(o.constants, p.constants), Widens(o.tools, p.tools),
         NEW x, NEW d, Says(o, x, d)
  PROVE  Says(p, x, d)
<1>1. /\ Len(o.constants) \in Nat /\ Len(p.constants) \in Nat
      /\ Len(o.tools) \in Nat /\ Len(p.tools) \in Nat
  BY SeqGrows DEF Widens
<1>2. /\ 1 .. Len(o.constants) \subseteq 1 .. Len(p.constants)
      /\ 1 .. Len(o.tools) \subseteq 1 .. Len(p.tools)
  BY <1>1 DEF Widens
<1> QED
  BY <1>2 DEF Says, Widens

(* A body keeps what it keeps when the tables grow. *)
LEMMA KeepsStays ==
  ASSUME NEW o, NEW p, Widens(o.constants, p.constants), Widens(o.tools, p.tools),
         NEW body, NEW xs, Keeps(o, body, xs)
  PROVE  Keeps(p, body, xs)
<1>1. \A x, d : Says(o, x, d) => Says(p, x, d)
  BY SaysStays
<1> QED
  BY <1>1 DEF Keeps

(* Windows of the code stay when the code grows. *)
LEMMA PartStays ==
  ASSUME NEW s \in Seq(CodeWords), NEW t \in Seq(CodeWords), Widens(s, t),
         NEW off \in Nat, NEW len \in Nat, off + len <= Len(s)
  PROVE  SubSeq(t, off + 1, off + len) = SubSeq(s, off + 1, off + len)
<1> DEFINE u == SubSeq(s, off + 1, off + len)
           v == SubSeq(t, off + 1, off + len)
<1>1. Len(s) \in Nat /\ Len(t) \in Nat /\ Len(s) <= Len(t) /\ \A k \in 1 .. Len(s) : t[k] = s[k]
  BY DEF Widens
<1>2. u \in Seq(CodeWords) /\ Len(u) = len /\ \A k \in 1 .. len : u[k] = s[off + k]
  BY <1>1
<1>3. v \in Seq(CodeWords) /\ Len(v) = len /\ \A k \in 1 .. len : v[k] = t[off + k]
  BY <1>1
<1>4. \A k \in 1 .. len : off + k \in 1 .. Len(s)
  BY <1>1
<1> HIDE DEF u, v
<1>5. \A k \in 1 .. Len(u) : v[k] = u[k]
  BY <1>1, <1>2, <1>3, <1>4
<1>6. v = u
  BY <1>2, <1>3, <1>5, SeqEqual
<1> QED
  BY <1>6 DEF u, v

(* The closed functions keep what they keep. *)
LEMMA ClosedStays ==
  ASSUME NEW o, NEW p, NEW src, NEW src2, NEW names, NEW names2,
         ClosedKept(o, src, names), p.funcs = o.funcs,
         o.code \in Seq(CodeWords), p.code \in Seq(CodeWords), Widens(o.code, p.code),
         Widens(o.constants, p.constants), Widens(o.tools, p.tools),
         Len(src) \in Nat, Len(src2) \in Nat, Len(src) <= Len(src2),
         \A k \in 1 .. Len(o.funcs) : src2[k + 1] = src[k + 1],
         names2 = names \/ Len(o.funcs) = 0
  PROVE  ClosedKept(p, src2, names2)
<1> SUFFICES ASSUME NEW k \in 1 .. Len(p.funcs)
             PROVE  LET f == p.funcs[k]
                    IN /\ f.off \in Nat /\ f.len \in Nat /\ f.off + f.len <= Len(p.code)
                       /\ k + 1 <= Len(src2)
                       /\ Keeps(p, Part(p, f.off, f.len), src2[k + 1])
                       /\ Targeted(src2[k + 1], names2)
  BY DEF ClosedKept
<1> DEFINE f == o.funcs[k]
<1>1. /\ f.off \in Nat /\ f.len \in Nat /\ f.off + f.len <= Len(o.code) /\ k + 1 <= Len(src)
      /\ Keeps(o, Part(o, f.off, f.len), src[k + 1]) /\ Targeted(src[k + 1], names)
  BY DEF ClosedKept
<1>2. Part(p, f.off, f.len) = Part(o, f.off, f.len)
  BY <1>1, PartStays DEF Part
<1>3. Keeps(p, Part(o, f.off, f.len), src[k + 1])
  BY <1>1, KeepsStays
<1>4. f.off + f.len <= Len(p.code) /\ k + 1 <= Len(src2)
  <2>1. Len(o.code) \in Nat /\ Len(p.code) \in Nat /\ Len(o.code) <= Len(p.code) /\ k \in Int
    BY DEF Widens
  <2> HIDE DEF f
  <2> QED
    BY <1>1, <2>1
<1>5. names2 = names
  OBVIOUS
<1>6. src2[k + 1] = src[k + 1]
  OBVIOUS
<1> HIDE DEF f
<1>7. p.funcs[k] = f
  BY DEF f
<1> QED
  BY <1>1, <1>2, <1>3, <1>4, <1>5, <1>6, <1>7

-----------------------------------------------------------------------------
(* What the invariants say of a call that has not returned. *)
LEMMA Opened ==
  ASSUME IInv, OneInv, TypeInv, MeantInv, status = "open"
  PROVE  /\ IsObj(obj) /\ IsFn(fn) /\ OpenKept /\ Named /\ Tabled
         /\ ClosedKept(obj, source, DOMAIN meaning.labels)
         /\ obj.code \in Seq(CodeWords) /\ IsSeq(obj.code) /\ Len(obj.code) \in Nat
         /\ IsSeq(obj.funcs) /\ Len(obj.funcs) \in Nat /\ fn.off \in 0 .. Len(obj.code)
         /\ IsSeq(source) /\ Len(source) \in Nat /\ Len(source) > Len(obj.funcs)
         /\ IsSeq(Latest) /\ Len(Latest) \in Nat /\ Len(Decoded(OpenBody)) = Len(Latest)
         /\ fn.name # <<>> => Len(source) = Len(obj.funcs) + 2
         /\ fn.name = <<>> => Len(obj.funcs) = 0 /\ Len(source) = 1
         /\ job = "assemble" => Len(obj.funcs) = 0
<1>1. /\ IsObj(obj) /\ IsFn(fn) /\ OpenKept /\ Named /\ Tabled /\ Fields
      /\ ClosedKept(obj, source, DOMAIN meaning.labels)
      /\ obj.code \in Seq(CodeWords) /\ IsSeq(obj.code) /\ IsSeq(obj.funcs)
      /\ obj.funcs # <<>> => fn.name # <<>>
      /\ job = "assemble" => obj.funcs = <<>>
  BY DEF IInv, Tiles, OneInv, OneOpen, TypeInv, TypeOK, MeantInv
<1>2. Len(obj.funcs) \in Nat /\ Len(obj.code) \in Nat /\ fn.off \in 0 .. Len(obj.code)
  BY <1>1, SeqGrows DEF Fields
<1>3. \/ fn.name = <<>> /\ Len(fn.name) = 0
      \/ fn.name # <<>> /\ Len(fn.name) = 1
  <2>1. fn.name = <<>> \/ \E s : fn.name = <<s>>
    BY <1>1 DEF Fields
  <2>2. Len(<<>>) = 0 /\ \A s : Len(<<s>>) = 1 /\ <<s>> # <<>>
    OBVIOUS
  <2> QED
    BY <2>1, <2>2
<1>4. /\ IsSeq(source) /\ Len(source) = Len(obj.funcs) + Len(fn.name) + 1
      /\ IsSeq(Latest) /\ Len(Decoded(OpenBody)) = Len(Latest)
  BY <1>1 DEF OpenKept, Sourced, Keeps
<1>5. Len(Latest) \in Nat
  BY <1>4, SeqGrows
<1>6. obj.funcs = <<>> => Len(obj.funcs) = 0
  OBVIOUS
<1>7. /\ Len(source) \in Nat /\ Len(source) > Len(obj.funcs)
      /\ Len(fn.name) = 1 => Len(source) = Len(obj.funcs) + 2
      /\ Len(fn.name) = 0 => Len(source) = Len(obj.funcs) + 1
  <2> DEFINE l == Len(fn.name)
             f == Len(obj.funcs)
             n == Len(source)
  <2>1. (l = 0 \/ l = 1) /\ f \in Nat /\ n = f + l + 1
    BY <1>2, <1>3, <1>4
  <2> HIDE DEF l, f, n
  <2>2. n \in Nat /\ n > f /\ (l = 1 => n = f + 2) /\ (l = 0 => n = f + 1)
    BY <2>1
  <2> QED
    BY <2>2 DEF l, f, n
<1>8. /\ fn.name # <<>> => Len(source) = Len(obj.funcs) + 2
      /\ fn.name = <<>> => Len(obj.funcs) = 0 /\ Len(source) = 1
  <2>1. CASE fn.name = <<>> /\ Len(fn.name) = 0
    <3>1. Len(obj.funcs) = 0
      BY <1>1, <1>6, <2>1
    <3>2. Len(source) = 1
      BY <1>7, <2>1, <3>1
    <3> QED
      BY <2>1, <3>1, <3>2
  <2>2. CASE fn.name # <<>> /\ Len(fn.name) = 1
    BY <1>7, <2>2
  <2> QED
    BY <1>3, <2>1, <2>2
<1>9. job = "assemble" => Len(obj.funcs) = 0
  BY <1>1, <1>6
<1> QED
  BY <1>1, <1>2, <1>4, <1>5, <1>7, <1>8, <1>9

(* A step that leaves the object, the tables and what is open. *)
LEMMA MeantStays ==
  ASSUME MeantInv, UNCHANGED <<job, obj, index, source, meaning>>,
         fn'.name = fn.name, fn'.off = fn.off, fn'.pending = fn.pending,
         job = "assemble" => fn'.labels = fn.labels,
         status' = "open" => status = "open"
  PROVE  MeantInv'
<1>1. Named' /\ ClosedKept(obj, source, DOMAIN meaning.labels)'
  BY DEF MeantInv, Named
<1>2. OpenBody' = OpenBody /\ Latest' = Latest /\ Awaited' = Awaited
  BY DEF OpenBody, Latest, Awaited
<1>3. ASSUME OpenKept PROVE OpenKept'
  <2>1. Sourced' /\ Labelled'
    BY <1>2, <1>3 DEF OpenKept, Sourced, Labelled
  <2> QED
    BY <1>2, <1>3, <2>1 DEF OpenKept
<1> QED
  BY <1>1, <1>3 DEF MeantInv

(* The constructs and calls that add nothing to the object. *)
LEMMA QuietMeant ==
  ASSUME IInv, MeantInv,
         Reject \/ IsaLine \/ Image \/ LineEnd \/ FnHeader \/ Signature \/ Maxstack
           \/ BuilderLabel
  PROVE  MeantInv'
<1>1. IsFn(fn) /\ status = "open"
  BY DEF IInv, Reject, IsaLine, Image, LineEnd, FnHeader, Signature, Maxstack, BuilderLabel,
         Calling, Directive, Accepting, Reading
<1>2. UNCHANGED <<job, obj, index, source, meaning>>
  BY DEF Reject, IsaLine, Image, LineEnd, FnHeader, Signature, Maxstack, BuilderLabel,
         Calling, Skip
<1>3. /\ fn'.name = fn.name /\ fn'.off = fn.off /\ fn'.pending = fn.pending
      /\ job = "assemble" => fn'.labels = fn.labels
  <2>1. CASE Reject \/ IsaLine \/ Image \/ LineEnd
    BY <2>1 DEF Reject, IsaLine, Image, LineEnd
  <2>2. CASE FnHeader
    BY <1>1, <2>2 DEF FnHeader, IsFn
  <2>3. CASE Maxstack
    BY <1>1, <2>3 DEF Maxstack, IsFn
  <2>4. CASE Signature
    <3>1. PICK x : fn' \in {fn, [fn EXCEPT !.returns = x], [fn EXCEPT !.args = x]}
      BY <2>4 DEF Signature
    <3> QED
      BY <1>1, <3>1 DEF IsFn
  <2>5. CASE BuilderLabel
    <3>1. PICK x : fn' \in {fn, [fn EXCEPT !.labels = x]}
      BY <2>5 DEF BuilderLabel
    <3>2. job # "assemble"
      BY <2>5 DEF BuilderLabel, Calling
    <3> QED
      BY <1>1, <3>1, <3>2 DEF IsFn
  <2> QED
    BY <2>1, <2>2, <2>3, <2>4, <2>5
<1> QED
  BY <1>1, <1>2, <1>3, MeantStays

(* Behind the last word there is nothing, and nothing is kept of it. *)
LEMMA NothingOpen ==
  ASSUME NEW o, NEW code \in Seq(CodeWords), NEW names
  PROVE  /\ SubSeq(code, Len(code) + 1, Len(code)) = <<>>
         /\ Keeps(o, <<>>, <<>>) /\ Targeted(<<>>, names) /\ IsSeq(<<>>)
<1>1. SubSeq(code, Len(code) + 1, Len(code)) = <<>>
  OBVIOUS
<1>2. Targeted(<<>>, names)
  BY DEF Targeted
<1>3. IsSeq(<<>>)
  <2>1. <<>> \in Seq({})
    OBVIOUS
  <2> QED
    BY <2>1 DEF IsSeq
<1> QED
  BY <1>1, <1>2, <1>3, NothingKept

(* The function a header begins is asked nothing yet. *)
LEMMA FnBeginMeant == ASSUME IInv, OneInv, TypeInv, MeantInv, FnBegin PROVE MeantInv'
<1>1. /\ status = "open" /\ job = "assemble" /\ UNCHANGED <<status, job, obj, index>>
      /\ fn.name = <<>>
      /\ fn' = [NewFn(<<header[1].name>>, Len(obj.code)) EXCEPT
                  !.args = fn.args, !.returns = fn.returns]
      /\ source' = Append(source, <<>>) /\ meaning' = [meaning EXCEPT !.labels = NoNames]
  BY DEF FnBegin, Reading, Skip, FaultHere, HeaderFault
<1>2. /\ obj.code \in Seq(CodeWords) /\ Len(obj.funcs) = 0 /\ Len(source) = 1 /\ IsSeq(source)
      /\ Named
  BY <1>1, Opened
<1>3. /\ fn'.off = Len(obj.code) /\ fn'.labels = NoNames /\ fn'.pending = <<>>
      /\ Len(fn'.name) = 1
  BY <1>1 DEF NewFn
<1>4. IsSeq(source') /\ Len(source') = 2 /\ source'[2] = <<>>
  <2>1. /\ IsSeq(source') /\ Len(source') = Len(source) + 1
        /\ source'[Len(source) + 1] = <<>>
    BY <1>1, <1>2, SeqGrows
  <2>2. Len(source) + 1 = 2
    BY <1>2
  <2> QED
    BY <2>1, <2>2
<1>5. /\ meaning'.constants = meaning.constants /\ meaning'.labels = NoNames
      /\ meaning' = [constants |-> meaning'.constants, labels |-> meaning'.labels]
  BY <1>1, <1>2 DEF Named
<1>6. Latest' = <<>> /\ OpenBody' = <<>>
  BY <1>1, <1>2, <1>3, <1>4, NothingOpen DEF Latest, OpenBody
<1>7. OpenKept'
  <2>1. Sourced'
    BY <1>1, <1>2, <1>3, <1>4 DEF Sourced
  <2>2. Labelled'
    BY <1>3, <1>5 DEF Labelled, NoNames
  <2> QED
    BY <1>2, <1>3, <1>6, <2>1, <2>2, NothingOpen DEF OpenKept
<1>8. Named'
  BY <1>1, <1>2, <1>5 DEF Named
<1>9. ClosedKept(obj, source, DOMAIN meaning.labels)'
  BY <1>1, <1>2 DEF ClosedKept
<1> QED
  BY <1>7, <1>8, <1>9 DEF MeantInv

(* Closing the open function: what it keeps, its window keeps. *)
LEMMA ClosingKeeps ==
  ASSUME IInv, OneInv, TypeInv, MeantInv, status = "open", NEW m, NEW names,
         ClosedKept(obj, source, names), fn.name # <<>> => Targeted(Latest, names)
  PROVE  LET c == Closed(obj, fn, m)
         IN /\ ClosedKept(c, source, names)
            /\ c.code = obj.code /\ c.constants = obj.constants /\ c.tools = obj.tools
            /\ Len(c.funcs) + 1 = Len(source) /\ Len(c.funcs) \in Nat
<1> DEFINE c == Closed(obj, fn, m)
           r == [name |-> fn.name[1], off |-> fn.off, len |-> Len(obj.code) - fn.off,
                 maxstack |-> m, args |-> fn.args, returns |-> fn.returns]
<1>1. /\ IsObj(obj) /\ OpenKept /\ Len(obj.code) \in Nat /\ IsSeq(obj.funcs)
      /\ Len(obj.funcs) \in Nat /\ fn.off \in 0 .. Len(obj.code) /\ Len(source) \in Nat
      /\ fn.name # <<>> => Len(source) = Len(obj.funcs) + 2
      /\ fn.name = <<>> => Len(obj.funcs) = 0 /\ Len(source) = 1
  BY Opened
<1>2. CASE fn.name = <<>>
  BY <1>1, <1>2 DEF Closed
<1>3. CASE fn.name # <<>>
  <2>1. /\ c.code = obj.code /\ c.constants = obj.constants /\ c.tools = obj.tools
        /\ c.funcs = Append(obj.funcs, r)
    BY <1>1, <1>3 DEF Closed, IsObj
  <2>2. r.off = fn.off /\ r.len = Len(obj.code) - fn.off
    OBVIOUS
  <2> HIDE DEF c, r
  <2>3. /\ Len(c.funcs) = Len(obj.funcs) + 1 /\ c.funcs[Len(obj.funcs) + 1] = r
        /\ \A k \in 1 .. Len(obj.funcs) : c.funcs[k] = obj.funcs[k]
    BY <1>1, <2>1, SeqGrows
  <2>4. r.off \in Nat /\ r.len \in Nat /\ r.off + r.len = Len(obj.code)
    BY <1>1, <2>2
  <2>5. Part(c, r.off, r.len) = OpenBody
    BY <2>1, <2>2, <2>4 DEF Part, OpenBody
  <2>6. \A body, xs : Keeps(obj, body, xs) => Keeps(c, body, xs)
    <3>1. \A x, d : Says(obj, x, d) => Says(c, x, d)
      BY <2>1 DEF Says
    <3> QED
      BY <3>1 DEF Keeps
  <2>7. Keeps(obj, OpenBody, Latest) /\ Latest = source[(Len(obj.funcs) + 1) + 1]
    BY <1>1, <1>3 DEF OpenKept, Latest
  <2>8. ASSUME NEW k \in 1 .. Len(c.funcs)
        PROVE  LET f == c.funcs[k]
               IN /\ f.off \in Nat /\ f.len \in Nat /\ f.off + f.len <= Len(c.code)
                  /\ k + 1 <= Len(source)
                  /\ Keeps(c, Part(c, f.off, f.len), source[k + 1])
                  /\ Targeted(source[k + 1], names)
    <3>1. CASE k \in 1 .. Len(obj.funcs)
      <4> DEFINE f == obj.funcs[k]
      <4>1. /\ f.off \in Nat /\ f.len \in Nat /\ f.off + f.len <= Len(obj.code)
            /\ k + 1 <= Len(source)
            /\ Keeps(obj, Part(obj, f.off, f.len), source[k + 1])
            /\ Targeted(source[k + 1], names)
        BY <3>1 DEF ClosedKept
      <4>2. Part(c, f.off, f.len) = Part(obj, f.off, f.len) /\ c.funcs[k] = f
        BY <2>1, <2>3, <3>1 DEF Part
      <4> HIDE DEF f
      <4> QED
        BY <2>1, <2>6, <4>1, <4>2
    <3>2. CASE k = Len(obj.funcs) + 1
      <4>1. c.funcs[k] = r /\ k + 1 <= Len(source) /\ source[k + 1] = Latest
        BY <1>1, <1>3, <2>3, <2>7, <3>2
      <4>2. Targeted(Latest, names) /\ Keeps(c, OpenBody, Latest)
        BY <1>3, <2>6, <2>7
      <4>3. r.off + r.len <= Len(c.code)
        BY <1>1, <2>1, <2>4
      <4> QED
        BY <2>4, <2>5, <4>1, <4>2, <4>3
    <3> QED
      BY <1>1, <2>3, <3>1, <3>2
  <2>9. ClosedKept(c, source, names)
    BY <2>8 DEF ClosedKept
  <2>10. Len(c.funcs) + 1 = Len(source) /\ Len(c.funcs) \in Nat
    BY <1>1, <1>3, <2>3
  <2> QED
    BY <2>1, <2>9, <2>10 DEF c
<1> QED
  BY <1>2, <1>3

-----------------------------------------------------------------------------
(* What is asked for joins the function begun last. *)
LEMMA AsksFacts ==
  ASSUME NEW x, Asks(x), IsSeq(source), Len(source) > 0, IsSeq(Latest)
  PROVE  /\ IsSeq(source') /\ Len(source') = Len(source)
         /\ Latest' = Append(Latest, x) /\ source'[Len(source)] = Append(Latest, x)
         /\ \A k \in 1 .. Len(source) - 1 : source'[k] = source[k]
<1> DEFINE n == Len(source)
           y == Append(Latest, x)
<1>1. source' = [source EXCEPT ![n] = y]
  BY DEF Asks, Latest
<1>2. PICK S : source \in Seq(S)
  BY DEF IsSeq
<1>3. n \in Nat
  BY <1>2
<1> HIDE DEF y
<1>4. source \in Seq(S \cup {y}) /\ n \in 1 .. n
  BY <1>2, <1>3
<1>5. [source EXCEPT ![n] = y] \in Seq(S \cup {y})
  BY <1>2, <1>3
<1>6. /\ Len(source') = n /\ source'[n] = y
      /\ \A k \in 1 .. n - 1 : source'[k] = source[k]
  BY <1>1, <1>2, <1>3
<1>7. IsSeq(source')
  BY <1>1, <1>5 DEF IsSeq
<1>8. Latest' = y
  BY <1>6 DEF Latest
<1> QED
  BY <1>6, <1>7, <1>8 DEF y

(* A function a front end begins is asked nothing yet, and the one before   *)
(* it keeps what it was asked.                                              *)
LEMMA BeginFnMeant == ASSUME IInv, OneInv, TypeInv, MeantInv, BeginFn PROVE MeantInv'
<1> DEFINE m == IF fn.maxstack = <<>> THEN 0 ELSE fn.maxstack[1]
           names == DOMAIN meaning.labels
           c == Closed(obj, fn, m)
<1>1. PICK name : fn' = [NewFn(<<name>>, Len(obj.code)) EXCEPT !.maxstack = <<1>>]
  BY DEF BeginFn
<1>2. /\ status = "open" /\ job = "build" /\ UNCHANGED <<status, job, index, meaning>>
      /\ obj' = c /\ source' = Append(source, <<>>)
  BY DEF BeginFn, Calling, Skip, CloseFn
<1>3. /\ obj.code \in Seq(CodeWords) /\ OpenKept /\ Named /\ IsSeq(source)
      /\ Len(source) \in Nat /\ ClosedKept(obj, source, names) /\ IsSeq(obj.code) /\ Tabled
  BY <1>2, Opened
<1>4. Targeted(Latest, names)
  <2>1. Awaited = {}
    BY <1>2 DEF Awaited
  <2>2. Targeted(Latest, {})
    BY <1>3, <2>1 DEF OpenKept
  <2> QED
    BY <2>2 DEF Targeted
<1>5. /\ ClosedKept(c, source, names)
      /\ c.code = obj.code /\ c.constants = obj.constants /\ c.tools = obj.tools
      /\ Len(c.funcs) + 1 = Len(source) /\ Len(c.funcs) \in Nat
  BY <1>2, <1>3, <1>4, ClosingKeeps
<1> HIDE DEF c
<1>6. fn'.name = <<name>> /\ fn'.off = Len(obj.code) /\ fn'.pending = <<>>
  BY <1>1 DEF NewFn
<1>7. /\ IsSeq(source') /\ Len(source') = Len(source) + 1
      /\ source'[Len(source) + 1] = <<>>
      /\ \A k \in 1 .. Len(source) : source'[k] = source[k]
  BY <1>2, <1>3, SeqGrows
<1>8. Latest' = <<>>
  BY <1>7 DEF Latest
<1>9. OpenBody' = <<>>
  BY <1>2, <1>3, <1>5, <1>6, NothingOpen DEF OpenBody
<1>10. OpenKept'
  <2>1. Sourced'
    <3>1. Len(fn'.name) = 1
      BY <1>6
    <3> QED
      BY <1>2, <1>5, <1>7, <3>1 DEF Sourced
  <2>2. Labelled'
    BY <1>2 DEF Labelled
  <2> QED
    BY <1>3, <1>6, <1>8, <1>9, <2>1, <2>2, NothingOpen DEF OpenKept
<1>11. Named'
  BY <1>2, <1>3, <1>5 DEF Named
<1>12. ClosedKept(c, Append(source, <<>>), names)
  <2> DEFINE src2 == Append(source, <<>>)
  <2>1. Len(src2) = Len(source) + 1 /\ \A k \in 1 .. Len(source) : src2[k] = source[k]
    BY <1>2, <1>7
  <2> HIDE DEF src2, names
  <2>2. \A k \in 1 .. Len(c.funcs) : src2[k + 1] = source[k + 1]
    BY <1>3, <1>5, <2>1
  <2>3. Widens(c.code, c.code) /\ Widens(c.constants, c.constants) /\ Widens(c.tools, c.tools)
    BY <1>3, <1>5, WidensOn DEF Tabled
  <2>4. /\ c.code \in Seq(CodeWords) /\ Len(source) <= Len(src2) /\ Len(src2) \in Nat
    BY <1>3, <1>5, <2>1
  <2>5. ClosedKept(c, src2, names)
    BY <1>3, <1>5, <2>2, <2>3, <2>4, ClosedStays
  <2> QED
    BY <2>5 DEF src2
<1>13. ClosedKept(obj, source, DOMAIN meaning.labels)'
  BY <1>2, <1>12
<1> QED
  BY <1>2, <1>10, <1>11, <1>13 DEF MeantInv

(* A step of which only the tables come out longer. *)
LEMMA TablesKept ==
  ASSUME IInv, OneInv, TypeInv, MeantInv, status = "open", Named',
         UNCHANGED <<job, status, fn, source>>, meaning'.labels = meaning.labels,
         obj'.code = obj.code, obj'.funcs = obj.funcs,
         Widens(obj.constants, obj'.constants), Widens(obj.tools, obj'.tools)
  PROVE  MeantInv'
<1>1. /\ OpenKept /\ obj.code \in Seq(CodeWords) /\ IsSeq(obj.code) /\ Len(source) \in Nat
      /\ ClosedKept(obj, source, DOMAIN meaning.labels)
  BY Opened
<1>2. OpenBody' = OpenBody /\ Latest' = Latest /\ Awaited' = Awaited
  BY DEF OpenBody, Latest, Awaited
<1>3. Keeps(obj', OpenBody, Latest)
  BY <1>1, KeepsStays DEF OpenKept
<1>4. Sourced' /\ Labelled'
  BY <1>1, <1>2 DEF OpenKept, Sourced, Labelled
<1>5. OpenKept'
  BY <1>1, <1>2, <1>3, <1>4 DEF OpenKept
<1>6. ClosedKept(obj', source, DOMAIN meaning.labels)
  <2>1. Widens(obj.code, obj'.code) /\ Len(source) <= Len(source)
    BY <1>1, WidensOn
  <2> QED
    BY <1>1, <2>1, ClosedStays
<1>7. ClosedKept(obj, source, DOMAIN meaning.labels)'
  BY <1>6
<1> QED
  BY <1>5, <1>7 DEF MeantInv

(* A tool or a constant that is declared is where its name says, and those   *)
(* before it stay where theirs said.                                        *)
LEMMA TablesMeant ==
  ASSUME IInv, OneInv, TypeInv, MeantInv, Tool \/ Const \/ ConstStr
  PROVE  MeantInv'
<1>1. /\ status = "open" /\ UNCHANGED <<job, status, fn, source>>
  BY DEF Tool, Const, ConstStr, Calling, Directive, Accepting, Reading, Skip
<1>2. /\ IsObj(obj) /\ Named /\ Tabled /\ IsSeq(obj.constants) /\ IsSeq(obj.tools)
      /\ Len(obj.constants) \in Nat /\ Len(obj.tools) \in Nat
  BY <1>1, Opened, Lengths DEF Tabled
<1>3. /\ \A s \in DOMAIN index.constants : index.constants[s] + 1 \in 1 .. Len(obj.constants)
      /\ \A s \in DOMAIN index.tools : index.tools[s] + 1 \in 1 .. Len(obj.tools)
  BY <1>2 DEF Tabled
<1>4. Widens(obj.constants, obj.constants) /\ Widens(obj.tools, obj.tools)
  BY <1>2, WidensOn
<1>5. CASE Tool
  <2> DEFINE s == toks[i + 1].s
             n == Len(obj.tools)
  <2>1. /\ obj' = [obj EXCEPT !.tools = Append(@, s)] /\ meaning' = meaning
        /\ index' = [index EXCEPT !.tools = Put(@, s, n)]
    BY <1>5 DEF Tool, After
  <2>2. /\ index'.tools = Put(index.tools, s, n) /\ index'.constants = index.constants
    BY <1>2, <2>1 DEF Tabled
  <2>3. /\ obj'.funcs = obj.funcs /\ obj'.code = obj.code
        /\ obj'.constants = obj.constants /\ obj'.tools = Append(obj.tools, s)
    BY <1>2, <2>1 DEF IsObj
  <2> HIDE DEF s, n
  <2>4. /\ obj'.tools[n + 1] = s
        /\ \A k \in 1 .. n : obj'.tools[k] = obj.tools[k]
    BY <1>2, <2>3, SeqGrows DEF n
  <2>5. \A t \in DOMAIN index'.tools : obj'.tools[index'.tools[t] + 1] = t
    <3> TAKE t \in DOMAIN index'.tools
    <3>1. CASE t = s
      <4>1. index'.tools[t] = n
        BY <2>2, <3>1 DEF Put
      <4> QED
        BY <2>4, <3>1, <4>1
    <3>2. CASE t # s
      <4>1. t \in DOMAIN index.tools /\ index'.tools[t] = index.tools[t]
        BY <2>2, <3>2 DEF Put
      <4>2. index.tools[t] + 1 \in 1 .. n
        BY <1>3, <4>1 DEF n
      <4>3. obj.tools[index.tools[t] + 1] = t
        BY <1>2, <4>1 DEF Named
      <4> QED
        BY <2>4, <4>1, <4>2, <4>3
    <3> QED
      BY <3>1, <3>2
  <2>6. Named'
    BY <1>2, <2>1, <2>2, <2>3, <2>5 DEF Named
  <2>7. Widens(obj.tools, obj'.tools)
    BY <1>2, <2>3, WidensOn
  <2> QED
    BY <1>1, <1>4, <2>1, <2>3, <2>6, <2>7, TablesKept
<1>6. CASE Const
  <2> DEFINE s == toks[i + 1].s
             c == toks[i + 2]
             n == Len(obj.constants)
  <2>1. /\ obj' = [obj EXCEPT !.constants = Append(@, c)]
        /\ index' = [index EXCEPT !.constants = Put(@, s, n)]
        /\ meaning' = [meaning EXCEPT !.constants = Put(@, s, c)]
    BY <1>6 DEF Const, After
  <2>2. /\ index'.constants = Put(index.constants, s, n) /\ index'.tools = index.tools
    BY <1>2, <2>1 DEF Tabled
  <2>3. /\ meaning'.constants = Put(meaning.constants, s, c) /\ meaning'.labels = meaning.labels
        /\ meaning' = [constants |-> meaning'.constants, labels |-> meaning'.labels]
    BY <1>2, <2>1 DEF Named
  <2>4. /\ obj'.funcs = obj.funcs /\ obj'.code = obj.code
        /\ obj'.tools = obj.tools /\ obj'.constants = Append(obj.constants, c)
    BY <1>2, <2>1 DEF IsObj
  <2> HIDE DEF s, c, n
  <2>5. /\ obj'.constants[n + 1] = c
        /\ \A k \in 1 .. n : obj'.constants[k] = obj.constants[k]
    BY <1>2, <2>4, SeqGrows DEF n
  <2>6. DOMAIN index'.constants = DOMAIN meaning'.constants
    BY <1>2, <2>2, <2>3 DEF Put, Named
  <2>7. \A t \in DOMAIN index'.constants :
          obj'.constants[index'.constants[t] + 1] = meaning'.constants[t]
    <3> TAKE t \in DOMAIN index'.constants
    <3>1. CASE t = s
      <4>1. index'.constants[t] = n /\ meaning'.constants[t] = c
        BY <2>2, <2>3, <3>1 DEF Put
      <4> QED
        BY <2>5, <3>1, <4>1
    <3>2. CASE t # s
      <4>1. t \in DOMAIN index.constants /\ index'.constants[t] = index.constants[t]
        BY <2>2, <3>2 DEF Put
      <4>2. t \in DOMAIN meaning.constants /\ meaning'.constants[t] = meaning.constants[t]
        BY <1>2, <2>3, <3>2, <4>1 DEF Put, Named
      <4>3. index.constants[t] + 1 \in 1 .. n
        BY <1>3, <4>1 DEF n
      <4>4. obj.constants[index.constants[t] + 1] = meaning.constants[t]
        BY <1>2, <4>1 DEF Named
      <4> QED
        BY <2>5, <4>1, <4>2, <4>3, <4>4
    <3> QED
      BY <3>1, <3>2
  <2>8. Named'
    BY <1>2, <2>2, <2>3, <2>4, <2>6, <2>7 DEF Named
  <2>9. Widens(obj.constants, obj'.constants)
    BY <1>2, <2>4, WidensOn
  <2> QED
    BY <1>1, <1>4, <2>3, <2>4, <2>8, <2>9, TablesKept
<1>7. CASE ConstStr
  <2> DEFINE c == [kind |-> "Str", s |-> "c"]
  <2>1. /\ obj' = [obj EXCEPT !.constants = Append(@, c)]
        /\ meaning' = meaning /\ index' = index
    BY <1>7 DEF ConstStr
  <2> HIDE DEF c
  <2>2. /\ obj'.funcs = obj.funcs /\ obj'.code = obj.code
        /\ obj'.tools = obj.tools /\ obj'.constants = Append(obj.constants, c)
    BY <1>2, <2>1 DEF IsObj
  <2>3. \A k \in 1 .. Len(obj.constants) : obj'.constants[k] = obj.constants[k]
    BY <1>2, <2>2, SeqGrows
  <2>4. Named'
    BY <1>2, <1>3, <2>1, <2>2, <2>3 DEF Named
  <2>5. Widens(obj.constants, obj'.constants)
    BY <1>2, <2>2, WidensOn
  <2> QED
    BY <1>1, <1>4, <2>1, <2>2, <2>4, <2>5, TablesKept
<1> QED
  BY <1>5, <1>6, <1>7

(* A label is where the instruction behind it will start: as many words in   *)
(* as the function has.                                                     *)
LEMMA LabelMeant == ASSUME IInv, OneInv, TypeInv, MeantInv, Label PROVE MeantInv'
<1> DEFINE s == toks[i].s
           at == LabelIndex
           next == Len(Latest) + 1
           ds == Decoded(OpenBody)
<1>1. /\ status = "open" /\ job = "assemble" /\ UNCHANGED <<job, status, obj, index, source>>
      /\ fn' = [fn EXCEPT !.labels = Put(@, s, at)]
      /\ meaning' = [meaning EXCEPT !.labels = Put(@, s, next)]
  BY DEF Label, Accepting, Reading, Skip, Tok
<1>2. /\ IsFn(fn) /\ OpenKept /\ Named /\ Len(obj.funcs) = 0 /\ Len(Latest) \in Nat
      /\ obj.code \in Seq(CodeWords) /\ fn.off \in 0 .. Len(obj.code) /\ Len(ds) = Len(Latest)
  BY <1>1, Opened
<1>3. Labelled /\ Keeps(obj, OpenBody, Latest) /\ Targeted(Latest, Awaited) /\ Sourced
  BY <1>2 DEF OpenKept
<1>4. at = StartOf(ds, next)
  <2>1. Reads(OpenBody, ds)
    BY <1>3 DEF Keeps
  <2>2. StartOf(ds, Len(ds) + 1) = Len(OpenBody)
    BY <2>1 DEF Reads
  <2>3. Len(OpenBody) = Len(obj.code) - fn.off
    BY <1>2 DEF OpenBody
  <2> QED
    BY <1>2, <2>2, <2>3 DEF LabelIndex
<1>5. /\ fn'.labels = Put(fn.labels, s, at) /\ fn'.name = fn.name /\ fn'.off = fn.off
      /\ fn'.pending = fn.pending
  BY <1>1, <1>2 DEF IsFn
<1>6. /\ meaning'.labels = Put(meaning.labels, s, next)
      /\ meaning'.constants = meaning.constants
      /\ meaning' = [constants |-> meaning'.constants, labels |-> meaning'.labels]
  BY <1>1, <1>2 DEF Named
<1>7. OpenBody' = OpenBody /\ Latest' = Latest
  BY <1>1, <1>5 DEF OpenBody, Latest
<1> HIDE DEF s, at, next
<1>8. Labelled'
  <2>1. /\ DOMAIN fn.labels = DOMAIN meaning.labels
        /\ \A t \in DOMAIN fn.labels :
             /\ meaning.labels[t] \in 1 .. Len(Latest) + 1
             /\ fn.labels[t] = StartOf(ds, meaning.labels[t])
    BY <1>1, <1>3 DEF Labelled
  <2>2. DOMAIN fn'.labels = DOMAIN meaning'.labels
    BY <1>5, <1>6, <2>1 DEF Put
  <2>3. ASSUME NEW t \in DOMAIN fn'.labels
        PROVE  /\ meaning'.labels[t] \in 1 .. Len(Latest) + 1
               /\ fn'.labels[t] = StartOf(ds, meaning'.labels[t])
    <3>1. CASE t = s
      <4>1. fn'.labels[t] = at /\ meaning'.labels[t] = next
        BY <1>5, <1>6, <3>1 DEF Put
      <4>2. next \in 1 .. Len(Latest) + 1
        BY <1>2 DEF next
      <4> QED
        BY <1>4, <4>1, <4>2
    <3>2. CASE t # s
      <4>1. t \in DOMAIN fn.labels /\ fn'.labels[t] = fn.labels[t]
        BY <1>5, <3>2 DEF Put
      <4>2. meaning'.labels[t] = meaning.labels[t]
        BY <1>6, <2>1, <3>2, <4>1 DEF Put
      <4> QED
        BY <2>1, <4>1, <4>2
    <3> QED
      BY <3>1, <3>2
  <2> QED
    BY <1>7, <2>2, <2>3 DEF Labelled
<1>9. Targeted(Latest, Awaited')
  <2>1. Awaited \subseteq Awaited'
    BY <1>1, <1>5 DEF Put, Awaited
  <2> QED
    BY <1>3, <2>1 DEF Targeted
<1>10. OpenKept'
  <2>1. Sourced' /\ IsSeq(fn'.pending)
    BY <1>1, <1>2, <1>3, <1>5 DEF Sourced, OpenKept
  <2> QED
    BY <1>1, <1>3, <1>7, <1>8, <1>9, <2>1 DEF OpenKept
<1>11. Named' /\ ClosedKept(obj, source, DOMAIN meaning.labels)'
  BY <1>1, <1>2, <1>6 DEF Named, ClosedKept
<1> QED
  BY <1>10, <1>11 DEF MeantInv

-----------------------------------------------------------------------------
(* An instruction encoded behind the code joins what is open. *)
LEMMA OpenGrows ==
  ASSUME NEW code \in Seq(CodeWords), NEW w \in Seq(CodeWords), NEW off \in 0 .. Len(code)
  PROVE  SubSeq(code \o w, off + 1, Len(code \o w)) =
           SubSeq(code, off + 1, Len(code)) \o w
<1> DEFINE both == code \o w
           u == SubSeq(both, off + 1, Len(both))
           open == SubSeq(code, off + 1, Len(code))
           v == open \o w
           n == Len(code) - off
<1>1. /\ both \in Seq(CodeWords) /\ Len(both) = Len(code) + Len(w)
      /\ \A k \in 1 .. Len(code) : both[k] = code[k]
      /\ \A k \in 1 .. Len(w) : both[Len(code) + k] = w[k]
      /\ Len(code) \in Nat /\ Len(w) \in Nat /\ n \in Nat
  OBVIOUS
<1>2. open \in Seq(CodeWords) /\ Len(open) = n /\ \A k \in 1 .. n : open[k] = code[off + k]
  BY <1>1
<1> HIDE DEF both, open
<1>3. u \in Seq(CodeWords) /\ Len(u) = n + Len(w) /\ \A k \in 1 .. n + Len(w) : u[k] = both[off + k]
  BY <1>1
<1>4. /\ v \in Seq(CodeWords) /\ Len(v) = n + Len(w)
      /\ \A k \in 1 .. n : v[k] = open[k]
      /\ \A k \in 1 .. Len(w) : v[n + k] = w[k]
  <2>1. /\ v \in Seq(CodeWords) /\ Len(v) = Len(open) + Len(w)
        /\ \A k \in 1 .. Len(open) : v[k] = open[k]
        /\ \A k \in 1 .. Len(w) : v[Len(open) + k] = w[k]
    <3>1. open \in Seq(CodeWords)
      BY <1>2
    <3> QED
      BY <3>1
  <2> QED
    BY <1>2, <2>1
<1> HIDE DEF u, v
<1>5. ASSUME NEW k \in 1 .. Len(u) PROVE v[k] = u[k]
  <2>1. CASE k <= n
    <3>1. k \in 1 .. n /\ off + k \in 1 .. Len(code)
      BY <1>1, <1>3, <2>1
    <3> QED
      BY <1>1, <1>2, <1>3, <1>4, <3>1
  <2>2. CASE k > n
    <3> DEFINE j == k - n
    <3>1. j \in 1 .. Len(w) /\ k = n + j /\ off + k = Len(code) + j /\ k \in 1 .. n + Len(w)
      BY <1>1, <1>3, <2>2
    <3> HIDE DEF j
    <3>2. v[k] = w[j] /\ u[k] = both[off + k] /\ both[off + k] = w[j]
      BY <1>1, <1>3, <1>4, <3>1
    <3> QED
      BY <3>2
  <2> QED
    BY <1>1, <1>3, <2>1, <2>2
<1>6. v = u
  BY <1>3, <1>4, <1>5, SeqEqual
<1> QED
  BY <1>6 DEF u, v, both, open

(* An instruction that is asked for and encoded is kept. *)
LEMMA AsksMeant ==
  ASSUME IInv, OneInv, TypeInv, MeantInv, status = "open",
         UNCHANGED <<job, status, index, meaning>>,
         fn'.name = fn.name, fn'.off = fn.off, fn'.labels = fn.labels, IsSeq(fn'.pending),
         NEW op \in Ops, NEW a \in Nat, NEW b \in Operands, NEW x, Asks(x),
         obj'.code = obj.code \o Encode(op, a, b), obj'.funcs = obj.funcs,
         Widens(obj.constants, obj'.constants), Widens(obj.tools, obj'.tools),
         Says(obj', x, InsnOf(op, a, b)), Branches(x, Decoded(OpenBody), InsnOf(op, a, b)),
         Targeted(Append(Latest, x), Awaited')
  PROVE  MeantInv'
<1> DEFINE w == Encode(op, a, b)
           ds == Decoded(OpenBody)
           d == InsnOf(op, a, b)
           es == Append(ds, d)
<1>1. /\ Sourced /\ Labelled /\ Keeps(obj, OpenBody, Latest) /\ Named /\ Tabled
      /\ ClosedKept(obj, source, DOMAIN meaning.labels)
      /\ obj.code \in Seq(CodeWords) /\ IsSeq(obj.code) /\ Len(obj.funcs) \in Nat
      /\ fn.off \in 0 .. Len(obj.code)
      /\ IsSeq(source) /\ Len(source) \in Nat /\ Len(source) > Len(obj.funcs)
      /\ IsSeq(Latest) /\ Len(Latest) \in Nat /\ Len(ds) = Len(Latest)
      /\ fn.name # <<>> => Len(source) = Len(obj.funcs) + 2
      /\ fn.name = <<>> => Len(obj.funcs) = 0 /\ Len(source) = 1
  BY Opened DEF OpenKept
<1>2. w \in Seq(CodeWords)
  BY Encoded
<1>3. OpenBody' = OpenBody \o w
  <2> HIDE DEF w
  <2>1. SubSeq(obj.code \o w, fn.off + 1, Len(obj.code \o w)) =
          SubSeq(obj.code, fn.off + 1, Len(obj.code)) \o w
    BY <1>1, <1>2, OpenGrows
  <2>2. obj'.code = obj.code \o w
    BY DEF w
  <2> QED
    BY <2>1, <2>2 DEF OpenBody
<1>4. /\ IsSeq(source') /\ Len(source') = Len(source) /\ Latest' = Append(Latest, x)
      /\ \A k \in 1 .. Len(source) - 1 : source'[k] = source[k]
  <2>1. Len(source) > 0
    BY <1>1
  <2> QED
    BY <1>1, <2>1, AsksFacts
<1>5. Keeps(obj', OpenBody, Latest)
  BY <1>1, KeepsStays
<1>6. /\ Keeps(obj', OpenBody \o w, Append(Latest, x))
      /\ Decoded(OpenBody \o w) = es
  BY <1>5, KeepsOn
<1>7. Labelled'
  <2> SUFFICES ASSUME job = "assemble"
               PROVE  /\ DOMAIN fn.labels = DOMAIN meaning.labels
                      /\ \A s \in DOMAIN fn.labels :
                           /\ meaning.labels[s] \in 1 .. Len(Latest') + 1
                           /\ fn.labels[s] = StartOf(Decoded(OpenBody'), meaning.labels[s])
    BY DEF Labelled
  <2>1. /\ DOMAIN fn.labels = DOMAIN meaning.labels
        /\ \A s \in DOMAIN fn.labels :
             /\ meaning.labels[s] \in 1 .. Len(Latest) + 1
             /\ fn.labels[s] = StartOf(ds, meaning.labels[s])
    BY <1>1 DEF Labelled
  <2>2. Len(Latest') = Len(Latest) + 1
    BY <1>1, <1>4, SeqGrows
  <2> HIDE DEF d
  <2>3. \A m \in 1 .. Len(ds) : es[m] = ds[m]
    <3>1. ds \in Seq(Insn2)
      BY <1>1 DEF Keeps, Reads
    <3>2. IsSeq(ds)
      BY <3>1 DEF IsSeq
    <3> QED
      BY <3>2, SeqGrows
  <2> HIDE DEF ds, es
  <2>4. ASSUME NEW s \in DOMAIN fn.labels
        PROVE  /\ meaning.labels[s] \in 1 .. Len(Latest') + 1
               /\ fn.labels[s] = StartOf(Decoded(OpenBody'), meaning.labels[s])
    <3> DEFINE m == meaning.labels[s]
    <3>1. m \in 1 .. Len(Latest) + 1 /\ fn.labels[s] = StartOf(ds, m)
      BY <2>1
    <3> HIDE DEF m
    <3>2. m \in Nat /\ \A k \in 1 .. m - 1 : es[k] = ds[k]
      BY <1>1, <2>3, <3>1
    <3>3. StartOf(es, m) = StartOf(ds, m)
      BY <3>2, StartsAlike
    <3>4. m \in 1 .. Len(Latest') + 1
      BY <1>1, <2>2, <3>1
    <3>5. Decoded(OpenBody') = es
      BY <1>3, <1>6
    <3> QED
      BY <3>1, <3>3, <3>4, <3>5 DEF m
  <2> QED
    BY <2>1, <2>4
<1>8. Sourced'
  BY <1>1, <1>4 DEF Sourced
<1>9. Named'
  <2>1. /\ \A s \in DOMAIN index.constants : index.constants[s] + 1 \in 1 .. Len(obj.constants)
        /\ \A s \in DOMAIN index.tools : index.tools[s] + 1 \in 1 .. Len(obj.tools)
    <3>1. Len(obj.constants) \in Nat /\ Len(obj.tools) \in Nat
      BY Lengths
    <3>2. \A n \in Nat : \A m \in 0 .. n - 1 : m + 1 \in 1 .. n
      OBVIOUS
    <3>3. \A s \in DOMAIN index.constants : index.constants[s] \in 0 .. Len(obj.constants) - 1
      BY <1>1 DEF Tabled
    <3>4. \A s \in DOMAIN index.tools : index.tools[s] \in 0 .. Len(obj.tools) - 1
      BY <1>1 DEF Tabled
    <3> QED
      BY <3>1, <3>2, <3>3, <3>4
  <2> QED
    BY <1>1, <2>1 DEF Named, Widens
<1>10. ClosedKept(obj', source', DOMAIN meaning.labels)
  <2>1. obj'.code \in Seq(CodeWords) /\ Widens(obj.code, obj'.code)
    <3> DEFINE both == obj.code \o w
    <3>1. w \in Seq(CodeWords)
      BY <1>2
    <3> HIDE DEF w
    <3>2. /\ both \in Seq(CodeWords) /\ Len(both) >= Len(obj.code)
          /\ \A k \in 1 .. Len(obj.code) : both[k] = obj.code[k]
      BY <1>1, <3>1
    <3>3. obj'.code = both
      BY DEF w
    <3> HIDE DEF both
    <3>4. IsSeq(both)
      BY <3>2 DEF IsSeq
    <3>5. Widens(obj.code, both)
      BY <1>1, <3>2, <3>4 DEF Widens
    <3> QED
      BY <3>2, <3>3, <3>5
  <2>2. \A k \in 1 .. Len(obj.funcs) : source'[k + 1] = source[k + 1]
    <3> TAKE k \in 1 .. Len(obj.funcs)
    <3>1. k + 1 \in 1 .. Len(source) - 1
      BY <1>1
    <3> QED
      BY <1>4, <3>1
  <2>3. Len(source') \in Nat /\ Len(source) <= Len(source')
    BY <1>1, <1>4
  <2> QED
    BY <1>1, <2>1, <2>2, <2>3, ClosedStays
<1>11. OpenKept'
  BY <1>3, <1>4, <1>6, <1>7, <1>8 DEF OpenKept
<1>12. ClosedKept(obj, source, DOMAIN meaning.labels)'
  BY <1>10
<1> QED
  BY <1>9, <1>11, <1>12 DEF MeantInv

(* A number that is kept loads as itself, in either width. *)
LEMMA ImmediateLoads ==
  ASSUME NEW op \in Ops, NEW n \in Int, Keepable(n)
  PROVE  Imm2(InsnOf(op, 0, Literal("Imm", n))) = n
<1> DEFINE top == Units * Units
           b == Literal("Imm", n)
<1>1. /\ Units \in Nat /\ Units > 1 /\ Units % 2 = 0 /\ top \in Nat /\ Units < top
  BY Widths, UnitsAssumption
<1> HIDE DEF top
<1>2. n \in -(Units \div 2) .. (Units \div 2 - 1) \/ n \in Units .. top \div 2 - 1
  BY DEF Keepable, top
<1>3. /\ n < 0 => b = n % Units
      /\ n >= 0 /\ n <= top - 1 => b = n
  BY <1>1 DEF Literal, AtMost, Magnitude, top
<1> HIDE DEF b
<1>4. CASE n \in -(Units \div 2) .. (Units \div 2 - 1)
  <2>1. b = n % Units /\ b \in 0 .. Units - 1
    <3>1. n < 0 \/ (n >= 0 /\ n < Units /\ n <= top - 1)
      BY <1>1, <1>4
    <3>2. n % Units \in 0 .. Units - 1
      BY Widths
    <3>3. n >= 0 /\ n < Units => n % Units = n
      BY <1>1
    <3> QED
      BY <1>3, <3>1, <3>2, <3>3
  <2>2. b \in Operands /\ b < Units
    <3>1. b \in 0 .. top - 1 /\ b < Units
      BY <1>1, <2>1
    <3> QED
      BY <3>1 DEF Operands, top
  <2>3. Encode(op, 0, b) = <<CodeWord(op, 0, b)>>
    BY <2>2, Encoded
  <2>4. InsnOf(op, 0, b) = [op |-> op, a |-> 0, b |-> n % Units, len |-> 1]
    <3>1. Len(Encode(op, 0, b)) = 1
      BY <2>3
    <3> QED
      BY <2>1, <3>1 DEF InsnOf
  <2>5. n \in -(Units \div 2) .. Units - 1 /\ n < Units \div 2
    BY <1>1, <1>4
  <2>6. Imm2(InsnOf(op, 0, b)) = n
    BY <2>4, <2>5, NarrowImmediate
  <2> QED
    BY <2>6 DEF b
<1>5. CASE n \in Units .. top \div 2 - 1
  <2>1. b = n /\ n < top \div 2 /\ n \in 0 .. top - 1 /\ n >= Units
    BY <1>1, <1>3, <1>5
  <2>2. Len(Encode(op, 0, b)) = 2
    <3>1. b \in Operands /\ b >= Units
      BY <2>1 DEF Operands, top
    <3>2. Encode(op, 0, b) =
            <<CodeWord(WIDE_PREFIX, 0, b \div Units), CodeWord(op, 0, b % Units)>>
      BY <3>1, Encoded
    <3> QED
      BY <3>2
  <2>3. InsnOf(op, 0, b).b = n /\ InsnOf(op, 0, b).len = 2
    BY <2>1, <2>2 DEF InsnOf
  <2>4. Imm2(InsnOf(op, 0, b)) = n
    BY <2>1, <2>3 DEF Imm2, top
  <2> QED
    BY <2>4 DEF b
<1> QED
  BY <1>2, <1>4, <1>5

(* An instruction of the source says what it was asked, by the object it     *)
(* joins: the number, the constant, the tool or the place of the label.     *)
LEMMA AskedSays ==
  ASSUME IInv, OneInv, TypeInv, MeantInv, Instruction
  PROVE  LET op == toks[i].s
             t == toks[i + 1]
             class == TABLE[op].operand
             x == [op |-> op, a |-> 0, operand |-> t, meant |-> Meant(class, t)]
             d == InsnOf(op, 0, OperandWord(class, t))
         IN Says(obj', x, d) /\ Branches(x, Decoded(OpenBody), d)
<1> DEFINE op == toks[i].s
           t == toks[i + 1]
           class == TABLE[op].operand
           b == OperandWord(class, t)
           meant == Meant(class, t)
           x == [op |-> op, a |-> 0, operand |-> t, meant |-> meant]
           d == InsnOf(op, 0, b)
           ds == Decoded(OpenBody)
<1>1. /\ op \in Ops /\ t \in Tokens /\ OperandFault(class, t) = "ok"
      /\ t.kind = "Int" => t.n \in Int
      /\ b \in Operands
  BY Accepts
<1>2. status = "open" /\ job = "assemble" /\ IsObj(obj)
  BY DEF Instruction, Accepting, Reading, IInv
<1>3. Named /\ Tabled /\ Labelled /\ Len(Latest) \in Nat /\ Len(ds) = Len(Latest)
  BY <1>2, Opened DEF OpenKept
<1>4. IsSeq(obj.constants) /\ Len(obj.constants) \in Nat /\ Len(obj.tools) \in Nat
  BY <1>3, Lengths DEF Tabled
<1>5. /\ obj'.constants = IF class = "Const" /\ t.kind = "Str" THEN Append(obj.constants, t)
                          ELSE obj.constants
      /\ obj'.tools = obj.tools
  <2>1. PICK y, z : obj' = [obj EXCEPT
           !.constants = IF class = "Const" /\ t.kind = "Str" THEN Append(@, t) ELSE @,
           !.tables = y, !.code = z]
    BY DEF Instruction, Tok, After
  <2> QED
    BY <1>2, <2>1 DEF IsObj
<1>6. \/ class = "None" /\ t.kind \in LineEnds
      \/ class # "None" /\ t.kind = "Int" /\ b = Literal(class, t.n)
           /\ class \notin {"Const", "Tool", "Func", "Target"}
      \/ class = "Const" /\ t.kind = "Str" /\ b = Len(obj.constants)
      \/ class \in {"Imm", "Const"} /\ t.kind = "Ident" /\ t.s \in DOMAIN index.constants
           /\ b = index.constants[t.s]
      \/ class = "Tool" /\ t.kind = "Ident" /\ t.s \in DOMAIN index.tools
           /\ b = index.tools[t.s]
      \/ class \in {"Func", "Target"} /\ t.kind = "Ident" /\ Defers(class, t)
      \/ class = "Target" /\ t.kind = "Ident" /\ ~Defers(class, t)
           /\ t.s \in DOMAIN fn.labels /\ b = fn.labels[t.s]
  BY <1>1, OperandCases
<1>7. /\ t.kind \in {"Directive", "Ident", "Label", "Str", "Int", "Newline", "End"}
      /\ "Int" \notin LineEnds /\ "Str" \notin LineEnds /\ "Ident" \notin LineEnds
  BY <1>1 DEF Tokens, LineEnds
<1>8. /\ x.op = op /\ x.a = 0 /\ x.operand = t /\ x.meant = meant /\ Class(x) = class
      /\ d.op = op /\ d.a = 0 /\ d.b = b
  BY DEF Class, InsnOf
<1>9. /\ class \in {"Imm", "Const"} /\ t.kind = "Ident" => meant = meaning.constants[t.s]
      /\ class = "Target" /\ meant # <<>> =>
           t.kind = "Ident" /\ t.s \in DOMAIN meaning.labels /\ meant = <<meaning.labels[t.s]>>
  BY DEF Meant
<1>10. class = "Imm" /\ t.kind = "Int" /\ Keepable(t.n) => Imm2(d) = t.n
  <2> SUFFICES ASSUME class = "Imm", t.kind = "Int", Keepable(t.n) PROVE Imm2(d) = t.n
    OBVIOUS
  <2>1. b = Literal("Imm", t.n)
    BY <1>6, <1>7
  <2> QED
    BY <1>1, <2>1, ImmediateLoads
<1> HIDE DEF op, t, class, b, meant, x, d, ds
<1>11. Unsigned(x) => d.b = AtMost(Magnitude(x.operand.n), Units * Units - 1)
  <2> SUFFICES ASSUME Unsigned(x) PROVE b = AtMost(Magnitude(t.n), Units * Units - 1)
    BY <1>8
  <2>1. t.kind = "Int" /\ class # "Imm"
    BY <1>7, <1>8 DEF Unsigned
  <2>2. b = Literal(class, t.n)
    BY <1>6, <1>7, <2>1
  <2> QED
    BY <2>1, <2>2 DEF Literal
<1>12. class = "Const" /\ t.kind = "Ident" =>
         b + 1 \in 1 .. Len(obj.constants) /\ obj.constants[b + 1] = meant
  <2> SUFFICES ASSUME class = "Const", t.kind = "Ident"
               PROVE  b + 1 \in 1 .. Len(obj.constants) /\ obj.constants[b + 1] = meant
    OBVIOUS
  <2>1. t.s \in DOMAIN index.constants /\ b = index.constants[t.s]
    BY <1>6, <1>7
  <2>2. obj.constants[b + 1] = meant
    BY <1>3, <1>9, <2>1 DEF Named
  <2>3. b \in 0 .. Len(obj.constants) - 1
    BY <1>3, <2>1 DEF Tabled
  <2> QED
    BY <1>4, <2>2, <2>3
<1>13. class = "Const" /\ t.kind = "Str" =>
         b + 1 \in 1 .. Len(obj'.constants) /\ obj'.constants[b + 1] = t
  <2> SUFFICES ASSUME class = "Const", t.kind = "Str"
               PROVE  b + 1 \in 1 .. Len(obj'.constants) /\ obj'.constants[b + 1] = t
    OBVIOUS
  <2>1. b = Len(obj.constants)
    BY <1>6, <1>7
  <2>2. obj'.constants = Append(obj.constants, t)
    BY <1>5
  <2>3. Len(obj'.constants) = Len(obj.constants) + 1 /\ obj'.constants[Len(obj.constants) + 1] = t
    BY <1>4, <2>2, SeqGrows
  <2> QED
    BY <1>4, <2>1, <2>3
<1>14. class = "Tool" /\ t.kind = "Ident" =>
         b + 1 \in 1 .. Len(obj.tools) /\ obj.tools[b + 1] = t.s
  <2> SUFFICES ASSUME class = "Tool", t.kind = "Ident"
               PROVE  b + 1 \in 1 .. Len(obj.tools) /\ obj.tools[b + 1] = t.s
    OBVIOUS
  <2>1. t.s \in DOMAIN index.tools /\ b = index.tools[t.s]
    BY <1>6, <1>7
  <2>2. obj.tools[b + 1] = t.s /\ b \in 0 .. Len(obj.tools) - 1
    BY <1>3, <2>1 DEF Named, Tabled
  <2> QED
    BY <1>4, <2>2
<1>15. Says(obj', x, d)
  <2>1. class = "Const" /\ t.kind = "Ident" => obj'.constants = obj.constants
    BY <1>5
  <2> QED
    BY <1>5, <1>8, <1>10, <1>11, <1>12, <1>13, <1>14, <2>1 DEF Says
<1>16. Branches(x, ds, d)
  <2> SUFFICES ASSUME class = "Target", meant # <<>>
               PROVE  meant[1] \in 1 .. Len(ds) + 1 /\ b = StartOf(ds, meant[1])
    BY <1>8 DEF Branches
  <2>1. /\ t.kind = "Ident" /\ t.s \in DOMAIN meaning.labels
        /\ meant[1] = meaning.labels[t.s]
    BY <1>9
  <2>2. /\ t.s \in DOMAIN fn.labels
        /\ meaning.labels[t.s] \in 1 .. Len(ds) + 1
        /\ fn.labels[t.s] = StartOf(ds, meaning.labels[t.s])
    BY <1>2, <1>3, <2>1 DEF Labelled, ds
  <2>3. ~Defers(class, t)
    BY <2>2 DEF Defers
  <2>4. b = fn.labels[t.s]
    BY <1>6, <1>7, <2>1, <2>3
  <2> QED
    BY <2>1, <2>2, <2>4
<1> QED
  BY <1>15, <1>16 DEF op, t, class, b, meant, x, d, ds

(* A name that is put off is among the names awaited from then on. *)
LEMMA PutOff ==
  ASSUME NEW s, IsSeq(s), NEW x
  PROVE  IsSeq(Append(s, x)) /\ ToSet(s) \subseteq ToSet(Append(s, x)) /\ x \in ToSet(Append(s, x))
<1> DEFINE t == Append(s, x)
<1>1. /\ IsSeq(t) /\ Len(t) = Len(s) + 1 /\ t[Len(s) + 1] = x /\ Len(s) \in Nat
      /\ \A k \in 1 .. Len(s) : t[k] = s[k]
  BY SeqGrows
<1>2. \A u : IsSeq(u) => DOMAIN u = 1 .. Len(u)
  BY DEF IsSeq
<1> HIDE DEF t
<1>3. DOMAIN s = 1 .. Len(s) /\ DOMAIN t = 1 .. Len(s) + 1
  BY <1>1, <1>2
<1>4. \A k \in DOMAIN s : k \in DOMAIN t /\ t[k] = s[k]
  BY <1>1, <1>3
<1>5. Len(s) + 1 \in DOMAIN t
  BY <1>1, <1>3
<1>6. ToSet(s) \subseteq ToSet(t) /\ x \in ToSet(t)
  BY <1>1, <1>4, <1>5 DEF ToSet
<1> QED
  BY <1>1, <1>6 DEF t

(* One more of the names awaited. *)
LEMMA TargetedOn ==
  ASSUME NEW xs, IsSeq(xs), NEW names, Targeted(xs, names), NEW more, names \subseteq more,
         NEW x, Class(x) = "Target" /\ x.operand.kind = "Ident" => x.operand.s \in more
  PROVE  Targeted(Append(xs, x), more)
<1> DEFINE ys == Append(xs, x)
<1>1. /\ Len(ys) = Len(xs) + 1 /\ ys[Len(xs) + 1] = x /\ Len(xs) \in Nat
      /\ \A k \in 1 .. Len(xs) : ys[k] = xs[k]
  BY SeqGrows
<1> HIDE DEF ys
<1>2. ASSUME NEW n \in 1 .. Len(ys), Class(ys[n]) = "Target", ys[n].operand.kind = "Ident"
      PROVE  ys[n].operand.s \in more
  <2>1. CASE n \in 1 .. Len(xs)
    BY <1>1, <1>2, <2>1 DEF Targeted
  <2>2. CASE n = Len(xs) + 1
    BY <1>1, <1>2, <2>2
  <2> QED
    BY <1>1, <2>1, <2>2
<1>3. Targeted(ys, more)
  BY <1>2 DEF Targeted
<1> QED
  BY <1>3 DEF ys

(* An instruction of the source is kept. *)
LEMMA InstructionMeant == ASSUME IInv, OneInv, TypeInv, MeantInv, Instruction PROVE MeantInv'
<1> DEFINE op == toks[i].s
           t == toks[i + 1]
           class == TABLE[op].operand
           b == OperandWord(class, t)
           w == Encode(op, 0, b)
           x == [op |-> op, a |-> 0, operand |-> t, meant |-> Meant(class, t)]
           d == InsnOf(op, 0, b)
<1>1. op \in Ops /\ b \in Operands /\ OperandFault(class, t) = "ok"
  BY Accepts
<1>2. /\ status = "open" /\ job = "assemble" /\ IsObj(obj) /\ IsFn(fn)
      /\ UNCHANGED <<job, status, index, meaning>>
      /\ Asks(x)
      /\ obj' = [obj EXCEPT
                  !.constants = IF class = "Const" /\ t.kind = "Str" THEN Append(@, t) ELSE @,
                  !.tables = IF op = "switch" THEN Append(@, <<0>>) ELSE @,
                  !.code = @ \o w]
      /\ fn' = IF t.kind = "Ident" /\ Defers(class, t)
               THEN [fn EXCEPT !.pending = Append(@, t.s)] ELSE fn
  BY DEF Instruction, Accepting, Reading, Skip, Tok, After, IInv
<1>3. Says(obj', x, d) /\ Branches(x, Decoded(OpenBody), d)
  BY AskedSays
<1>4. x.operand = t /\ Class(x) = class
  BY DEF Class
<1> HIDE DEF t, class, b, w, x, d, op
<1>5. IsSeq(obj.constants) /\ IsSeq(obj.tools) /\ IsSeq(fn.pending) /\ Targeted(Latest, Awaited)
      /\ IsSeq(Latest)
  BY <1>2, Opened DEF Tabled, OpenKept
<1>6. /\ obj'.code = obj.code \o w /\ obj'.funcs = obj.funcs /\ obj'.tools = obj.tools
      /\ obj'.constants = obj.constants \/ obj'.constants = Append(obj.constants, t)
  BY <1>2 DEF IsObj
<1>7. Widens(obj.constants, obj'.constants) /\ Widens(obj.tools, obj'.tools)
  BY <1>5, <1>6, WidensOn
<1>8. /\ fn'.name = fn.name /\ fn'.off = fn.off /\ fn'.labels = fn.labels
      /\ \/ fn'.pending = fn.pending /\ ~(t.kind = "Ident" /\ Defers(class, t))
         \/ fn'.pending = Append(fn.pending, t.s)
  BY <1>2 DEF IsFn
<1>9. /\ IsSeq(fn'.pending) /\ ToSet(fn.pending) \subseteq ToSet(fn'.pending)
      /\ t.kind = "Ident" /\ Defers(class, t) => t.s \in ToSet(fn'.pending)
  <2>1. CASE fn'.pending = fn.pending /\ ~(t.kind = "Ident" /\ Defers(class, t))
    BY <1>5, <2>1
  <2>2. CASE fn'.pending = Append(fn.pending, t.s)
    BY <1>5, <2>2, PutOff
  <2> QED
    BY <1>8, <2>1, <2>2
<1>10. Awaited' = DOMAIN fn.labels \cup ToSet(fn'.pending) /\ Awaited \subseteq Awaited'
  BY <1>2, <1>8, <1>9 DEF Awaited
<1>11. class = "Target" /\ t.kind = "Ident" => t.s \in Awaited'
  BY <1>9, <1>10 DEF Defers
<1>12. Targeted(Append(Latest, x), Awaited')
  BY <1>4, <1>5, <1>10, <1>11, TargetedOn
<1>13. Says(obj', x, InsnOf(op, 0, b)) /\ Branches(x, Decoded(OpenBody), InsnOf(op, 0, b))
       /\ obj'.code = obj.code \o Encode(op, 0, b)
  BY <1>3, <1>6 DEF d, w
<1> QED
  BY <1>1, <1>2, <1>6, <1>7, <1>8, <1>9, <1>12, <1>13, AsksMeant

(* An instruction of a front end is kept as it was given. *)
LEMMA BuilderInsnMeant == ASSUME IInv, OneInv, TypeInv, MeantInv, BuilderInsn PROVE MeantInv'
<1>1. PICK c \in Insns :
        /\ obj' = [obj EXCEPT !.code = @ \o Encode(c.op, c.a, c.b)]
        /\ Asks([op |-> c.op, a |-> c.a, meant |-> <<>>,
                 operand |-> [kind |-> "Raw", n |-> c.b]])
  BY DEF BuilderInsn
<1>2. /\ status = "open" /\ job = "build" /\ IsObj(obj)
      /\ UNCHANGED <<job, status, index, meaning, fn>>
  BY DEF BuilderInsn, Calling, Skip, IInv
<1> DEFINE op == c.op
           a == c.a
           b == c.b
           w == Encode(op, a, b)
           x == [op |-> op, a |-> a, meant |-> <<>>, operand |-> [kind |-> "Raw", n |-> b]]
           d == InsnOf(op, a, b)
<1>3. op \in Ops /\ a \in Nat /\ b \in Operands
  BY InsnsAssumption
<1> HIDE DEF op, a, b, w
<1>4. /\ Asks(x) /\ obj' = [obj EXCEPT !.code = @ \o w]
  BY <1>1 DEF op, a, b, w
<1>5. /\ x.op = op /\ x.a = a /\ x.meant = <<>> /\ x.operand.kind = "Raw" /\ x.operand.n = b
      /\ d.op = op /\ d.a = a /\ d.b = b
  BY DEF InsnOf
<1> HIDE DEF x, d
<1>6. b = AtMost(Magnitude(b), Units * Units - 1)
  <2> DEFINE top == Units * Units
  <2>1. top \in Nat /\ b \in 0 .. top - 1
    BY <1>3, Widths DEF Operands
  <2> HIDE DEF top
  <2>2. b = AtMost(Magnitude(b), top - 1)
    BY <2>1 DEF AtMost, Magnitude
  <2> QED
    BY <2>2 DEF top
<1>7. Says(obj', x, d) /\ Branches(x, Decoded(OpenBody), d)
  BY <1>5, <1>6 DEF Says, Branches
<1>8. /\ IsSeq(obj.constants) /\ IsSeq(obj.tools) /\ IsSeq(fn.pending) /\ IsSeq(Latest)
      /\ Targeted(Latest, Awaited)
  BY <1>2, Opened DEF Tabled, OpenKept
<1>9. /\ obj'.code = obj.code \o w /\ obj'.funcs = obj.funcs /\ obj'.tools = obj.tools
      /\ obj'.constants = obj.constants
  BY <1>2, <1>4 DEF IsObj
<1>10. Widens(obj.constants, obj'.constants) /\ Widens(obj.tools, obj'.tools)
  BY <1>8, <1>9, WidensOn
<1>11. Targeted(Append(Latest, x), Awaited')
  <2>1. Awaited' = Awaited
    BY <1>2 DEF Awaited
  <2> QED
    BY <1>5, <1>8, <2>1, TargetedOn
<1>12. /\ Says(obj', x, InsnOf(op, a, b)) /\ Branches(x, Decoded(OpenBody), InsnOf(op, a, b))
       /\ obj'.code = obj.code \o Encode(op, a, b)
  BY <1>7, <1>9 DEF d, w
<1> QED
  BY <1>2, <1>3, <1>4, <1>8, <1>9, <1>10, <1>11, <1>12, AsksMeant

(* A closed object keeps what its functions were asked. *)
LEMMA FinishMeant ==
  ASSUME IInv, OneInv, TypeInv, MeantInv, Finish \/ BuilderFinish
  PROVE  MeantInv'
<1> DEFINE names == DOMAIN meaning.labels
<1>1. status = "open" /\ UNCHANGED <<job, fn, index, source, meaning>> /\ status' # "open"
  BY Codes DEF Finish, BuilderFinish
<1>2. /\ Named /\ OpenKept /\ ClosedKept(obj, source, names)
  BY <1>1, Opened
<1>3. CASE obj' = obj
  BY <1>1, <1>3, MeantStays
<1>4. ASSUME NEW m, obj' = Closed(obj, fn, m), Targeted(Latest, names)
      PROVE  MeantInv'
  <2>1. /\ ClosedKept(obj', source, names)
        /\ obj'.constants = obj.constants /\ obj'.tools = obj.tools
    BY <1>1, <1>2, <1>4, ClosingKeeps
  <2>2. Named'
    BY <1>1, <1>2, <2>1 DEF Named
  <2>3. ClosedKept(obj, source, DOMAIN meaning.labels)'
    BY <1>1, <2>1
  <2> QED
    BY <1>1, <2>2, <2>3 DEF MeantInv
<1>5. CASE Finish /\ obj' # obj
  <2>1. job = "assemble" /\ FinishFault = "ok" /\ obj' = Closed(obj, fn, fn.maxstack[1])
    BY <1>5 DEF Finish
  <2>2. ToSet(fn.pending) \subseteq DOMAIN fn.labels
    BY <2>1 DEF FinishFault
  <2>3. Awaited \subseteq names
    BY <1>2, <2>1, <2>2 DEF OpenKept, Labelled, Awaited
  <2>4. Targeted(Latest, names)
    BY <1>2, <2>3 DEF OpenKept, Targeted
  <2> QED
    BY <1>4, <2>1, <2>4
<1>6. CASE BuilderFinish
  <2>1. job # "assemble" /\ \E m : obj' = Closed(obj, fn, m)
    BY <1>6 DEF BuilderFinish, CloseFn
  <2>2. Awaited \subseteq names
    BY <2>1 DEF Awaited
  <2>3. Targeted(Latest, names)
    BY <1>2, <2>2 DEF OpenKept, Targeted
  <2> QED
    BY <1>4, <2>1, <2>3
<1> QED
  BY <1>3, <1>5, <1>6

(* Nothing has been asked at the start. *)
LEMMA InitMeant == Init => MeantInv
<1> SUFFICES ASSUME Init PROVE MeantInv
  OBVIOUS
<1>1. /\ obj = NewObject /\ fn = NewFn(<<>>, 0) /\ source = <<<<>>>>
      /\ index = [constants |-> NoNames, tools |-> NoNames]
      /\ meaning = [constants |-> NoNames, labels |-> NoNames]
  BY DEF Init
<1>2. /\ obj.code = <<>> /\ obj.funcs = <<>> /\ fn.name = <<>> /\ fn.off = 0
      /\ fn.labels = NoNames /\ fn.pending = <<>>
      /\ index.constants = NoNames /\ index.tools = NoNames
      /\ meaning.constants = NoNames /\ meaning.labels = NoNames /\ DOMAIN NoNames = {}
  BY <1>1 DEF NewObject, NewFn, NoNames
<1>3. /\ <<>> \in Seq(CodeWords) /\ Len(<<>>) = 0 /\ 0 + 1 = 1
      /\ Len(source) = 1 /\ source[1] = <<>> /\ source \in Seq({<<>>})
  BY <1>1
<1>4. Latest = <<>> /\ IsSeq(source)
  BY <1>3 DEF Latest, IsSeq
<1>5. OpenBody = <<>>
  <2>1. SubSeq(<<>>, 0 + 1, 0) = <<>>
    OBVIOUS
  <2> QED
    BY <1>2, <1>3, <2>1 DEF OpenBody
<1>6. Named
  BY <1>1, <1>2 DEF Named
<1>7. Sourced /\ Labelled
  <2>1. Sourced
    BY <1>2, <1>3, <1>4 DEF Sourced
  <2>2. Labelled
    BY <1>2 DEF Labelled
  <2> QED
    BY <2>1, <2>2
<1>8. OpenKept
  <2>1. Keeps(obj, <<>>, <<>>) /\ Targeted(<<>>, Awaited) /\ IsSeq(<<>>)
    BY <1>3, NothingOpen
  <2> QED
    BY <1>2, <1>4, <1>5, <1>7, <2>1 DEF OpenKept
<1>9. ClosedKept(obj, source, DOMAIN meaning.labels)
  BY <1>2, <1>3 DEF ClosedKept
<1> QED
  BY <1>6, <1>8, <1>9 DEF MeantInv

(* Every step keeps what the object says. *)
LEMMA MeantStep == IInv /\ OneInv /\ TypeInv /\ MeantInv /\ [Next]_vars => MeantInv'
<1> SUFFICES ASSUME IInv, OneInv, TypeInv, MeantInv, [Next]_vars PROVE MeantInv'
  OBVIOUS
<1>1. CASE Reject \/ IsaLine \/ Image \/ LineEnd \/ FnHeader \/ Signature \/ Maxstack
             \/ BuilderLabel
  BY <1>1, QuietMeant
<1>2. CASE FnBegin
  BY <1>2, FnBeginMeant
<1>3. CASE BeginFn
  BY <1>3, BeginFnMeant
<1>4. CASE Tool \/ Const \/ ConstStr
  BY <1>4, TablesMeant
<1>5. CASE Label
  BY <1>5, LabelMeant
<1>6. CASE Instruction
  BY <1>6, InstructionMeant
<1>7. CASE BuilderInsn
  BY <1>7, BuilderInsnMeant
<1>8. CASE Finish \/ BuilderFinish
  BY <1>8, FinishMeant
<1>9. CASE UNCHANGED vars
  <2>1. UNCHANGED <<job, obj, index, source, meaning, fn, status>>
    BY <1>9 DEF vars
  <2> QED
    BY <2>1, MeantStays
<1> QED
  BY <1>1, <1>2, <1>3, <1>4, <1>5, <1>6, <1>7, <1>8, <1>9
  DEF Next, Assembling, Building, Returned

(* What the invariants say of a function of the object. *)
LEMMA WindowsKeep ==
  ASSUME IInv, MeantInv, NEW k \in DOMAIN obj.funcs
  PROVE  /\ Len(Window(k)) = Len(Written(k))
         /\ \A n \in DOMAIN Written(k) :
              /\ Says(obj, Written(k)[n], Window(k)[n])
              /\ Branches(Written(k)[n], Window(k), Window(k)[n])
              /\ Class(Written(k)[n]) = "Target" /\ Written(k)[n].operand.kind = "Ident" =>
                   Written(k)[n].operand.s \in DOMAIN meaning.labels
<1>1. \A s : IsSeq(s) => DOMAIN s = 1 .. Len(s)
  BY DEF IsSeq
<1>2. k \in 1 .. Len(obj.funcs)
  BY <1>1 DEF IInv, Tiles
<1> DEFINE f == obj.funcs[k]
           body == Part(obj, f.off, f.len)
<1>3. Keeps(obj, body, Written(k)) /\ Targeted(Written(k), DOMAIN meaning.labels)
  BY <1>2 DEF MeantInv, ClosedKept, Written
<1>4. Window(k) = Decoded(body)
  BY DEF Window, DecodeRange, Part
<1> HIDE DEF body
<1>5. DOMAIN Written(k) = 1 .. Len(Written(k))
  BY <1>1, <1>3 DEF Keeps
<1> QED
  BY <1>3, <1>4, <1>5 DEF Keeps, Targeted

(* The four invariants hold of every state. *)
LEMMA MeantAlways == Spec => [](IInv /\ OneInv /\ TypeInv /\ MeantInv)
<1>1. Init => IInv /\ OneInv /\ TypeInv /\ MeantInv
  BY InitHolds, InitOne, InitTypes, InitMeant
<1>2. (IInv /\ OneInv /\ TypeInv /\ MeantInv) /\ [Next]_vars
        => (IInv /\ OneInv /\ TypeInv /\ MeantInv)'
  BY StepHolds, OneStep, TypesStep, MeantStep
<1> QED
  BY <1>1, <1>2, PTL DEF Spec

(* What decode_range reads back from a function of a finished object is what *)
(* the source or the front end wrote, in order and over instructions of      *)
(* either width (isa.rs encode, decode; cfg.rs decode_range).                *)
THEOREM ReadsBack == Spec => []RoundTrip
<1>1. IInv /\ MeantInv => RoundTrip
  <2> SUFFICES ASSUME IInv, MeantInv, status = "done" PROVE RoundTrip
    BY DEF RoundTrip, EachInsn
  <2>1. \A k \in DOMAIN obj.funcs : Len(Window(k)) = Len(Written(k))
    BY WindowsKeep
  <2>2. ASSUME NEW k \in DOMAIN obj.funcs, NEW n \in DOMAIN Written(k)
        PROVE  LET x == Written(k)[n]
                   d == Window(k)[n]
               IN /\ x.op = d.op /\ x.a = d.a
                  /\ Unsigned(x) => d.b = AtMost(Magnitude(x.operand.n), Units * Units - 1)
    <3>1. Says(obj, Written(k)[n], Window(k)[n])
      BY <2>2, WindowsKeep
    <3> QED
      BY <3>1 DEF Says
  <2> QED
    BY <2>1, <2>2 DEF RoundTrip, EachInsn
<1> QED
  BY <1>1, MeantAlways, PTL

(* A number that is loaded is the number written, if it fits 16 bits signed  *)
(* or needs the wide form, whatever the width of the word (asm.rs:173-178).  *)
THEOREM ImmediatesKept == Spec => []ImmediateKept
<1>1. IInv /\ MeantInv => ImmediateKept
  <2> SUFFICES ASSUME IInv, MeantInv, NEW k \in DOMAIN obj.funcs, NEW n \in DOMAIN Written(k)
               PROVE  LET x == Written(k)[n]
                          d == Window(k)[n]
                      IN Class(x) = "Imm" /\ x.operand.kind = "Int" /\ Keepable(x.operand.n) =>
                           Imm2(d) = x.operand.n
    BY DEF ImmediateKept, EachInsn
  <2>1. Says(obj, Written(k)[n], Window(k)[n])
    BY WindowsKeep
  <2> QED
    BY <2>1 DEF Says
<1> QED
  BY <1>1, MeantAlways, PTL

(* A branch of what assemble accepts names a label of its function, and one  *)
(* back to a label reaches the instruction behind it, counted in words as    *)
(* the machine counts them, whatever lies between (asm.rs:143-153, 237-249). *)
THEOREM BranchesReach == Spec => []BranchesMeant
<1>1. IInv /\ MeantInv => BranchesMeant
  <2> SUFFICES ASSUME IInv, MeantInv PROVE BranchesMeant
    OBVIOUS
  <2>1. ASSUME NEW k \in DOMAIN obj.funcs, NEW n \in DOMAIN Written(k)
        PROVE  LET x == Written(k)[n]
               IN /\ Class(x) = "Target" /\ x.operand.kind = "Ident" =>
                       x.operand.s \in DOMAIN meaning.labels
                  /\ Class(x) = "Target" /\ x.meant # <<>> =>
                       Window(k)[n].b = StartOf(Window(k), x.meant[1])
    <3>1. /\ Branches(Written(k)[n], Window(k), Window(k)[n])
          /\ Class(Written(k)[n]) = "Target" /\ Written(k)[n].operand.kind = "Ident" =>
               Written(k)[n].operand.s \in DOMAIN meaning.labels
      BY <2>1, WindowsKeep
    <3> QED
      BY <3>1 DEF Branches
  <2> QED
    BY <2>1 DEF BranchesMeant, EachInsn
<1> QED
  BY <1>1, MeantAlways, PTL

(* A constant or a tool that an instruction names, or writes in place, is in *)
(* its table at the index encoded, however often the name is given again     *)
(* (asm.rs:111-139, 192-222).                                                *)
THEOREM NamesAreMeant == Spec => []NamesMeant
<1>1. IInv /\ MeantInv => NamesMeant
  <2> SUFFICES ASSUME IInv, MeantInv, NEW k \in DOMAIN obj.funcs, NEW n \in DOMAIN Written(k)
               PROVE  LET x == Written(k)[n]
                          d == Window(k)[n]
                      IN /\ Class(x) = "Const" /\ x.operand.kind = "Ident" =>
                              obj.constants[d.b + 1] = x.meant
                         /\ Class(x) = "Const" /\ x.operand.kind = "Str" =>
                              obj.constants[d.b + 1] = x.operand
                         /\ Class(x) = "Tool" /\ x.operand.kind = "Ident" =>
                              obj.tools[d.b + 1] = x.operand.s
    BY DEF NamesMeant, EachInsn
  <2>1. Says(obj, Written(k)[n], Window(k)[n])
    BY WindowsKeep
  <2> QED
    BY <2>1 DEF Says
<1> QED
  BY <1>1, MeantAlways, PTL
=============================================================================
