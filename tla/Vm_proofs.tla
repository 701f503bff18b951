----------------------------- MODULE Vm_proofs -----------------------------
(***************************************************************************)
(* The machine's properties for every admitted image, every host and every *)
(* width of the word.  TypeOK is not inductive: a step needs to know that  *)
(* a frame's function exists, that no allowance overflows, that the clone  *)
(* is no longer than the arena and how the pending trap, the exit code and *)
(* the last reply agree with the call stack.  IInv adds that.              *)
(***************************************************************************)
EXTENDS VmProperties, FiniteSetTheorems, SequenceTheorems, WellFoundedInduction,
        TLAPS

(* What the operators on values, frames and the arena return, for every     *)
(* width of the word.                                                       *)

(* What the assumption on the word gives.                                   *)
LEMMA WordFacts ==
  /\ Half \in Nat /\ Words \in Nat /\ Words > 6 /\ I64Max \in Nat
  /\ Radix \in Nat /\ Radix > 1 /\ Words = Radix * Radix
  BY WordAssumption DEF Words, I64Max

(* The constructors build values.                                           *)
LEMMA VoidType == Void \in Values
  BY WordFacts DEF Void, Values, VOID, Tags, Word

LEMMA IntVType == ASSUME NEW n \in Int PROVE IntV(n) \in Values
  BY WordFacts DEF IntV, Values, INT, Tags, Word

LEMMA BoolVType == ASSUME NEW p \in BOOLEAN PROVE BoolV(p) \in Values
  BY IntVType DEF BoolV

(* An integer read from a value is a signed word.                           *)
LEMMA AsIntType ==
  ASSUME NEW v \in Values
  PROVE  AsInt(v) \in -Half .. I64Max
  BY WordAssumption DEF AsInt, Values, Word, Words, I64Max

(* A packed handle fits the word; unpacking one gives numbers.              *)
LEMMA HandleVType ==
  ASSUME NEW tag \in Tags, NEW h \in Handles
  PROVE  HandleV(tag, h) \in Values
<1>1. PICK m \in 0 .. Radix - 1, n \in 0 .. Radix - 1 : h.off = m /\ h.len = n
  BY DEF Handles
<1>2. m * Radix <= (Radix - 1) * Radix
  BY <1>1, WordFacts
<1>3. (Radix - 1) * Radix = Words - Radix
  BY WordFacts
<1>4. m * Radix \in Nat
  BY WordFacts
<1>5. m * Radix + n \in 0 .. Words - 1
  BY <1>2, <1>3, <1>4, WordFacts
<1> QED
  BY <1>1, <1>5 DEF HandleV, Values, Word

(* An effect id below the number of words makes a value.                    *)
LEMMA PendingVType ==
  ASSUME NEW id \in Nat, id < Words
  PROVE  PendingV(id) \in Values
  BY WordFacts DEF PendingV, Values, PENDING, Tags, Word

(* Any word unpacks to an offset and a length.                              *)
LEMMA HandleOfType ==
  ASSUME NEW v \in Values
  PROVE  HandleOf(v).off \in Nat /\ HandleOf(v).len \in Nat
  BY WordFacts DEF HandleOf, Values, Word

(* Bitwise operations return numbers.                                       *)
LEMMA WordOfType ==
  ASSUME NEW bits \in SUBSET (0 .. WordBits - 1)
  PROVE  WordOf(bits) \in Nat
<1> DEFINE pairs == {p \in bits \X Word : p[2] < 2 ^ p[1]}
<1>1. IsFiniteSet(0 .. WordBits - 1) /\ IsFiniteSet(Word)
  BY FS_Interval, WordFacts, WordAssumption DEF Word
<1>2. IsFiniteSet(bits)
  BY <1>1, FS_Subset
<1>3. IsFiniteSet(bits \X Word)
  BY <1>1, <1>2, FS_Product
<1>4. IsFiniteSet(pairs)
  <2>1. pairs \in SUBSET (bits \X Word)
    OBVIOUS
  <2> QED
    BY <1>3, <2>1, FS_Subset
<1>5. Cardinality(pairs) \in Nat
  BY <1>4, FS_CardinalityType
<1> QED
  BY <1>5 DEF WordOf

LEMMA BitsType ==
  ASSUME NEW v, NEW w
  PROVE  BitAnd(v, w) \in Nat /\ BitOr(v, w) \in Nat
<1>1. BitAnd(v, w) \in Nat
  BY WordOfType DEF BitAnd
<1>2. BitOr(v, w) \in Nat
  BY WordOfType DEF BitOr
<1> QED
  BY <1>1, <1>2

(* Division that truncates returns integers.                                *)
LEMMA DivisionType ==
  ASSUME NEW m \in Int, NEW n \in Int, n # 0
  PROVE  Quotient(m, n) \in Int /\ Remainder(m, n) \in Int
  BY DEF Quotient, Remainder, Abs

-----------------------------------------------------------------------------
(* Frames. *)
LEMMA SeqOfFunction ==
  ASSUME NEW S, NEW n \in Nat, NEW g \in [1 .. n -> S]
  PROVE  g \in Seq(S) /\ Len(g) = n
  OBVIOUS

(* The fields of a frame and how they bound each other.                     *)
LEMMA FrameFields ==
  ASSUME NEW f \in Frames
  PROVE  /\ f.func \in Nat /\ f.pc \in Nat /\ f.sp \in Nat /\ f.maxstack \in Nat
         /\ f.returns \in Nat /\ f.slots \in Seq(Values)
         /\ f.sp <= f.maxstack /\ Len(f.slots) = f.maxstack
         /\ \A i \in 1 .. f.maxstack : f.slots[i] \in Values
  BY DEF Frames

(* A new frame is well formed, also when arguments are dropped.             *)
LEMMA NewFrameType ==
  ASSUME NEW func \in Nat, NEW args \in Seq(Values), NEW maxstack \in Nat,
         NEW returns \in Nat
  PROVE  NewFrame(func, args, maxstack, returns) \in Frames
<1> DEFINE kept == IF Len(args) < maxstack THEN Len(args) ELSE maxstack
           slots == [i \in 1 .. maxstack |-> IF i <= kept THEN args[i] ELSE Void]
<1>1. kept \in Nat /\ kept <= maxstack /\ kept <= Len(args)
  OBVIOUS
<1>2. \A i \in 1 .. maxstack : slots[i] \in Values
  BY <1>1, VoidType
<1>3. slots \in Seq(Values) /\ Len(slots) = maxstack
  BY <1>2
<1> HIDE DEF slots, kept
<1>4. [func |-> func, pc |-> 0, sp |-> kept, slots |-> slots,
       maxstack |-> maxstack, returns |-> returns] \in Frames
  BY <1>1, <1>3 DEF Frames
<1> QED
  BY <1>4 DEF NewFrame, slots, kept

(* Pops and pushes within the bounds keep a frame well formed.              *)
LEMMA ReplaceType ==
  ASSUME NEW f \in Frames, NEW n \in Nat, n <= f.sp, NEW vs \in Seq(Values),
         f.sp - n + Len(vs) <= f.maxstack
  PROVE  /\ Replace(f, n, vs) \in Frames
         /\ Replace(f, n, vs).func = f.func
         /\ Replace(f, n, vs).pc = f.pc
         /\ Replace(f, n, vs).returns = f.returns
<1> DEFINE base == f.sp - n
           slots == [i \in 1 .. f.maxstack |->
                       IF base < i /\ i <= base + Len(vs)
                       THEN vs[i - base] ELSE f.slots[i]]
<1>1. base \in Nat /\ base + Len(vs) \in Nat
  BY FrameFields
<1>2. \A i \in 1 .. f.maxstack : slots[i] \in Values
  BY <1>1, FrameFields
<1>3. slots \in Seq(Values) /\ Len(slots) = f.maxstack
  <2>1. f.maxstack \in Nat
    BY FrameFields
  <2>2. slots \in [1 .. f.maxstack -> Values]
    BY <1>2
  <2> QED
    BY <2>1, <2>2, SeqOfFunction
<1>4. Replace(f, n, vs) = [f EXCEPT !.sp = base + Len(vs), !.slots = slots]
  BY DEF Replace
<1> HIDE DEF slots, base
<1> QED
  BY <1>1, <1>3, <1>4, FrameFields DEF Frames, base

(* Operands are values, where there is none too.                            *)
LEMMA OpndType ==
  ASSUME NEW f \in Frames, NEW k \in Nat \ {0}
  PROVE  Opnd(f, k) \in Values
  BY FrameFields, VoidType DEF Opnd

(* pop_n returns as many values as asked for.                               *)
LEMMA TopNType ==
  ASSUME NEW f \in Frames, NEW n \in Nat, n <= f.sp
  PROVE  TopN(f, n) \in Seq(Values) /\ Len(TopN(f, n)) = n
<1>1. f.sp - n + 1 \in Int /\ f.sp \in Int
  BY FrameFields
<1>2. \A i \in f.sp - n + 1 .. f.sp : f.slots[i] \in Values
  BY FrameFields
<1> QED
  BY <1>1, <1>2, SubSeqProperties, FrameFields DEF TopN

-----------------------------------------------------------------------------
(* The arena. *)
LEMMA GetType ==
  ASSUME NEW cells \in Seq(Word), NEW v \in Values, Within(cells, HandleOf(v))
  PROVE  /\ Get(cells, HandleOf(v)) \in Seq(Word)
         /\ Len(Get(cells, HandleOf(v))) <= Len(cells)
<1>1. HandleOf(v).off + 1 \in Int /\ EndOf(HandleOf(v)) \in Int
  BY HandleOfType, WordFacts DEF EndOf
<1>2. \A i \in HandleOf(v).off + 1 .. EndOf(HandleOf(v)) : cells[i] \in Word
  BY <1>1, HandleOfType DEF Within
<1> QED
  BY <1>1, <1>2, SubSeqProperties, HandleOfType DEF Get, Within

(* The elements of a readable list are values.                              *)
LEMMA ElementsType ==
  ASSUME NEW bytes \in Seq(Word), AllReadable(bytes)
  PROVE  Elements(bytes) \in Seq(Values)
<1> DEFINE n == Len(bytes) \div SlotLen
<1>1. n \in Nat /\ SlotLen * n <= Len(bytes)
  BY DEF SlotLen
<1>2. \A i \in 1 .. n : Read(Slot(bytes, i)) \in Values
  <2> TAKE i \in 1 .. n
  <2>1. SlotLen * i - 1 \in 1 .. Len(bytes) /\ SlotLen * i \in 1 .. Len(bytes)
    BY <1>1 DEF SlotLen
  <2>2. bytes[SlotLen * i] \in Word /\ bytes[SlotLen * i - 1] \in Tags
    BY <2>1 DEF AllReadable, Readable, Slot
  <2> QED
    BY <2>2 DEF Read, Slot, Values
<1> HIDE DEF n
<1>3. [i \in 1 .. n |-> Read(Slot(bytes, i))] \in Seq(Values)
  BY <1>1, <1>2
<1> QED
  BY <1>3 DEF Elements, n

(* A list written slot by slot is cells of the arena.                       *)
LEMMA ListBytesType ==
  ASSUME NEW items \in Seq(Values)
  PROVE  ListBytes(items) \in Seq(Word)
<1> DEFINE n == SlotLen * Len(items)
<1>1. n \in Nat
  BY DEF SlotLen
<1>2. \A i \in 1 .. n : Write(items[(i + 1) \div 2])[2 - (i % 2)] \in Word
  <2> TAKE i \in 1 .. n
  <2>1. (i + 1) \div 2 \in 1 .. Len(items) /\ 2 - (i % 2) \in {1, 2}
    BY DEF SlotLen
  <2>2. items[(i + 1) \div 2] \in Values
    BY <2>1
  <2>3. \A v \in Values : Write(v)[1] \in Word /\ Write(v)[2] \in Word
    <3> TAKE v \in Values
    <3>1. v.tag \in Word /\ v.payload \in Word
      <4>1. v.tag \in 0 .. 5 /\ v.payload \in Word
        BY DEF Values, Tags
      <4>2. \A k \in 0 .. 5 : k \in 0 .. Words - 1
        BY WordFacts
      <4> QED
        BY <4>1, <4>2 DEF Word
    <3>2. Write(v)[1] = v.tag /\ Write(v)[2] = v.payload
      BY DEF Write
    <3> QED
      BY <3>1, <3>2
  <2>4. CASE 2 - (i % 2) = 1
    BY <2>2, <2>3, <2>4
  <2>5. CASE 2 - (i % 2) = 2
    BY <2>2, <2>3, <2>5
  <2> QED
    BY <2>1, <2>4, <2>5
<1> HIDE DEF n
<1>3. [i \in 1 .. n |-> Write(items[(i + 1) \div 2])[2 - (i % 2)]] \in Seq(Word)
  BY <1>1, <1>2
<1> QED
  BY <1>3 DEF ListBytes, n

(* An allocation only adds cells behind those that are there. *)
LEMMA AllocType ==
  ASSUME NEW cells \in Seq(Word), NEW bytes \in Seq(Word), CanAlloc(cells, bytes)
  PROVE  /\ Alloc(cells, bytes) \in Seq(Word)
         /\ Len(Alloc(cells, bytes)) < Radix
         /\ Len(Alloc(cells, bytes)) >= Len(cells)
         /\ \A i \in 1 .. Len(cells) : Alloc(cells, bytes)[i] = cells[i]
         /\ NewHandle(cells, bytes) \in Handles
<1>1. Padded(bytes) \in Seq(Word) /\ Len(Padded(bytes)) >= Len(bytes)
  <2>1. 0 \in Word
    BY WordFacts DEF Word
  <2>2. <<0>> \in Seq(Word) /\ Len(<<0>>) = 1
    BY <2>1
  <2>3. bytes = <<>> => Len(bytes) = 0
    OBVIOUS
  <2> QED
    BY <2>2, <2>3 DEF Padded
<1>2. /\ Alloc(cells, bytes) \in Seq(Word)
      /\ Len(Alloc(cells, bytes)) = Len(cells) + Len(Padded(bytes))
      /\ \A i \in 1 .. Len(cells) : Alloc(cells, bytes)[i] = cells[i]
  BY <1>1, ConcatProperties DEF Alloc
<1>3. NewHandle(cells, bytes) \in Handles
  BY <1>1, WordFacts DEF NewHandle, Handles, CanAlloc
<1> QED
  BY <1>1, <1>2, <1>3, WordFacts DEF CanAlloc

-----------------------------------------------------------------------------
(* The invariant. *)
FramesOk ==
  /\ frames \in Seq(Frames) /\ Len(frames) <= MaxFrames
  /\ \A k \in 1 .. Len(frames) : frames[k].func < Len(image.funcs)

StoreOk ==
  /\ arena \in Seq(Word) /\ Len(arena) < Radix
  /\ staged \in Seq(Seq(Word)) /\ Len(staged) <= 1
  /\ forkDepth \in 0 .. 1
  /\ Len(staged) = forkDepth
  /\ staged # <<>> =>
       /\ Len(staged[1]) <= Len(arena)
       /\ \A i \in 1 .. Len(staged[1]) : staged[1][i] = arena[i]

BudgetOk ==
  /\ remaining \in [Ledger!Dims -> 0 .. I64Max]
  /\ reserved \in [Ledger!Dims -> 0 .. I64Max]
  /\ \A d \in Ledger!Dims : remaining[d] + reserved[d] <= I64Max

RingOk == segments \in Seq(Ring!Segments) /\ Len(segments) <= RingLimit

CountsOk ==
  /\ steps \in 0 .. MaxSteps + 1
  /\ call # "dead" => steps <= MaxSteps
  /\ nextEffect \in Nat \ {0} /\ nextEffect <= steps + 1

OutcomeOk ==
  /\ pending \in Seq(Traps) /\ Len(pending) <= 1
  /\ halt \in Seq(-Half .. I64Max) /\ Len(halt) <= 1
  /\ pending # <<>> => call = "running" /\ frames # <<>> /\ halt = <<>>
  /\ EffectPending => pending[1].id = nextEffect - 1
  /\ halt # <<>> => call = "running" /\ frames = <<>>

ReplyOk ==
  /\ call \in {"idle", "running", "dead"}
  /\ result.kind \in {"none", "err", "halted", "shut", "trap"}
  /\ result.kind = "halted" => frames = <<>>
  /\ result.kind = "trap" => call = "running" \/ frames # <<>>

IInv ==
  /\ image \in Images
  /\ FramesOk /\ StoreOk /\ BudgetOk /\ RingOk
  /\ CountsOk /\ OutcomeOk /\ ReplyOk

-----------------------------------------------------------------------------
(* What an image in Images is. *)
LEMMA ImageFacts ==
  ASSUME image \in Images
  PROVE  /\ image.code \in Seq(Insn) /\ image.funcs \in Seq(Funcs)
         /\ image.funcs # <<>> /\ Len(image.funcs) \in Nat \ {0}
         /\ image.tables \in Seq(Seq(Nat))
         /\ image.consts \in Seq([bytes : Seq(Word), utf8 : BOOLEAN])
<1>1. /\ WellFormed(image) /\ Admitted(image)
      /\ image.consts \in Seq([bytes : Seq(Word), utf8 : BOOLEAN])
  BY ImagesAssumption
<1>2. image.code \in Seq(Insn) /\ image.funcs \in Seq(Funcs)
      /\ image.tables \in Seq(Seq(Nat)) /\ image.funcs # <<>>
  BY <1>1 DEF WellFormed, Admitted
<1>3. Len(image.funcs) \in Nat \ {0}
  BY <1>2, EmptySeq
<1> QED
  BY <1>1, <1>2, <1>3

(* A non-empty set of numbers has a least one.                              *)
LEMMA LeastNumber ==
  ASSUME NEW S \in SUBSET Nat, S # {}
  PROVE  \E m \in S : \A k \in S : m <= k
<1>1. PICK m \in S : \A k \in S : ~(<<k, m>> \in OpToRel(<, Nat))
  BY WFMin, NatLessThanWellFounded
<1>2. \A k \in S : ~(k < m)
  BY <1>1 DEF OpToRel
<1> QED
  BY <1>2

(* The entry point is a function of the image.                              *)
LEMMA EntryType ==
  ASSUME image \in Images
  PROVE  Entry(image) \in Nat /\ Entry(image) < Len(image.funcs)
<1> DEFINE called == {k \in 1 .. Len(image.funcs) : image.funcs[k].name = "main"}
           First(k) == /\ image.funcs[k].name = "main"
                       /\ \A j \in 1 .. k - 1 : image.funcs[j].name # "main"
<1>1. CASE called # {}
  <2>0. called \in SUBSET Nat
    BY ImageFacts
  <2> HIDE DEF called
  <2>1. PICK m \in called : \A k \in called : m <= k
    BY <1>1, <2>0, LeastNumber
  <2> USE DEF called
  <2>2. First(m) /\ m \in 1 .. Len(image.funcs)
    BY <2>1, ImageFacts
  <2>3. (CHOOSE k \in 1 .. Len(image.funcs) : First(k)) \in 1 .. Len(image.funcs)
    BY <2>2
  <2> QED
    BY <1>1, <2>3, ImageFacts DEF Entry
<1>2. CASE called = {}
  <2>1. ~ \E k \in 1 .. Len(image.funcs) : image.funcs[k].name = "main"
    BY <1>2
  <2>2. Entry(image) = 0
    BY <2>1 DEF Entry
  <2> QED
    BY <2>2, ImageFacts
<1> QED
  BY <1>1, <1>2

(* A new machine satisfies IInv.                                            *)
LEMMA InitHolds == Init => IInv
<1> SUFFICES ASSUME Init PROVE IInv
  OBVIOUS
<1> DEFINE e == Entry(image)
           f == image.funcs[e + 1]
<1>1. image \in Images
  BY DEF Init
<1>2. e \in Nat /\ e < Len(image.funcs) /\ f \in Funcs
  BY <1>1, EntryType, ImageFacts
<1>3. f.maxstack \in Nat /\ f.returns \in Nat
  BY <1>2 DEF Funcs
<1> DEFINE g == NewFrame(e, <<>>, f.maxstack, f.returns)
<1>4. frames = <<g>>
  BY DEF Init
<1>5. g \in Frames /\ g.func = e
  <2>1. << >> \in Seq(Values)
    OBVIOUS
  <2> HIDE DEF e, f
  <2>2. g \in Frames
    BY <1>2, <1>3, <2>1, NewFrameType
  <2> QED
    BY <2>2 DEF NewFrame
<1> HIDE DEF e, f, g
<1>6. FramesOk
  BY <1>2, <1>4, <1>5, LimitsAssumption DEF FramesOk
<1>7. StoreOk /\ RingOk /\ CountsOk /\ OutcomeOk /\ ReplyOk
  <2>1. StoreOk
    BY WordFacts DEF Init, StoreOk
  <2>2. RingOk /\ CountsOk
    BY LimitsAssumption DEF Init, RingOk, CountsOk
  <2>3. OutcomeOk /\ ReplyOk
    BY DEF Init, OutcomeOk, ReplyOk, EffectPending
  <2> QED
    BY <2>1, <2>2, <2>3
<1>8. BudgetOk
  BY WordFacts DEF Init, BudgetOk, Ledger!Open
<1> QED
  BY <1>1, <1>6, <1>7, <1>8 DEF IInv

-----------------------------------------------------------------------------
(* What a step may rely on once it has fetched an instruction. *)
LEMMA TopFrame ==
  ASSUME IInv, frames # <<>>
  PROVE  /\ Len(frames) \in 1 .. MaxFrames
         /\ Cur \in Frames /\ Cur.func < Len(image.funcs)
         /\ FuncOf(Cur) \in Funcs
<1>1. frames \in Seq(Frames) /\ Len(frames) <= MaxFrames
      /\ \A k \in 1 .. Len(frames) : frames[k].func < Len(image.funcs)
  BY DEF IInv, FramesOk
<1>2. Len(frames) \in 1 .. MaxFrames /\ Cur \in Frames
  BY <1>1, LimitsAssumption DEF Cur
<1>3. Cur.func < Len(image.funcs) /\ Cur.func \in Nat
  BY <1>1, <1>2, FrameFields DEF Cur
<1>4. image.funcs \in Seq(Funcs)
  BY ImageFacts DEF IInv
<1> QED
  BY <1>2, <1>3, <1>4 DEF FuncOf

(* What is fetched is an instruction.                                       *)
LEMMA FetchedType ==
  ASSUME IInv, Fetchable
  PROVE  /\ Fetched \in Insn /\ Fetched.op \in Ops
         /\ Fetched.a \in Nat /\ Fetched.b \in Nat
<1>1. frames # <<>> /\ Offset < Len(image.code)
  BY DEF Fetchable, Ready
<1>2. Offset \in Nat
  BY <1>1, TopFrame, FrameFields DEF Offset, Funcs
<1>3. image.code \in Seq(Insn)
  BY ImageFacts DEF IInv
<1>4. Fetched \in Insn
  BY <1>1, <1>2, <1>3 DEF Fetched
<1> QED
  BY <1>4 DEF Insn

(* The operands an instruction pops are there, and its checks passed. *)
LEMMA KindsType ==
  ASSUME IInv, Fetchable
  PROVE  Kinds(Fetched) \in Seq({"any", "int", "str", "list", "arena"})
<1> DEFINE K == {"any", "int", "str", "list", "arena"}
<1>0. Fetched.b \in Nat
  BY FetchedType
<1>1. frames # <<>>
  BY DEF Fetchable, Ready
<1>2. [k \in 1 .. Fetched.b |-> "any"] \in Seq(K)
  BY <1>0
<1>3. Cur.returns \in Nat
  BY <1>1, TopFrame, FrameFields
<1>4. [k \in 1 .. Cur.returns |-> "any"] \in Seq(K)
  BY <1>3
<1>5. ASSUME Fetched.b < Len(image.funcs)
      PROVE  [k \in 1 .. image.funcs[Fetched.b + 1].args |-> "any"] \in Seq(K)
  <2>1. image.funcs[Fetched.b + 1] \in Funcs
    BY <1>0, <1>5, ImageFacts DEF IInv
  <2>2. image.funcs[Fetched.b + 1].args \in Nat
    BY <2>1 DEF Funcs
  <2> QED
    BY <2>2
<1>6. /\ << >> \in Seq(K) /\ \A x \in K : <<x>> \in Seq(K)
      /\ \A x \in K, y \in K : <<x, y>> \in Seq(K)
      /\ \A x \in K, y \in K, z \in K : <<x, y, z>> \in Seq(K)
  <2> HIDE DEF K
  <2> QED
    OBVIOUS
<1>7. "any" \in K /\ "int" \in K /\ "str" \in K /\ "list" \in K /\ "arena" \in K
  OBVIOUS
<1> HIDE DEF K
<1>8. Kinds(Fetched) \in Seq(K)
  BY <1>2, <1>4, <1>5, <1>6, <1>7 DEF Kinds
<1> QED
  BY <1>8 DEF K

(* An instruction without a fault has its operands, room and function.      *)
LEMMA Passed ==
  ASSUME IInv, Fetchable, FaultOf(Fetched) = "ok"
  PROVE  /\ Arity(Fetched) \in Nat /\ Arity(Fetched) <= Cur.sp
         /\ ~(Cur.sp - Arity(Fetched) + Left(Fetched) > Cur.maxstack)
         /\ DerefsFault(Fetched) = "ok"
         /\ OwnFault(Fetched) = "ok"
         /\ RoomFault(Fetched) = "ok"
         /\ Fetched.op \in {"call", "tail"} => Fetched.b < Len(image.funcs)
<1>1. Arity(Fetched) \in Nat
  BY KindsType DEF Arity
<1>2. /\ PopsFault(Fetched) = "ok" /\ DerefsFault(Fetched) = "ok"
      /\ OwnFault(Fetched) = "ok" /\ RoomFault(Fetched) = "ok"
  BY DEF FaultOf
<1>3. ~(Fetched.op \in {"call", "tail"} /\ Fetched.b >= Len(image.funcs))
  BY DEF FaultOf
<1>4. Fetched.op \in {"call", "tail"} => Fetched.b < Len(image.funcs)
  BY <1>3, FetchedType, ImageFacts DEF IInv
<1>5. Cur.sp \in Nat
  BY TopFrame, FrameFields DEF Fetchable, Ready
<1>6. \A k \in 1 .. Arity(Fetched) : ~(Cur.sp < k)
  BY <1>2 DEF PopsFault
<1>7. Arity(Fetched) <= Cur.sp
  BY <1>1, <1>5, <1>6
<1>8. ~(Cur.sp - Arity(Fetched) + Left(Fetched) > Cur.maxstack)
  BY <1>2 DEF RoomFault
<1> QED
  BY <1>1, <1>2, <1>4, <1>7, <1>8

(* Operands are values, and integers within the word.                       *)
LEMMA OperandType ==
  ASSUME IInv, Fetchable, NEW k \in Nat \ {0}
  PROVE  Arg(k) \in Values /\ ArgInt(k) \in -Half .. I64Max /\ ArgInt(k) \in Int
<1>1. Cur \in Frames
  BY TopFrame DEF Fetchable, Ready
<1>2. Arg(k) \in Values
  BY <1>1, OpndType DEF Arg
<1>3. ArgInt(k) \in -Half .. I64Max
  BY <1>2, AsIntType DEF ArgInt
<1> QED
  BY <1>2, <1>3, WordFacts

(* A handle that passed its checks is inside the arena, a list readable.    *)
LEMMA DerefType ==
  ASSUME IInv, Fetchable, FaultOf(Fetched) = "ok",
         NEW k \in 1 .. Arity(Fetched), NEW kind, kind = Kinds(Fetched)[k],
         kind \in {"str", "list", "arena"}
  PROVE  /\ ArgBytes(k) \in Seq(Word) /\ Len(ArgBytes(k)) < Radix
         /\ kind = "list" => ArgList(k) \in Seq(Values)
<1>0. Arity(Fetched) \in Nat
  BY Passed
<1>1. DerefFault(k, kind) = "ok"
  <2>1. DerefFault(k, kind) \in {"ok", "TagMismatch", "BadHandle", "SnapshotCorrupt"}
    BY DEF DerefFault
  <2>2. /\ DerefFault(k, kind) # "TagMismatch" /\ DerefFault(k, kind) # "BadHandle"
        /\ DerefFault(k, kind) # "SnapshotCorrupt"
    BY Passed DEF DerefsFault
  <2> QED
    BY <2>1, <2>2
<1>2. /\ Within(arena, HandleOf(Arg(k)))
      /\ kind = "list" => AllReadable(ArgBytes(k))
  BY <1>1 DEF DerefFault
<1>3. Arg(k) \in Values
  BY <1>0, OperandType
<1>4. arena \in Seq(Word) /\ Len(arena) < Radix
  BY DEF IInv, StoreOk
<1>5. /\ ArgBytes(k) \in Seq(Word) /\ Len(ArgBytes(k)) <= Len(arena)
  BY <1>2, <1>3, <1>4, GetType DEF ArgBytes
<1>6. Len(ArgBytes(k)) < Radix
  BY <1>4, <1>5, WordFacts
<1>7. kind = "list" => ArgList(k) \in Seq(Values)
  BY <1>2, <1>5, ElementsType DEF ArgList
<1> QED
  BY <1>5, <1>6, <1>7

(* The cost of the ring is a number.                                        *)
LEMMA RingCostType == ASSUME RingOk PROVE Ring!Cost \in Nat
<1>1. IsFiniteSet(1 .. Len(segments)) /\ IsFiniteSet(0 .. Radix - 1)
  BY FS_Interval, WordFacts DEF RingOk
<1>2. IsFiniteSet((1 .. Len(segments)) \X (0 .. Radix - 1))
  BY <1>1, FS_Product
<1>3. \A S \in SUBSET ((1 .. Len(segments)) \X (0 .. Radix - 1)) :
        Cardinality(S) \in Nat
  BY <1>2, FS_Subset, FS_CardinalityType
<1> DEFINE counted == {c \in (1 .. Len(segments)) \X (0 .. Radix - 1) :
                         c[2] <= segments[c[1]].size}
<1>4. Cardinality(counted) \in Nat
  <2>1. counted \in SUBSET ((1 .. Len(segments)) \X (0 .. Radix - 1))
    OBVIOUS
  <2> HIDE DEF counted
  <2> QED
    BY <1>3, <2>1
<1>5. Ring!Cost = Cardinality(counted)
  BY Zenon DEF Ring!Cost, Ring!Cardinality, Cardinality
<1> QED
  BY <1>4, <1>5

(* What an arithmetic instruction leaves. *)
LEMMA ComputedType ==
  ASSUME NEW op \in IntBinary, NEW v \in Values, NEW w \in Values,
         op \in {"div", "mod"} => AsInt(w) # 0
  PROVE  Computed(op, v, w) \in Values
<1> DEFINE m == AsInt(v)
           n == AsInt(w)
           p == 2 ^ (w.payload % WordBits)
<1>1. m \in Int /\ n \in Int
  BY AsIntType, WordFacts
<1>2. p \in Nat \ {0}
  <2>1. w.payload % WordBits \in 0 .. WordBits
    BY WordAssumption, WordFacts DEF Values, Word
  <2> QED
    BY <2>1, PowersAssumption
<1> HIDE DEF m, n, p
<1>3. /\ m + n \in Int /\ m - n \in Int /\ m * n \in Int
      /\ m * p \in Int /\ m \div p \in Int
  BY <1>1, <1>2
<1>4. op \in {"div", "mod"} => Quotient(m, n) \in Int /\ Remainder(m, n) \in Int
  BY <1>1, DivisionType DEF n
<1>5. BitAnd(v.payload, w.payload) \in Int /\ BitOr(v.payload, w.payload) \in Int
  BY BitsType
<1>6. (m < n) \in BOOLEAN
  BY <1>1
<1>7. CASE op \in {"add", "sub", "mul"}
  BY <1>3, <1>7, IntVType DEF Computed, m, n
<1>8. CASE op \in {"div", "mod"}
  BY <1>4, <1>8, IntVType DEF Computed, m, n
<1>9. CASE op = "lt"
  BY <1>6, <1>9, BoolVType DEF Computed, m, n
<1>10. CASE op \in {"and", "or"}
  BY <1>5, <1>10, IntVType DEF Computed
<1>11. CASE op \in {"shl", "shr"}
  BY <1>3, <1>11, IntVType DEF Computed, m, p
<1> QED
  BY <1>7, <1>8, <1>9, <1>10, <1>11 DEF IntBinary

(* find returns an integer, -1 if there is no match.                        *)
LEMMA PositionType ==
  ASSUME NEW hay \in Seq(Word), NEW needle \in Seq(Word)
  PROVE  Position(hay, needle) \in Int
<1> DEFINE hits == {i \in 0 .. Len(hay) - Len(needle) :
                      SubSeq(hay, i + 1, i + Len(needle)) = needle}
<1>1. hits \in SUBSET Nat
  OBVIOUS
<1>2. CASE hits # {}
  <2> HIDE DEF hits
  <2>1. \E i \in hits : \A j \in hits : i <= j
    BY <1>1, <1>2, LeastNumber
  <2>2. (CHOOSE i \in hits : \A j \in hits : i <= j) \in hits
    BY <2>1
  <2>3. (CHOOSE i \in hits : \A j \in hits : i <= j) \in Int
    <3>1. \A i \in hits : i \in Int
      BY <1>1
    <3> QED
      BY <2>2, <3>1
  <2> QED
    BY <1>2, <2>3 DEF Position, hits
<1>3. CASE hits = {}
  BY <1>3 DEF Position
<1> QED
  BY <1>2, <1>3

(* What any instruction that only computes leaves on its frame. *)
LEMMA ResultsType ==
  ASSUME IInv, Fetchable, FaultOf(Fetched) = "ok", Fetched.op \in ComputeOps
  PROVE  Results(Fetched) \in Seq(Values)
<1> DEFINE d == Fetched
<1>0. /\ d.b \in Nat /\ Imm(d) \in Int
      /\ Arg(1) \in Values /\ Arg(2) \in Values /\ Arg(3) \in Values
      /\ ArgInt(1) \in Int /\ ArgInt(2) \in Int
      /\ Arg(d.b + 1) \in Values
  <2>1. d.b \in Nat
    BY FetchedType
  <2> QED
    BY <2>1, OperandType DEF Imm
<1>1. /\ << >> \in Seq(Values)
      /\ \A v \in Values : <<v>> \in Seq(Values)
      /\ \A v \in Values, w \in Values : <<v, w>> \in Seq(Values)
      /\ \A u \in Values, v \in Values, w \in Values : <<u, v, w>> \in Seq(Values)
  OBVIOUS
<1>2. OwnFault(d) = "ok" /\ Arity(d) \in Nat
  BY Passed
<1>3. CASE d.op \in IntBinary
  <2>1. d.op \in {"div", "mod"} => AsInt(Arg(1)) # 0
    BY <1>2 DEF OwnFault, ArgInt
  <2>2. Computed(d.op, Arg(2), Arg(1)) \in Values
    BY <1>0, <1>3, <2>1, ComputedType
  <2>3. Results(d) = <<Computed(d.op, Arg(2), Arg(1))>>
    BY <1>3 DEF Results, IntBinary
  <2> QED
    BY <1>1, <2>2, <2>3
<1>4. CASE d.op \in {"nop", "resume", "drop"}
  BY <1>1, <1>4 DEF Results, IntBinary
<1>5. CASE d.op = "ldi"
  BY <1>0, <1>1, <1>5, IntVType DEF Results, IntBinary
<1>6. CASE d.op \in {"dup", "dupn", "swap", "rot"}
  BY <1>0, <1>1, <1>6 DEF Results, IntBinary
<1>7. CASE d.op \in {"unpack", "idx"}
  <2>1. 1 \in 1 .. Arity(d) /\ Kinds(d)[1] = "list"
    <3>1. Kinds(d) = IF d.op = "idx" THEN <<"list", "int">> ELSE <<"list">>
      BY <1>7 DEF Kinds, IntBinary
    <3> QED
      BY <3>1 DEF Arity
  <2>2. ArgList(1) \in Seq(Values)
    BY <2>1, DerefType
  <2>3. CASE d.op = "unpack"
    BY <2>2, <2>3 DEF Results, IntBinary
  <2>4. CASE d.op = "idx"
    <3>1. ArgInt(2) \in 0 .. Len(ArgList(1)) - 1
      BY <1>2, <2>4 DEF OwnFault
    <3>2. ArgList(1)[ArgInt(2) + 1] \in Values
      BY <2>2, <3>1
    <3> QED
      BY <1>1, <2>4, <3>2 DEF Results, IntBinary
  <2> QED
    BY <1>7, <2>3, <2>4
<1>8. CASE d.op = "len"
  <2>1. 1 \in 1 .. Arity(d) /\ Kinds(d)[1] = "arena"
    BY <1>8 DEF Arity, Kinds, IntBinary
  <2>2. Len(ArgBytes(1)) \in Int
    BY <2>1, DerefType
  <2> QED
    BY <1>1, <1>8, <2>2, IntVType DEF Results, IntBinary
<1>9. CASE d.op = "find"
  <2>1. /\ 1 \in 1 .. Arity(d) /\ Kinds(d)[1] = "arena"
        /\ 2 \in 1 .. Arity(d) /\ Kinds(d)[2] = "arena"
    BY <1>9 DEF Arity, Kinds, IntBinary
  <2>2. Position(ArgBytes(2), ArgBytes(1)) \in Int
    BY <2>1, DerefType, PositionType
  <2> QED
    BY <1>1, <1>9, <2>2, IntVType DEF Results, IntBinary
<1>10. CASE d.op = "eq"
  <2>1. Same(Arg(2), Arg(1)) \in BOOLEAN
    BY DEF Same
  <2> QED
    BY <1>1, <1>10, <2>1, BoolVType DEF Results, IntBinary
<1>11. CASE d.op = "not"
  <2>1. (ArgInt(1) = 0) \in BOOLEAN
    OBVIOUS
  <2> QED
    BY <1>1, <1>11, <2>1, BoolVType DEF Results, IntBinary
<1>12. CASE d.op = "ctxcost"
  <2>1. Ring!Cost \in Int
    BY RingCostType DEF IInv
  <2> QED
    BY <1>1, <1>12, <2>1, IntVType DEF Results, IntBinary
<1> QED
  BY <1>3, <1>4, <1>5, <1>6, <1>7, <1>8, <1>9, <1>10, <1>11, <1>12
     DEF ComputeOps

(* What an allocating instruction puts in the arena, and under which tag.   *)
LEMMA PayloadType ==
  ASSUME IInv, Fetchable, FaultOf(Fetched) = "ok", Fetched.op \in AllocOps
  PROVE  Payload(Fetched) \in Seq(Word) /\ PayloadTag(Fetched) \in Tags
<1> DEFINE d == Fetched
<1>0. d.b \in Nat /\ Arity(d) \in Nat /\ Arity(d) <= Cur.sp
  BY FetchedType, Passed
<1>1. /\ << >> \in Seq(Word) /\ <<0>> \in Seq(Word) /\ <<TextCell>> \in Seq(Word)
      /\ 0 \in Word
  <2>1. 0 \in Word /\ TextCell \in Word
    BY WordFacts DEF Word, TextCell, PENDING
  <2> QED
    BY <2>1
<1>2. \A k \in Nat : Const(k).bytes \in Seq(Word)
  <2> TAKE k \in Nat
  <2>1. CASE k < Len(image.consts)
    <3> DEFINE C == [bytes : Seq(Word), utf8 : BOOLEAN]
    <3>0. image.consts \in Seq(C) /\ k + 1 \in 1 .. Len(image.consts)
      BY <2>1, ImageFacts DEF IInv
    <3> HIDE DEF C
    <3>1. image.consts[k + 1] \in C
      BY <3>0, ElementOfSeq
    <3> USE DEF C
    <3> QED
      BY <2>1, <3>1 DEF Const
  <2>2. CASE ~(k < Len(image.consts))
    BY <1>1, <2>2 DEF Const
  <2> QED
    BY <2>1, <2>2
<1>3. ASSUME d.op = "ldc" PROVE Payload(d) \in Seq(Word)
  BY <1>0, <1>2, <1>3 DEF Payload
<1>4. ASSUME d.op = "argv" PROVE Payload(d) \in Seq(Word)
  BY <1>1, <1>4 DEF Payload
<1>5. ASSUME d.op = "pack" PROVE Payload(d) \in Seq(Word)
  <2>1. Arity(d) = d.b
    BY <1>0, <1>5 DEF Arity, Kinds, IntBinary
  <2>2. Cur \in Frames
    BY TopFrame DEF Fetchable, Ready
  <2>3. TopN(Cur, d.b) \in Seq(Values)
    BY <1>0, <2>1, <2>2, TopNType
  <2> QED
    BY <1>5, <2>3, ListBytesType DEF Payload
<1>6. ASSUME d.op = "cat" PROVE Payload(d) \in Seq(Word)
  <2>1. /\ 1 \in 1 .. Arity(d) /\ Kinds(d)[1] = "str"
        /\ 2 \in 1 .. Arity(d) /\ Kinds(d)[2] = "str"
    BY <1>6 DEF Arity, Kinds, IntBinary
  <2>2. ArgBytes(1) \in Seq(Word) /\ ArgBytes(2) \in Seq(Word)
    BY <2>1, DerefType
  <2>3. ArgBytes(2) \o ArgBytes(1) \in Seq(Word)
    BY <2>2
  <2> QED
    BY <1>6, <2>3 DEF Payload
<1>7. ASSUME d.op = "fmt" PROVE Payload(d) \in Seq(Word)
  BY <1>1, <1>7 DEF Payload, Formatted
<1>8. ASSUME d.op = "slice" PROVE Payload(d) \in Seq(Word)
  <2>1. 1 \in 1 .. Arity(d) /\ Kinds(d)[1] = "arena"
    BY <1>8 DEF Arity, Kinds, IntBinary
  <2>2. ArgBytes(1) \in Seq(Word) /\ ArgInt(3) \in Int /\ ArgInt(2) \in Int
    BY <2>1, DerefType, OperandType
  <2>3. \A m \in Int : Clamp(m, Len(ArgBytes(1))) \in 0 .. Len(ArgBytes(1))
    BY <2>2 DEF Clamp
  <2>4. \A m \in 0 .. Len(ArgBytes(1)), n \in 0 .. Len(ArgBytes(1)) :
          SubSeq(ArgBytes(1), m + 1, n) \in Seq(Word)
    BY <2>2, SubSeqProperties
  <2>5. Between(ArgBytes(1), ArgInt(3), ArgInt(2)) \in Seq(Word)
    BY <2>2, <2>3, <2>4 DEF Between
  <2> QED
    BY <1>8, <2>5 DEF Payload
<1>9. ASSUME d.op = "ctxwin" PROVE Payload(d) \in Seq(Word)
  <2>1. segments \in Seq(Ring!Segments)
    BY DEF IInv, RingOk
  <2>2. \A i \in 1 .. Len(segments) : segments[i].role \in Int
    <3>1. \A i \in 1 .. Len(segments) : segments[i] \in Ring!Segments
      BY <2>1, ElementOfSeq
    <3> QED
      BY <3>1 DEF Ring!Segments
  <2>3. Ring!Window \in [1 .. Len(segments) -> Int]
    BY <2>2 DEF Ring!Window
  <2>4. Ring!Window \in Seq(Int)
    BY <2>1, <2>3, SeqOfFunction
  <2>5. \A i \in 1 .. Len(Ring!Window) : IntV(Ring!Window[i]) \in Values
    BY <2>4, IntVType
  <2>6. RoleValues \in [1 .. Len(Ring!Window) -> Values]
    BY <2>5 DEF RoleValues
  <2>7. RoleValues \in Seq(Values)
    BY <2>4, <2>6, SeqOfFunction
  <2> QED
    BY <1>9, <2>7, ListBytesType DEF Payload
<1>10. Payload(d) \in Seq(Word)
  BY <1>3, <1>4, <1>5, <1>6, <1>7, <1>8, <1>9 DEF AllocOps
<1>11. PayloadTag(d) \in Tags
  BY DEF PayloadTag, Tags, STR, BYTES, LIST
<1> QED
  BY <1>10, <1>11

-----------------------------------------------------------------------------
(* Steps that keep a part of the state sound whatever the instruction.      *)
LEMMA TopShape ==
  ASSUME IInv, frames # <<>>, NEW f \in Frames, SetTop(f)
  PROVE  /\ frames' \in Seq(Frames) /\ Len(frames') = Len(frames)
         /\ \A k \in 1 .. Len(frames) :
              frames'[k] = IF k = Len(frames) THEN f ELSE frames[k]
  BY TopFrame, ExceptSeq DEF SetTop, IInv, FramesOk

(* A new top frame of an existing function keeps the frames sound.          *)
LEMMA TopUpdate ==
  ASSUME IInv, frames # <<>>, NEW f \in Frames, f.func < Len(image.funcs),
         SetTop(f), image' = image
  PROVE  FramesOk' /\ frames' # <<>>
<1>1. /\ Len(frames) \in 1 .. MaxFrames /\ Len(frames) <= MaxFrames
      /\ \A k \in 1 .. Len(frames) : frames[k].func < Len(image.funcs)
  BY TopFrame DEF IInv, FramesOk
<1>2. /\ frames' \in Seq(Frames) /\ Len(frames') = Len(frames)
      /\ \A k \in 1 .. Len(frames) :
           frames'[k] = IF k = Len(frames) THEN f ELSE frames[k]
  BY TopShape
<1>3. frames' # <<>>
  BY <1>1, <1>2
<1> QED
  BY <1>1, <1>2, <1>3 DEF FramesOk

(* An executed instruction keeps the counters in bounds.                    *)
LEMMA Counted ==
  ASSUME IInv, NEW ops, Executing(ops), nextEffect' = nextEffect
  PROVE  CountsOk'
  BY LimitsAssumption DEF IInv, CountsOk, Executing, Fetchable, rest

(* Without a trap or an exit the call goes on.                              *)
LEMMA StillRunning ==
  ASSUME IInv, NEW ops, Executing(ops), frames' # <<>>,
         UNCHANGED <<pending, halt>>
  PROVE  OutcomeOk' /\ ReplyOk'
<1>1. /\ call = "running" /\ pending = <<>> /\ halt = <<>> /\ frames # <<>>
      /\ UNCHANGED <<call, result>>
  BY DEF Executing, Fetchable, Ready, rest
<1>2. OutcomeOk'
  BY <1>1 DEF OutcomeOk, EffectPending
<1>3. ReplyOk'
  BY <1>1 DEF IInv, ReplyOk
<1> QED
  BY <1>2, <1>3

(* What a step leaves alone stays sound.                                    *)
LEMMA Unmoved ==
  ASSUME IInv
  PROVE  /\ UNCHANGED store => StoreOk'
         /\ UNCHANGED budget => BudgetOk'
         /\ UNCHANGED segments => RingOk'
         /\ UNCHANGED <<image, frames>> => FramesOk'
  BY DEF IInv, StoreOk, BudgetOk, RingOk, FramesOk, store, budget

(* Moving the pc keeps the frame otherwise as it is.                        *)
LEMMA Moved ==
  ASSUME NEW f \in Frames
  PROVE  /\ Advance(f) \in Frames /\ Advance(f).func = f.func
         /\ Advance(f).pc = f.pc + 1
         /\ \A target \in Nat : /\ Jump(f, target) \in Frames
                                /\ Jump(f, target).func = f.func
                                /\ Jump(f, target).pc = target
<1>1. \A target \in Nat : /\ Jump(f, target) \in Frames
                          /\ Jump(f, target).func = f.func
                          /\ Jump(f, target).pc = target
  BY DEF Frames, Jump
<1>2. f.pc + 1 \in Nat /\ Advance(f) = Jump(f, f.pc + 1)
  BY FrameFields DEF Advance, Jump
<1> QED
  BY <1>1, <1>2

(* The frame an instruction leaves: its operands popped, vs pushed.         *)
LEMMA Rewritten ==
  ASSUME IInv, Fetchable, FaultOf(Fetched) = "ok",
         NEW vs \in Seq(Values), Left(Fetched) = Len(vs)
  PROVE  /\ Rewrite(Fetched, vs) \in Frames
         /\ Rewrite(Fetched, vs).func = Cur.func
         /\ Rewrite(Fetched, vs).pc = Cur.pc
<1>1. Cur \in Frames /\ Cur.sp \in Nat /\ Cur.maxstack \in Nat
  BY TopFrame, FrameFields DEF Fetchable, Ready
<1>2. Arity(Fetched) \in Nat /\ Arity(Fetched) <= Cur.sp
      /\ ~(Cur.sp - Arity(Fetched) + Len(vs) > Cur.maxstack)
  BY Passed
<1>3. Cur.sp - Arity(Fetched) + Len(vs) <= Cur.maxstack
  BY <1>1, <1>2
<1> QED
  BY <1>1, <1>2, <1>3, ReplaceType DEF Rewrite

(* Replacing the top frame by one of the same function.                     *)
LEMMA Stepped ==
  ASSUME IInv, NEW ops, Executing(ops), NEW f \in Frames, f.func = Cur.func,
         SetTop(f)
  PROVE  /\ FramesOk' /\ frames' # <<>>
         /\ UNCHANGED <<pending, halt>> => OutcomeOk' /\ ReplyOk'
<1>1. frames # <<>> /\ image' = image
  BY DEF Executing, Fetchable, Ready, rest
<1>2. f.func < Len(image.funcs)
  BY <1>1, TopFrame
<1>3. FramesOk' /\ frames' # <<>>
  BY <1>1, <1>2, TopUpdate
<1> QED
  BY <1>3, StillRunning

(* What executing an instruction says of it.                                *)
LEMMA ImageKept ==
  ASSUME IInv, NEW ops, Executing(ops)
  PROVE  /\ image' \in Images /\ Fetchable /\ Fetched.op \in ops
         /\ FaultOf(Fetched) = "ok"
  BY DEF IInv, Executing, rest

-----------------------------------------------------------------------------
(* Each step of the machine preserves IInv. *)

(* Instructions that leave nothing on the frame they pop from. *)
Quiet == {"br", "brz", "brnz", "switch", "call", "reserve", "release", "spend",
          "ctxpush"}

(* The frame of an instruction that only pops.                              *)
LEMMA Popped0 ==
  ASSUME IInv, Fetchable, FaultOf(Fetched) = "ok", Fetched.op \in Quiet
  PROVE  /\ Rewrite(Fetched, <<>>) \in Frames
         /\ Rewrite(Fetched, <<>>).func = Cur.func
         /\ Rewrite(Fetched, <<>>).pc = Cur.pc
<1>1. Left(Fetched) = 0
  BY DEF Left, ComputeOps, AllocOps, IntBinary, Quiet
<1>2. << >> \in Seq(Values) /\ Len(<< >>) = 0
  OBVIOUS
<1> QED
  BY <1>1, <1>2, Rewritten

(* Instructions that move on to the next one: operands off, results on.     *)
LEMMA Advances ==
  ASSUME IInv,
         Compute \/ Allocate \/ Fork \/ Commit \/ Abort \/ Meter \/ CtxPush \/ CtxPop
  PROVE  \E f \in Frames : f.func = Cur.func /\ f.pc = Cur.pc /\ SetTop(Advance(f))
<1> DEFINE d == Fetched
<1>1. CASE Compute
  <2>1. d.op \in ComputeOps /\ Results(d) \in Seq(Values) /\ Fetchable /\ FaultOf(d) = "ok"
    BY <1>1, ImageKept, ResultsType DEF Compute
  <2>2. Left(d) = Len(Results(d))
    BY <2>1 DEF Left, ComputeOps, AllocOps, IntBinary
  <2> QED
    BY <1>1, <2>1, <2>2, Rewritten DEF Compute
<1>2. CASE Allocate
  <2> DEFINE h == NewHandle(arena, Payload(d))
             v == HandleV(PayloadTag(d), h)
  <2>1. Executing(AllocOps) /\ SetTop(Advance(Rewrite(d, <<v>>)))
    BY <1>2 DEF Allocate
  <2>2. Fetchable /\ FaultOf(d) = "ok" /\ d.op \in AllocOps
    BY <2>1, ImageKept
  <2>3. /\ Payload(d) \in Seq(Word) /\ PayloadTag(d) \in Tags
        /\ arena \in Seq(Word) /\ CanAlloc(arena, Payload(d))
    BY <2>2, PayloadType, Passed DEF IInv, StoreOk, RoomFault
  <2>4. v \in Values
    <3>1. h \in Handles
      BY <2>3, AllocType
    <3> HIDE DEF h
    <3> QED
      BY <2>3, <3>1, HandleVType
  <2> HIDE DEF v
  <2>5. <<v>> \in Seq(Values) /\ Len(<<v>>) = 1
    BY <2>4
  <2>6. Left(d) = 1
    BY <2>2 DEF Left, ComputeOps, AllocOps, IntBinary
  <2> QED
    BY <2>1, <2>2, <2>5, <2>6, Rewritten
<1>3. CASE Fork
  <2>1. << IntV(0) >> \in Seq(Values) /\ Len(<< IntV(0) >>) = 1
    BY IntVType
  <2>2. Fetchable /\ FaultOf(d) = "ok" /\ d.op = "fork"
    BY <1>3, ImageKept DEF Fork
  <2>3. Left(d) = 1
    BY <2>2 DEF Left, ComputeOps, AllocOps, IntBinary
  <2> QED
    BY <1>3, <2>1, <2>2, <2>3, Rewritten DEF Fork
<1>4. CASE Commit \/ Abort \/ CtxPop
  <2>1. SetTop(Advance(Cur)) /\ frames # <<>>
    BY <1>4 DEF Commit, Abort, CtxPop, Executing, Fetchable, Ready
  <2> QED
    BY <2>1, TopFrame
<1>5. CASE Meter \/ CtxPush
  <2>1. /\ SetTop(Advance(Rewrite(d, <<>>)))
        /\ \/ Executing({"reserve", "release", "spend"})
           \/ Executing({"ctxpush"})
    BY <1>5 DEF Meter, CtxPush
  <2>2. Fetchable /\ FaultOf(d) = "ok" /\ d.op \in Quiet
    BY <2>1, ImageKept DEF Quiet
  <2> QED
    BY <2>1, <2>2, Popped0
<1> QED
  BY <1>1, <1>2, <1>3, <1>4, <1>5

(* Instructions that move on keep frames, outcome and counters sound.       *)
LEMMA AdvanceKeeps ==
  ASSUME IInv, NEW ops, Executing(ops), UNCHANGED outcome,
         Compute \/ Allocate \/ Fork \/ Commit \/ Abort \/ Meter \/ CtxPush \/ CtxPop
  PROVE  FramesOk' /\ OutcomeOk' /\ ReplyOk' /\ CountsOk' /\ image' \in Images
<1>1. PICK f \in Frames : f.func = Cur.func /\ SetTop(Advance(f))
  BY Advances
<1>2. FramesOk' /\ OutcomeOk' /\ ReplyOk'
  BY <1>1, Moved, Stepped DEF outcome
<1> QED
  BY <1>2, Counted, ImageKept DEF outcome

(* The arms that work on the frame alone.                                   *)
LEMMA ComputeKeeps == ASSUME IInv, Compute PROVE IInv'
<1>1. Executing(ComputeOps) /\ UNCHANGED <<store, budget, segments, outcome>>
  BY DEF Compute
<1> QED
  BY <1>1, AdvanceKeeps, Unmoved DEF IInv

(* Allocation appends, so an open clone stays a prefix.                     *)
LEMMA AllocateKeeps == ASSUME IInv, Allocate PROVE IInv'
<1> DEFINE d == Fetched
<1>1. /\ Executing(AllocOps) /\ arena' = Alloc(arena, Payload(d))
      /\ UNCHANGED <<staged, forkDepth, budget, segments, outcome>>
  BY DEF Allocate
<1>2. /\ Payload(d) \in Seq(Word) /\ arena \in Seq(Word)
      /\ CanAlloc(arena, Payload(d))
  BY <1>1, ImageKept, PayloadType, Passed DEF IInv, StoreOk, RoomFault
<1>3. StoreOk'
  <2>1. /\ arena' \in Seq(Word) /\ Len(arena') < Radix /\ Len(arena') >= Len(arena)
        /\ \A i \in 1 .. Len(arena) : arena'[i] = arena[i]
    BY <1>1, <1>2, AllocType
  <2>2. StoreOk
    BY DEF IInv
  <2>3. ASSUME staged # <<>>
        PROVE  /\ Len(staged[1]) <= Len(arena')
               /\ \A i \in 1 .. Len(staged[1]) : staged[1][i] = arena'[i]
    <3>1. 1 \in 1 .. Len(staged) /\ staged \in Seq(Seq(Word))
      BY <2>2, <2>3 DEF StoreOk
    <3>2. Len(staged[1]) \in Nat /\ Len(arena) \in Nat /\ Len(arena') \in Nat
      BY <1>2, <2>1, <3>1
    <3> QED
      BY <2>1, <2>2, <2>3, <3>2 DEF StoreOk
  <2> QED
    BY <1>1, <2>1, <2>2, <2>3 DEF StoreOk
<1> QED
  BY <1>1, <1>3, AdvanceKeeps, Unmoved DEF IInv

(* The clone is the arena at the fork.                                      *)
LEMMA ForkKeeps == ASSUME IInv, Fork PROVE IInv'
<1>1. /\ Executing({"fork"}) /\ forkDepth' = 1 /\ staged' = <<arena>>
      /\ UNCHANGED <<arena, budget, segments, outcome>>
  BY DEF Fork
<1>2. StoreOk'
  <2>1. arena \in Seq(Word) /\ Len(arena) < Radix /\ Len(arena) \in Nat
    BY DEF IInv, StoreOk
  <2>2. << arena >> \in Seq(Seq(Word)) /\ Len(<< arena >>) = 1 /\ << arena >>[1] = arena
    BY <2>1
  <2> QED
    BY <1>1, <2>1, <2>2 DEF StoreOk
<1> QED
  BY <1>1, <1>2, AdvanceKeeps, Unmoved DEF IInv

(* A branch goes to its target or to the next instruction.                  *)
LEMMA BranchTop ==
  ASSUME IInv, Branch
  PROVE  \E f \in Frames :
           /\ f.func = Cur.func /\ SetTop(f)
           /\ f.pc = Fetched.b \/ (Fetched.op # "br" /\ f.pc = Cur.pc + 1)
<1> DEFINE d == Fetched
           f == Rewrite(d, <<>>)
<1>1. /\ Executing({"br", "brz", "brnz"})
      /\ SetTop(Jump(f, d.b)) \/ (d.op # "br" /\ SetTop(Advance(f)))
  BY DEF Branch
<1>2. f \in Frames /\ f.func = Cur.func /\ f.pc = Cur.pc /\ d.b \in Nat
  BY <1>1, ImageKept, Popped0, FetchedType DEF Quiet
<1> HIDE DEF f
<1>3. Jump(f, d.b) \in Frames /\ Jump(f, d.b).func = Cur.func /\ Jump(f, d.b).pc = d.b
  BY <1>2, Moved
<1>4. Advance(f) \in Frames /\ Advance(f).func = Cur.func /\ Advance(f).pc = Cur.pc + 1
  BY <1>2, Moved
<1> QED
  BY <1>1, <1>3, <1>4

(* br, brz, brnz.                                                           *)
LEMMA BranchKeeps == ASSUME IInv, Branch PROVE IInv'
<1> DEFINE ops == {"br", "brz", "brnz"}
<1>1. Executing(ops) /\ UNCHANGED <<store, budget, segments, outcome>>
  BY DEF Branch
<1> HIDE DEF ops
<1>2. FramesOk' /\ OutcomeOk' /\ ReplyOk'
  BY <1>1, BranchTop, Stepped DEF outcome
<1>3. CountsOk' /\ image' \in Images
  BY <1>1, Counted, ImageKept DEF outcome
<1> QED
  BY <1>1, <1>2, <1>3, Unmoved DEF IInv
(* A switch goes to an arm of its table.                                    *)
LEMMA SwitchTop ==
  ASSUME IInv, Switch
  PROVE  \E f \in Frames :
           /\ f.func = Cur.func /\ SetTop(f)
           /\ Table(Fetched.b) # <<>> =>
                \E k \in 1 .. Len(Table(Fetched.b)) : f.pc = Table(Fetched.b)[k]
<1> DEFINE d == Fetched
           table == Table(d.b)
           arm == IF ArgInt(1) \in 0 .. Len(table) - 2 THEN ArgInt(1) + 1
                  ELSE Len(table)
           target == IF table = <<>> THEN 0 ELSE table[arm]
           f == Rewrite(d, <<>>)
<1>1. Executing({"switch"}) /\ SetTop(Jump(f, target))
  BY DEF Switch
<1>2. f \in Frames /\ f.func = Cur.func /\ d.b \in Nat
  BY <1>1, ImageKept, Popped0, FetchedType DEF Quiet
<1>3. table \in Seq(Nat)
  <2>1. CASE d.b < Len(image.tables)
    <3>1. image.tables \in Seq(Seq(Nat)) /\ d.b + 1 \in 1 .. Len(image.tables)
      BY <1>2, <2>1, ImageFacts DEF IInv
    <3>2. image.tables[d.b + 1] \in Seq(Nat)
      BY <3>1, ElementOfSeq
    <3> QED
      BY <2>1, <3>2 DEF Table
  <2>2. CASE ~(d.b < Len(image.tables))
    BY <2>2 DEF Table
  <2> QED
    BY <2>1, <2>2
<1>4. target \in Nat /\ (table # <<>> => \E k \in 1 .. Len(table) : target = table[k])
  <2> HIDE DEF table
  <2>1. CASE table = <<>>
    BY <2>1
  <2>2. CASE table # <<>>
    <3>1. Len(table) \in Nat \ {0}
      BY <1>3, <2>2, EmptySeq
    <3>2. arm \in 1 .. Len(table)
      BY <3>1
    <3> HIDE DEF arm
    <3>3. table[arm] \in Nat
      BY <1>3, <3>2, ElementOfSeq
    <3> QED
      BY <2>2, <3>2, <3>3
  <2> QED
    BY <2>1, <2>2
<1> HIDE DEF f, target, table
<1>5. /\ Jump(f, target) \in Frames /\ Jump(f, target).func = Cur.func
      /\ Jump(f, target).pc = target
  BY <1>2, <1>4, Moved
<1>6. \E g \in Frames : /\ g.func = Cur.func /\ SetTop(g)
                        /\ table # <<>> => \E k \in 1 .. Len(table) : g.pc = table[k]
  BY <1>1, <1>4, <1>5
<1> QED
  BY <1>6 DEF table

(* switch.                                                                  *)
LEMMA SwitchKeeps == ASSUME IInv, Switch PROVE IInv'
<1>1. Executing({"switch"}) /\ UNCHANGED <<store, budget, segments, outcome>>
  BY DEF Switch
<1>2. FramesOk' /\ OutcomeOk' /\ ReplyOk'
  BY <1>1, SwitchTop, Stepped DEF outcome
<1>3. CountsOk' /\ image' \in Images
  BY <1>1, Counted, ImageKept DEF outcome
<1> QED
  BY <1>1, <1>2, <1>3, Unmoved DEF IInv

(* The frame a call builds for its callee. *)
LEMMA CalleeFrame ==
  ASSUME IInv, Fetchable, FaultOf(Fetched) = "ok", Fetched.op \in {"call", "tail"}
  PROVE  LET target == image.funcs[Fetched.b + 1]
             g == NewFrame(Fetched.b, TopN(Cur, target.args), target.maxstack,
                           target.returns)
         IN g \in Frames /\ g.func < Len(image.funcs)
<1> DEFINE target == image.funcs[Fetched.b + 1]
           args == TopN(Cur, target.args)
           g == NewFrame(Fetched.b, args, target.maxstack, target.returns)
<1>1. Fetched.b \in Nat /\ Fetched.b < Len(image.funcs)
  BY Passed, FetchedType
<1>2. target \in Funcs
  BY <1>1, ImageFacts DEF IInv
<1>3. target.args \in Nat /\ target.maxstack \in Nat /\ target.returns \in Nat
  BY <1>2 DEF Funcs
<1>4. Arity(Fetched) = target.args
  BY <1>1, <1>3 DEF Arity, Kinds, IntBinary
<1>5. args \in Seq(Values)
  <2>1. Cur \in Frames /\ target.args <= Cur.sp
    BY <1>4, Passed, TopFrame DEF Fetchable, Ready
  <2> HIDE DEF target
  <2> QED
    BY <1>3, <2>1, TopNType
<1> HIDE DEF target, args
<1>6. g \in Frames
  BY <1>1, <1>3, <1>5, NewFrameType
<1>7. g.func = Fetched.b
  BY DEF NewFrame
<1> QED
  BY <1>1, <1>6, <1>7 DEF target, args

(* A call pops its arguments from the caller and adds one frame.            *)
LEMMA CallShape ==
  ASSUME IInv, Call
  PROVE  LET target == image.funcs[Fetched.b + 1]
         IN /\ Fetched.b < Len(image.funcs) /\ Len(frames) \in 1 .. MaxFrames - 1
            /\ frames' \in Seq(Frames) /\ Len(frames') = Len(frames) + 1
            /\ \A k \in 1 .. Len(frames) :
                 frames'[k] = IF k = Len(frames) THEN Rewrite(Fetched, <<>>) ELSE frames[k]
            /\ frames'[Len(frames) + 1] =
                 NewFrame(Fetched.b, TopN(Cur, target.args), target.maxstack, target.returns)
            /\ Rewrite(Fetched, <<>>).func = Cur.func
            /\ Rewrite(Fetched, <<>>).pc = Cur.pc
<1> DEFINE d == Fetched
           target == image.funcs[d.b + 1]
           g == NewFrame(d.b, TopN(Cur, target.args), target.maxstack, target.returns)
           f == Rewrite(d, <<>>)
           under == [frames EXCEPT ![Len(frames)] = f]
<1>1. Executing({"call"}) /\ frames' = Append(under, g)
  BY DEF Call
<1>2. Fetchable /\ d.op = "call" /\ FaultOf(d) = "ok" /\ frames # <<>>
  BY <1>1 DEF Executing, Fetchable, Ready
<1>3. f \in Frames /\ f.func = Cur.func /\ f.pc = Cur.pc
  BY <1>2, Popped0 DEF Quiet
<1>4. g \in Frames /\ d.b < Len(image.funcs)
  BY <1>2, CalleeFrame, Passed
<1>5. ~(Len(frames) >= MaxFrames)
  BY <1>2, Passed DEF OwnFault
<1> HIDE DEF f, g
<1>6. frames \in Seq(Frames) /\ Len(frames) \in 1 .. MaxFrames - 1
  BY <1>2, <1>5, TopFrame, LimitsAssumption DEF IInv, FramesOk
<1>7. /\ under \in Seq(Frames) /\ Len(under) = Len(frames)
      /\ \A k \in 1 .. Len(frames) : under[k] = IF k = Len(frames) THEN f ELSE frames[k]
  BY <1>3, <1>6, ExceptSeq
<1> HIDE DEF under
<1>8. /\ frames' \in Seq(Frames) /\ Len(frames') = Len(frames) + 1
      /\ \A k \in 1 .. Len(frames) : frames'[k] = under[k]
      /\ frames'[Len(frames) + 1] = g
  BY <1>1, <1>4, <1>7, AppendProperties
<1> QED
  BY <1>3, <1>4, <1>6, <1>7, <1>8 DEF f, g

(* call.                                                                    *)
LEMMA CallKeeps == ASSUME IInv, Call PROVE IInv'
<1> DEFINE target == image.funcs[Fetched.b + 1]
           g == NewFrame(Fetched.b, TopN(Cur, target.args), target.maxstack,
                         target.returns)
           f == Rewrite(Fetched, <<>>)
<1>1. /\ Executing({"call"}) /\ image' = image /\ frames # <<>>
      /\ UNCHANGED <<store, budget, segments, outcome>>
  BY DEF Call, Executing, Fetchable, Ready, rest
<1>2. /\ Fetched.b < Len(image.funcs) /\ Len(frames) \in 1 .. MaxFrames - 1
      /\ frames' \in Seq(Frames) /\ Len(frames') = Len(frames) + 1
      /\ \A k \in 1 .. Len(frames) :
           frames'[k] = IF k = Len(frames) THEN f ELSE frames[k]
      /\ frames'[Len(frames) + 1] = g
      /\ f.func = Cur.func
  BY CallShape
<1>3. g.func = Fetched.b
  BY DEF NewFrame
<1> HIDE DEF f, g
<1>4. /\ \A k \in 1 .. Len(frames) : frames[k].func < Len(image.funcs)
      /\ Cur.func < Len(image.funcs)
  BY <1>1, TopFrame DEF IInv, FramesOk
<1>5. FramesOk' /\ frames' # <<>>
  <2>1. \A k \in 1 .. Len(frames') : frames'[k].func < Len(image.funcs)
    BY <1>2, <1>3, <1>4
  <2>2. Len(frames') <= MaxFrames /\ frames' # <<>>
    BY <1>2, LimitsAssumption
  <2> QED
    BY <1>1, <1>2, <2>1, <2>2 DEF FramesOk
<1>6. OutcomeOk' /\ ReplyOk' /\ CountsOk' /\ image' \in Images
  BY <1>1, <1>5, StillRunning, Counted, ImageKept DEF outcome
<1> QED
  BY <1>1, <1>5, <1>6, Unmoved DEF IInv

(* A tail call replaces the top frame.                                      *)
LEMMA TailCallTop ==
  ASSUME IInv, TailCall
  PROVE  \E g \in Frames :
           /\ g.func = Fetched.b /\ Fetched.b < Len(image.funcs) /\ g.pc = 0
           /\ SetTop(g)
<1> DEFINE target == image.funcs[Fetched.b + 1]
           g == NewFrame(Fetched.b, TopN(Cur, target.args), target.maxstack,
                         target.returns)
<1>1. Executing({"tail"}) /\ SetTop(g)
  BY DEF TailCall
<1>2. Fetchable /\ Fetched.op = "tail" /\ FaultOf(Fetched) = "ok"
  BY <1>1, ImageKept
<1>3. g \in Frames /\ g.func < Len(image.funcs)
  BY <1>2, CalleeFrame
<1>4. g.func = Fetched.b /\ g.pc = 0
  BY DEF NewFrame
<1> HIDE DEF g
<1> QED
  BY <1>1, <1>3, <1>4

(* tail.                                                                    *)
LEMMA TailCallKeeps == ASSUME IInv, TailCall PROVE IInv'
<1>1. /\ Executing({"tail"}) /\ image' = image /\ frames # <<>>
      /\ UNCHANGED <<store, budget, segments, outcome>>
  BY DEF TailCall, Executing, Fetchable, Ready, rest
<1>2. FramesOk' /\ frames' # <<>>
  BY <1>1, TailCallTop, TopUpdate
<1>3. OutcomeOk' /\ ReplyOk' /\ CountsOk' /\ image' \in Images
  BY <1>1, <1>2, StillRunning, Counted, ImageKept DEF outcome
<1> QED
  BY <1>1, <1>2, <1>3, Unmoved DEF IInv

(* The last frame is gone: the exit code waits to be returned.              *)
LEMMA Exited ==
  ASSUME IInv, NEW ops, Executing(ops), frames' = <<>>, pending' = pending,
         NEW code \in -Half .. I64Max, halt' = <<code>>
  PROVE  FramesOk' /\ OutcomeOk' /\ ReplyOk'
<1>1. /\ call = "running" /\ pending = <<>> /\ frames # <<>>
      /\ UNCHANGED <<image, call, result>>
  BY DEF Executing, Fetchable, Ready, rest
<1>2. FramesOk'
  <2>1. << >> \in Seq(Frames) /\ Len(<< >>) = 0
    OBVIOUS
  <2> QED
    BY <2>1, LimitsAssumption DEF FramesOk
<1>3. <<code>> \in Seq(-Half .. I64Max) /\ Len(<<code>>) = 1
  OBVIOUS
<1>4. OutcomeOk'
  BY <1>1, <1>3 DEF OutcomeOk, EffectPending
<1>5. ReplyOk'
  BY <1>1 DEF IInv, ReplyOk
<1> QED
  BY <1>2, <1>4, <1>5

(* An exit code is a signed word.                                           *)
LEMMA ExitCodeType ==
  ASSUME NEW vs \in Seq(Values)
  PROVE  ExitCode(vs) \in -Half .. I64Max
<1>1. CASE vs # <<>>
  <2>1. vs[1] \in Values
    BY <1>1
  <2> QED
    BY <2>1, AsIntType, WordFacts DEF ExitCode
<1>2. CASE vs = <<>>
  BY <1>2, WordFacts DEF ExitCode
<1> QED
  BY <1>1, <1>2

(* How many frames lie under the top one. *)
Depth == Len(frames) - 1

(* A return to a caller: the callee's frame goes, its caller gains exactly  *)
(* the operands the callee declares.                                        *)
LEMMA RetShape ==
  ASSUME IInv, Ret
  PROVE  /\ Depth \in Nat
         /\ TopN(Cur, Cur.returns) \in Seq(Values)
         /\ Depth # 0 =>
              /\ Depth \in 1 .. Len(frames) /\ frames[Depth] \in Frames
              /\ halt' = halt
              /\ frames[Depth].sp + Len(TopN(Cur, Cur.returns)) <= frames[Depth].maxstack
              /\ frames' \in Seq(Frames) /\ Len(frames') = Depth
              /\ \A k \in 1 .. Depth :
                   frames'[k] = IF k = Depth
                                THEN Replace(frames[Depth], 0, TopN(Cur, Cur.returns))
                                ELSE frames[k]
              /\ Replace(frames[Depth], 0, TopN(Cur, Cur.returns)).func = frames[Depth].func
              /\ Replace(frames[Depth], 0, TopN(Cur, Cur.returns)).pc = frames[Depth].pc
<1> DEFINE d == Fetched
           values == TopN(Cur, Cur.returns)
           caller == frames[Depth]
           f == Replace(caller, 0, values)
           under == SubSeq(frames, 1, Depth)
<1>1. Executing({"ret"})
  BY DEF Ret
<1>2. Fetchable /\ d.op = "ret" /\ FaultOf(d) = "ok" /\ frames # <<>>
  BY <1>1 DEF Executing, Fetchable, Ready
<1>3. /\ frames \in Seq(Frames) /\ Len(frames) \in Nat \ {0}
      /\ Cur \in Frames /\ Cur.returns \in Nat
  BY <1>2, TopFrame, FrameFields, LimitsAssumption DEF IInv, FramesOk
<1>4. Cur.returns <= Cur.sp
  <2>1. Arity(d) = Cur.returns
    BY <1>2, <1>3 DEF Arity, Kinds, IntBinary
  <2> QED
    BY <1>2, <2>1, Passed
<1>5. values \in Seq(Values) /\ Len(values) = Cur.returns
  BY <1>3, <1>4, TopNType
<1>6. Depth \in Nat /\ (Depth # 0 => Depth \in 1 .. Len(frames) /\ Len(frames) > 1)
  <2>1. \A n \in Nat \ {0} : /\ n - 1 \in Nat
                              /\ n - 1 # 0 => n - 1 \in 1 .. n /\ n > 1
    OBVIOUS
  <2>2. Len(frames) \in Nat \ {0}
    BY <1>3
  <2> QED
    BY <2>1, <2>2 DEF Depth
<1>7. ASSUME Depth # 0
      PROVE  /\ Depth \in 1 .. Len(frames) /\ caller \in Frames
             /\ halt' = halt
             /\ caller.sp + Len(values) <= caller.maxstack
             /\ frames' \in Seq(Frames) /\ Len(frames') = Depth
             /\ \A k \in 1 .. Depth :
                  frames'[k] = IF k = Depth THEN f ELSE frames[k]
             /\ f.func = caller.func /\ f.pc = caller.pc
  <2>1. Depth \in 1 .. Len(frames) /\ caller \in Frames
    BY <1>3, <1>6, <1>7, ElementOfSeq
  <2>2. frames' = [under EXCEPT ![Depth] = Replace(@, 0, values)] /\ halt' = halt
    BY <1>7 DEF Ret, Depth
  <2>3. under \in Seq(Frames) /\ Len(under) = Depth
        /\ \A k \in 1 .. Depth : under[k] = frames[k]
    <3>1. \A k \in 1 .. Depth : frames[k] \in Frames
      BY <1>3, <2>1
    <3> QED
      BY <1>3, <2>1, <3>1, SubSeqProperties
  <2>4. caller.sp + Len(values) <= caller.maxstack
    <3>1. RoomFault(d) = "ok"
      BY <1>2, Passed
    <3>2. ~(caller.sp + Cur.returns > caller.maxstack)
      BY <1>2, <1>6, <1>7, <3>1 DEF RoomFault, Depth
    <3>3. caller.sp \in Nat /\ caller.maxstack \in Nat
      BY <2>1, FrameFields
    <3> QED
      BY <1>3, <1>5, <3>2, <3>3
  <2>5. f \in Frames /\ f.func = caller.func /\ f.pc = caller.pc
    <3>1. caller.sp \in Nat /\ caller.sp - 0 + Len(values) <= caller.maxstack
      BY <2>1, <2>4, FrameFields
    <3> QED
      BY <1>5, <2>1, <3>1, ReplaceType
  <2>6. frames' = [under EXCEPT ![Depth] = f]
    BY <2>1, <2>2, <2>3
  <2> HIDE DEF f, under, values
  <2>7. /\ frames' \in Seq(Frames) /\ Len(frames') = Depth
        /\ \A k \in 1 .. Depth : frames'[k] = IF k = Depth THEN f ELSE under[k]
    BY <2>1, <2>3, <2>5, <2>6, ExceptSeq
  <2> QED
    BY <2>1, <2>2, <2>3, <2>4, <2>5, <2>7
<1> QED
  BY <1>5, <1>6, <1>7

(* ret, to a caller or out of the program.                                  *)
LEMMA RetKeeps == ASSUME IInv, Ret PROVE IInv'
<1> DEFINE values == TopN(Cur, Cur.returns)
<1>1. /\ Executing({"ret"})
      /\ UNCHANGED <<store, budget, segments, nextEffect, pending>>
  BY DEF Ret
<1>2. values \in Seq(Values)
  BY RetShape
<1>3. CountsOk' /\ image' \in Images /\ image' = image
  BY <1>1, Counted, ImageKept DEF Executing, rest
<1>4. CASE Depth = 0
  <2>1. frames' = <<>> /\ halt' = <<ExitCode(values)>> /\ pending' = pending
    BY <1>4 DEF Ret, Depth
  <2>2. FramesOk' /\ OutcomeOk' /\ ReplyOk'
    BY <1>1, <1>2, <2>1, ExitCodeType, Exited
  <2> QED
    BY <1>1, <1>3, <2>2, Unmoved DEF IInv
<1>5. CASE Depth # 0
  <2> DEFINE f == Replace(frames[Depth], 0, values)
  <2>1. /\ Depth \in 1 .. Len(frames) /\ halt' = halt
        /\ frames' \in Seq(Frames) /\ Len(frames') = Depth
        /\ \A k \in 1 .. Depth : frames'[k] = IF k = Depth THEN f ELSE frames[k]
        /\ f.func = frames[Depth].func
    BY <1>5, RetShape
  <2> HIDE DEF f
  <2>2. frames' # <<>>
    BY <2>1
  <2>3. FramesOk'
    <3>1. Len(frames) \in Nat /\ Len(frames) <= MaxFrames
          /\ \A k \in 1 .. Len(frames) : frames[k].func < Len(image.funcs)
      BY DEF IInv, FramesOk
    <3>2. \A k \in 1 .. Depth : frames'[k].func < Len(image.funcs)
      BY <2>1, <3>1
    <3> QED
      BY <1>3, <2>1, <3>1, <3>2, LimitsAssumption DEF FramesOk
  <2>4. OutcomeOk' /\ ReplyOk'
    BY <1>1, <2>1, <2>2, StillRunning
  <2> QED
    BY <1>1, <1>3, <2>3, <2>4, Unmoved DEF IInv
<1> QED
  BY <1>4, <1>5

(* halt.                                                                    *)
LEMMA HaltKeeps == ASSUME IInv, Halt PROVE IInv'
<1> DEFINE values == IF Cur.sp > 0 THEN <<Arg(1)>> ELSE <<>>
<1>1. /\ Executing({"halt"}) /\ frames' = <<>> /\ halt' = <<ExitCode(values)>>
      /\ UNCHANGED <<store, budget, segments, nextEffect, pending>>
  BY DEF Halt
<1>2. values \in Seq(Values)
  <2>1. Arg(1) \in Values
    BY <1>1, ImageKept, OperandType
  <2> QED
    BY <2>1
<1> HIDE DEF values
<1>3. FramesOk' /\ OutcomeOk' /\ ReplyOk'
  BY <1>1, <1>2, ExitCodeType, Exited
<1>4. CountsOk' /\ image' \in Images
  BY <1>1, Counted, ImageKept
<1> QED
  BY <1>1, <1>3, <1>4, Unmoved DEF IInv

(* A trap waits to be returned. *)
LEMMA Raised ==
  ASSUME IInv, NEW ops, Executing(ops), frames' # <<>>, halt' = halt,
         NEW trap \in Traps, Raise(trap),
         trap.kind = "Effect" => trap.id = nextEffect' - 1
  PROVE  OutcomeOk' /\ ReplyOk'
<1>1. /\ call = "running" /\ halt = <<>> /\ frames # <<>> /\ pending' = <<trap>>
      /\ UNCHANGED <<call, result>>
  BY DEF Executing, Fetchable, Ready, rest, Raise
<1>2. <<trap>> \in Seq(Traps) /\ Len(<<trap>>) = 1 /\ <<trap>>[1] = trap
  OBVIOUS
<1>3. << >> \in Seq(-Half .. I64Max) /\ Len(<< >>) = 0
  OBVIOUS
<1>4. OutcomeOk'
  BY <1>1, <1>2, <1>3 DEF OutcomeOk, EffectPending
<1>5. ReplyOk'
  BY <1>1 DEF IInv, ReplyOk
<1> QED
  BY <1>4, <1>5

(* calltool and spawn leave the pending value on the top frame.             *)
LEMMA IssueEffectTop ==
  ASSUME IInv, IssueEffect
  PROVE  \E f \in Frames : f.func = Cur.func /\ f.pc = Cur.pc /\ SetTop(f)
<1> DEFINE v == PendingV(nextEffect)
<1>1. Executing({"calltool", "spawn"}) /\ SetTop(Rewrite(Fetched, <<v>>))
  BY DEF IssueEffect
<1>2. /\ Fetchable /\ Fetched.op \in {"calltool", "spawn"} /\ FaultOf(Fetched) = "ok"
      /\ steps < MaxSteps /\ call = "running"
  BY <1>1 DEF Executing, Fetchable, Ready
<1>3. nextEffect \in Nat /\ nextEffect < Words
  BY <1>2, LimitsAssumption, WordFacts DEF IInv, CountsOk
<1>4. v \in Values
  BY <1>3, PendingVType
<1> HIDE DEF v
<1>5. <<v>> \in Seq(Values) /\ Len(<<v>>) = 1
  BY <1>4
<1>6. Left(Fetched) = 1
  BY <1>2 DEF Left, ComputeOps, AllocOps, IntBinary
<1> QED
  BY <1>1, <1>2, <1>5, <1>6, Rewritten

(* The trap carries the id the counter just left.                           *)
LEMMA IssueEffectKeeps == ASSUME IInv, IssueEffect PROVE IInv'
<1> DEFINE d == Fetched
           ops == {"calltool", "spawn"}
           trap == [kind |-> "Effect", id |-> nextEffect, tool |-> d.b,
                    args |-> ArgList(1)]
<1>1. /\ Executing(ops) /\ Raise(trap) /\ nextEffect' = nextEffect + 1
      /\ UNCHANGED <<store, budget, segments, halt>>
  BY DEF IssueEffect
<1>2. /\ Fetchable /\ d.op \in ops /\ FaultOf(d) = "ok" /\ steps < MaxSteps
      /\ steps' = steps + 1 /\ UNCHANGED call /\ call = "running"
  BY <1>1 DEF Executing, Fetchable, Ready, rest
<1>3. nextEffect \in Nat \ {0} /\ nextEffect <= steps + 1 /\ steps \in Nat
  BY <1>2 DEF IInv, CountsOk
<1>4. trap \in Traps
  <2>1. 1 \in 1 .. Arity(d) /\ Kinds(d)[1] = "list"
    <3>1. Kinds(d) = <<"list">>
      BY <1>2 DEF Kinds, IntBinary
    <3> QED
      BY <3>1 DEF Arity
  <2>2. ArgList(1) \in Seq(Values)
    BY <1>2, <2>1, DerefType
  <2>3. d.b \in Nat
    BY <1>2, FetchedType
  <2> QED
    BY <1>3, <2>2, <2>3 DEF Traps
<1>5. trap.kind = "Effect" => trap.id = nextEffect' - 1
  BY <1>1, <1>3
<1> HIDE DEF trap, ops
<1>6. FramesOk' /\ frames' # <<>>
  BY <1>1, IssueEffectTop, Stepped
<1>7. OutcomeOk' /\ ReplyOk'
  BY <1>1, <1>4, <1>5, <1>6, Raised
<1>8. CountsOk'
  BY <1>1, <1>2, <1>3, LimitsAssumption DEF CountsOk
<1> QED
  BY <1>1, <1>6, <1>7, <1>8, ImageKept, Unmoved DEF IInv

(* The instructions that only raise a trap. *)
LEMMA SuspendKeeps == ASSUME IInv, Suspend PROVE IInv'
<1> DEFINE ops == {"await", "poll", "join", "select", "cancel", "checkpoint",
                   "yieldctx"}
           trap == [kind |-> "Yield"]
<1>1. /\ Executing(ops) /\ Raise(trap)
      /\ UNCHANGED <<frames, store, budget, segments, nextEffect, halt>>
  BY DEF Suspend
<1>2. frames' # <<>> /\ UNCHANGED <<image, frames>>
  BY <1>1 DEF Executing, Fetchable, Ready, rest
<1>3. trap \in Traps /\ trap.kind # "Effect"
  BY DEF Traps
<1> HIDE DEF ops, trap
<1>4. OutcomeOk' /\ ReplyOk' /\ CountsOk' /\ image' \in Images
  BY <1>1, <1>2, <1>3, Raised, Counted, ImageKept
<1> QED
  BY <1>1, <1>2, <1>4, Unmoved DEF IInv

(* now, rand, env, log.                                                     *)
LEMMA AskOracleKeeps == ASSUME IInv, AskOracle PROVE IInv'
<1> DEFINE ops == {"now", "rand", "env", "log"}
           trap == [kind |-> "Oracle", op |-> Fetched.op]
<1>1. /\ Executing(ops) /\ Raise(trap)
      /\ UNCHANGED <<frames, store, budget, segments, nextEffect, halt>>
  BY DEF AskOracle
<1>2. frames' # <<>> /\ UNCHANGED <<image, frames>>
  BY <1>1 DEF Executing, Fetchable, Ready, rest
<1>3. trap \in Traps /\ trap.kind # "Effect"
  <2>1. Fetched.op \in Ops
    BY <1>1, ImageKept, FetchedType
  <2> QED
    BY <2>1 DEF Traps
<1> HIDE DEF ops, trap
<1>4. OutcomeOk' /\ ReplyOk' /\ CountsOk' /\ image' \in Images
  BY <1>1, <1>2, <1>3, Raised, Counted, ImageKept
<1> QED
  BY <1>1, <1>2, <1>4, Unmoved DEF IInv

(* queryq leaves the remaining allowance on the top frame.                  *)
LEMMA QueryQTop ==
  ASSUME IInv, QueryQ
  PROVE  \E f \in Frames : f.func = Cur.func /\ f.pc = Cur.pc /\ SetTop(f)
<1> DEFINE n == Ledger!Remaining(Fetched.a)
<1>1. Executing({"queryq"}) /\ SetTop(Rewrite(Fetched, <<IntV(n)>>))
  BY DEF QueryQ
<1>2. n \in Int
  BY WordFacts DEF Ledger!Remaining, IInv, BudgetOk
<1> HIDE DEF n
<1>3. << IntV(n) >> \in Seq(Values) /\ Len(<< IntV(n) >>) = 1
  BY <1>2, IntVType
<1>4. Fetchable /\ FaultOf(Fetched) = "ok" /\ Fetched.op = "queryq"
  BY <1>1, ImageKept
<1>5. Left(Fetched) = 1
  BY <1>4 DEF Left, ComputeOps, AllocOps, IntBinary
<1> QED
  BY <1>1, <1>3, <1>4, <1>5, Rewritten

(* queryq.                                                                  *)
LEMMA QueryQKeeps == ASSUME IInv, QueryQ PROVE IInv'
<1> DEFINE trap == [kind |-> "Oracle", op |-> "queryq"]
<1>1. /\ Executing({"queryq"}) /\ Raise(trap)
      /\ UNCHANGED <<store, budget, segments, nextEffect, halt>>
  BY DEF QueryQ
<1>2. trap \in Traps /\ trap.kind # "Effect"
  BY DEF Traps, Ops, TABLE
<1> HIDE DEF trap
<1>3. FramesOk' /\ frames' # <<>>
  BY <1>1, QueryQTop, Stepped
<1>4. OutcomeOk' /\ ReplyOk' /\ CountsOk' /\ image' \in Images
  BY <1>1, <1>2, <1>3, Raised, Counted, ImageKept
<1> QED
  BY <1>1, <1>3, <1>4, Unmoved DEF IInv

(* What the two ways to end a fork do to the store. *)
LEMMA ForkClosed ==
  ASSUME IInv, staged' = <<>>, forkDepth' = 0,
         \/ arena' = arena
         \/ staged # <<>> /\ arena' = staged[1]
  PROVE  StoreOk'
<1>1. /\ arena \in Seq(Word) /\ Len(arena) < Radix /\ Len(arena) \in Nat
      /\ staged \in Seq(Seq(Word))
      /\ staged # <<>> => Len(staged[1]) <= Len(arena)
  BY DEF IInv, StoreOk
<1>2. ASSUME staged # <<>>
      PROVE  staged[1] \in Seq(Word) /\ Len(staged[1]) < Radix
  <2>1. 1 \in 1 .. Len(staged)
    BY <1>1, <1>2
  <2>2. staged[1] \in Seq(Word) /\ Len(staged[1]) \in Nat
    BY <1>1, <2>1
  <2> QED
    BY <1>1, <1>2, <2>2, WordFacts
<1>3. << >> \in Seq(Seq(Word)) /\ Len(<< >>) = 0
  OBVIOUS
<1> QED
  BY <1>1, <1>2, <1>3 DEF StoreOk

(* commit.                                                                  *)
LEMMA CommitKeeps == ASSUME IInv, Commit PROVE IInv'
<1>1. /\ Executing({"commit"}) /\ forkDepth' = 0 /\ staged' = <<>>
      /\ arena' = IF staged # <<>> THEN staged[1] ELSE arena
      /\ UNCHANGED <<budget, segments, outcome>>
  BY DEF Commit
<1> QED
  BY <1>1, ForkClosed, AdvanceKeeps, Unmoved DEF IInv

(* abort.                                                                   *)
LEMMA AbortKeeps == ASSUME IInv, Abort PROVE IInv'
<1>1. /\ Executing({"abort"}) /\ forkDepth' = 0 /\ staged' = <<>>
      /\ UNCHANGED <<arena, budget, segments, outcome>>
  BY DEF Abort
<1> QED
  BY <1>1, ForkClosed, AdvanceKeeps, Unmoved DEF IInv

(* The ledger's calls keep it sound and never raise what is left and on     *)
(* lease together.                                                          *)
LEMMA LedgerSound ==
  ASSUME BudgetOk, NEW d, NEW amount \in Int,
         Ledger!Reserve(d, amount) \/ Ledger!Release(d, amount) \/ Ledger!Spend(d, amount)
  PROVE  /\ BudgetOk'
         /\ \A e \in Ledger!Dims :
              remaining'[e] + reserved'[e] <= remaining[e] + reserved[e]
<1>0. /\ remaining \in [Ledger!Dims -> 0 .. I64Max]
      /\ reserved \in [Ledger!Dims -> 0 .. I64Max]
      /\ \A e \in Ledger!Dims : remaining[e] + reserved[e] <= I64Max
      /\ I64Max \in Nat
  BY WordFacts DEF BudgetOk
<1>1. CASE Ledger!Reserve(d, amount)
  <2>1. /\ d \in Ledger!Dims /\ amount >= 0 /\ remaining[d] >= amount
        /\ remaining' = [remaining EXCEPT ![d] = @ - amount]
        /\ reserved' = [reserved EXCEPT ![d] = @ + amount]
    BY <1>1 DEF Ledger!Reserve, Ledger!CanReserve
  <2>2. \A e \in Ledger!Dims :
          /\ remaining'[e] \in 0 .. I64Max /\ reserved'[e] \in 0 .. I64Max
          /\ remaining'[e] + reserved'[e] = remaining[e] + reserved[e]
    BY <1>0, <2>1
  <2> QED
    BY <1>0, <2>1, <2>2 DEF BudgetOk
<1>2. CASE Ledger!Release(d, amount)
  <2>1. /\ d \in Ledger!Dims /\ amount >= 0 /\ reserved[d] >= amount
        /\ remaining' = [remaining EXCEPT ![d] = @ + amount]
        /\ reserved' = [reserved EXCEPT ![d] = @ - amount]
    BY <1>2 DEF Ledger!Release, Ledger!CanReturn
  <2>2. \A e \in Ledger!Dims :
          /\ remaining'[e] \in 0 .. I64Max /\ reserved'[e] \in 0 .. I64Max
          /\ remaining'[e] + reserved'[e] = remaining[e] + reserved[e]
    BY <1>0, <2>1
  <2> QED
    BY <1>0, <2>1, <2>2 DEF BudgetOk
<1>3. CASE Ledger!Spend(d, amount)
  <2>1. /\ d \in Ledger!Dims /\ amount >= 0 /\ reserved[d] >= amount
        /\ remaining' = remaining
        /\ reserved' = [reserved EXCEPT ![d] = @ - amount]
    BY <1>3 DEF Ledger!Spend, Ledger!CanReturn
  <2>2. \A e \in Ledger!Dims :
          /\ remaining'[e] \in 0 .. I64Max /\ reserved'[e] \in 0 .. I64Max
          /\ remaining'[e] + reserved'[e] <= remaining[e] + reserved[e]
    BY <1>0, <2>1
  <2> QED
    BY <1>0, <2>1, <2>2 DEF BudgetOk
<1> QED
  BY <1>1, <1>2, <1>3

(* reserve, release and spend, with the amounts they take.                  *)
LEMMA MeterSound ==
  ASSUME IInv, Meter
  PROVE  /\ BudgetOk'
         /\ \A e \in Ledger!Dims :
              remaining'[e] + reserved'[e] <= remaining[e] + reserved[e]
<1> DEFINE d == Fetched
<1>1. /\ Executing({"reserve", "release", "spend"})
      /\ \/ Ledger!Reserve(d.a, d.b)
         \/ Ledger!Release(d.a, ArgInt(1)) \/ Ledger!Spend(d.a, ArgInt(1))
  BY DEF Meter
<1>2. d.b \in Int /\ ArgInt(1) \in Int
  BY <1>1, ImageKept, FetchedType, OperandType
<1>3. BudgetOk
  BY DEF IInv
<1>4. CASE Ledger!Reserve(d.a, d.b)
  BY <1>2, <1>3, <1>4, LedgerSound
<1>5. CASE Ledger!Release(d.a, ArgInt(1)) \/ Ledger!Spend(d.a, ArgInt(1))
  BY <1>2, <1>3, <1>5, LedgerSound
<1> QED
  BY <1>1, <1>4, <1>5

(* reserve, release, spend.                                                 *)
LEMMA MeterKeeps == ASSUME IInv, Meter PROVE IInv'
<1>1. /\ Executing({"reserve", "release", "spend"})
      /\ UNCHANGED <<store, segments, outcome>>
  BY DEF Meter
<1> QED
  BY <1>1, AdvanceKeeps, MeterSound, Unmoved DEF IInv

(* A push below the capacity keeps the ring sound.                          *)
LEMMA CtxPushKeeps == ASSUME IInv, CtxPush PROVE IInv'
<1> DEFINE d == Fetched
           size == Len(ArgBytes(1))
<1>1. /\ Executing({"ctxpush"}) /\ Ring!Push(d.a, size)
      /\ UNCHANGED <<store, budget, outcome>>
  BY DEF CtxPush
<1>2. Fetchable /\ FaultOf(d) = "ok" /\ d.op = "ctxpush"
  BY <1>1, ImageKept
<1>4. d.a \in Nat /\ size \in 0 .. Radix - 1
  <2>1. Kinds(d) = <<"str">>
    BY <1>2 DEF Kinds, IntBinary
  <2>2. 1 \in 1 .. Arity(d) /\ Kinds(d)[1] = "str"
    BY <2>1 DEF Arity
  <2>3. ArgBytes(1) \in Seq(Word) /\ size < Radix
    BY <1>2, <2>2, DerefType
  <2> QED
    BY <1>2, <2>3, FetchedType, WordFacts
<1> HIDE DEF size
<1>5. RingOk'
  <2>1. segments \in Seq(Ring!Segments) /\ Len(segments) <= RingLimit
    BY DEF IInv, RingOk
  <2>2. ~(Len(segments) >= RingLimit)
        /\ segments' = Append(segments, [role |-> d.a, size |-> size])
    BY <1>1 DEF Ring!Push, Ring!Full
  <2>3. [role |-> d.a, size |-> size] \in Ring!Segments
    BY <1>4 DEF Ring!Segments
  <2>4. segments' \in Seq(Ring!Segments) /\ Len(segments') = Len(segments) + 1
    BY <2>1, <2>2, <2>3, AppendProperties
  <2> QED
    BY <2>1, <2>2, <2>4, LimitsAssumption DEF RingOk
<1> QED
  BY <1>1, <1>5, AdvanceKeeps, Unmoved DEF IInv

(* Popping the oldest segments keeps the ring sound.                        *)
LEMMA CtxPopKeeps == ASSUME IInv, CtxPop PROVE IInv'
<1> DEFINE n == Fetched.b
<1>1. /\ Executing({"ctxpop"}) /\ Ring!PopOldest(n)
      /\ UNCHANGED <<store, budget, outcome>>
  BY DEF CtxPop
<1>2. n \in Nat
  BY <1>1, ImageKept, FetchedType
<1>3. RingOk'
  <2>1. segments \in Seq(Ring!Segments) /\ Len(segments) <= RingLimit
    BY DEF IInv, RingOk
  <2>2. n <= Len(segments) /\ segments' = SubSeq(segments, n + 1, Len(segments))
    BY <1>1 DEF Ring!PopOldest, Ring!CanEvict
  <2>3. \A i \in n + 1 .. Len(segments) : segments[i] \in Ring!Segments
    BY <1>2, <2>1
  <2>4. segments' \in Seq(Ring!Segments) /\ Len(segments') <= Len(segments)
    BY <1>2, <2>1, <2>2, <2>3, SubSeqProperties
  <2> QED
    BY <2>1, <2>4, LimitsAssumption DEF RingOk
<1> QED
  BY <1>1, <1>3, AdvanceKeeps, Unmoved DEF IInv

(* The three returns at the head of the loop.                               *)
LEMMA ReturnKeeps ==
  ASSUME IInv, ReturnTrap \/ ReturnHalt \/ ReturnEmpty
  PROVE  IInv'
<1>1. /\ call = "running" /\ call' = "idle" /\ halt' = <<>> /\ pending' = <<>>
      /\ UNCHANGED <<image, frames, store, budget, segments, steps, nextEffect>>
      /\ \/ result'.kind = "trap" /\ frames # <<>>
         \/ result'.kind = "halted" /\ frames = <<>>
  <2>1. CASE ReturnTrap
    BY <2>1 DEF IInv, OutcomeOk, ReturnTrap, Return
  <2>2. CASE ReturnHalt
    BY <2>2 DEF IInv, OutcomeOk, ReturnHalt, Return
  <2>3. CASE ReturnEmpty
    BY <2>3 DEF ReturnEmpty, Return, machine, store, budget
  <2> QED
    BY <2>1, <2>2, <2>3
<1>2. << >> \in Seq(Traps) /\ << >> \in Seq(-Half .. I64Max) /\ Len(<< >>) = 0
  OBVIOUS
<1>3. OutcomeOk'
  BY <1>1, <1>2 DEF OutcomeOk, EffectPending
<1>4. ReplyOk'
  BY <1>1 DEF ReplyOk
<1>5. CountsOk' /\ image' \in Images
  BY <1>1 DEF IInv, CountsOk
<1> QED
  BY <1>1, <1>3, <1>4, <1>5, Unmoved DEF IInv

(* The three ways a call fails.                                             *)
LEMMA DeathKeeps ==
  ASSUME IInv, StepLimit \/ PcEscape \/ Fault
  PROVE  IInv'
<1>1. /\ call = "running" /\ pending = <<>> /\ halt = <<>> /\ frames # <<>>
      /\ call' = "dead" /\ result'.kind = "err" /\ steps' = steps + 1
      /\ UNCHANGED <<image, frames, store, budget, segments, outcome>>
  BY DEF StepLimit, PcEscape, Fault, Fetchable, Ready, Die
<1>2. OutcomeOk'
  BY <1>1 DEF IInv, OutcomeOk, EffectPending, outcome
<1>3. ReplyOk'
  BY <1>1 DEF ReplyOk
<1>4. CountsOk' /\ image' \in Images
  BY <1>1, LimitsAssumption DEF IInv, CountsOk, outcome
<1> QED
  BY <1>1, <1>2, <1>3, <1>4, Unmoved DEF IInv

(* The host's calls.                                                        *)
LEMMA HostKeeps == ASSUME IInv, Host PROVE IInv'
<1>0. OutcomeOk /\ ReplyOk /\ CountsOk /\ image \in Images
  BY DEF IInv
<1>1. CASE Resume
  <2>1. /\ call = "idle" /\ call' = "running"
        /\ UNCHANGED <<image, frames, store, budget, segments, steps, outcome, result>>
    BY <1>1 DEF Resume, machine, store, budget, outcome
  <2>2. OutcomeOk' /\ ReplyOk' /\ CountsOk'
    BY <1>0, <2>1 DEF OutcomeOk, EffectPending, ReplyOk, CountsOk, outcome
  <2> QED
    BY <1>0, <2>1, <2>2, Unmoved DEF IInv
<1>2. CASE Shutdown
  <2>1. /\ call = "idle" /\ call' = "idle" /\ result'.kind = "shut"
        /\ UNCHANGED <<image, frames, store, budget, segments, steps, outcome>>
    BY <1>2 DEF Shutdown, Trapped, machine, store, budget, outcome
  <2>2. OutcomeOk' /\ ReplyOk' /\ CountsOk'
    BY <1>0, <2>1 DEF OutcomeOk, EffectPending, ReplyOk, CountsOk, outcome
  <2> QED
    BY <1>0, <2>1, <2>2, Unmoved DEF IInv
<1>3. CASE Answer
  <2>1. PICK v \in HostValues :
          IF CanReplace(Cur, 0, <<v>>)
          THEN /\ SetTop(Replace(Cur, 0, <<v>>))
               /\ call' = "running"
               /\ UNCHANGED <<image, store, budget, segments, steps, outcome, result>>
          ELSE Die("MaxstackExceeded") /\ UNCHANGED steps
    BY <1>3 DEF Answer
  <2>2. call = "idle" /\ result.kind = "trap" /\ frames # <<>>
    BY <1>0, <1>3 DEF Answer, Trapped, ReplyOk
  <2>3. CASE CanReplace(Cur, 0, <<v>>)
    <3> DEFINE f == Replace(Cur, 0, <<v>>)
    <3>1. /\ SetTop(f) /\ call' = "running"
          /\ UNCHANGED <<image, store, budget, segments, steps, outcome, result>>
      BY <2>1, <2>3
    <3>2. << v >> \in Seq(Values) /\ Cur \in Frames /\ Cur.sp \in Nat
          /\ Cur.func < Len(image.funcs)
      BY <2>2, TopFrame, FrameFields, LimitsAssumption
    <3>3. f \in Frames /\ f.func = Cur.func
      <4>1. Cur.sp - 0 + Len(<< v >>) <= Cur.maxstack /\ 0 <= Cur.sp
        BY <2>3, <3>2 DEF CanReplace
      <4> QED
        BY <3>2, <4>1, ReplaceType
    <3> HIDE DEF f
    <3>4. FramesOk' /\ frames' # <<>>
      BY <2>2, <3>1, <3>2, <3>3, TopUpdate
    <3>5. OutcomeOk' /\ ReplyOk' /\ CountsOk'
      BY <1>0, <2>2, <3>1, <3>4 DEF OutcomeOk, EffectPending, ReplyOk, CountsOk, outcome
    <3> QED
      BY <1>0, <3>1, <3>4, <3>5, Unmoved DEF IInv
  <2>4. CASE ~CanReplace(Cur, 0, <<v>>)
    <3>1. /\ call' = "dead" /\ result'.kind = "err"
          /\ UNCHANGED <<image, frames, store, budget, segments, steps, outcome>>
      BY <2>1, <2>4 DEF Die
    <3>2. OutcomeOk' /\ ReplyOk' /\ CountsOk'
      BY <1>0, <2>2, <3>1 DEF OutcomeOk, EffectPending, ReplyOk, CountsOk, outcome
    <3> QED
      BY <1>0, <3>1, <3>2, Unmoved DEF IInv
  <2> QED
    BY <2>3, <2>4
<1> QED
  BY <1>1, <1>2, <1>3 DEF Host

(* Nothing happens.                                                         *)
LEMMA StutterKeeps == ASSUME IInv, UNCHANGED vars PROVE IInv'
  BY DEF vars, IInv, FramesOk, StoreOk, BudgetOk, RingOk, CountsOk, OutcomeOk,
         EffectPending, ReplyOk

(* IInv is inductive.                                                       *)
LEMMA StepKeeps == IInv /\ [Next]_vars => IInv'
<1> SUFFICES ASSUME IInv, [Next]_vars PROVE IInv'
  OBVIOUS
<1>1. CASE Execute
  BY <1>1, ComputeKeeps, AllocateKeeps, BranchKeeps, SwitchKeeps, CallKeeps,
     TailCallKeeps, RetKeeps, HaltKeeps, IssueEffectKeeps, SuspendKeeps,
     AskOracleKeeps, QueryQKeeps, ForkKeeps, CommitKeeps, AbortKeeps, MeterKeeps,
     CtxPushKeeps, CtxPopKeeps DEF Execute
<1>2. CASE ReturnTrap \/ ReturnHalt \/ ReturnEmpty
  BY <1>2, ReturnKeeps
<1>3. CASE StepLimit \/ PcEscape \/ Fault
  BY <1>3, DeathKeeps
<1>4. CASE Host
  BY <1>4, HostKeeps
<1>5. CASE UNCHANGED vars
  BY <1>5, StutterKeeps
<1> QED
  BY <1>1, <1>2, <1>3, <1>4, <1>5 DEF Next, Internal, Stopped

(* IInv holds in every reachable state.                                     *)
LEMMA Invariant == Spec => []IInv
  BY InitHolds, StepKeeps, PTL DEF Spec

-----------------------------------------------------------------------------
(* Every part of the machine stays well formed, for every image, every      *)
(* host, every limit and every width of the word (interp.rs step).          *)
THEOREM TypeCorrect == Spec => []TypeOK
<1>1. IInv => TypeOK
  BY DEF IInv, FramesOk, StoreOk, BudgetOk, RingOk, CountsOk, OutcomeOk, ReplyOk,
         TypeOK
<1> QED
  BY <1>1, Invariant, PTL

(* An open fork's clone is what the arena begins with.                      *)
LEMMA ForkIsPrefix == IInv => ForkPrefix
<1> SUFFICES ASSUME IInv, staged # <<>> PROVE IsPrefix(staged[1], arena)
  BY DEF ForkPrefix, IInv, StoreOk
<1> DEFINE s == staged[1]
<1>1. /\ arena \in Seq(Word) /\ staged \in Seq(Seq(Word))
      /\ Len(s) <= Len(arena)
      /\ \A i \in 1 .. Len(s) : s[i] = arena[i]
  BY DEF IInv, StoreOk
<1>2. s \in Seq(Word)
  BY <1>1
<1> HIDE DEF s
<1>3. SubSeq(s, 1, Len(s)) = s
  BY <1>2, SubSeqFull
<1>4. \A i \in 1 .. Len(s) : arena[i] \in Word
  BY <1>1, <1>2
<1>5. /\ SubSeq(arena, 1, Len(s)) \in Seq(Word)
      /\ Len(SubSeq(arena, 1, Len(s))) = Len(s)
      /\ \A i \in 1 .. Len(s) : SubSeq(arena, 1, Len(s))[i] = arena[i]
  BY <1>1, <1>2, <1>4, SubSeqProperties
<1>6. \A i \in 1 .. Len(s) : s[i] = SubSeq(arena, 1, Len(s))[i]
  BY <1>1, <1>5
<1>7. s = SubSeq(arena, 1, Len(s))
  BY <1>2, <1>5, <1>6, SeqEqual
<1> QED
  BY <1>1, <1>3, <1>7 DEF IsPrefix, s

(* The clone an open fork holds is a prefix of the arena (interp.rs fork,   *)
(* commit, abort; heap.rs alloc only appends).                              *)
THEOREM ForkKept == Spec => []ForkPrefix
<1> QED
  BY ForkIsPrefix, Invariant, PTL

(* Only the three metering instructions touch the ledger.                   *)
LEMMA BudgetSteps ==
  ASSUME [Next]_vars
  PROVE  Meter \/ UNCHANGED budget
<1>1. CASE Execute
  BY <1>1 DEF Execute, Compute, Allocate, Branch, Switch, Call, TailCall, Ret, Halt,
     IssueEffect, Suspend, AskOracle, QueryQ, Fork, Commit, Abort, CtxPush, CtxPop
<1>2. CASE ReturnTrap \/ ReturnHalt \/ ReturnEmpty
  BY <1>2 DEF ReturnTrap, ReturnHalt, ReturnEmpty, machine, budget
<1>3. CASE StepLimit \/ PcEscape \/ Fault
  BY <1>3 DEF StepLimit, PcEscape, Fault, Die
<1>4. CASE Host
  BY <1>4 DEF Host, Resume, Answer, Shutdown, Die, machine, budget
<1>5. CASE UNCHANGED vars
  BY <1>5 DEF vars, budget
<1> QED
  BY <1>1, <1>2, <1>3, <1>4, <1>5 DEF Next, Internal, Stopped

(* No program mints allowance: on every dimension what is left and what is  *)
(* on lease together never grow (interp.rs reserve, release, spend).        *)
THEOREM AllowanceNeverGrows == Spec => NothingMinted
<1>1. ASSUME IInv, [Next]_vars
      PROVE  \A d \in Ledger!Dims :
               remaining'[d] + reserved'[d] <= remaining[d] + reserved[d]
  <2>1. CASE Meter
    BY <1>1, <2>1, MeterSound
  <2>2. CASE UNCHANGED budget
    <3>1. \A d \in Ledger!Dims : remaining[d] \in Int /\ reserved[d] \in Int
      BY <1>1, WordFacts DEF IInv, BudgetOk
    <3> QED
      BY <2>2, <3>1 DEF budget
  <2> QED
    BY <1>1, <2>1, <2>2, BudgetSteps
<1> QED
  BY <1>1, Invariant, PTL DEF Spec, NothingMinted

-----------------------------------------------------------------------------
(* The host boundary.  Effects the host has been asked for: those issued,   *)
(* less the one whose trap is still pending.                                *)
Issued == nextEffect - 1 - (IF EffectPending THEN 1 ELSE 0)

(* A new machine is a new boundary.                                         *)
LEMMA BoundaryInit == Init => Boundary!Init
  BY DEF Init, Boundary!Init, ReplyOf, EffectPending

(* An instruction is a stutter of the boundary.                             *)
LEMMA ExecuteIsInternal ==
  ASSUME IInv, Execute
  PROVE  UNCHANGED <<call, Issued, result>>
<1>1. /\ pending = <<>> /\ nextEffect \in Nat \ {0} /\ UNCHANGED <<call, result>>
      /\ call = "running" /\ frames # <<>>
  BY DEF IInv, CountsOk, Execute, Compute, Allocate, Branch, Switch, Call, TailCall,
     Ret, Halt, IssueEffect, Suspend, AskOracle, QueryQ, Fork, Commit, Abort, Meter,
     CtxPush, CtxPop, Executing, Fetchable, Ready, rest
<1>2. Issued = nextEffect - 1
  BY <1>1 DEF Issued, EffectPending
<1>3. Issued' = nextEffect - 1
  <2>1. CASE IssueEffect
    <3>1. /\ pending' = <<[kind |-> "Effect", id |-> nextEffect, tool |-> Fetched.b,
                           args |-> ArgList(1)]>>
          /\ nextEffect' = nextEffect + 1
      BY <2>1 DEF IssueEffect, Raise
    <3>2. EffectPending'
      BY <3>1 DEF EffectPending
    <3> QED
      BY <1>1, <3>1, <3>2 DEF Issued
  <2>2. CASE Suspend \/ AskOracle \/ QueryQ
    <3>1. nextEffect' = nextEffect /\ ~EffectPending'
      BY <2>2 DEF Suspend, AskOracle, QueryQ, Raise, EffectPending
    <3> QED
      BY <1>1, <3>1 DEF Issued
  <2>3. CASE ~(IssueEffect \/ Suspend \/ AskOracle \/ QueryQ)
    <3>1. nextEffect' = nextEffect /\ pending' = pending
      BY <2>3 DEF Execute, Compute, Allocate, Branch, Switch, Call, TailCall, Ret,
         Halt, Fork, Commit, Abort, Meter, CtxPush, CtxPop, outcome
    <3> QED
      BY <1>1, <3>1 DEF Issued, EffectPending
  <2> QED
    BY <2>1, <2>2, <2>3
<1> QED
  BY <1>1, <1>2, <1>3

(* Every step is a step of the boundary or a stutter.                       *)
LEMMA BoundaryStep ==
  ASSUME IInv, [Next]_vars
  PROVE  [Boundary!Next]_(Boundary!vars)
<1> USE DEF IInv
<1>0. nextEffect \in Nat \ {0} /\ OutcomeOk /\ ReplyOk
  BY DEF CountsOk
<1>1. CASE Execute
  BY <1>1, ExecuteIsInternal DEF Boundary!vars, Issued
<1>2. CASE ReturnTrap
  <2> DEFINE trap == pending[1]
  <2>1. /\ call = "running" /\ call' = "idle" /\ pending # <<>> /\ pending' = <<>>
        /\ result' = [kind |-> "trap", trap |-> trap] /\ nextEffect' = nextEffect
    BY <1>2 DEF ReturnTrap, Return
  <2>2. ReplyOf(result).kind # "stopped"
    BY <1>0, <2>1 DEF ReplyOk, OutcomeOk, ReplyOf
  <2>3. ReplyOf(result') =
          [kind |-> "asked", id |-> IF trap.kind = "Effect" THEN trap.id ELSE 0]
    BY <2>1 DEF ReplyOf
  <2>4. Issued' = nextEffect - 1
    BY <1>0, <2>1 DEF Issued, EffectPending
  <2>5. CASE trap.kind = "Effect"
    <3>1. EffectPending /\ trap.id = nextEffect - 1 /\ Issued = nextEffect - 2
      BY <1>0, <2>1, <2>5 DEF EffectPending, OutcomeOk, Issued
    <3>2. /\ ReplyOf(result') = [kind |-> "asked", id |-> Issued + 1]
          /\ Issued' = Issued + 1
      BY <1>0, <2>3, <2>4, <2>5, <3>1
    <3>3. Boundary!AskEffect
      BY <2>1, <2>2, <3>2 DEF Boundary!AskEffect, Issued
    <3> QED
      BY <3>3 DEF Boundary!Next
  <2>6. CASE trap.kind # "Effect"
    <3>1. Issued = nextEffect - 1
      BY <1>0, <2>6 DEF EffectPending, Issued
    <3>2. Boundary!AskOther
      BY <2>1, <2>2, <2>3, <2>4, <2>6, <3>1 DEF Boundary!AskOther, Issued
    <3> QED
      BY <3>2 DEF Boundary!Next
  <2> QED
    BY <2>5, <2>6
<1>3. CASE ReturnHalt \/ ReturnEmpty
  <2>1. /\ call = "running" /\ call' = "idle" /\ result'.kind = "halted"
        /\ UNCHANGED <<pending, nextEffect>>
    BY <1>3 DEF ReturnHalt, ReturnEmpty, Return, machine
  <2>2. ReplyOf(result') = [kind |-> "stopped", id |-> 0]
    BY <2>1 DEF ReplyOf
  <2>3. Boundary!Stop
    BY <2>1, <2>2 DEF Boundary!Stop, EffectPending
  <2> QED
    BY <2>3 DEF Boundary!Next
<1>4. CASE StepLimit \/ PcEscape \/ Fault
  <2>1. /\ call = "running" /\ call' = "dead" /\ result'.kind = "err" /\ frames # <<>>
        /\ UNCHANGED <<pending, nextEffect>>
    BY <1>4 DEF StepLimit, PcEscape, Fault, Fetchable, Ready, Die, outcome
  <2>2. ReplyOf(result') = [kind |-> "failed", id |-> 0]
    BY <2>1 DEF ReplyOf
  <2>3. ReplyOf(result).kind # "stopped"
    BY <1>0, <2>1 DEF ReplyOk, ReplyOf
  <2>4. Boundary!Fail
    BY <2>1, <2>2, <2>3 DEF Boundary!Fail, EffectPending
  <2> QED
    BY <2>4 DEF Boundary!Next
<1>5. CASE Resume
  <2>1. call = "idle" /\ call' = "running" /\ UNCHANGED <<pending, nextEffect, result>>
    BY <1>5 DEF Resume, machine
  <2>2. Boundary!Begin
    BY <2>1 DEF Boundary!Begin, EffectPending, ReplyOf
  <2> QED
    BY <2>2 DEF Boundary!Next
<1>6. CASE Answer
  <2>1. /\ call = "idle" /\ result.kind = "trap" /\ UNCHANGED <<pending, nextEffect>>
        /\ \/ call' = "running" /\ result' = result
           \/ call' = "dead" /\ result'.kind = "err"
    BY <1>6 DEF Answer, Trapped, Die, outcome
  <2>2. ReplyOf(result).kind = "asked"
    BY <2>1 DEF ReplyOf
  <2>3. CASE call' = "running" /\ result' = result
    <3>1. Boundary!Begin
      BY <2>1, <2>3 DEF Boundary!Begin, EffectPending, ReplyOf
    <3> QED
      BY <3>1 DEF Boundary!Next
  <2>4. CASE call' = "dead" /\ result'.kind = "err"
    <3>1. ReplyOf(result') = [kind |-> "failed", id |-> 0]
      BY <2>4 DEF ReplyOf
    <3>2. Boundary!Fail
      BY <2>1, <2>2, <2>4, <3>1 DEF Boundary!Fail, EffectPending
    <3> QED
      BY <3>2 DEF Boundary!Next
  <2> QED
    BY <2>1, <2>3, <2>4
<1>7. CASE Shutdown
  <2>1. /\ call = "idle" /\ result.kind = "trap" /\ UNCHANGED <<pending, nextEffect>>
        /\ call' = call /\ result'.kind = "shut"
    BY <1>7 DEF Shutdown, Trapped, machine
  <2>2. ReplyOf(result).kind = "asked" /\ ReplyOf(result') = [kind |-> "closed", id |-> 0]
    BY <2>1 DEF ReplyOf
  <2>3. Boundary!Close
    BY <2>1, <2>2 DEF Boundary!Close, EffectPending
  <2> QED
    BY <2>3 DEF Boundary!Next
<1>8. CASE UNCHANGED vars
  BY <1>8 DEF vars, Boundary!vars, EffectPending, ReplyOf
<1> QED
  BY <1>1, <1>2, <1>3, <1>4, <1>5, <1>6, <1>7, <1>8
     DEF Next, Internal, Host, Stopped

(* Across the step boundary the machine implements HostBoundary: calls and  *)
(* replies alternate, effects are numbered without gap or repeat, also by a *)
(* machine that was shut down and called again, and after an exit of the    *)
(* program nothing is asked for (interp.rs step).                           *)
THEOREM ImplementsBoundary == Spec => KeepsBoundary
  BY BoundaryInit, BoundaryStep, Invariant, PTL DEF Spec, KeepsBoundary, Boundary!Spec

-----------------------------------------------------------------------------
(* Callers.  Pushing on a frame adds to its operands and touches none.      *)
LEMMA OperandsGain ==
  ASSUME NEW f \in Frames, NEW vs \in Seq(Values), f.sp + Len(vs) <= f.maxstack
  PROVE  Operands(Replace(f, 0, vs)) = Operands(f) \o vs
<1> DEFINE g == Replace(f, 0, vs)
           n == f.sp + Len(vs)
<1>1. /\ f.sp \in Nat /\ f.sp <= f.maxstack /\ f.maxstack \in Nat
      /\ Len(f.slots) = f.maxstack /\ f.slots \in Seq(Values)
      /\ \A i \in 1 .. f.maxstack : f.slots[i] \in Values
  BY FrameFields
<1>2. g \in Frames
  BY <1>1, ReplaceType
<1>3. /\ g.sp = n
      /\ g.slots = [i \in 1 .. f.maxstack |->
                      IF f.sp < i /\ i <= n THEN vs[i - f.sp] ELSE f.slots[i]]
  <2>1. f.sp - 0 = f.sp
    BY <1>1
  <2> QED
    BY <2>1 DEF Replace, Frames
<1> HIDE DEF g
<1>4. \A i \in 1 .. n : g.slots[i] = IF f.sp < i THEN vs[i - f.sp] ELSE f.slots[i]
  BY <1>1, <1>3
<1>5. \A i \in 1 .. n : g.slots[i] \in Values
  <2>1. SUFFICES ASSUME NEW i \in 1 .. n PROVE g.slots[i] \in Values
    OBVIOUS
  <2>2. /\ f.sp < i => i - f.sp \in 1 .. Len(vs)
        /\ ~(f.sp < i) => i \in 1 .. f.maxstack
    BY <1>1, <2>1
  <2>3. f.sp < i => vs[i - f.sp] \in Values
    BY <2>2, ElementOfSeq
  <2> QED
    BY <1>1, <1>4, <2>1, <2>2, <2>3
<1>6. /\ Operands(g) \in Seq(Values) /\ Len(Operands(g)) = n
      /\ \A i \in 1 .. n : Operands(g)[i] = g.slots[i]
  BY <1>1, <1>3, <1>5, SubSeqProperties DEF Operands
<1>7. /\ Operands(f) \in Seq(Values) /\ Len(Operands(f)) = f.sp
      /\ \A i \in 1 .. f.sp : Operands(f)[i] = f.slots[i]
  BY <1>1, SubSeqProperties DEF Operands
<1>8. /\ Operands(f) \o vs \in Seq(Values) /\ Len(Operands(f) \o vs) = n
      /\ \A i \in 1 .. n : (Operands(f) \o vs)[i] =
           IF i <= f.sp THEN f.slots[i] ELSE vs[i - f.sp]
  <2> DEFINE o == Operands(f)
  <2>1. o \in Seq(Values) /\ Len(o) = f.sp /\ \A i \in 1 .. f.sp : o[i] = f.slots[i]
    BY <1>7
  <2> HIDE DEF o
  <2>2. /\ o \o vs \in Seq(Values) /\ Len(o \o vs) = Len(o) + Len(vs)
        /\ \A i \in 1 .. Len(o) + Len(vs) : (o \o vs)[i] =
             IF i <= Len(o) THEN o[i] ELSE vs[i - Len(o)]
    BY <2>1, ConcatProperties
  <2>3. \A i \in 1 .. n : i <= f.sp => i \in 1 .. f.sp
    BY <1>1
  <2>4. o \o vs \in Seq(Values) /\ Len(o \o vs) = n
    BY <2>1, <2>2
  <2>5. \A i \in 1 .. n : (o \o vs)[i] = IF i <= f.sp THEN f.slots[i] ELSE vs[i - f.sp]
    BY <2>1, <2>2, <2>3
  <2> QED
    BY <2>4, <2>5 DEF o
<1>9. \A i \in 1 .. n : Operands(g)[i] = (Operands(f) \o vs)[i]
  BY <1>1, <1>4, <1>6, <1>8
<1>10. Operands(g) = Operands(f) \o vs
  BY <1>6, <1>8, <1>9, SeqEqual
<1> QED
  BY <1>10 DEF g

(* An answer from the host works on the top frame alone.                    *)
LEMMA HostTop ==
  ASSUME IInv, Host
  PROVE  \/ frames' = frames
         \/ /\ frames # <<>>
            /\ \E f \in Frames : f.func = Cur.func /\ f.pc = Cur.pc /\ SetTop(f)
<1>1. CASE Resume \/ Shutdown
  BY <1>1 DEF Resume, Shutdown, machine
<1>2. CASE Answer
  <2>1. PICK v \in HostValues :
          IF CanReplace(Cur, 0, <<v>>)
          THEN SetTop(Replace(Cur, 0, <<v>>))
          ELSE UNCHANGED frames
    BY <1>2 DEF Answer, Die
  <2>2. frames # <<>>
    BY <1>2 DEF IInv, ReplyOk, Answer, Trapped
  <2>3. CASE CanReplace(Cur, 0, <<v>>)
    <3> DEFINE f == Replace(Cur, 0, <<v>>)
    <3>1. << v >> \in Seq(Values) /\ Cur \in Frames /\ Cur.sp \in Nat
      BY <2>2, TopFrame, FrameFields, LimitsAssumption
    <3>2. Cur.sp - 0 + Len(<< v >>) <= Cur.maxstack /\ 0 <= Cur.sp
      BY <2>3, <3>1 DEF CanReplace
    <3>3. f \in Frames /\ f.func = Cur.func /\ f.pc = Cur.pc
      BY <3>1, <3>2, ReplaceType
    <3>4. SetTop(f)
      BY <2>1, <2>3
    <3> HIDE DEF f
    <3> QED
      BY <2>2, <3>3, <3>4
  <2>4. CASE ~CanReplace(Cur, 0, <<v>>)
    BY <2>1, <2>4
  <2> QED
    BY <2>3, <2>4
<1> QED
  BY <1>1, <1>2 DEF Host

(* Every step either leaves the frames, works on the top one, or is a call, *)
(* a return or a halt.                                                      *)
LEMMA FrameSteps ==
  ASSUME IInv, [Next]_vars
  PROVE  \/ frames' = frames
         \/ frames # <<>> /\ \E f \in Frames : SetTop(f)
         \/ Call \/ Ret \/ Halt
<1>1. CASE Compute \/ Allocate \/ Fork \/ Commit \/ Abort \/ Meter \/ CtxPush \/ CtxPop
  <2>1. frames # <<>>
    BY <1>1 DEF Compute, Allocate, Fork, Commit, Abort, Meter, CtxPush, CtxPop,
       Executing, Fetchable, Ready
  <2>2. PICK f \in Frames : SetTop(Advance(f))
    BY <1>1, Advances
  <2> QED
    BY <2>1, <2>2, Moved
<1>2. CASE Branch \/ Switch \/ TailCall \/ IssueEffect \/ QueryQ
  <2>1. frames # <<>>
    BY <1>2 DEF Branch, Switch, TailCall, IssueEffect, QueryQ, Executing, Fetchable,
       Ready
  <2>2. \E f \in Frames : SetTop(f)
    BY <1>2, BranchTop, SwitchTop, TailCallTop, IssueEffectTop, QueryQTop
  <2> QED
    BY <2>1, <2>2
<1>3. CASE Suspend \/ AskOracle
  BY <1>3 DEF Suspend, AskOracle
<1>4. CASE ReturnTrap \/ ReturnHalt \/ ReturnEmpty
  BY <1>4 DEF ReturnTrap, ReturnHalt, ReturnEmpty, machine
<1>5. CASE StepLimit \/ PcEscape \/ Fault
  BY <1>5 DEF StepLimit, PcEscape, Fault, Die
<1>6. CASE Host
  BY <1>6, HostTop
<1>7. CASE UNCHANGED vars
  BY <1>7 DEF vars
<1> QED
  BY <1>1, <1>2, <1>3, <1>4, <1>5, <1>6, <1>7 DEF Next, Internal, Execute, Stopped

(* The callers, across any step.                                            *)
LEMMA CallersKept ==
  ASSUME IInv, [Next]_vars, NEW k \in 1 .. Len(frames) - 1
  PROVE  /\ k < Len(frames') => frames'[k] = frames[k]
         /\ k = Len(frames') =>
              Operands(frames'[k]) = Operands(frames[k]) \o TopN(Cur, Cur.returns)
<1>1. frames \in Seq(Frames) /\ Len(frames) \in Nat
  BY DEF IInv, FramesOk
<1>2. CASE frames' = frames
  BY <1>1, <1>2
<1>3. CASE frames # <<>> /\ \E f \in Frames : SetTop(f)
  <2>1. PICK f \in Frames : SetTop(f)
    BY <1>3
  <2>2. /\ Len(frames') = Len(frames)
        /\ \A j \in 1 .. Len(frames) :
             frames'[j] = IF j = Len(frames) THEN f ELSE frames[j]
    BY <1>3, <2>1, TopShape
  <2> QED
    BY <1>1, <2>2
<1>4. CASE Call
  <2>1. /\ Len(frames') = Len(frames) + 1
        /\ \A j \in 1 .. Len(frames) - 1 : frames'[j] = frames[j]
    BY <1>1, <1>4, CallShape
  <2> QED
    BY <1>1, <2>1
<1>5. CASE Ret
  <2> DEFINE vs == TopN(Cur, Cur.returns)
             caller == frames[Depth]
  <2>1. Depth \in Nat /\ Depth # 0 /\ k \in 1 .. Depth
    <3>1. \A n \in Nat : k \in 1 .. n - 1 => n - 1 \in Nat /\ n - 1 # 0
      OBVIOUS
    <3> QED
      BY <1>1, <3>1 DEF Depth
  <2>2. /\ vs \in Seq(Values) /\ caller \in Frames
        /\ caller.sp + Len(vs) <= caller.maxstack
        /\ Len(frames') = Depth
        /\ \A j \in 1 .. Depth :
             frames'[j] = IF j = Depth THEN Replace(caller, 0, vs) ELSE frames[j]
    BY <1>5, <2>1, RetShape
  <2>3. Operands(Replace(caller, 0, vs)) = Operands(caller) \o vs
    BY <2>2, OperandsGain
  <2> HIDE DEF vs
  <2>4. CASE k = Depth
    BY <2>1, <2>2, <2>3, <2>4 DEF vs
  <2>5. CASE k # Depth
    BY <2>1, <2>2, <2>5
  <2> QED
    BY <2>4, <2>5
<1>6. CASE Halt
  <2>1. Len(frames') = 0
    BY <1>6 DEF Halt
  <2> QED
    BY <1>1, <2>1
<1> QED
  BY <1>2, <1>3, <1>4, <1>5, <1>6, FrameSteps

(* A suspended caller is as its call left it until its callee returns, and  *)
(* then has gained exactly the operands the callee declares (interp.rs      *)
(* call, ret).                                                              *)
THEOREM CallersAreKept == Spec => CallersUntouched
<1>1. ASSUME IInv, [Next]_vars
      PROVE  \A k \in 1 .. Len(frames) - 1 :
               /\ k < Len(frames') => frames'[k] = frames[k]
               /\ k = Len(frames') =>
                    Operands(frames'[k]) = Operands(frames[k]) \o TopN(Cur, Cur.returns)
  BY <1>1, CallersKept
<1> QED
  BY <1>1, Invariant, PTL DEF Spec, CallersUntouched

-----------------------------------------------------------------------------
(* What admission says of one function: every edge of it stays in it, and   *)
(* it is not empty.                                                         *)
LEMMA AdmittedFunction ==
  ASSUME image \in Images, NEW k \in 1 .. Len(image.funcs)
  PROVE  LET f == image.funcs[k]
             insns == Body(image, f)
         IN /\ f \in Funcs /\ f.off + f.len <= Len(image.code)
            /\ Len(insns) = f.len /\ f.len > 0
            /\ \A i \in 0 .. f.len - 1 :
                 /\ At(insns, i) = image.code[f.off + i + 1]
                 /\ EdgeFault(insns, image.tables, i) = "ok"
<1> DEFINE f == image.funcs[k]
           insns == Body(image, f)
           bad == {i \in Indices(insns) : EdgeFault(insns, image.tables, i) # "ok"}
<1>1. f \in Funcs /\ image.code \in Seq(Insn)
  BY ImageFacts
<1>2. /\ f.off + f.len <= Len(image.code) /\ CheckFunction(image, f) = "ok"
  BY ImagesAssumption DEF WellFormed, Admitted
<1>3. f.off \in Nat /\ f.len \in Nat /\ f.maxstack \in Nat
  BY <1>1 DEF Funcs
<1> HIDE DEF f
<1>4. /\ insns \in Seq(Insn) /\ Len(insns) = f.len
      /\ \A i \in 1 .. f.len : insns[i] = image.code[f.off + i]
  <2>1. \A i \in f.off + 1 .. f.off + f.len : image.code[i] \in Insn
    BY <1>1, <1>2, <1>3
  <2> DEFINE m == f.off + 1
             n == f.off + f.len
  <2>2. /\ m \in Int /\ n \in Int /\ (IF m <= n THEN n - m + 1 ELSE 0) = f.len
        /\ n - m + 1 = f.len
        /\ \A i \in 1 .. f.len : m + i - 1 = f.off + i
    BY <1>3
  <2> HIDE DEF m, n
  <2>3. insns = SubSeq(image.code, m, n) /\ \A i \in m .. n : image.code[i] \in Insn
    BY <2>1 DEF Body, m, n
  <2>4. /\ insns \in Seq(Insn) /\ Len(insns) = IF m <= n THEN n - m + 1 ELSE 0
        /\ \A i \in 1 .. n - m + 1 : insns[i] = image.code[m + i - 1]
    BY <1>1, <2>2, <2>3, SubSeqProperties
  <2> HIDE DEF insns
  <2> QED
    BY <2>2, <2>4
<1> HIDE DEF insns
<1>5. Indices(insns) = 0 .. f.len - 1
  BY <1>4 DEF Indices
<1>6. bad = {}
  <2> SUFFICES ASSUME bad # {} PROVE FALSE
    OBVIOUS
  <2> DEFINE First(i) == /\ EdgeFault(insns, image.tables, i) # "ok"
                         /\ \A j \in 0 .. i - 1 : EdgeFault(insns, image.tables, j) = "ok"
  <2>0. bad \in SUBSET Nat
    BY <1>3, <1>5
  <2>1. PICK m \in bad : \A j \in bad : m <= j
    <3> HIDE DEF bad
    <3> QED
      BY <2>0, LeastNumber
  <2>2. m \in Indices(insns) /\ First(m)
    BY <1>3, <1>5, <2>1
  <2>3. First(CHOOSE i \in Indices(insns) : First(i))
    <3> HIDE DEF First
    <3> QED
      BY <2>2
  <2>4. ~EdgesOk(insns, image.tables)
    BY DEF EdgesOk
  <2>5. CheckFunction(image, f) =
          IF f.maxstack = 0 THEN "MissingMaxstack"
          ELSE EdgeFault(insns, image.tables, CHOOSE i \in Indices(insns) : First(i))
    BY <2>4 DEF CheckFunction, insns
  <2> QED
    BY <1>2, <2>3, <2>5
<1>7. f.len > 0
  <2>1. EdgesOk(insns, image.tables)
    BY <1>6 DEF EdgesOk
  <2>2. HasExit(insns)
    BY <1>2, <2>1 DEF CheckFunction, insns
  <2> QED
    BY <1>3, <1>5, <2>2 DEF HasExit
<1>8. ASSUME NEW i \in 0 .. f.len - 1
      PROVE  /\ At(insns, i) = image.code[f.off + i + 1]
             /\ EdgeFault(insns, image.tables, i) = "ok"
  <2>1. i + 1 \in 1 .. f.len /\ f.off + (i + 1) = f.off + i + 1
    BY <1>3, <1>8
  <2> QED
    BY <1>4, <1>5, <1>6, <2>1 DEF At
<1> QED
  BY <1>1, <1>2, <1>4, <1>7, <1>8 DEF f, insns

(* A frame whose pc is in its function fetches an instruction all of whose  *)
(* successors are in it too.                                                *)
LEMMA Successors ==
  ASSUME IInv, Fetchable, Cur.pc < FuncOf(Cur).len
  PROVE  /\ Uses(Fetched.op)
         /\ Fetched.op \in {"br", "brz", "brnz"} => Fetched.b < FuncOf(Cur).len
         /\ Fetched.op \notin Terminal => Cur.pc + 1 < FuncOf(Cur).len
         /\ Fetched.op = "switch" =>
              /\ Table(Fetched.b) # <<>>
              /\ \A k \in 1 .. Len(Table(Fetched.b)) :
                   Table(Fetched.b)[k] < FuncOf(Cur).len
<1> DEFINE f == FuncOf(Cur)
           insns == Body(image, f)
           d == Fetched
           i == Cur.pc
<1>1. /\ Cur \in Frames /\ Cur.func \in Nat /\ i \in Nat /\ Cur.func < Len(image.funcs)
      /\ image \in Images
  BY TopFrame, FrameFields DEF Fetchable, Ready, IInv
<1>2. Cur.func + 1 \in 1 .. Len(image.funcs)
  BY <1>1, ImageFacts
<1>3. /\ f \in Funcs /\ f.off + f.len <= Len(image.code) /\ Len(insns) = f.len
      /\ \A j \in 0 .. f.len - 1 :
           /\ At(insns, j) = image.code[f.off + j + 1]
           /\ EdgeFault(insns, image.tables, j) = "ok"
  BY <1>1, <1>2, AdmittedFunction DEF FuncOf
<1>4. f.off \in Nat /\ f.len \in Nat /\ d.b \in Nat /\ d.op \in Ops
  BY <1>3, FetchedType DEF Funcs
<1>5. d = image.code[f.off + i + 1]
  BY DEF Fetched, Offset
<1> HIDE DEF f, insns, i
<1>6. i \in 0 .. f.len - 1
  BY <1>1, <1>4 DEF f, i
<1>7. d = At(insns, i) /\ EdgeFault(insns, image.tables, i) = "ok"
  BY <1>3, <1>5, <1>6
<1> HIDE DEF d
<1>8. Uses(d.op)
  <2>1. f.off + i + 1 \in 1 .. Len(image.code)
    <3>1. Len(image.code) \in Nat
      BY <1>1, ImageFacts
    <3> QED
      BY <1>3, <1>4, <1>6, <3>1
  <2> QED
    BY <1>5, <2>1 DEF Uses
<1>9. \A k \in 1 .. Len(Targets(insns, image.tables, i)) :
        ~(Targets(insns, image.tables, i)[k] >= f.len)
  BY <1>3, <1>7 DEF EdgeFault
<1>10. ASSUME d.op \in {"br", "brz", "brnz"} PROVE d.b < f.len
  <2>1. \/ Targets(insns, image.tables, i) = <<d.b>>
        \/ Targets(insns, image.tables, i) = <<d.b, i + 1>>
    BY <1>7, <1>10 DEF Targets, Terminal
  <2>2. ~(d.b >= f.len)
    BY <1>9, <2>1
  <2> QED
    BY <1>4, <2>2
<1>11. ASSUME d.op \notin Terminal PROVE i + 1 < f.len
  <2>1. CASE d.op \in {"brz", "brnz"}
    <3>1. Targets(insns, image.tables, i) = <<d.b, i + 1>>
      BY <1>7, <2>1 DEF Targets, Terminal
    <3>2. ~(i + 1 >= f.len)
      BY <1>9, <3>1
    <3> QED
      BY <1>4, <1>6, <3>2
  <2>2. CASE d.op \notin {"brz", "brnz"}
    <3>1. Targets(insns, image.tables, i) = <<i + 1>>
      BY <1>7, <1>11, <2>2 DEF Targets, Terminal
    <3>2. ~(i + 1 >= f.len)
      BY <1>9, <3>1
    <3> QED
      BY <1>4, <1>6, <3>2
  <2> QED
    BY <2>1, <2>2
<1>12. ASSUME d.op = "switch"
       PROVE  /\ Table(d.b) # <<>>
              /\ \A k \in 1 .. Len(Table(d.b)) : Table(d.b)[k] < f.len
  <2>1. ~(d.b >= Len(image.tables)) /\ image.tables[d.b + 1] # <<>>
    BY <1>7, <1>12 DEF EdgeFault
  <2>2. image.tables \in Seq(Seq(Nat)) /\ d.b < Len(image.tables)
    BY <1>1, <1>4, <2>1, ImageFacts
  <2>3. Table(d.b) = image.tables[d.b + 1] /\ Table(d.b) \in Seq(Nat)
    <3>1. d.b + 1 \in 1 .. Len(image.tables)
      BY <1>4, <2>2
    <3> QED
      BY <2>2, <3>1, ElementOfSeq DEF Table
  <2>4. Targets(insns, image.tables, i) = Table(d.b)
    <3>1. Targets(insns, image.tables, i) =
            IF d.b < Len(image.tables) THEN image.tables[d.b + 1] ELSE <<>>
      BY <1>7, <1>12 DEF Targets
    <3> QED
      BY <2>2, <2>3, <3>1
  <2>5. \A k \in 1 .. Len(Table(d.b)) : Table(d.b)[k] \in Nat
    BY <2>3, ElementOfSeq
  <2>6. \A k \in 1 .. Len(Table(d.b)) : ~(Table(d.b)[k] >= f.len)
    BY <1>9, <2>4
  <2>7. Table(d.b) # <<>>
    BY <2>1, <2>3
  <2>8. f.len \in Int
    BY <1>4
  <2>9. ASSUME NEW k \in 1 .. Len(Table(d.b)) PROVE Table(d.b)[k] < f.len
    BY <2>5, <2>6, <2>8, <2>9
  <2> QED
    BY <2>7, <2>9
<1> QED
  BY <1>8, <1>10, <1>11, <1>12 DEF f, d, i
-----------------------------------------------------------------------------
(* The frames' counters.  Only abort can leave a function (see Abort).      *)
Inside(stack) ==
  \A k \in 1 .. Len(stack) : stack[k].pc < image.funcs[stack[k].func + 1].len

(* A top frame inside its function keeps all of them inside.                *)
LEMMA InsideTop ==
  ASSUME IInv, frames # <<>>, Inside(frames), NEW f \in Frames, SetTop(f),
         f.pc < image.funcs[f.func + 1].len
  PROVE  Inside(frames')
<1>1. /\ Len(frames') = Len(frames)
      /\ \A k \in 1 .. Len(frames) :
           frames'[k] = IF k = Len(frames) THEN f ELSE frames[k]
  BY TopShape
<1> QED
  BY <1>1 DEF Inside

(* Whatever instruction is fetched, the top frame is inside its function.   *)
LEMMA InsideFetch ==
  ASSUME IInv, Inside(frames), NEW ops, Executing(ops)
  PROVE  /\ Fetchable /\ Fetched.op \in ops /\ frames # <<>>
         /\ Cur.pc < FuncOf(Cur).len /\ Uses(Fetched.op)
<1>1. Fetchable /\ Fetched.op \in ops /\ frames # <<>>
  BY DEF Executing, Fetchable, Ready
<1>2. Len(frames) \in 1 .. Len(frames)
  BY <1>1, TopFrame, LimitsAssumption
<1>3. Cur.pc < FuncOf(Cur).len
  BY <1>2 DEF Inside, Cur, FuncOf
<1> QED
  BY <1>1, <1>3, Successors

(* Instructions that fall through.                                          *)
LEMMA AdvanceInside ==
  ASSUME IInv, Inside(frames), ~Uses("abort"),
         Compute \/ Allocate \/ Fork \/ Commit \/ Abort \/ Meter \/ CtxPush \/ CtxPop
  PROVE  Inside(frames')
<1> DEFINE ops == {"abort"}
           others == ComputeOps \cup AllocOps \cup
                       {"fork", "commit", "reserve", "release", "spend", "ctxpush",
                        "ctxpop"}
<1>1. \/ Executing(ComputeOps) \/ Executing(AllocOps) \/ Executing({"fork"})
      \/ Executing({"commit"}) \/ Executing(ops)
      \/ Executing({"reserve", "release", "spend"}) \/ Executing({"ctxpush"})
      \/ Executing({"ctxpop"})
  BY DEF Compute, Allocate, Fork, Commit, Abort, Meter, CtxPush, CtxPop
<1>2. /\ Fetchable /\ frames # <<>> /\ Cur.pc < FuncOf(Cur).len
      /\ Fetched.op \in others
  BY <1>1, InsideFetch
<1>3. Fetched.op \notin Terminal
  BY <1>2 DEF Terminal, ComputeOps, AllocOps, IntBinary
<1> HIDE DEF others, ops
<1>4. Cur.pc + 1 < FuncOf(Cur).len
  BY <1>2, <1>3, Successors
<1>5. PICK f \in Frames : f.func = Cur.func /\ f.pc = Cur.pc /\ SetTop(Advance(f))
  BY Advances
<1>6. /\ Advance(f) \in Frames
      /\ Advance(f).pc < image.funcs[Advance(f).func + 1].len
  BY <1>4, <1>5, Moved DEF FuncOf
<1> QED
  BY <1>2, <1>5, <1>6, InsideTop

(* Branches and switches.                                                   *)
LEMMA JumpInside ==
  ASSUME IInv, Inside(frames), Branch \/ Switch
  PROVE  Inside(frames')
<1>1. CASE Branch
  <2>1. Executing({"br", "brz", "brnz"})
    BY <1>1 DEF Branch
  <2>2. /\ Fetchable /\ frames # <<>> /\ Cur.pc < FuncOf(Cur).len
        /\ Fetched.op \in {"br", "brz", "brnz"}
    BY <2>1, InsideFetch
  <2>3. Fetched.op # "br" => Fetched.op \notin Terminal
    BY <2>2 DEF Terminal
  <2>4. PICK f \in Frames :
          /\ f.func = Cur.func /\ SetTop(f)
          /\ f.pc = Fetched.b \/ (Fetched.op # "br" /\ f.pc = Cur.pc + 1)
    BY <1>1, BranchTop
  <2>5. f.pc < FuncOf(Cur).len
    BY <2>2, <2>3, <2>4, Successors
  <2> QED
    BY <2>2, <2>4, <2>5, InsideTop DEF FuncOf
<1>2. CASE Switch
  <2>1. Executing({"switch"})
    BY <1>2 DEF Switch
  <2>2. /\ Fetchable /\ frames # <<>> /\ Cur.pc < FuncOf(Cur).len
        /\ Fetched.op = "switch"
    BY <2>1, InsideFetch
  <2>3. PICK f \in Frames :
          /\ f.func = Cur.func /\ SetTop(f)
          /\ Table(Fetched.b) # <<>> =>
               \E k \in 1 .. Len(Table(Fetched.b)) : f.pc = Table(Fetched.b)[k]
    BY <1>2, SwitchTop
  <2>4. f.pc < FuncOf(Cur).len
    BY <2>2, <2>3, Successors
  <2> QED
    BY <2>2, <2>3, <2>4, InsideTop DEF FuncOf
<1> QED
  BY <1>1, <1>2

(* Calls start at 0, returns go back to where the caller was.               *)
LEMMA CallInside ==
  ASSUME IInv, Inside(frames), Call \/ TailCall \/ Ret \/ Halt
  PROVE  Inside(frames')
<1>0. /\ image \in Images /\ frames \in Seq(Frames) /\ Len(frames) \in Nat
  BY DEF IInv, FramesOk
<1>1. ASSUME NEW b \in Nat, b < Len(image.funcs) PROVE 0 < image.funcs[b + 1].len
  <2>1. b + 1 \in 1 .. Len(image.funcs)
    BY <1>0, <1>1, ImageFacts
  <2>2. image.funcs[b + 1] \in Funcs /\ image.funcs[b + 1].len > 0
    BY <1>0, <2>1, AdmittedFunction
  <2> QED
    BY <2>2 DEF Funcs
<1>2. CASE Call
  <2> DEFINE f == Rewrite(Fetched, <<>>)
             target == image.funcs[Fetched.b + 1]
             g == NewFrame(Fetched.b, TopN(Cur, target.args), target.maxstack,
                           target.returns)
             n == Len(frames)
  <2>1. /\ Fetched.b < Len(image.funcs) /\ n \in Nat \ {0}
        /\ Len(frames') = n + 1
        /\ \A k \in 1 .. n : frames'[k] = IF k = n THEN f ELSE frames[k]
        /\ frames'[n + 1] = g
        /\ f.func = Cur.func /\ f.pc = Cur.pc
    BY <1>2, CallShape, LimitsAssumption
  <2>2. /\ Cur.pc < FuncOf(Cur).len /\ Fetched.b \in Nat
    <3>1. Executing({"call"})
      BY <1>2 DEF Call
    <3> QED
      BY <3>1, InsideFetch, FetchedType
  <2>3. g.func = Fetched.b /\ g.pc = 0
    BY DEF NewFrame
  <2>4. g.pc < image.funcs[g.func + 1].len
    BY <1>1, <2>1, <2>2, <2>3
  <2>5. f.pc < image.funcs[f.func + 1].len
    BY <2>1, <2>2 DEF FuncOf
  <2> HIDE DEF f, g, n
  <2>6. \A k \in 1 .. n : frames[k].pc < image.funcs[frames[k].func + 1].len
    BY DEF Inside, n
  <2>7. ASSUME NEW k \in 1 .. n + 1
        PROVE  frames'[k].pc < image.funcs[frames'[k].func + 1].len
    <3>1. CASE k = n + 1
      BY <2>1, <2>4, <3>1
    <3>2. CASE k = n
      BY <2>1, <2>5, <3>2
    <3>3. CASE k \in 1 .. n - 1
      <4>1. k \in 1 .. n /\ k # n
        BY <2>1, <3>3
      <4> QED
        BY <2>1, <2>6, <4>1
    <3> QED
      BY <2>1, <3>1, <3>2, <3>3
  <2> QED
    BY <2>1, <2>7 DEF Inside
<1>3. CASE TailCall
  <2>1. PICK g \in Frames :
          /\ g.func = Fetched.b /\ Fetched.b < Len(image.funcs) /\ g.pc = 0
          /\ SetTop(g)
    BY <1>3, TailCallTop
  <2>2. frames # <<>> /\ g.func \in Nat
    BY <1>3, <2>1, FrameFields DEF TailCall, Executing, Fetchable, Ready
  <2>3. g.pc < image.funcs[g.func + 1].len
    BY <1>1, <2>1, <2>2
  <2> QED
    BY <2>1, <2>2, <2>3, InsideTop
<1>4. CASE Ret /\ Depth # 0
  <2> DEFINE f == Replace(frames[Depth], 0, TopN(Cur, Cur.returns))
  <2>1. /\ Depth \in 1 .. Len(frames) /\ Len(frames') = Depth
        /\ \A k \in 1 .. Depth : frames'[k] = IF k = Depth THEN f ELSE frames[k]
        /\ f.func = frames[Depth].func /\ f.pc = frames[Depth].pc
    BY <1>4, RetShape
  <2> HIDE DEF f
  <2>2. \A k \in 1 .. Depth : frames'[k].pc = frames[k].pc
                              /\ frames'[k].func = frames[k].func
    BY <2>1
  <2>3. \A k \in 1 .. Depth : k \in 1 .. Len(frames)
    BY <1>0, <2>1
  <2> QED
    BY <2>1, <2>2, <2>3 DEF Inside
<1>5. CASE Halt \/ (Ret /\ Depth = 0)
  <2>1. frames' = <<>>
    BY <1>5 DEF Halt, Ret, Depth
  <2> QED
    BY <2>1 DEF Inside
<1> QED
  BY <1>2, <1>3, <1>4, <1>5

(* The image is the machine's for good. *)
LEMMA ImageStays == ASSUME [Next]_vars PROVE image' = image
<1>1. CASE Execute
  BY <1>1 DEF Execute, Compute, Allocate, Branch, Switch, Call, TailCall, Ret, Halt,
     IssueEffect, Suspend, AskOracle, QueryQ, Fork, Commit, Abort, Meter, CtxPush,
     CtxPop, Executing, rest
<1>2. CASE ReturnTrap \/ ReturnHalt \/ ReturnEmpty
  BY <1>2 DEF ReturnTrap, ReturnHalt, ReturnEmpty, Return
<1>3. CASE StepLimit \/ PcEscape \/ Fault
  BY <1>3 DEF StepLimit, PcEscape, Fault, Die
<1>4. CASE Host
  BY <1>4 DEF Host, Resume, Answer, Shutdown, Die
<1>5. CASE UNCHANGED vars
  BY <1>5 DEF vars
<1> QED
  BY <1>1, <1>2, <1>3, <1>4, <1>5 DEF Next, Internal, Stopped

(* Each step keeps every frame inside its function. *)
LEMMA StepInside ==
  ASSUME IInv, Inside(frames), ~Uses("abort"), [Next]_vars
  PROVE  Inside(frames')
<1>1. CASE Compute \/ Allocate \/ Fork \/ Commit \/ Abort \/ Meter \/ CtxPush \/ CtxPop
  BY <1>1, AdvanceInside
<1>2. CASE Branch \/ Switch \/ Call \/ TailCall \/ Ret \/ Halt
  BY <1>2, JumpInside, CallInside
<1>3. CASE IssueEffect \/ QueryQ
  <2>1. Executing({"calltool", "spawn"}) \/ Executing({"queryq"})
    BY <1>3 DEF IssueEffect, QueryQ
  <2>2. frames # <<>> /\ Cur.pc < FuncOf(Cur).len
    BY <2>1, InsideFetch
  <2>3. PICK f \in Frames : f.func = Cur.func /\ f.pc = Cur.pc /\ SetTop(f)
    BY <1>3, IssueEffectTop, QueryQTop
  <2> QED
    BY <2>1, <2>2, <2>3, InsideTop DEF FuncOf
<1>4. CASE Suspend \/ AskOracle
  BY <1>4 DEF Suspend, AskOracle, Inside
<1>5. CASE ReturnTrap \/ ReturnHalt \/ ReturnEmpty
  BY <1>5 DEF ReturnTrap, ReturnHalt, ReturnEmpty, Return, machine, Inside
<1>6. CASE StepLimit \/ PcEscape \/ Fault
  BY <1>6 DEF StepLimit, PcEscape, Fault, Die, Inside
<1>7. CASE Host
  <2>1. CASE frames' = frames
    BY <1>7, <2>1, HostTop DEF Inside
  <2>2. CASE frames # <<>> /\ \E f \in Frames : f.func = Cur.func /\ f.pc = Cur.pc /\ SetTop(f)
    <3>1. PICK f \in Frames : f.func = Cur.func /\ f.pc = Cur.pc /\ SetTop(f)
      BY <2>2
    <3>2. Len(frames) \in 1 .. Len(frames)
      BY <2>2, TopFrame, LimitsAssumption
    <3>3. f.pc < image.funcs[f.func + 1].len
      BY <3>1, <3>2 DEF Inside, Cur
    <3> QED
      BY <1>7, <2>2, <3>1, <3>3, InsideTop, HostTop
  <2> QED
    BY <1>7, <2>1, <2>2, HostTop
<1>8. CASE UNCHANGED vars
  BY <1>8 DEF vars, Inside
<1> QED
  BY <1>1, <1>2, <1>3, <1>4, <1>5, <1>6, <1>7, <1>8 DEF Next, Internal, Execute, Stopped

(* The first frame starts at 0 of a function that is not empty.             *)
LEMMA InitInside == Init => Inside(frames)
<1> SUFFICES ASSUME Init PROVE Inside(frames)
  OBVIOUS
<1> DEFINE e == Entry(image)
           f == image.funcs[e + 1]
           g == NewFrame(e, <<>>, f.maxstack, f.returns)
<1>1. image \in Images /\ frames = <<g>>
  BY DEF Init
<1>2. e \in Nat /\ e < Len(image.funcs) /\ e + 1 \in 1 .. Len(image.funcs)
  BY <1>1, EntryType, ImageFacts
<1>3. f \in Funcs /\ f.len > 0
  BY <1>1, <1>2, AdmittedFunction
<1>4. g.func = e /\ g.pc = 0
  BY DEF NewFrame
<1>5. g.pc < image.funcs[g.func + 1].len
  BY <1>3, <1>4 DEF Funcs
<1> HIDE DEF g
<1> QED
  BY <1>1, <1>5 DEF Inside

(* "every branch target is a real instruction in the same function"         *)
(* (lib.rs:47): what admission checks of a function's edges is enough to    *)
(* keep every frame's pc in its function, unless the program aborts a fork. *)
THEOREM PcStays == Spec => []PcInFunction
<1> DEFINE Stays == ~Uses("abort") => Inside(frames)
<1>1. Init => Stays
  BY InitInside
<1>2. IInv /\ Stays /\ [Next]_vars => Stays'
  <2> SUFFICES ASSUME IInv, Stays, [Next]_vars, ~Uses("abort")' PROVE Inside(frames)'
    OBVIOUS
  <2>1. image' = image
    BY ImageStays
  <2>2. ~Uses("abort")
    BY <2>1 DEF Uses
  <2> QED
    BY <2>1, <2>2, StepInside DEF Inside
<1>3. IInv /\ Stays => PcInFunction
  <2> SUFFICES ASSUME IInv, Inside(frames) PROVE \A k \in DOMAIN frames :
                 frames[k].pc < FuncOf(frames[k]).len
    BY DEF PcInFunction
  <2> QED
    BY DEF Inside, FuncOf, IInv, FramesOk
<1> QED
  BY <1>1, <1>2, <1>3, Invariant, PTL DEF Spec
=============================================================================
