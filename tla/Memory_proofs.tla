--------------------------- MODULE Memory_proofs ---------------------------
(***************************************************************************)
(* What the machine's handles denote, for every admitted image that does   *)
(* not commit a fork and every host that brings no handle of its own.      *)
(* HandlesSound speaks of the values the machine holds, but unpack and idx *)
(* make values of the cells a list covers, and those may be lists again.   *)
(* The invariant therefore speaks of a set of values, the known ones: the  *)
(* machine holds no other, and the elements of a known list are known and  *)
(* lie before it.                                                          *)
(***************************************************************************)
EXTENDS Vm_proofs

(* An arena value lies inside the cells; a list denotes known values.       *)
Denotes(v, G, cells) ==
  IsArena(v) =>
    /\ Extent(v) <= Len(cells)
    /\ v.tag = LIST =>
         LET bytes == Get(cells, HandleOf(v))
         IN /\ WholeSlots(bytes) /\ AllReadable(bytes)
            /\ \A i \in 1 .. Len(Elements(bytes)) :
                 /\ Elements(bytes)[i] \in G
                 /\ IsArena(Elements(bytes)[i]) =>
                      Extent(Elements(bytes)[i]) <= HandleOf(v).off

Closed(G, cells) == \A v \in G : Denotes(v, G, cells)

SlotsIn(f, G) == \A i \in 1 .. f.maxstack : f.slots[i] \in G

HoldsOnly(G) ==
  /\ \A k \in 1 .. Len(frames) : SlotsIn(frames[k], G)
  /\ EffectPending => \A i \in 1 .. Len(pending[1].args) : pending[1].args[i] \in G

Known(G) ==
  /\ G \in SUBSET Values /\ Bare \subseteq G
  /\ Closed(G, arena) /\ HoldsOnly(G)

(* What a step may add to the known values.                                 *)
Grown(G, H) ==
  /\ G \subseteq H
  /\ \A v \in H \ G : v.tag = PENDING => v.payload = nextEffect /\ nextEffect' = nextEffect + 1

-----------------------------------------------------------------------------
(* A word packed of an offset and a length unpacks to them. *)
LEMMA Unpacks ==
  ASSUME NEW o \in Nat, NEW l \in 0 .. Radix - 1
  PROVE  (o * Radix + l) \div Radix = o /\ (o * Radix + l) % Radix = l
<1> DEFINE x == o * Radix + l
           q == x \div Radix
           r == x % Radix
<1>1. x \in Nat /\ o * Radix \in Nat /\ Radix \in Nat \ {0}
  BY WordFacts
<1>2. q \in Int /\ r \in 0 .. Radix - 1 /\ x = Radix * q + r
  BY <1>1
<1>3. o * Radix + l = Radix * q + r
  BY <1>2
<1> HIDE DEF q, r, x
<1>4. Radix * (o - q) = r - l
  BY <1>1, <1>2, <1>3
<1>5. r - l < Radix /\ l - r < Radix
  BY <1>1, <1>2
<1>6. ~(o - q >= 1)
  <2>1. SUFFICES ASSUME o - q >= 1 PROVE FALSE
    OBVIOUS
  <2>2. Radix * (o - q) >= Radix
    BY <1>1, <1>2, <2>1
  <2> QED
    BY <1>1, <1>2, <1>4, <1>5, <2>2
<1>7. ~(q - o >= 1)
  <2>1. SUFFICES ASSUME q - o >= 1 PROVE FALSE
    OBVIOUS
  <2>2. Radix * (q - o) >= Radix
    BY <1>1, <1>2, <2>1
  <2>3. Radix * (q - o) = l - r
    BY <1>1, <1>2, <1>4
  <2> QED
    BY <1>1, <1>2, <1>5, <2>2, <2>3
<1>8. q = o
  BY <1>2, <1>6, <1>7
<1> QED
  BY <1>1, <1>2, <1>4, <1>8 DEF q, r, x

LEMMA NewHandleOf ==
  ASSUME NEW tag, NEW h \in Handles
  PROVE  HandleOf(HandleV(tag, h)) = h
<1>1. PICK o \in 0 .. Radix - 1, l \in 0 .. Radix - 1 : h = [off |-> o, len |-> l]
  BY DEF Handles
<1> QED
  BY <1>1, Unpacks, WordFacts DEF HandleOf, HandleV

(* A handle that ends inside an arena does not saturate.                    *)
LEMMA EndExact ==
  ASSUME NEW v \in Values, NEW cells \in Seq(Word), Len(cells) < Radix,
         Extent(v) <= Len(cells)
  PROVE  /\ EndOf(HandleOf(v)) = Extent(v) /\ Within(cells, HandleOf(v))
         /\ Extent(v) \in Nat /\ HandleOf(v).off \in Nat /\ HandleOf(v).len \in Nat
         /\ Extent(v) - HandleOf(v).off = HandleOf(v).len
<1>1. HandleOf(v).off \in Nat /\ HandleOf(v).len \in Nat
  BY HandleOfType
<1>2. Extent(v) = HandleOf(v).off + HandleOf(v).len
  BY DEF Extent
<1>3. EndOf(HandleOf(v)) = Extent(v)
  BY <1>1, <1>2, WordFacts DEF EndOf
<1> QED
  BY <1>1, <1>2, <1>3 DEF Within

(* The cells a handle denotes.                                              *)
LEMMA GetCells ==
  ASSUME NEW v \in Values, NEW cells \in Seq(Word), Len(cells) < Radix,
         Extent(v) <= Len(cells)
  PROVE  /\ Get(cells, HandleOf(v)) \in Seq(Word)
         /\ Len(Get(cells, HandleOf(v))) = HandleOf(v).len
         /\ \A i \in 1 .. HandleOf(v).len :
              Get(cells, HandleOf(v))[i] = cells[HandleOf(v).off + i]
<1>1. PICK o \in Nat, l \in Nat :
        /\ o = HandleOf(v).off /\ l = HandleOf(v).len /\ o + l <= Len(cells)
        /\ EndOf(HandleOf(v)) = o + l
  <2>1. HandleOf(v).off \in Nat /\ HandleOf(v).len \in Nat
    BY HandleOfType
  <2>2. HandleOf(v).off + HandleOf(v).len <= Len(cells)
    BY DEF Extent
  <2>3. EndOf(HandleOf(v)) = HandleOf(v).off + HandleOf(v).len
    BY EndExact DEF Extent
  <2> QED
    BY <2>1, <2>2, <2>3
<1> DEFINE x == SubSeq(cells, o + 1, o + l)
<1>2. x = Get(cells, HandleOf(v))
  BY <1>1 DEF Get
<1>3. \A i \in o + 1 .. o + l : cells[i] \in Word
  <2>1. \A i \in o + 1 .. o + l : i \in 1 .. Len(cells)
    BY <1>1
  <2> QED
    BY <2>1, ElementOfSeq
<1>4. o + 1 \in Int /\ o + l \in Int /\ o + l - (o + 1) + 1 = l
  OBVIOUS
<1>5. /\ x \in Seq(Word) /\ Len(x) = (IF o + 1 <= o + l THEN o + l - (o + 1) + 1 ELSE 0)
      /\ \A i \in 1 .. o + l - (o + 1) + 1 : x[i] = cells[o + 1 + i - 1]
  BY <1>3, <1>4, SubSeqProperties
<1> HIDE DEF x
<1>6. Len(x) = l
  BY <1>4, <1>5
<1>7. \A i \in 1 .. l : x[i] = cells[o + i]
  <2>1. \A i \in 1 .. l : o + 1 + i - 1 = o + i
    OBVIOUS
  <2> QED
    BY <1>4, <1>5, <2>1
<1> QED
  BY <1>1, <1>2, <1>5, <1>6, <1>7

(* A handle denotes the same cells in an arena that has only grown.         *)
LEMMA GetStays ==
  ASSUME NEW v \in Values, NEW a \in Seq(Word), NEW b \in Seq(Word),
         Len(a) <= Len(b), Len(b) < Radix, \A i \in 1 .. Len(a) : b[i] = a[i],
         Extent(v) <= Len(a)
  PROVE  Get(b, HandleOf(v)) = Get(a, HandleOf(v))
<1> DEFINE x == Get(a, HandleOf(v))
           y == Get(b, HandleOf(v))
           o == HandleOf(v).off
           l == HandleOf(v).len
<1>1. Len(a) \in Nat /\ Len(b) \in Nat /\ Len(a) < Radix
  BY WordFacts
<1>2. o \in Nat /\ l \in Nat /\ Extent(v) = o + l /\ Extent(v) <= Len(b)
  BY <1>1, HandleOfType DEF Extent
<1>3. x \in Seq(Word) /\ Len(x) = l /\ \A i \in 1 .. l : x[i] = a[o + i]
  BY <1>1, GetCells
<1>4. y \in Seq(Word) /\ Len(y) = l /\ \A i \in 1 .. l : y[i] = b[o + i]
  BY <1>2, GetCells
<1> HIDE DEF x, y, o, l
<1>5. \A i \in 1 .. l : o + i \in 1 .. Len(a)
  BY <1>1, <1>2
<1>6. \A i \in 1 .. l : x[i] = y[i]
  BY <1>3, <1>4, <1>5
<1> QED
  BY <1>3, <1>4, <1>6, SeqEqual DEF x, y

(* What is written slot by slot is read back.                               *)
LEMMA ListRead ==
  ASSUME NEW items \in Seq(Values)
  PROVE  LET bytes == ListBytes(items)
         IN /\ bytes \in Seq(Word) /\ Len(bytes) = 2 * Len(items)
            /\ WholeSlots(bytes) /\ AllReadable(bytes)
            /\ Len(Elements(bytes)) = Len(items)
            /\ \A i \in 1 .. Len(items) : Elements(bytes)[i] = items[i]
<1> DEFINE bytes == ListBytes(items)
           n == Len(items)
<1>1. bytes = [i \in 1 .. 2 * n |-> Write(items[(i + 1) \div 2])[2 - (i % 2)]]
  BY DEF ListBytes, SlotLen
<1>2. n \in Nat /\ \A i \in 1 .. n : items[i] \in Values
  OBVIOUS
<1>3. bytes \in Seq(Word) /\ Len(bytes) = 2 * n
  BY <1>1, <1>2, ListBytesType
<1>4. ASSUME NEW i \in 1 .. n
      PROVE  bytes[2 * i - 1] = items[i].tag /\ bytes[2 * i] = items[i].payload
  <2>1. /\ 2 * i - 1 \in 1 .. 2 * n /\ 2 * i \in 1 .. 2 * n
        /\ (2 * i - 1 + 1) \div 2 = i /\ 2 - ((2 * i - 1) % 2) = 1
        /\ (2 * i + 1) \div 2 = i /\ 2 - ((2 * i) % 2) = 2
    BY <1>2
  <2>2. /\ bytes[2 * i - 1] = Write(items[i])[1]
        /\ bytes[2 * i] = Write(items[i])[2]
    BY <1>1, <2>1
  <2> QED
    BY <2>2 DEF Write
<1> HIDE DEF bytes
<1>5. Len(bytes) % 2 = 0 /\ Len(bytes) \div 2 = n
  BY <1>2, <1>3
<1>6. \A i \in 1 .. n : Slot(bytes, i) = <<items[i].tag, items[i].payload>>
  BY <1>4 DEF Slot, SlotLen
<1>7. \A i \in 1 .. n : items[i].tag \in Tags
                        /\ items[i] = [tag |-> items[i].tag, payload |-> items[i].payload]
  BY <1>2 DEF Values
<1>8. AllReadable(bytes)
  <2>1. SUFFICES ASSUME NEW i \in 1 .. n PROVE Readable(Slot(bytes, i))
    BY <1>5 DEF AllReadable, SlotLen
  <2>2. Slot(bytes, i)[1] = items[i].tag
    BY <1>6, <2>1
  <2> QED
    BY <1>7, <2>1, <2>2 DEF Readable
<1>9. Elements(bytes) = [i \in 1 .. n |-> Read(Slot(bytes, i))]
  BY <1>5 DEF Elements, SlotLen
<1>10. \A i \in 1 .. n : Read(Slot(bytes, i)) = items[i]
  BY <1>6, <1>7 DEF Read
<1>11. Len(Elements(bytes)) = n /\ \A i \in 1 .. n : Elements(bytes)[i] = items[i]
  BY <1>2, <1>9, <1>10
<1> QED
  BY <1>3, <1>5, <1>8, <1>11 DEF WholeSlots, SlotLen, bytes

(* What the new handle of an allocation denotes.                            *)
LEMMA GetNew ==
  ASSUME NEW a \in Seq(Word), NEW bytes \in Seq(Word), CanAlloc(a, bytes),
         NEW tag \in Tags
  PROVE  LET v == HandleV(tag, NewHandle(a, bytes))
         IN /\ v \in Values /\ v.tag = tag /\ HandleOf(v).off = Len(a)
            /\ Extent(v) <= Len(Alloc(a, bytes))
            /\ Get(Alloc(a, bytes), HandleOf(v)) = bytes
<1> DEFINE v == HandleV(tag, NewHandle(a, bytes))
           b == Alloc(a, bytes)
           o == Len(a)
           l == Len(bytes)
<1>1. /\ b \in Seq(Word) /\ Len(b) < Radix /\ NewHandle(a, bytes) \in Handles
  BY AllocType
<1>2. v \in Values /\ v.tag = tag
  BY <1>1, HandleVType DEF HandleV
<1>3. HandleOf(v).off = o /\ HandleOf(v).len = l
  BY <1>1, NewHandleOf DEF NewHandle
<1>4. o \in Nat /\ l \in Nat
  OBVIOUS
<1>5. /\ Padded(bytes) \in Seq(Word) /\ l <= Len(Padded(bytes))
      /\ \A i \in 1 .. l : Padded(bytes)[i] = bytes[i]
  <2>1. CASE bytes = <<>>
    <3>1. <<0>> \in Seq(Word) /\ Len(<<0>>) = 1
      BY WordFacts DEF Word
    <3> QED
      BY <2>1, <3>1 DEF Padded
  <2>2. CASE bytes # <<>>
    BY <2>2 DEF Padded
  <2> QED
    BY <2>1, <2>2
<1> DEFINE p == Padded(bytes)
<1>6. /\ Len(b) = o + Len(p) /\ Len(p) \in Nat
      /\ \A i \in 1 .. o + Len(p) : b[i] = IF i <= o THEN a[i] ELSE p[i - o]
  BY <1>5, ConcatProperties DEF Alloc
<1> HIDE DEF v, b, o, l, p
<1>7. Extent(v) = o + l /\ o + l <= Len(b)
  BY <1>3, <1>4, <1>5, <1>6 DEF Extent, p
<1> DEFINE x == Get(b, HandleOf(v))
<1>8. x \in Seq(Word) /\ Len(x) = l /\ \A i \in 1 .. l : x[i] = b[o + i]
  BY <1>1, <1>2, <1>3, <1>7, GetCells
<1> HIDE DEF x
<1>9. \A i \in 1 .. l : x[i] = bytes[i]
  <2>1. SUFFICES ASSUME NEW i \in 1 .. l PROVE x[i] = bytes[i]
    OBVIOUS
  <2>2. o + i \in 1 .. o + Len(p) /\ ~(o + i <= o) /\ o + i - o = i
    BY <1>4, <1>5, <1>6, <2>1 DEF p
  <2>3. PICK j \in 1 .. o + Len(p) : j = o + i /\ ~(j <= o) /\ j - o = i
    BY <1>4, <2>1, <2>2
  <2>4. b[j] = p[i]
    BY <1>6, <2>3
  <2>5. x[i] = b[j]
    BY <1>8, <2>1, <2>3
  <2> QED
    BY <1>5, <2>1, <2>4, <2>5 DEF p
<1>10. x = bytes
  BY <1>8, <1>9, SeqEqual DEF l
<1> QED
  BY <1>2, <1>3, <1>7, <1>10 DEF v, b, o, x

-----------------------------------------------------------------------------
(* Frames hold only known values. *)
LEMMA MovedIn ==
  ASSUME NEW f \in Frames, NEW G, SlotsIn(f, G), NEW target
  PROVE  SlotsIn(Advance(f), G) /\ SlotsIn(Jump(f, target), G)
  BY DEF SlotsIn, Advance, Jump, Frames

(* What a replacement pushes is all it adds.                                *)
LEMMA ReplaceIn ==
  ASSUME NEW G, NEW f \in Frames, SlotsIn(f, G), NEW n \in Nat, n <= f.sp,
         NEW vs \in Seq(Values), \A i \in 1 .. Len(vs) : vs[i] \in G
  PROVE  SlotsIn(Replace(f, n, vs), G)
<1> DEFINE base == f.sp - n
           slots == [i \in 1 .. f.maxstack |->
                       IF base < i /\ i <= base + Len(vs)
                       THEN vs[i - base] ELSE f.slots[i]]
           g == Replace(f, n, vs)
<1>1. base \in Nat /\ Len(vs) \in Nat /\ f.maxstack \in Nat
  BY FrameFields
<1>2. g.slots = slots /\ g.maxstack = f.maxstack
  BY DEF Replace, Frames
<1>3. \A i \in 1 .. f.maxstack : slots[i] \in G
  BY <1>1 DEF SlotsIn
<1> QED
  BY <1>2, <1>3 DEF SlotsIn

(* A new frame holds its arguments and void.                                *)
LEMMA NewFrameIn ==
  ASSUME NEW G, Void \in G, NEW func, NEW args \in Seq(Values), NEW maxstack \in Nat,
         NEW returns, \A i \in 1 .. Len(args) : args[i] \in G
  PROVE  SlotsIn(NewFrame(func, args, maxstack, returns), G)
<1> DEFINE kept == IF Len(args) < maxstack THEN Len(args) ELSE maxstack
           slots == [i \in 1 .. maxstack |-> IF i <= kept THEN args[i] ELSE Void]
           g == NewFrame(func, args, maxstack, returns)
<1>1. g.slots = slots /\ g.maxstack = maxstack
  BY DEF NewFrame
<1>2. kept \in Nat /\ kept <= Len(args)
  OBVIOUS
<1>3. \A i \in 1 .. maxstack : slots[i] \in G
  BY <1>2
<1> QED
  BY <1>1, <1>3 DEF SlotsIn

(* pop_n returns values of the frame.                                       *)
LEMMA TopNIn ==
  ASSUME NEW G, NEW f \in Frames, SlotsIn(f, G), NEW n \in Nat, n <= f.sp
  PROVE  \A i \in 1 .. Len(TopN(f, n)) : TopN(f, n)[i] \in G
<1> DEFINE b == f.sp - n
           x == SubSeq(f.slots, b + 1, f.sp)
<1>1. /\ f.sp \in Nat /\ f.sp <= f.maxstack /\ f.maxstack \in Nat
      /\ f.slots \in Seq(Values) /\ Len(f.slots) = f.maxstack
  BY FrameFields
<1>2. b \in Nat /\ b + n = f.sp /\ b + 1 \in Int
  BY <1>1
<1>3. x = TopN(f, n)
  BY DEF TopN
<1>4. \A i \in b + 1 .. f.sp : f.slots[i] \in Values
  BY <1>1, <1>2, FrameFields
<1>5. \A i \in 1 .. f.sp - (b + 1) + 1 : x[i] = f.slots[b + 1 + i - 1]
  <2> HIDE DEF b
  <2> QED
    BY <1>1, <1>2, <1>4, SubSeqProperties
<1>6. Len(x) = n
  BY <1>3, TopNType
<1> HIDE DEF x, b
<1>7. ASSUME NEW i \in 1 .. n PROVE x[i] \in G
  <2>1. i \in 1 .. f.sp - (b + 1) + 1 /\ b + 1 + i - 1 \in 1 .. f.maxstack
    BY <1>1, <1>2, <1>7
  <2> QED
    BY <1>5, <2>1 DEF SlotsIn
<1> QED
  BY <1>3, <1>6, <1>7

(* The values that need no cells are known.                                 *)
LEMMA BareValues ==
  /\ Void \in Bare /\ \A n \in Int : IntV(n) \in Bare
  /\ \A p \in BOOLEAN : BoolV(p) \in Bare
<1>1. Void \in Bare
  BY VoidType DEF Bare, Void
<1>2. \A n \in Int : IntV(n) \in Bare
  BY IntVType DEF Bare, IntV
<1> QED
  BY <1>1, <1>2 DEF BoolV

-----------------------------------------------------------------------------
(* What an instruction reads of a machine whose values are known. *)
LEMMA CurIn ==
  ASSUME IInv, frames # <<>>, NEW G, Known(G)
  PROVE  /\ Cur \in Frames /\ SlotsIn(Cur, G)
         /\ \A k \in Nat \ {0} : Arg(k) \in G
         /\ \A n \in Nat : n <= Cur.sp =>
              \A i \in 1 .. Len(TopN(Cur, n)) : TopN(Cur, n)[i] \in G
<1>1. Cur \in Frames /\ Len(frames) \in 1 .. MaxFrames
  BY TopFrame
<1>2. Len(frames) \in 1 .. Len(frames)
  BY <1>1, LimitsAssumption
<1>3. SlotsIn(Cur, G)
  BY <1>2 DEF Known, HoldsOnly, Cur
<1>4. ASSUME NEW k \in Nat \ {0} PROVE Arg(k) \in G
  <2>1. Void \in G
    BY BareValues DEF Known
  <2>2. CASE k <= Cur.sp
    <3>1. Cur.sp - k + 1 \in 1 .. Cur.maxstack
      BY <1>1, <1>4, <2>2, FrameFields
    <3> QED
      BY <1>3, <2>2, <3>1 DEF Arg, Opnd, SlotsIn
  <2>3. CASE ~(k <= Cur.sp)
    BY <2>1, <2>3 DEF Arg, Opnd
  <2> QED
    BY <2>2, <2>3
<1>5. ASSUME NEW n \in Nat, n <= Cur.sp
      PROVE  \A i \in 1 .. Len(TopN(Cur, n)) : TopN(Cur, n)[i] \in G
  BY <1>1, <1>3, <1>5, TopNIn
<1> QED
  BY <1>1, <1>3, <1>4, <1>5

(* The elements of a list operand are known.                                *)
LEMMA ArgListIn ==
  ASSUME IInv, Fetchable, FaultOf(Fetched) = "ok", NEW G, Known(G),
         NEW k \in 1 .. Arity(Fetched), Kinds(Fetched)[k] = "list"
  PROVE  /\ ArgList(k) \in Seq(Values)
         /\ \A i \in 1 .. Len(ArgList(k)) : ArgList(k)[i] \in G
<1>1. Arg(k) \in G
  BY Passed, CurIn DEF Fetchable, Ready
<1>2. Arg(k).tag = LIST
  <2>1. DerefFault(k, "list") # "TagMismatch"
    BY Passed DEF DerefsFault
  <2> QED
    BY <2>1 DEF DerefFault, TagOk
<1>3. ArgList(k) \in Seq(Values)
  BY DerefType
<1>4. \A i \in 1 .. Len(ArgList(k)) : ArgList(k)[i] \in G
  BY <1>1, <1>2 DEF Known, Closed, Denotes, IsArena, ArgList, ArgBytes
<1> QED
  BY <1>3, <1>4

(* Arithmetic makes integers.                                               *)
LEMMA ComputedIn ==
  ASSUME NEW op \in IntBinary, NEW v \in Values, NEW w \in Values,
         op \in {"div", "mod"} => AsInt(w) # 0
  PROVE  Computed(op, v, w) \in Bare
<1>1. Computed(op, v, w) \in Values
  BY ComputedType
<1>2. Computed(op, v, w).tag = INT
  <2>1. \A n : IntV(n).tag = INT
    BY DEF IntV
  <2>2. \A p : BoolV(p).tag = INT
    BY <2>1 DEF BoolV
  <2>3. CASE op \in {"add", "sub", "mul", "div", "mod"}
    BY <2>1, <2>3 DEF Computed
  <2>4. CASE op \in {"lt", "and", "or", "shl", "shr"}
    BY <2>1, <2>2, <2>4 DEF Computed
  <2> QED
    BY <2>3, <2>4 DEF IntBinary
<1> QED
  BY <1>1, <1>2 DEF Bare

(* An instruction that only computes leaves known values.                   *)
LEMMA ResultsIn ==
  ASSUME IInv, Fetchable, FaultOf(Fetched) = "ok", Fetched.op \in ComputeOps,
         NEW G, Known(G)
  PROVE  \A i \in 1 .. Len(Results(Fetched)) : Results(Fetched)[i] \in G
<1> DEFINE d == Fetched
           AllIn(vs) == \A i \in 1 .. Len(vs) : vs[i] \in G
<1>0. /\ d.b \in Nat /\ Imm(d) \in Int
      /\ Arg(1) \in G /\ Arg(2) \in G /\ Arg(3) \in G /\ Arg(d.b + 1) \in G
      /\ Arg(1) \in Values /\ Arg(2) \in Values
      /\ ArgInt(1) \in Int /\ ArgInt(2) \in Int
  <2>1. d.b \in Nat
    BY FetchedType
  <2> QED
    BY <2>1, OperandType, CurIn DEF Imm, Fetchable, Ready
<1>1. /\ AllIn(<< >>)
      /\ \A v \in G : AllIn(<<v>>)
      /\ \A v \in G, w \in G : AllIn(<<v, w>>)
      /\ \A u \in G, v \in G, w \in G : AllIn(<<u, v, w>>)
  OBVIOUS
<1>2. OwnFault(d) = "ok" /\ Arity(d) \in Nat
  BY Passed
<1>3. \A n \in Int : IntV(n) \in G
  BY BareValues DEF Known
<1>4. \A p \in BOOLEAN : BoolV(p) \in G
  BY BareValues DEF Known
<1> HIDE DEF AllIn
<1>5. CASE d.op \in IntBinary
  <2>1. d.op \in {"div", "mod"} => AsInt(Arg(1)) # 0
    BY <1>2 DEF OwnFault, ArgInt
  <2>2. Computed(d.op, Arg(2), Arg(1)) \in G
    BY <1>0, <1>5, <2>1, ComputedIn DEF Known
  <2>3. Results(d) = <<Computed(d.op, Arg(2), Arg(1))>>
    BY <1>5 DEF Results, IntBinary
  <2> QED
    BY <1>1, <2>2, <2>3 DEF AllIn
<1>6. CASE d.op \in {"nop", "resume", "drop"}
  BY <1>1, <1>6 DEF Results, IntBinary, AllIn
<1>7. CASE d.op = "ldi"
  BY <1>0, <1>1, <1>3, <1>7 DEF Results, IntBinary, AllIn
<1>8. CASE d.op \in {"dup", "dupn", "swap", "rot"}
  <2>1. AllIn(Results(d))
    BY <1>0, <1>1, <1>8 DEF Results, IntBinary
  <2> QED
    BY <2>1 DEF AllIn
<1>9. CASE d.op \in {"unpack", "idx"}
  <2>1. 1 \in 1 .. Arity(d) /\ Kinds(d)[1] = "list"
    <3>1. Kinds(d) = IF d.op = "idx" THEN <<"list", "int">> ELSE <<"list">>
      BY <1>9 DEF Kinds, IntBinary
    <3> QED
      BY <3>1 DEF Arity
  <2>2. AllIn(ArgList(1)) /\ ArgList(1) \in Seq(Values)
    BY <2>1, ArgListIn DEF AllIn
  <2>3. CASE d.op = "unpack"
    BY <2>2, <2>3 DEF Results, IntBinary, AllIn
  <2>4. CASE d.op = "idx"
    <3>1. ArgInt(2) \in 0 .. Len(ArgList(1)) - 1
      BY <1>2, <2>4 DEF OwnFault
    <3>2. ArgInt(2) + 1 \in 1 .. Len(ArgList(1))
      BY <2>2, <3>1
    <3>3. ArgList(1)[ArgInt(2) + 1] \in G
      BY <2>2, <3>2 DEF AllIn
    <3>4. Results(d) = <<ArgList(1)[ArgInt(2) + 1]>>
      BY <2>4 DEF Results, IntBinary
    <3> QED
      BY <1>1, <3>3, <3>4 DEF AllIn
  <2> QED
    BY <1>9, <2>3, <2>4
<1>10. CASE d.op = "len"
  <2>1. 1 \in 1 .. Arity(d) /\ Kinds(d)[1] = "arena"
    BY <1>10 DEF Arity, Kinds, IntBinary
  <2>2. Len(ArgBytes(1)) \in Int
    BY <2>1, DerefType
  <2> QED
    BY <1>1, <1>3, <1>10, <2>2 DEF Results, IntBinary, AllIn
<1>11. CASE d.op = "find"
  <2>1. /\ 1 \in 1 .. Arity(d) /\ Kinds(d)[1] = "arena"
        /\ 2 \in 1 .. Arity(d) /\ Kinds(d)[2] = "arena"
    BY <1>11 DEF Arity, Kinds, IntBinary
  <2>2. Position(ArgBytes(2), ArgBytes(1)) \in Int
    BY <2>1, DerefType, PositionType
  <2> QED
    BY <1>1, <1>3, <1>11, <2>2 DEF Results, IntBinary, AllIn
<1>12. CASE d.op = "eq"
  <2>1. Same(Arg(2), Arg(1)) \in BOOLEAN
    BY DEF Same
  <2>2. Results(d) = <<BoolV(Same(Arg(2), Arg(1)))>>
    BY <1>12 DEF Results, IntBinary
  <2> QED
    BY <1>1, <1>4, <2>1, <2>2 DEF AllIn
<1>13. CASE d.op = "not"
  <2>1. (ArgInt(1) = 0) \in BOOLEAN
    OBVIOUS
  <2>2. Results(d) = <<BoolV(ArgInt(1) = 0)>>
    BY <1>13 DEF Results, IntBinary
  <2> QED
    BY <1>1, <1>4, <2>1, <2>2 DEF AllIn
<1>14. CASE d.op = "ctxcost"
  <2>1. Ring!Cost \in Int
    BY RingCostType DEF IInv
  <2> QED
    BY <1>1, <1>3, <1>14, <2>1 DEF Results, IntBinary, AllIn
<1> QED
  BY <1>5, <1>6, <1>7, <1>8, <1>9, <1>10, <1>11, <1>12, <1>13, <1>14
     DEF ComputeOps

(* Only known values are written to a new list.                             *)
LEMMA ListIn ==
  ASSUME IInv, Fetchable, FaultOf(Fetched) = "ok", Fetched.op \in AllocOps,
         PayloadTag(Fetched) = LIST, NEW G, Known(G)
  PROVE  \E items \in Seq(Values) :
           /\ Payload(Fetched) = ListBytes(items)
           /\ \A i \in 1 .. Len(items) : items[i] \in G
<1> DEFINE d == Fetched
<1>1. d.op \in {"pack", "ctxwin"}
  BY DEF PayloadTag, LIST, STR, BYTES
<1>2. d.b \in Nat /\ Arity(d) <= Cur.sp
  BY FetchedType, Passed
<1>3. CASE d.op = "pack"
  <2> DEFINE items == TopN(Cur, d.b)
  <2>1. Arity(d) = d.b
    BY <1>2, <1>3 DEF Arity, Kinds, IntBinary
  <2>2. items \in Seq(Values)
    BY <1>2, <2>1, TopFrame, TopNType DEF Fetchable, Ready
  <2>3. \A i \in 1 .. Len(items) : items[i] \in G
    BY <1>2, <2>1, CurIn DEF Fetchable, Ready
  <2>4. Payload(d) = ListBytes(items)
    BY <1>3 DEF Payload
  <2> HIDE DEF items
  <2> QED
    BY <2>2, <2>3, <2>4
<1>4. CASE d.op = "ctxwin"
  <2>1. segments \in Seq(Ring!Segments)
    BY DEF IInv, RingOk
  <2>2. \A i \in 1 .. Len(segments) : segments[i].role \in Int
    <3>1. \A i \in 1 .. Len(segments) : segments[i] \in Ring!Segments
      BY <2>1, ElementOfSeq
    <3> QED
      BY <3>1 DEF Ring!Segments
  <2>3. Ring!Window \in [1 .. Len(segments) -> Int]
    BY <2>2 DEF Ring!Window
  <2>4. Ring!Window \in Seq(Int)
    BY <2>1, <2>3, SeqOfFunction
  <2>5. \A i \in 1 .. Len(Ring!Window) :
          IntV(Ring!Window[i]) \in Bare /\ IntV(Ring!Window[i]) \in Values
    BY <2>4, BareValues, IntVType
  <2>6. RoleValues \in [1 .. Len(Ring!Window) -> Values]
    BY <2>5 DEF RoleValues
  <2>7. RoleValues \in Seq(Values) /\ Len(RoleValues) = Len(Ring!Window)
    BY <2>4, <2>6, SeqOfFunction
  <2>8. \A i \in 1 .. Len(RoleValues) : RoleValues[i] \in G
    BY <2>5, <2>7 DEF RoleValues, Known
  <2>9. Payload(d) = ListBytes(RoleValues)
    BY <1>4 DEF Payload
  <2> QED
    BY <2>7, <2>8, <2>9
<1> QED
  BY <1>1, <1>3, <1>4

-----------------------------------------------------------------------------
(* The frames after a step. *)
LEMMA RewriteIn ==
  ASSUME IInv, Fetchable, FaultOf(Fetched) = "ok", NEW H, SlotsIn(Cur, H),
         NEW vs \in Seq(Values), \A i \in 1 .. Len(vs) : vs[i] \in H
  PROVE  SlotsIn(Rewrite(Fetched, vs), H)
<1>1. Cur \in Frames
  BY TopFrame DEF Fetchable, Ready
<1>2. Arity(Fetched) \in Nat /\ Arity(Fetched) <= Cur.sp
  BY Passed
<1> QED
  BY <1>1, <1>2, ReplaceIn DEF Rewrite

(* More values known, as many held.                                         *)
LEMMA SlotsGrow ==
  ASSUME NEW f, NEW G, NEW H, G \subseteq H, SlotsIn(f, G)
  PROVE  SlotsIn(f, H)
  BY DEF SlotsIn

(* A step that replaces the top frame and raises no effect of its own.      *)
LEMMA TopHolds ==
  ASSUME IInv, frames # <<>>, NEW G, NEW H, G \subseteq H, HoldsOnly(G),
         NEW f \in Frames, SlotsIn(f, H), SetTop(f),
         EffectPending' => \A i \in 1 .. Len(pending'[1].args) : pending'[1].args[i] \in H
  PROVE  HoldsOnly(H)'
<1>1. /\ Len(frames') = Len(frames) /\ Len(frames) \in Nat
      /\ \A k \in 1 .. Len(frames) :
           frames'[k] = IF k = Len(frames) THEN f ELSE frames[k]
  BY TopShape, TopFrame, LimitsAssumption
<1>2. ASSUME NEW k \in 1 .. Len(frames') PROVE SlotsIn(frames'[k], H)
  <2>1. k \in 1 .. Len(frames)
    BY <1>1, <1>2
  <2>2. CASE k = Len(frames)
    BY <1>1, <2>1, <2>2
  <2>3. CASE k # Len(frames)
    <3>1. SlotsIn(frames[k], G)
      BY <2>1 DEF HoldsOnly
    <3> QED
      BY <1>1, <2>1, <2>3, <3>1, SlotsGrow
  <2> QED
    BY <2>2, <2>3
<1> QED
  BY <1>2 DEF HoldsOnly

(* What a step knows afterwards. *)
Knows(G, H) == Grown(G, H) /\ Known(H)'

(* A step that makes no new value and leaves the arena.                     *)
LEMMA SameKnown ==
  ASSUME NEW G, Known(G), arena' = arena, HoldsOnly(G)'
  PROVE  Knows(G, G)
  BY DEF Knows, Grown, Known, Closed

(* Instructions that move on and leave the arena.                           *)
LEMMA AdvanceKnows ==
  ASSUME IInv, NEW G, Known(G),
         Compute \/ Fork \/ Abort \/ Meter \/ CtxPush \/ CtxPop
  PROVE  Knows(G, G)
<1>1. /\ Fetchable /\ FaultOf(Fetched) = "ok" /\ frames # <<>> /\ pending = <<>>
      /\ arena' = arena /\ pending' = pending
  BY DEF Compute, Fork, Abort, Meter, CtxPush, CtxPop, Executing, Fetchable, Ready,
     store, outcome
<1>2. SlotsIn(Cur, G) /\ Cur \in Frames
  BY <1>1, CurIn
<1>3. \E f \in Frames : SlotsIn(f, G) /\ SetTop(Advance(f))
  <2>1. CASE Compute
    <3>0. Fetched.op \in ComputeOps
      BY <2>1 DEF Compute, Executing
    <3>1. Fetched.op \in ComputeOps /\ Left(Fetched) = Len(Results(Fetched))
      BY <3>0 DEF Left, ComputeOps, AllocOps, IntBinary
    <3>2. /\ Results(Fetched) \in Seq(Values)
          /\ \A i \in 1 .. Len(Results(Fetched)) : Results(Fetched)[i] \in G
      BY <1>1, <3>1, ResultsType, ResultsIn
    <3>3. SlotsIn(Rewrite(Fetched, Results(Fetched)), G)
      BY <1>1, <1>2, <3>2, RewriteIn
    <3>4. Rewrite(Fetched, Results(Fetched)) \in Frames
      BY <1>1, <3>1, <3>2, Rewritten
    <3> QED
      BY <2>1, <3>3, <3>4 DEF Compute
  <2>2. CASE Fork
    <3> DEFINE v == IntV(0)
    <3>1. v \in G /\ v \in Values
      BY BareValues, IntVType DEF Known
    <3>2. SetTop(Advance(Rewrite(Fetched, <<v>>))) /\ Fetched.op = "fork"
      BY <2>2 DEF Fork, Executing
    <3> HIDE DEF v
    <3>3. <<v>> \in Seq(Values) /\ Len(<<v>>) = 1 /\ \A i \in 1 .. 1 : <<v>>[i] \in G
      BY <3>1
    <3>4. Left(Fetched) = 1
      BY <3>2 DEF Left, ComputeOps, AllocOps, IntBinary
    <3> QED
      BY <1>1, <1>2, <3>2, <3>3, <3>4, RewriteIn, Rewritten
  <2>3. CASE Abort \/ CtxPop
    BY <1>2, <2>3 DEF Abort, CtxPop
  <2>4. CASE Meter \/ CtxPush
    <3>1. Fetched.op \in Quiet /\ SetTop(Advance(Rewrite(Fetched, <<>>)))
      BY <2>4 DEF Meter, CtxPush, Executing, Quiet
    <3>2. << >> \in Seq(Values) /\ \A i \in 1 .. Len(<< >>) : << >>[i] \in G
      OBVIOUS
    <3>3. Rewrite(Fetched, <<>>) \in Frames
      BY <1>1, <3>1, Popped0
    <3>4. SlotsIn(Rewrite(Fetched, <<>>), G)
      BY <1>1, <1>2, <3>2, RewriteIn
    <3> QED
      BY <3>1, <3>3, <3>4
  <2> QED
    BY <2>1, <2>2, <2>3, <2>4
<1>4. PICK f \in Frames : SlotsIn(f, G) /\ SetTop(Advance(f))
  BY <1>3
<1>5. Advance(f) \in Frames /\ SlotsIn(Advance(f), G)
  BY <1>4, Moved, MovedIn
<1>6. ~EffectPending' /\ HoldsOnly(G)
  BY <1>1 DEF EffectPending, Known
<1>7. HoldsOnly(G)'
  BY <1>1, <1>4, <1>5, <1>6, TopHolds
<1> QED
  BY <1>1, <1>7, SameKnown

(* Growing the arena and the known values leaves what a value denotes.      *)
LEMMA DenotesStill ==
  ASSUME NEW v \in Values, NEW G, NEW H, G \subseteq H, NEW a \in Seq(Word),
         NEW b \in Seq(Word), Len(a) <= Len(b), Len(b) < Radix,
         \A i \in 1 .. Len(a) : b[i] = a[i], Denotes(v, G, a)
  PROVE  Denotes(v, H, b)
<1>1. SUFFICES ASSUME IsArena(v) PROVE Denotes(v, H, b)
  BY DEF Denotes
<1>2. Extent(v) <= Len(a)
  BY <1>1 DEF Denotes
<1>3. Get(b, HandleOf(v)) = Get(a, HandleOf(v))
  BY <1>2, GetStays
<1>4. Extent(v) \in Nat
  BY HandleOfType DEF Extent
<1>5. Extent(v) <= Len(b)
  BY <1>2, <1>4
<1> QED
  BY <1>1, <1>3, <1>5 DEF Denotes

(* A new handle denotes what was written, a new list the values packed.     *)
LEMMA NewDenotes ==
  ASSUME IInv, Fetchable, FaultOf(Fetched) = "ok", Fetched.op \in AllocOps,
         NEW G, Known(G)
  PROVE  LET v == HandleV(PayloadTag(Fetched), NewHandle(arena, Payload(Fetched)))
         IN /\ v \in Values /\ v.tag # PENDING
            /\ Denotes(v, G, Alloc(arena, Payload(Fetched)))
<1> DEFINE bytes == Payload(Fetched)
           tag == PayloadTag(Fetched)
           v == HandleV(tag, NewHandle(arena, bytes))
           b == Alloc(arena, bytes)
<1>1. /\ bytes \in Seq(Word) /\ tag \in Tags /\ arena \in Seq(Word)
      /\ CanAlloc(arena, bytes)
  BY PayloadType, Passed DEF IInv, StoreOk, RoomFault
<1>2. tag # PENDING
  BY DEF PayloadTag, STR, BYTES, LIST, PENDING
<1>3. /\ v \in Values /\ v.tag = tag /\ HandleOf(v).off = Len(arena)
      /\ Extent(v) <= Len(b) /\ Get(b, HandleOf(v)) = bytes
  <2> HIDE DEF bytes, tag
  <2> QED
    BY <1>1, GetNew
<1>4. ASSUME tag = LIST
      PROVE  /\ WholeSlots(bytes) /\ AllReadable(bytes)
             /\ \A i \in 1 .. Len(Elements(bytes)) :
                  /\ Elements(bytes)[i] \in G
                  /\ IsArena(Elements(bytes)[i]) => Extent(Elements(bytes)[i]) <= Len(arena)
  <2>1. PICK items \in Seq(Values) :
          bytes = ListBytes(items) /\ \A i \in 1 .. Len(items) : items[i] \in G
    BY <1>4, ListIn
  <2> HIDE DEF bytes
  <2>2. /\ WholeSlots(bytes) /\ AllReadable(bytes)
        /\ Len(Elements(bytes)) = Len(items)
        /\ \A i \in 1 .. Len(items) : Elements(bytes)[i] = items[i]
    BY <2>1, ListRead
  <2>3. \A u \in G : IsArena(u) => Extent(u) <= Len(arena)
    BY DEF Known, Closed, Denotes
  <2> QED
    BY <2>1, <2>2, <2>3
<1> HIDE DEF v, b, bytes, tag
<1>5. Denotes(v, G, b)
  BY <1>3, <1>4 DEF Denotes
<1> QED
  BY <1>2, <1>3, <1>5 DEF v, b, bytes, tag

(* Allocation makes one value known.                                        *)
LEMMA AllocateKnows ==
  ASSUME IInv, NEW G, Known(G), Allocate
  PROVE  \E H \in SUBSET Values : Knows(G, H)
<1> DEFINE d == Fetched
<1>1. Fetchable /\ FaultOf(d) = "ok" /\ d.op \in AllocOps
  BY DEF Allocate, Executing
<1>2. PICK v \in Values : v = HandleV(PayloadTag(d), NewHandle(arena, Payload(d)))
  BY <1>1, NewDenotes
<1> DEFINE H == G \cup {v}
           f == Rewrite(d, <<v>>)
<1>3. /\ Fetchable /\ FaultOf(d) = "ok" /\ frames # <<>> /\ pending = <<>>
      /\ d.op \in AllocOps /\ SetTop(Advance(f)) /\ arena' = Alloc(arena, Payload(d))
      /\ pending' = pending
  BY <1>2 DEF Allocate, Executing, Fetchable, Ready, outcome
<1>4. /\ arena \in Seq(Word) /\ arena' \in Seq(Word) /\ Len(arena') < Radix
      /\ Len(arena) <= Len(arena') /\ \A i \in 1 .. Len(arena) : arena'[i] = arena[i]
  <2>1. /\ Payload(d) \in Seq(Word) /\ arena \in Seq(Word)
        /\ CanAlloc(arena, Payload(d))
    BY <1>3, PayloadType, Passed DEF IInv, StoreOk, RoomFault
  <2> QED
    BY <1>3, <2>1, AllocType
<1>5. v \in Values /\ v.tag # PENDING /\ Denotes(v, G, arena')
  BY <1>3, <1>2, NewDenotes
<1>6. Left(d) = 1
  BY <1>3 DEF Left, ComputeOps, AllocOps, IntBinary
<1>7. H \in SUBSET Values /\ G \subseteq H /\ Bare \subseteq H /\ G \in SUBSET Values
  BY <1>5 DEF Known
<1>8. Closed(H, arena')
  <2>1. SUFFICES ASSUME NEW u \in H PROVE Denotes(u, H, arena')
    BY DEF Closed
  <2>2. CASE u = v
    BY <1>5, <1>7, <2>2 DEF Denotes
  <2>3. CASE u \in G
    <3>1. Denotes(u, G, arena)
      BY <2>3 DEF Known, Closed
    <3> QED
      BY <1>4, <1>7, <2>3, <3>1, DenotesStill
  <2> QED
    BY <2>1, <2>2, <2>3
<1>9. HoldsOnly(H)'
  <2>1. <<v>> \in Seq(Values) /\ Len(<<v>>) = 1 /\ \A i \in 1 .. 1 : <<v>>[i] \in H
    BY <1>5
  <2>2. SlotsIn(Cur, H) /\ Cur \in Frames
    BY <1>3, <1>7, CurIn, SlotsGrow
  <2> HIDE DEF H
  <2>3. f \in Frames /\ SlotsIn(f, H)
    BY <1>3, <1>6, <2>1, <2>2, Rewritten, RewriteIn
  <2> HIDE DEF f
  <2>4. Advance(f) \in Frames /\ SlotsIn(Advance(f), H)
    BY <2>3, Moved, MovedIn
  <2>5. ~EffectPending' /\ HoldsOnly(G)
    BY <1>3 DEF EffectPending, Known
  <2> QED
    BY <1>3, <1>7, <2>4, <2>5, TopHolds
<1>10. Grown(G, H)
  BY <1>5, <1>7 DEF Grown
<1> HIDE DEF H
<1>11. Known(H)'
  BY <1>7, <1>8, <1>9 DEF Known
<1> QED
  BY <1>7, <1>10, <1>11 DEF Knows

(* There is one frame on top.                                               *)
LEMMA OneTop ==
  ASSUME IInv, frames # <<>>, NEW f \in Frames, SetTop(f), NEW g, SetTop(g)
  PROVE  f = g
<1>1. frames'[Len(frames)] = f
  BY TopShape, TopFrame, LimitsAssumption
<1>2. Len(frames) \in DOMAIN frames
  BY TopFrame, LimitsAssumption DEF IInv, FramesOk
<1>3. frames'[Len(frames)] = g
  BY <1>2 DEF SetTop
<1> QED
  BY <1>1, <1>3

(* A jump only pops.                                                        *)
LEMMA JumpKnows ==
  ASSUME IInv, NEW G, Known(G), Branch \/ Switch
  PROVE  Knows(G, G)
<1> DEFINE f == Rewrite(Fetched, <<>>)
<1>1. /\ Fetchable /\ FaultOf(Fetched) = "ok" /\ frames # <<>> /\ pending = <<>>
      /\ arena' = arena /\ pending' = pending /\ Fetched.op \in Quiet
  BY DEF Branch, Switch, Executing, Fetchable, Ready, store, outcome, Quiet
<1>2. f \in Frames
  BY <1>1, Popped0
<1>3. SlotsIn(f, G)
  <2>1. << >> \in Seq(Values) /\ \A i \in 1 .. Len(<< >>) : << >>[i] \in G
    OBVIOUS
  <2> QED
    BY <1>1, <2>1, CurIn, RewriteIn
<1>4. SetTop(Advance(f)) \/ \E t : SetTop(Jump(f, t))
  BY DEF Branch, Switch
<1> HIDE DEF f
<1>5. PICK g : SetTop(g) /\ SlotsIn(g, G)
  BY <1>2, <1>3, <1>4, MovedIn
<1>6. PICK h \in Frames : SetTop(h)
  BY BranchTop, SwitchTop
<1>7. g \in Frames
  BY <1>1, <1>5, <1>6, OneTop
<1>8. ~EffectPending' /\ HoldsOnly(G)
  BY <1>1 DEF EffectPending, Known
<1>9. HoldsOnly(G)'
  BY <1>1, <1>5, <1>7, <1>8, TopHolds
<1> QED
  BY <1>1, <1>9, SameKnown

(* The frame of a callee holds what its caller pushed.                      *)
LEMMA CalleeIn ==
  ASSUME IInv, Fetchable, FaultOf(Fetched) = "ok", Fetched.op \in {"call", "tail"},
         NEW G, Known(G)
  PROVE  LET target == image.funcs[Fetched.b + 1]
         IN SlotsIn(NewFrame(Fetched.b, TopN(Cur, target.args), target.maxstack,
                             target.returns), G)
<1> DEFINE target == image.funcs[Fetched.b + 1]
<1>1. Fetched.b \in Nat /\ Fetched.b < Len(image.funcs)
  BY Passed, FetchedType
<1>2. target \in Funcs
  BY <1>1, ImageFacts DEF IInv
<1>3. target.args \in Nat /\ target.maxstack \in Nat
  BY <1>2 DEF Funcs
<1>4. Arity(Fetched) = target.args
  BY <1>1, <1>3 DEF Arity, Kinds, IntBinary
<1>5. target.args <= Cur.sp
  BY <1>4, Passed
<1> HIDE DEF target
<1> DEFINE args == TopN(Cur, target.args)
<1>6. args \in Seq(Values) /\ \A i \in 1 .. Len(args) : args[i] \in G
  BY <1>3, <1>5, CurIn, TopNType DEF Fetchable, Ready
<1>7. Void \in G
  BY BareValues DEF Known
<1> HIDE DEF args
<1>8. SlotsIn(NewFrame(Fetched.b, args, target.maxstack, target.returns), G)
  BY <1>3, <1>6, <1>7, NewFrameIn
<1> QED
  BY <1>8 DEF args, target

(* call, tail.                                                              *)
LEMMA CallKnows ==
  ASSUME IInv, NEW G, Known(G), Call \/ TailCall
  PROVE  Knows(G, G)
<1> DEFINE target == image.funcs[Fetched.b + 1]
           g == NewFrame(Fetched.b, TopN(Cur, target.args), target.maxstack,
                         target.returns)
<1>1. /\ Fetchable /\ FaultOf(Fetched) = "ok" /\ frames # <<>> /\ pending = <<>>
      /\ arena' = arena /\ pending' = pending /\ Fetched.op \in {"call", "tail"}
  BY DEF Call, TailCall, Executing, Fetchable, Ready, store, outcome
<1>2. SlotsIn(g, G)
  BY <1>1, CalleeIn
<1>3. ~EffectPending' /\ HoldsOnly(G)
  BY <1>1 DEF EffectPending, Known
<1>4. CASE TailCall
  <2>1. SetTop(g)
    BY <1>4 DEF TailCall
  <2>2. g \in Frames
    BY <1>1, CalleeFrame
  <2> HIDE DEF g
  <2>3. HoldsOnly(G)'
    BY <1>1, <1>2, <1>3, <2>1, <2>2, TopHolds
  <2> QED
    BY <1>1, <2>3, SameKnown
<1>5. CASE Call
  <2> DEFINE f == Rewrite(Fetched, <<>>)
  <2>1. /\ Len(frames) \in Nat /\ Len(frames') = Len(frames) + 1
        /\ \A k \in 1 .. Len(frames) :
             frames'[k] = IF k = Len(frames) THEN f ELSE frames[k]
        /\ frames'[Len(frames) + 1] = g
    BY <1>5, CallShape
  <2>2. SlotsIn(f, G)
    <3>1. << >> \in Seq(Values) /\ \A i \in 1 .. Len(<< >>) : << >>[i] \in G
      OBVIOUS
    <3> QED
      BY <1>1, <3>1, CurIn, RewriteIn
  <2> HIDE DEF f, g
  <2>3. \A k \in 1 .. Len(frames) : SlotsIn(frames[k], G)
    BY <1>3 DEF HoldsOnly
  <2>4. \A k \in 1 .. Len(frames') : k \in 1 .. Len(frames) \/ k = Len(frames) + 1
    BY <2>1
  <2>5. \A k \in 1 .. Len(frames') : SlotsIn(frames'[k], G)
    BY <1>2, <2>1, <2>2, <2>3, <2>4
  <2>6. HoldsOnly(G)'
    BY <1>3, <2>5 DEF HoldsOnly
  <2> QED
    BY <1>1, <2>6, SameKnown
<1> QED
  BY <1>4, <1>5

(* ret, halt: a caller gains what its callee held.                          *)
LEMMA RetKnows ==
  ASSUME IInv, NEW G, Known(G), Ret \/ Halt
  PROVE  Knows(G, G)
<1> DEFINE values == TopN(Cur, Cur.returns)
<1>1. /\ Fetchable /\ FaultOf(Fetched) = "ok" /\ frames # <<>> /\ pending = <<>>
      /\ arena' = arena /\ pending' = pending
  BY DEF Ret, Halt, Executing, Fetchable, Ready, store
<1>2. ~EffectPending' /\ HoldsOnly(G)
  BY <1>1 DEF EffectPending, Known
<1>3. CASE frames' = <<>>
  <2>1. HoldsOnly(G)'
    BY <1>2, <1>3 DEF HoldsOnly
  <2> QED
    BY <1>1, <2>1, SameKnown
<1>4. CASE frames' # <<>>
  <2>1. Ret /\ Depth # 0 /\ Fetched.op = "ret"
    BY <1>4 DEF Ret, Halt, Depth, Executing
  <2> DEFINE f == Replace(frames[Depth], 0, values)
  <2>2. /\ Depth \in 1 .. Len(frames) /\ frames[Depth] \in Frames
        /\ values \in Seq(Values)
        /\ Len(frames') = Depth /\ Depth \in Nat
        /\ \A k \in 1 .. Depth : frames'[k] = IF k = Depth THEN f ELSE frames[k]
    BY <2>1, RetShape
  <2>3. \A i \in 1 .. Len(values) : values[i] \in G
    <3>1. Cur \in Frames /\ Cur.returns \in Nat
      BY <1>1, TopFrame, FrameFields
    <3>2. Arity(Fetched) = Cur.returns
      BY <2>1, <3>1 DEF Arity, Kinds, IntBinary
    <3> QED
      BY <1>1, <3>1, <3>2, Passed, CurIn
  <2>4. \A k \in 1 .. Len(frames) : SlotsIn(frames[k], G)
    BY <1>2 DEF HoldsOnly
  <2> HIDE DEF values
  <2>5. SlotsIn(f, G)
    <3>1. SlotsIn(frames[Depth], G) /\ 0 <= frames[Depth].sp
      BY <2>2, <2>4, FrameFields
    <3> QED
      BY <2>2, <2>3, <3>1, ReplaceIn
  <2> HIDE DEF f
  <2>6. Len(frames) \in Nat
    BY <1>1, TopFrame
  <2>7. \A k \in 1 .. Depth : k \in 1 .. Len(frames)
    BY <2>2, <2>6
  <2>8. \A k \in 1 .. Depth : SlotsIn(frames'[k], G)
    BY <2>2, <2>4, <2>5, <2>7
  <2>9. HoldsOnly(G)'
    BY <1>2, <2>2, <2>8 DEF HoldsOnly
  <2> QED
    BY <1>1, <2>9, SameKnown
<1> QED
  BY <1>3, <1>4

(* calltool, spawn: the pending value becomes known.                        *)
LEMMA IssueKnows ==
  ASSUME IInv, NEW G, Known(G), IssueEffect
  PROVE  \E H \in SUBSET Values : Knows(G, H)
<1> DEFINE d == Fetched
<1>1. /\ Fetchable /\ FaultOf(d) = "ok" /\ frames # <<>> /\ d.op \in {"calltool", "spawn"}
      /\ SetTop(Rewrite(d, <<PendingV(nextEffect)>>)) /\ arena' = arena
      /\ nextEffect' = nextEffect + 1 /\ steps < MaxSteps /\ call = "running"
      /\ pending' = <<[kind |-> "Effect", id |-> nextEffect, tool |-> d.b,
                       args |-> ArgList(1)]>>
  BY DEF IssueEffect, Executing, Fetchable, Ready, store, Raise
<1>2. PICK v \in Values : v = PendingV(nextEffect)
  <2>1. nextEffect \in Nat /\ nextEffect < Words
    BY <1>1, LimitsAssumption, WordFacts DEF IInv, CountsOk
  <2> QED
    BY <2>1, PendingVType
<1>3. v.tag = PENDING /\ v.payload = nextEffect
  BY <1>2 DEF PendingV
<1> DEFINE H == G \cup {v}
           f == Rewrite(d, <<v>>)
<1>4. H \in SUBSET Values /\ G \subseteq H /\ Bare \subseteq H
  BY DEF Known
<1>5. Closed(H, arena')
  <2>1. ~IsArena(v)
    BY <1>3 DEF IsArena, PENDING, STR, BYTES, LIST
  <2>2. \A u \in G : Denotes(u, G, arena)
    BY DEF Known, Closed
  <2>3. \A u \in G : Denotes(u, H, arena)
    BY <2>2 DEF Denotes
  <2> QED
    BY <1>1, <2>1, <2>3 DEF Closed, Denotes
<1>6. 1 \in 1 .. Arity(d) /\ Kinds(d)[1] = "list"
  <2>1. Kinds(d) = <<"list">>
    BY <1>1 DEF Kinds, IntBinary
  <2> QED
    BY <2>1 DEF Arity
<1>7. \A i \in 1 .. Len(ArgList(1)) : ArgList(1)[i] \in G
  BY <1>1, <1>6, ArgListIn
<1>8. pending'[1].args = ArgList(1)
  BY <1>1
<1>9. HoldsOnly(H)'
  <2>1. <<v>> \in Seq(Values) /\ Len(<<v>>) = 1 /\ \A i \in 1 .. 1 : <<v>>[i] \in H
    OBVIOUS
  <2>2. SlotsIn(Cur, H) /\ Cur \in Frames
    BY <1>1, <1>4, CurIn, SlotsGrow
  <2>3. Left(d) = 1
    BY <1>1 DEF Left, ComputeOps, AllocOps, IntBinary
  <2>4. SetTop(f)
    BY <1>1, <1>2
  <2>5. \A i \in 1 .. Len(pending'[1].args) : pending'[1].args[i] \in H
    BY <1>4, <1>7, <1>8
  <2> HIDE DEF H
  <2>6. f \in Frames /\ SlotsIn(f, H)
    BY <1>1, <2>1, <2>2, <2>3, Rewritten, RewriteIn
  <2>7. HoldsOnly(G)
    BY DEF Known
  <2> HIDE DEF f
  <2> QED
    BY <1>1, <1>4, <2>4, <2>5, <2>6, <2>7, TopHolds
<1>10. Grown(G, H)
  BY <1>1, <1>3 DEF Grown
<1> HIDE DEF H
<1>11. Known(H)'
  BY <1>4, <1>5, <1>9 DEF Known
<1> QED
  BY <1>4, <1>10, <1>11 DEF Knows

(* The other traps.                                                         *)
LEMMA TrapKnows ==
  ASSUME IInv, NEW G, Known(G), Suspend \/ AskOracle \/ QueryQ
  PROVE  Knows(G, G)
<1>1. /\ Fetchable /\ FaultOf(Fetched) = "ok" /\ frames # <<>>
      /\ arena' = arena /\ ~EffectPending' /\ HoldsOnly(G)
  BY DEF Suspend, AskOracle, QueryQ, Executing, Fetchable, Ready, store, Raise,
     EffectPending, Known
<1>2. CASE frames' = frames
  <2>1. HoldsOnly(G)'
    BY <1>1, <1>2 DEF HoldsOnly
  <2> QED
    BY <1>1, <2>1, SameKnown
<1>3. CASE QueryQ
  <2> DEFINE v == IntV(Ledger!Remaining(Fetched.a))
             f == Rewrite(Fetched, <<v>>)
  <2>1. v \in Values /\ v \in G
    <3>1. Ledger!Remaining(Fetched.a) \in Int
      BY WordFacts DEF Ledger!Remaining, IInv, BudgetOk
    <3> QED
      BY <3>1, IntVType, BareValues DEF Known
  <2>2. SetTop(f)
    BY <1>3 DEF QueryQ
  <2>3. Fetched.op = "queryq"
    BY <1>3 DEF QueryQ, Executing
  <2>4. Left(Fetched) = 1
    BY <2>3 DEF Left, ComputeOps, AllocOps, IntBinary
  <2> HIDE DEF v
  <2>5. <<v>> \in Seq(Values) /\ Len(<<v>>) = 1 /\ \A i \in 1 .. 1 : <<v>>[i] \in G
    BY <2>1
  <2>6. f \in Frames /\ SlotsIn(f, G)
    BY <1>1, <2>4, <2>5, CurIn, Rewritten, RewriteIn
  <2> HIDE DEF f
  <2>7. HoldsOnly(G)'
    BY <1>1, <2>2, <2>6, TopHolds
  <2> QED
    BY <1>1, <2>7, SameKnown
<1> QED
  BY <1>2, <1>3 DEF Suspend, AskOracle

(* Steps that leave frames and arena and raise no trap.                     *)
LEMMA RestKnows ==
  ASSUME NEW G, Known(G), arena' = arena, frames' = frames,
         pending' = <<>> \/ pending' = pending
  PROVE  Knows(G, G)
<1>1. HoldsOnly(G)'
  BY DEF Known, HoldsOnly, EffectPending
<1> QED
  BY <1>1, SameKnown

(* The host brings no value that needs cells.                               *)
LEMMA HostKnows ==
  ASSUME HostValues \subseteq Bare, IInv, NEW G, Known(G), Host
  PROVE  Knows(G, G)
<1>1. CASE Resume \/ Shutdown
  BY <1>1, RestKnows DEF Resume, Shutdown, machine
<1>2. CASE Answer
  <2>1. PICK v \in HostValues :
          IF CanReplace(Cur, 0, <<v>>)
          THEN /\ SetTop(Replace(Cur, 0, <<v>>))
               /\ UNCHANGED <<image, store, budget, segments, steps, outcome, result>>
          ELSE Die("MaxstackExceeded") /\ UNCHANGED steps
    BY <1>2 DEF Answer
  <2>2. CASE CanReplace(Cur, 0, <<v>>)
    <3> DEFINE f == Replace(Cur, 0, <<v>>)
    <3>1. SetTop(f) /\ arena' = arena /\ pending' = pending
      BY <2>1, <2>2 DEF store, outcome
    <3>2. frames # <<>> /\ pending = <<>>
      BY <1>2 DEF Answer, Trapped, IInv, ReplyOk, OutcomeOk
    <3>3. << v >> \in Seq(Values) /\ Cur \in Frames /\ Cur.sp \in Nat
          /\ \A i \in 1 .. Len(<< v >>) : << v >>[i] \in G
      BY <3>2, TopFrame, FrameFields, LimitsAssumption DEF Known
    <3>4. Cur.sp - 0 + Len(<< v >>) <= Cur.maxstack /\ 0 <= Cur.sp
      BY <2>2, <3>3 DEF CanReplace
    <3>5. f \in Frames /\ SlotsIn(f, G)
      BY <3>2, <3>3, <3>4, CurIn, ReplaceType, ReplaceIn
    <3>6. ~EffectPending' /\ HoldsOnly(G)
      BY <3>1, <3>2 DEF EffectPending, Known
    <3> HIDE DEF f
    <3>7. HoldsOnly(G)'
      BY <3>1, <3>2, <3>5, <3>6, TopHolds
    <3> QED
      BY <3>1, <3>7, SameKnown
  <2>3. CASE ~CanReplace(Cur, 0, <<v>>)
    BY <2>1, <2>3, RestKnows DEF Die, store, outcome
  <2> QED
    BY <2>2, <2>3
<1> QED
  BY <1>1, <1>2 DEF Host

(* An image without commit never executes it.                               *)
LEMMA NoCommit == ASSUME IInv, ~Uses("commit") PROVE ~Commit
<1>1. SUFFICES ASSUME Commit PROVE FALSE
  OBVIOUS
<1>2. /\ Fetchable /\ Fetched.op = "commit" /\ Offset < Len(image.code)
      /\ frames # <<>>
  BY <1>1 DEF Commit, Executing, Fetchable, Ready
<1>3. Offset \in Nat
  <2>1. Cur.pc \in Nat /\ FuncOf(Cur).off \in Nat
    BY <1>2, TopFrame, FrameFields DEF Funcs
  <2> QED
    BY <2>1 DEF Offset
<1>4. Offset + 1 \in 1 .. Len(image.code)
  BY <1>2, <1>3, ImageFacts DEF IInv
<1> QED
  BY <1>2, <1>4 DEF Uses, Fetched

(* Every step of such a machine keeps its values known.                     *)
LEMMA StepKnows ==
  ASSUME HostValues \subseteq Bare, IInv, ~Uses("commit"), [Next]_vars,
         NEW G \in SUBSET Values, Known(G)
  PROVE  \E H \in SUBSET Values : Knows(G, H)
<1>1. CASE Compute \/ Fork \/ Abort \/ Meter \/ CtxPush \/ CtxPop
  BY <1>1, AdvanceKnows
<1>2. CASE Branch \/ Switch \/ Call \/ TailCall \/ Ret \/ Halt
  BY <1>2, JumpKnows, CallKnows, RetKnows
<1>3. CASE Allocate \/ IssueEffect
  BY <1>3, AllocateKnows, IssueKnows
<1>4. CASE Suspend \/ AskOracle \/ QueryQ
  BY <1>4, TrapKnows
<1>5. CASE ReturnTrap \/ ReturnHalt \/ ReturnEmpty
  <2>1. arena' = arena /\ frames' = frames /\ (pending' = <<>> \/ pending' = pending)
    BY <1>5 DEF ReturnTrap, ReturnHalt, ReturnEmpty, machine, store
  <2> QED
    BY <2>1, RestKnows
<1>6. CASE StepLimit \/ PcEscape \/ Fault \/ UNCHANGED vars
  <2>1. arena' = arena /\ frames' = frames /\ pending' = pending
    BY <1>6 DEF StepLimit, PcEscape, Fault, Die, vars, store, outcome
  <2> QED
    BY <2>1, RestKnows
<1>7. CASE Host
  BY <1>7, HostKnows
<1>8. ~Commit
  BY NoCommit
<1> QED
  BY <1>1, <1>2, <1>3, <1>4, <1>5, <1>6, <1>7, <1>8
     DEF Next, Internal, Execute, Stopped

-----------------------------------------------------------------------------
(* Known values, none of them a pending value that was not issued. *)
IssuedOnly(G) == \A v \in G : v.tag = PENDING => v.payload \in 1 .. nextEffect - 1

MemoryOk ==
  ~Uses("commit") => \E G \in SUBSET Values : Known(G) /\ IssuedOnly(G)

(* The values that need no cells denote nothing, in whatever arena.         *)
LEMMA BareClosed ==
  ASSUME NEW cells \in Seq(Word) PROVE Closed(Bare, cells)
<1>1. SUFFICES ASSUME NEW v \in Bare, IsArena(v) PROVE Denotes(v, Bare, cells)
  BY DEF Denotes, Closed
<1>2. v \in Values /\ v.payload = 0
  BY <1>1 DEF Bare, IsArena, STR, BYTES, LIST, VOID, INT
<1>3. HandleOf(v).off = 0 /\ HandleOf(v).len = 0
  BY <1>2, WordFacts DEF HandleOf
<1>4. Extent(v) = 0 /\ EndOf(HandleOf(v)) = 0 /\ Len(cells) \in Nat
  BY <1>3, WordFacts DEF Extent, EndOf
<1>5. Get(cells, HandleOf(v)) = <<>>
  BY <1>3, <1>4, SubSeqEmpty DEF Get
<1>6. /\ WholeSlots(<<>>) /\ AllReadable(<<>>) /\ Len(Elements(<<>>)) = 0
  BY DEF WholeSlots, AllReadable, Elements, SlotLen
<1> QED
  BY <1>4, <1>5, <1>6 DEF Denotes

(* A new machine knows the values that need no cells.                       *)
LEMMA InitKnown == Init => Known(Bare) /\ IssuedOnly(Bare)
<1> SUFFICES ASSUME Init PROVE Known(Bare) /\ IssuedOnly(Bare)
  OBVIOUS
<1> DEFINE e == Entry(image)
           f == image.funcs[e + 1]
           g == NewFrame(e, <<>>, f.maxstack, f.returns)
<1>1. image \in Images /\ frames = <<g>> /\ arena = <<>> /\ pending = <<>>
  BY DEF Init
<1>2. f.maxstack \in Nat /\ f.returns \in Nat
  <2>1. e + 1 \in 1 .. Len(image.funcs)
    BY <1>1, EntryType, ImageFacts
  <2>2. f \in Funcs
    BY <1>1, <2>1, ImageFacts
  <2> QED
    BY <2>2 DEF Funcs
<1>3. SlotsIn(g, Bare)
  <2>1. << >> \in Seq(Values) /\ \A i \in 1 .. Len(<< >>) : << >>[i] \in Bare
    OBVIOUS
  <2> HIDE DEF f, e
  <2> QED
    BY <1>2, <2>1, BareValues, NewFrameIn
<1> HIDE DEF g
<1>4. HoldsOnly(Bare)
  BY <1>1, <1>3 DEF HoldsOnly, EffectPending
<1>5. Closed(Bare, arena)
  <2>1. arena \in Seq(Word)
    BY <1>1
  <2> QED
    BY <2>1, BareClosed
<1>6. IssuedOnly(Bare)
  BY DEF IssuedOnly, Bare, IsArena, PENDING, STR, BYTES, LIST, VOID, INT
<1> QED
  BY <1>4, <1>5, <1>6 DEF Known, Bare

(* Only calltool and spawn move the counter of effects.                     *)
LEMMA EffectsStay ==
  ASSUME [Next]_vars, ~IssueEffect PROVE nextEffect' = nextEffect
<1>1. CASE Execute
  BY <1>1 DEF Execute, Compute, Allocate, Branch, Switch, Call, TailCall, Ret, Halt,
     Suspend, AskOracle, QueryQ, Fork, Commit, Abort, Meter, CtxPush, CtxPop, outcome
<1>2. CASE ReturnTrap \/ ReturnHalt \/ ReturnEmpty
  BY <1>2 DEF ReturnTrap, ReturnHalt, ReturnEmpty, machine
<1>3. CASE StepLimit \/ PcEscape \/ Fault
  BY <1>3 DEF StepLimit, PcEscape, Fault, Die, outcome
<1>4. CASE Host
  BY <1>4 DEF Host, Resume, Answer, Shutdown, Die, outcome, machine
<1>5. CASE UNCHANGED vars
  BY <1>5 DEF vars
<1> QED
  BY <1>1, <1>2, <1>3, <1>4, <1>5 DEF Next, Internal, Stopped

LEMMA MemoryStep ==
  ASSUME HostValues \subseteq Bare, IInv, MemoryOk, [Next]_vars
  PROVE  MemoryOk'
<1>1. SUFFICES ASSUME ~Uses("commit")'
               PROVE  \E H \in SUBSET Values : Known(H)' /\ IssuedOnly(H)'
  BY DEF MemoryOk
<1>2. ~Uses("commit")
  BY <1>1, ImageStays DEF Uses
<1>3. PICK G \in SUBSET Values : Known(G) /\ IssuedOnly(G)
  BY <1>2 DEF MemoryOk
<1>4. PICK H \in SUBSET Values : Knows(G, H)
  BY <1>2, <1>3, StepKnows
<1>5. nextEffect \in Nat /\ nextEffect' \in Nat /\ nextEffect <= nextEffect'
  <2>1. nextEffect' = nextEffect \/ nextEffect' = nextEffect + 1
    BY EffectsStay DEF IssueEffect
  <2> QED
    BY <2>1 DEF IInv, CountsOk
<1>6. ASSUME NEW v \in H, v.tag = PENDING PROVE v.payload \in 1 .. nextEffect' - 1
  <2>1. CASE v \in G
    BY <1>3, <1>5, <1>6, <2>1 DEF IssuedOnly
  <2>2. CASE v \notin G
    <3>1. v.payload = nextEffect /\ nextEffect' = nextEffect + 1
      BY <1>4, <1>6, <2>2 DEF Knows, Grown
    <3> QED
      BY <1>5, <3>1 DEF IInv, CountsOk
  <2> QED
    BY <2>1, <2>2
<1> QED
  BY <1>4, <1>6 DEF Knows, IssuedOnly

(* All that a machine with a sound memory holds is known.                   *)
LEMMA HeldIn ==
  ASSUME IInv, NEW G, Known(G), NEW v \in Held
  PROVE  v \in G
<1>1. CASE \E k \in DOMAIN frames : v \in ToSet(frames[k].slots)
  <2>1. PICK k \in DOMAIN frames : v \in ToSet(frames[k].slots)
    BY <1>1
  <2>2. k \in 1 .. Len(frames) /\ frames[k] \in Frames
    BY <2>1, ElementOfSeq DEF IInv, FramesOk
  <2>3. DOMAIN frames[k].slots = 1 .. frames[k].maxstack
    BY <2>2, FrameFields
  <2>4. PICK i \in 1 .. frames[k].maxstack : v = frames[k].slots[i]
    BY <2>1, <2>3 DEF ToSet
  <2>5. SlotsIn(frames[k], G)
    BY <2>2 DEF Known, HoldsOnly
  <2> QED
    BY <2>4, <2>5 DEF SlotsIn
<1>2. CASE \E x \in ToSet(pending) : x.kind = "Effect" /\ v \in ToSet(x.args)
  <2>1. PICK x \in ToSet(pending) : x.kind = "Effect" /\ v \in ToSet(x.args)
    BY <1>2
  <2>2. pending \in Seq(Traps) /\ Len(pending) <= 1
    BY DEF IInv, OutcomeOk
  <2>3. PICK j \in DOMAIN pending : x = pending[j]
    BY <2>1 DEF ToSet
  <2>4. j = 1 /\ pending # <<>> /\ x \in Traps
    BY <2>2, <2>3
  <2>5. x.args \in Seq(Values)
    BY <2>1, <2>4 DEF Traps
  <2>6. PICK i \in 1 .. Len(x.args) : v = x.args[i]
    BY <2>1, <2>5 DEF ToSet
  <2> QED
    BY <2>1, <2>3, <2>4, <2>6 DEF Known, HoldsOnly, EffectPending
<1> QED
  BY <1>1, <1>2 DEF Held

(* What is known is sound.                                                  *)
LEMMA KnownSound ==
  ASSUME IInv, NEW G, Known(G), NEW v \in G
  PROVE  Sound(v)
<1>1. Denotes(v, G, arena)
  BY DEF Known, Closed
<1>2. SUFFICES ASSUME IsArena(v), v.tag = LIST,
                      NEW e \in ToSet(Elements(Get(arena, HandleOf(v)))), IsArena(e)
               PROVE  Extent(e) <= HandleOf(v).off
  BY <1>1 DEF Denotes, Sound
<1> DEFINE items == Elements(Get(arena, HandleOf(v)))
<1>3. items \in Seq(Values)
  <2>1. Extent(v) <= Len(arena) /\ AllReadable(Get(arena, HandleOf(v)))
    BY <1>1, <1>2 DEF Denotes
  <2>2. v \in Values /\ arena \in Seq(Word) /\ Len(arena) < Radix
    BY DEF Known, IInv, StoreOk
  <2> QED
    BY <2>1, <2>2, GetCells, ElementsType
<1>4. PICK i \in 1 .. Len(items) : e = items[i]
  BY <1>2, <1>3 DEF ToSet
<1> QED
  BY <1>1, <1>2, <1>4 DEF Denotes

LEMMA MemorySoundness == ASSUME IInv, MemoryOk PROVE HandlesSound
<1> SUFFICES ASSUME ~Uses("commit"), NEW v \in Held PROVE Sound(v)
  BY DEF HandlesSound
<1>1. PICK G \in SUBSET Values : Known(G)
  BY DEF MemoryOk
<1> QED
  BY <1>1, HeldIn, KnownSound

-----------------------------------------------------------------------------
(* For every admitted image without a commit, every limit, every width of  *)
(* the word and every host whose answers need no cells: no handle the       *)
(* machine holds dangles, and lists only ever hold what was there before    *)
(* them (heap.rs alloc, get, get_list; frame.rs pop).  What unpack and idx  *)
(* bring back from a list is sound because it is one of the known values.   *)
THEOREM HandlesStaySound ==
  ASSUME HostValues \subseteq Bare
  PROVE  Spec => []HandlesSound
<1>1. Init => MemoryOk
  BY InitKnown DEF MemoryOk, Bare
<1>2. IInv /\ MemoryOk /\ [Next]_vars => MemoryOk'
  BY MemoryStep
<1>3. IInv /\ MemoryOk => HandlesSound
  BY MemorySoundness
<1> QED
  BY <1>1, <1>2, <1>3, Invariant, PTL DEF Spec

(* Under the same hypotheses no pending value in a slot, in a list or in    *)
(* the arguments of a trap names an effect that was not issued, and for all *)
(* images ids are used up no faster than steps (interp.rs calltool, spawn). *)
THEOREM IdsStayIssued ==
  ASSUME HostValues \subseteq Bare
  PROVE  Spec => []EffectIdsIssued
<1>1. Init => MemoryOk
  BY InitKnown DEF MemoryOk, Bare
<1>2. IInv /\ MemoryOk /\ [Next]_vars => MemoryOk'
  BY MemoryStep
<1>3. IInv /\ MemoryOk => EffectIdsIssued
  <2> SUFFICES ASSUME IInv, MemoryOk PROVE EffectIdsIssued
    OBVIOUS
  <2>1. ASSUME ~Uses("commit"), NEW v \in Held, v.tag = PENDING
        PROVE  v.payload \in 1 .. nextEffect - 1
    <3>1. PICK G \in SUBSET Values : Known(G) /\ IssuedOnly(G)
      BY <2>1 DEF MemoryOk
    <3>2. v \in G
      BY <2>1, <3>1, HeldIn
    <3> QED
      BY <2>1, <3>1, <3>2 DEF IssuedOnly
  <2> QED
    BY <2>1 DEF EffectIdsIssued, IInv, CountsOk
<1> QED
  BY <1>1, <1>2, <1>3, Invariant, PTL DEF Spec
=============================================================================
