--------------------------- MODULE Durable_proofs ---------------------------
(***************************************************************************)
(* Snapshots, for every width of the word: what the checks of restore       *)
(* establish whatever the bytes of a snapshot say, that they let every      *)
(* snapshot of a sound machine without pending values pass, and what that   *)
(* keeps true of the machines that snapshots are taken of and go into.      *)
(***************************************************************************)
EXTENDS Durable, Memory_proofs

(* A frame as the bytes of a snapshot may give it, and a snapshot: nothing  *)
(* but the widths of the fields holds of them.                              *)
RawFrames == [func : Nat, pc : Nat, slots : Seq([tag : Nat, payload : Word]), sp : Nat,
              maxstack : Nat, returns : Nat]
Snapshots == [magic : BOOLEAN, version : Nat, arenaLen : Nat, arena : Seq(Word),
              count : Nat, frames : Seq(RawFrames)]

(* What a check may say. *)
Faults == {"ok", "SnapshotCorrupt", "SnapshotVersion", "LivePending", "BadHandle"}

(* A list of checks passes if each of them does. *)
LEMMA NoFault ==
  ASSUME NEW faults, faults \in Seq(Faults)
  PROVE  /\ FirstFault(faults) = "ok" <=> \A k \in 1 .. Len(faults) : faults[k] = "ok"
         /\ FirstFault(faults) \in Faults
<1> DEFINE bad == {k \in 1 .. Len(faults) : faults[k] # "ok"}
<1>1. CASE bad = {}
  BY <1>1 DEF FirstFault, SelectInSeq, Faults
<1>2. CASE bad # {}
  <2>1. PICK k \in bad : \A i \in bad : ~ (<<i, k>> \in OpToRel(<, Nat))
    <3>1. bad \subseteq Nat
      OBVIOUS
    <3> HIDE DEF bad
    <3> QED
      BY <1>2, <3>1, NatLessThanWellFounded, WFMin
  <2>2. \A i \in bad : k <= i
    <3>1. SUFFICES ASSUME NEW i \in bad, i < k PROVE FALSE
      OBVIOUS
    <3>2. <<i, k>> \in OpToRel(<, Nat)
      BY <3>1 DEF OpToRel
    <3> QED
      BY <2>1, <3>2
  <2>3. Min(bad) \in bad
    <3> HIDE DEF bad
    <3> QED
      BY <2>2 DEF Min
  <2>4. SelectInSeq(faults, LAMBDA fault : fault # "ok") = Min(bad)
    BY <1>2 DEF SelectInSeq
  <2> QED
    BY <2>3, <2>4 DEF FirstFault
<1> QED
  BY <1>1, <1>2

(* restore accepts a snapshot whose header and arena are whole, whose       *)
(* frames are all there, and each of whose slots passes.                    *)
LEMMA AcceptedParts ==
  ASSUME NEW s \in Snapshots
  PROVE  RestoreFault(s) = "ok" <=>
           /\ HeaderFault(s) = "ok" /\ s.count <= Len(s.frames)
           /\ \A k \in 1 .. Len(s.frames) :
                /\ \A i \in 1 .. Len(s.frames[k].slots) :
                      SlotFault(s, s.frames[k].slots[i]) = "ok"
                /\ s.frames[k].sp <= Len(s.frames[k].slots)
<1>1. /\ Len(s.frames) \in Nat /\ s.count \in Nat
      /\ \A k \in 1 .. Len(s.frames) : s.frames[k] \in RawFrames
  BY DEF Snapshots
<1>2. ASSUME NEW k \in 1 .. Len(s.frames)
      PROVE  /\ FrameFaults(s, s.frames[k]) \in Seq(Faults)
             /\ FirstFault(FrameFaults(s, s.frames[k])) = "ok" <=>
                  /\ \A i \in 1 .. Len(s.frames[k].slots) :
                       SlotFault(s, s.frames[k].slots[i]) = "ok"
                  /\ s.frames[k].sp <= Len(s.frames[k].slots)
  <2> DEFINE f == s.frames[k]
             n == Len(f.slots)
             slots == [i \in 1 .. n |-> SlotFault(s, f.slots[i])]
             last == IF f.sp > n THEN "SnapshotCorrupt" ELSE "ok"
  <2>1. n \in Nat /\ f.sp \in Nat
    BY <1>1 DEF RawFrames
  <2>2. \A i \in 1 .. n : SlotFault(s, f.slots[i]) \in Faults
    BY DEF SlotFault, Faults
  <2>3. FrameFaults(s, f) = Append(slots, last)
    BY DEF FrameFaults
  <2> HIDE DEF f, n
  <2>4. slots \in Seq(Faults) /\ Len(slots) = n /\ last \in Faults
    BY <2>1, <2>2 DEF Faults
  <2> HIDE DEF slots
  <2>5. /\ Append(slots, last) \in Seq(Faults) /\ Len(Append(slots, last)) = n + 1
        /\ \A i \in 1 .. n : Append(slots, last)[i] = slots[i]
        /\ Append(slots, last)[n + 1] = last
    BY <2>1, <2>4
  <2>6. \A i \in 1 .. n : slots[i] = SlotFault(s, f.slots[i])
    BY DEF slots
  <2>7. last = "ok" <=> f.sp <= n
    BY <2>1
  <2> HIDE DEF last
  <2>8. (\A i \in 1 .. n + 1 : Append(slots, last)[i] = "ok") <=>
          (\A i \in 1 .. n : slots[i] = "ok") /\ last = "ok"
    BY <2>1, <2>5
  <2>9. FirstFault(FrameFaults(s, f)) = "ok" <=>
          (\A i \in 1 .. n : SlotFault(s, f.slots[i]) = "ok") /\ f.sp <= n
    BY <2>3, <2>5, <2>6, <2>7, <2>8, NoFault
  <2> QED
    BY <2>3, <2>5, <2>9 DEF f, n
<1> DEFINE m == Len(s.frames)
           each == [k \in 1 .. m |-> FirstFault(FrameFaults(s, s.frames[k]))]
           last == IF s.count > m THEN "SnapshotCorrupt" ELSE "ok"
<1>3. \A k \in 1 .. m : FirstFault(FrameFaults(s, s.frames[k])) \in Faults
  BY <1>2, NoFault
<1>4. FramesFault(s) = FirstFault(Append(each, last))
  BY DEF FramesFault
<1>5. m \in Nat /\ (last = "ok" <=> s.count <= m)
  BY <1>1
<1> HIDE DEF m
<1>6. each \in Seq(Faults) /\ Len(each) = m /\ last \in Faults
      /\ \A k \in 1 .. m : each[k] = FirstFault(FrameFaults(s, s.frames[k]))
  BY <1>3, <1>5 DEF Faults
<1> HIDE DEF each, last
<1>7. /\ Append(each, last) \in Seq(Faults) /\ Len(Append(each, last)) = m + 1
      /\ \A k \in 1 .. m : Append(each, last)[k] = each[k]
      /\ Append(each, last)[m + 1] = last
  BY <1>5, <1>6
<1>8. (\A k \in 1 .. m + 1 : Append(each, last)[k] = "ok") <=>
        (\A k \in 1 .. m : each[k] = "ok") /\ last = "ok"
  BY <1>5, <1>7
<1>9. FramesFault(s) = "ok" <=>
        (\A k \in 1 .. m : FirstFault(FrameFaults(s, s.frames[k])) = "ok") /\ s.count <= m
  <2> DEFINE checks == Append(each, last)
  <2>1. checks \in Seq(Faults) /\ Len(checks) = m + 1
    BY <1>7
  <2> HIDE DEF checks
  <2>2. FirstFault(checks) = "ok" <=> \A k \in 1 .. m + 1 : checks[k] = "ok"
    BY <2>1, NoFault
  <2>3. FramesFault(s) = "ok" <=> (\A k \in 1 .. m : each[k] = "ok") /\ last = "ok"
    BY <1>4, <1>8, <2>2 DEF checks
  <2> QED
    BY <1>5, <1>6, <2>3
<1> QED
  BY <1>2, <1>9 DEF RestoreFault, m

(* A handle, however its word reads, ends somewhere. *)
LEMMA EndIsInt ==
  ASSUME NEW v, v.payload \in Word
  PROVE  EndOf(HandleOf(v)) \in Int
<1> DEFINE p == v.payload
<1>1. p \in Nat /\ Radix \in Nat /\ Radix > 1
  BY WordAssumption DEF Word, Words
<1> HIDE DEF p
<1>2. p \div Radix \in Int /\ p % Radix \in Int
  BY <1>1
<1> QED
  BY <1>1, <1>2 DEF EndOf, HandleOf, p

-----------------------------------------------------------------------------
(* Whatever was done to the bytes of a snapshot, if restore accepts it then *)
(* no stack pointer is outside its slots, no slot holds an unknown tag or a *)
(* pending value, and every handle lies in the arena that was restored      *)
(* (cont.rs restore).                                                       *)
THEOREM AcceptedIsSafe ==
  ASSUME NEW s \in Snapshots, RestoreFault(s) = "ok"
  PROVE  \A k \in 1 .. Len(s.frames) :
           /\ s.frames[k].sp <= Len(s.frames[k].slots)
           /\ \A i \in 1 .. Len(s.frames[k].slots) :
                LET v == s.frames[k].slots[i]
                IN /\ v.tag \in Tags \ {PENDING}
                   /\ IsArena(v) => EndOf(HandleOf(v)) <= Len(SubSeq(s.arena, 1, s.arenaLen))
<1>1. /\ HeaderFault(s) = "ok"
      /\ \A k \in 1 .. Len(s.frames) :
           /\ \A i \in 1 .. Len(s.frames[k].slots) : SlotFault(s, s.frames[k].slots[i]) = "ok"
           /\ s.frames[k].sp <= Len(s.frames[k].slots)
  BY AcceptedParts
<1>2. s.arenaLen <= Len(s.arena) /\ s.arenaLen \in Nat /\ s.arena \in Seq(Word)
  BY <1>1 DEF HeaderFault, Snapshots
<1>3. Len(SubSeq(s.arena, 1, s.arenaLen)) = s.arenaLen
  BY <1>2
<1>4. ASSUME NEW v \in [tag : Nat, payload : Word], SlotFault(s, v) = "ok"
      PROVE  /\ v.tag \in Tags \ {PENDING}
             /\ IsArena(v) => EndOf(HandleOf(v)) <= s.arenaLen
  <2>1. EndOf(HandleOf(v)) \in Int
    BY EndIsInt
  <2> QED
    BY <1>2, <1>4, <2>1 DEF SlotFault
<1>5. \A k \in 1 .. Len(s.frames) :
        \A i \in 1 .. Len(s.frames[k].slots) : s.frames[k].slots[i] \in [tag : Nat, payload : Word]
  <2>1. ASSUME NEW k \in 1 .. Len(s.frames)
        PROVE  s.frames[k].slots \in Seq([tag : Nat, payload : Word])
    <3>1. s.frames \in Seq(RawFrames)
      BY DEF Snapshots
    <3>2. s.frames[k] \in RawFrames
      BY <3>1, ElementOfSeq
    <3> QED
      BY <3>2 DEF RawFrames
  <2> QED
    BY <2>1, ElementOfSeq
<1> QED
  BY <1>1, <1>3, <1>4, <1>5

(* A snapshot of a machine is one of Snapshots.                             *)
LEMMA SnapshotType ==
  ASSUME NEW cells \in Seq(Word), NEW fs \in Seq(Frames)
  PROVE  /\ Snapshot(fs, cells) \in Snapshots
         /\ Snapshot(fs, cells).arena = cells
         /\ Snapshot(fs, cells).arenaLen = Len(cells)
         /\ Snapshot(fs, cells).frames = fs
<1>1. ASSUME NEW f \in Frames PROVE f \in RawFrames
  <2>1. f.slots \in Seq(Values) /\ Values \subseteq [tag : Nat, payload : Word]
    BY DEF Frames, Values, Tags
  <2>2. f.slots \in Seq([tag : Nat, payload : Word])
    BY <2>1, SeqMonotonic
  <2> QED
    BY <2>2 DEF Frames, RawFrames
<1>2. fs \in Seq(RawFrames)
  BY <1>1, SeqMonotonic
<1> QED
  BY <1>2 DEF Snapshots, Snapshot, SNAP_VERSION

(* A machine whose handles lie in its arena can be restored from its own    *)
(* snapshot, with the arena and the frames it had, unless a slot, live or   *)
(* left behind above sp, holds a pending value (cont.rs snapshot, restore). *)
THEOREM OwnSnapshot ==
  ASSUME NEW cells \in Seq(Word), NEW fs \in Seq(Frames),
         \A k \in 1 .. Len(fs) : \A i \in 1 .. Len(fs[k].slots) :
           IsArena(fs[k].slots[i]) => EndOf(HandleOf(fs[k].slots[i])) <= Len(cells)
  PROVE  LET s == Snapshot(fs, cells)
         IN /\ SubSeq(s.arena, 1, s.arenaLen) = cells /\ s.frames = fs
            /\ RestoreFault(s) = "ok" <=>
                 \A k \in 1 .. Len(fs) : \A i \in 1 .. Len(fs[k].slots) :
                   fs[k].slots[i].tag # PENDING
<1> DEFINE s == Snapshot(fs, cells)
<1>1. /\ s.arena = cells /\ s.arenaLen = Len(cells) /\ s.frames = fs
      /\ s.count = Len(fs) /\ s.magic = TRUE /\ s.version = SNAP_VERSION
  BY DEF Snapshot
<1>2. s \in Snapshots
  BY SnapshotType
<1> HIDE DEF s
<1>3. SubSeq(s.arena, 1, s.arenaLen) = cells
  BY <1>1, SubSeqFull
<1>4. HeaderFault(s) = "ok" /\ s.count <= Len(s.frames)
  BY <1>1 DEF HeaderFault
<1>5. ASSUME NEW k \in 1 .. Len(fs)
      PROVE  /\ fs[k].sp <= Len(fs[k].slots)
             /\ \A i \in 1 .. Len(fs[k].slots) :
                  SlotFault(s, fs[k].slots[i]) = "ok" <=> fs[k].slots[i].tag # PENDING
  <2>1. fs[k] \in Frames
    OBVIOUS
  <2>2. fs[k].sp <= Len(fs[k].slots) /\ fs[k].slots \in Seq(Values)
    BY <2>1 DEF Frames
  <2>4. \A i \in 1 .. Len(fs[k].slots) : fs[k].slots[i] \in Values
    BY <2>2, ElementOfSeq
  <2>3. ASSUME NEW v \in Values, IsArena(v) => EndOf(HandleOf(v)) <= Len(cells)
        PROVE  SlotFault(s, v) = "ok" <=> v.tag # PENDING
    <3>1. EndOf(HandleOf(v)) \in Int
      BY EndIsInt DEF Values
    <3>2. v.tag \in Tags /\ Len(cells) \in Nat
      BY DEF Values
    <3>3. IsArena(v) => ~(EndOf(HandleOf(v)) > s.arenaLen)
      BY <1>1, <2>3, <3>1, <3>2
    <3> QED
      BY <3>2, <3>3 DEF SlotFault
  <2> QED
    BY <2>2, <2>3, <2>4
<1>6. RestoreFault(s) = "ok" <=>
        \A k \in 1 .. Len(fs) : \A i \in 1 .. Len(fs[k].slots) :
          fs[k].slots[i].tag # PENDING
  BY <1>1, <1>2, <1>4, <1>5, AcceptedParts
<1> QED
  BY <1>1, <1>3, <1>6 DEF s

-----------------------------------------------------------------------------
(* The machines snapshots are taken of and restored into. *)

(* A machine that has not run holds nothing and owes no trap.               *)
Fresh ==
  origin = "booted" /\ steps = 0 =>
    /\ pending = <<>> /\ staged = <<>> /\ result.kind # "trap"
    /\ \A k \in 1 .. Len(frames) : SlotsIn(frames[k], Bare)

(* A machine that has issued an effect waits on the instruction that did,   *)
(* its pending value still on the stack.                                    *)
Waiting ==
  nextEffect > 1 =>
    /\ frames # <<>> /\ Fetched.op \in {"calltool", "spawn"}
    /\ \E i \in 1 .. Cur.sp : Cur.slots[i].tag = PENDING

Machines ==
  /\ origin \in {"booted", "restored", "refused"}
  /\ origin = "booted" => ~tainted
  /\ snap = <<>> => origin = "booted" /\ Waiting
  /\ ~tainted => IInv

(* The snapshot as it was taken.                                            *)
Whole(s) ==
  /\ s = Snapshot(s.frames, s.arena)
  /\ s.frames \in Seq(Frames) /\ Len(s.frames) <= MaxFrames
  /\ taken.image \in Images
  /\ \A k \in 1 .. Len(s.frames) : s.frames[k].func < Len(taken.image.funcs)
  /\ taken.result.kind \in {"none", "err", "halted", "shut", "trap"}
  /\ taken.result.kind = "halted" => s.frames = <<>>
  /\ taken.result.kind = "trap" => s.frames # <<>>
  /\ taken.issued # 0 =>
       \E k \in 1 .. Len(s.frames) : \E i \in 1 .. Len(s.frames[k].slots) :
         s.frames[k].slots[i].tag = PENDING

Stored ==
  /\ snap \in Seq(Snapshots) /\ Len(snap) <= 1
  /\ snap # <<>> =>
       /\ Len(snap[1].arena) < Radix
       /\ ~damaged => Whole(snap[1])

DInv == Machines /\ Fresh /\ Stored

-----------------------------------------------------------------------------
(* Pops and one push.                                                       *)
LEMMA PushedOne ==
  ASSUME NEW f \in Frames, NEW n \in Nat, n <= f.sp, NEW v \in Values,
         f.sp - n + 1 <= f.maxstack
  PROVE  /\ Replace(f, n, <<v>>).sp = f.sp - n + 1
         /\ Replace(f, n, <<v>>).slots[f.sp - n + 1] = v
         /\ \A i \in 1 .. f.sp - n : Replace(f, n, <<v>>).slots[i] = f.slots[i]
<1> DEFINE base == f.sp - n
           slots == [i \in 1 .. f.maxstack |->
                       IF base < i /\ i <= base + Len(<<v>>)
                       THEN <<v>>[i - base] ELSE f.slots[i]]
           g == Replace(f, n, <<v>>)
<1>1. base \in Nat /\ base + 1 <= f.maxstack /\ f.maxstack \in Nat
  BY FrameFields
<1>2. g.slots = slots /\ g.sp = base + Len(<<v>>)
  BY DEF Replace, Frames
<1>3. Len(<<v>>) = 1 /\ <<v>>[1] = v
  OBVIOUS
<1> HIDE DEF base, g
<1>4. base + 1 \in 1 .. f.maxstack /\ base + 1 - base = 1
  BY <1>1
<1>5. slots[base + 1] = v
  BY <1>1, <1>3, <1>4
<1>6. \A i \in 1 .. base : i \in 1 .. f.maxstack /\ ~(base < i)
  BY <1>1
<1>7. \A i \in 1 .. base : slots[i] = f.slots[i]
  BY <1>6
<1> QED
  BY <1>2, <1>3, <1>5, <1>7 DEF base, g

(* A machine that issues an effect never gets past it: the pending value is *)
(* no list, and an answer only goes on top of it.                           *)
LEMMA WaitingStep ==
  ASSUME IInv, Waiting, [Next]_vars
  PROVE  Waiting'
<1> DEFINE Holds == \E i \in 1 .. Cur.sp : Cur.slots[i].tag = PENDING
<1>1. image' = image
  BY ImageStays
<1>2. CASE IssueEffect
  <2> DEFINE v == PendingV(nextEffect)
             f == Rewrite(Fetched, <<v>>)
  <2>1. /\ SetTop(f) /\ Fetchable /\ FaultOf(Fetched) = "ok" /\ frames # <<>>
        /\ Fetched.op \in {"calltool", "spawn"} /\ steps < MaxSteps
    BY <1>2 DEF IssueEffect, Executing, Fetchable, Ready
  <2>2. v \in Values /\ v.tag = PENDING
    <3>1. nextEffect \in Nat /\ nextEffect < Words
      BY <2>1, LimitsAssumption, WordFacts DEF IInv, CountsOk, Fetchable, Ready
    <3> QED
      BY <3>1, PendingVType DEF PendingV
  <2>3. Left(Fetched) = 1 /\ Arity(Fetched) = 1
    <3>1. Kinds(Fetched) = <<"list">>
      BY <2>1 DEF Kinds, IntBinary
    <3> QED
      BY <2>1, <3>1 DEF Left, ComputeOps, AllocOps, IntBinary, Arity
  <2> HIDE DEF v
  <2>4. <<v>> \in Seq(Values) /\ Len(<<v>>) = 1 /\ <<v>>[1] = v
    BY <2>2
  <2>5. f \in Frames /\ f.func = Cur.func /\ f.pc = Cur.pc
    BY <2>1, <2>3, <2>4, Rewritten
  <2>6. f.sp = Cur.sp /\ f.slots[f.sp] = v /\ f.sp \in Nat \ {0}
    <3>1. /\ Cur \in Frames /\ Cur.sp \in Nat /\ Cur.maxstack \in Nat
          /\ Cur.sp <= Cur.maxstack /\ 1 <= Cur.sp
      BY <2>1, <2>3, TopFrame, FrameFields, Passed
    <3>2. Cur.sp - 1 + 1 = Cur.sp /\ Cur.sp - 1 + 1 <= Cur.maxstack
      BY <3>1
    <3>3. f = Replace(Cur, 1, <<v>>)
      BY <2>3 DEF Rewrite
    <3> QED
      BY <2>2, <3>1, <3>2, <3>3, PushedOne
  <2> HIDE DEF f
  <2>7. /\ Len(frames') = Len(frames) /\ Len(frames) \in Nat \ {0}
        /\ frames'[Len(frames)] = f
    BY <2>1, <2>5, TopShape, TopFrame, LimitsAssumption
  <2>8. frames' # <<>> /\ Cur' = f
    BY <2>7 DEF Cur
  <2>9. Fetched' = Fetched
    BY <1>1, <2>5, <2>8 DEF Fetched, Offset, FuncOf
  <2> QED
    BY <2>1, <2>2, <2>6, <2>8, <2>9 DEF Waiting
<1>3. CASE ~IssueEffect /\ nextEffect > 1
  <2>1. frames # <<>> /\ Fetched.op \in {"calltool", "spawn"} /\ Holds
    BY <1>3 DEF Waiting
  <2>2. CASE frames' = frames
    <3>1. Fetched' = Fetched /\ Cur' = Cur
      BY <1>1, <2>2 DEF Fetched, Offset, FuncOf, Cur
    <3> QED
      BY <2>1, <2>2, <3>1 DEF Waiting
  <2>3. CASE frames' # frames
    <3>1. ~Execute
      BY <1>3, <2>1 DEF Execute, Compute, Allocate, Branch, Switch, Call, TailCall, Ret,
         Halt, Suspend, AskOracle, QueryQ, Fork, Commit, Abort, Meter, CtxPush, CtxPop,
         Executing, ComputeOps, AllocOps, IntBinary
    <3>2. Answer
      BY <2>3, <3>1 DEF Next, Internal, Host, Stopped, ReturnTrap, ReturnHalt, ReturnEmpty,
         StepLimit, PcEscape, Fault, Die, Resume, Shutdown, machine, vars
    <3>3. PICK v \in HostValues :
            CanReplace(Cur, 0, <<v>>) /\ SetTop(Replace(Cur, 0, <<v>>))
      BY <2>3, <3>2 DEF Answer, Die
    <3> DEFINE f == Replace(Cur, 0, <<v>>)
    <3>4. << v >> \in Seq(Values) /\ Len(<< v >>) = 1 /\ Cur \in Frames /\ Cur.sp \in Nat
      BY <2>1, TopFrame, FrameFields, LimitsAssumption
    <3>5. Cur.sp - 0 + Len(<< v >>) <= Cur.maxstack /\ 0 <= Cur.sp
      BY <3>3, <3>4 DEF CanReplace
    <3>6. f \in Frames /\ f.func = Cur.func /\ f.pc = Cur.pc
      <4> DEFINE c == Cur
                 vs == <<v>>
      <4>1. /\ c \in Frames /\ vs \in Seq(Values) /\ 0 \in Nat /\ 0 <= c.sp
            /\ c.sp - 0 + Len(vs) <= c.maxstack
        BY <3>4, <3>5
      <4> HIDE DEF c, vs
      <4> QED
        BY <4>1, ReplaceType DEF c, vs
    <3>7. f.sp = Cur.sp + 1 /\ \A i \in 1 .. Cur.sp : f.slots[i] = Cur.slots[i]
      <4>1. v \in Values /\ Cur.sp - 0 + 1 <= Cur.maxstack /\ Cur.sp - 0 = Cur.sp
        BY <3>4, <3>5, LimitsAssumption
      <4> QED
        BY <3>4, <3>5, <4>1, PushedOne
    <3>8. SetTop(f)
      BY <3>3
    <3> HIDE DEF f
    <3>9. /\ Len(frames') = Len(frames) /\ Len(frames) \in Nat \ {0}
          /\ frames'[Len(frames)] = f
      BY <2>1, <3>6, <3>8, TopShape, TopFrame, LimitsAssumption
    <3>10. frames' # <<>> /\ Cur' = f
      BY <3>9 DEF Cur
    <3>11. Fetched' = Fetched
      BY <1>1, <3>6, <3>10 DEF Fetched, Offset, FuncOf
    <3>12. \E i \in 1 .. f.sp : f.slots[i].tag = PENDING
      BY <2>1, <3>4, <3>7
    <3> QED
      BY <2>1, <3>10, <3>11, <3>12 DEF Waiting
  <2> QED
    BY <2>2, <2>3
<1>4. CASE ~IssueEffect /\ ~(nextEffect > 1)
  <2>1. nextEffect' = nextEffect
    BY <1>4, EffectsStay
  <2> QED
    BY <1>4, <2>1 DEF Waiting
<1> QED
  BY <1>2, <1>3, <1>4

-----------------------------------------------------------------------------
(* Each step preserves DInv. *)

(* Every machine starts alike.                                              *)
LEMMA FreshMachine ==
  ASSUME Init
  PROVE  /\ IInv /\ pending = <<>> /\ staged = <<>> /\ result.kind # "trap"
         /\ nextEffect = 1 /\ call = "idle"
         /\ \A k \in 1 .. Len(frames) : SlotsIn(frames[k], Bare)
<1>1. IInv
  BY InitHolds
<1>2. HoldsOnly(Bare)
  BY InitKnown DEF Known
<1> QED
  BY <1>1, <1>2 DEF Init, HoldsOnly

LEMMA BootInit == ASSUME Boot PROVE Init'
  BY DEF Boot, Init, Ledger!Open

LEMMA FreshNext ==
  Init' =>
    /\ IInv' /\ pending' = <<>> /\ staged' = <<>> /\ result'.kind # "trap"
    /\ nextEffect' = 1 /\ call' = "idle"
    /\ \A k \in 1 .. Len(frames') : SlotsIn(frames'[k], Bare)
<1> DEFINE F == /\ IInv /\ pending = <<>> /\ staged = <<>> /\ result.kind # "trap"
                /\ nextEffect = 1 /\ call = "idle"
                /\ \A k \in 1 .. Len(frames) : SlotsIn(frames[k], Bare)
<1>1. Init => F
  BY FreshMachine
<1> HIDE DEF F
<1>2. Init' => F'
  BY <1>1, PTL
<1> QED
  BY <1>2 DEF F

LEMMA DurableStarts == DurableInit => DInv
<1> SUFFICES ASSUME DurableInit PROVE DInv
  OBVIOUS
<1>1. Init /\ snap = <<>> /\ origin = "booted" /\ tainted = FALSE
  BY DEF DurableInit
<1>2. << >> \in Seq(Snapshots) /\ Len(<< >>) = 0
  OBVIOUS
<1> QED
  BY <1>1, <1>2, FreshMachine DEF DInv, Machines, Fresh, Stored, Waiting

(* What a machine that has counted no step does when it is called.          *)
LEMMA FreshStays ==
  ASSUME Internal \/ Host, steps = 0, steps' = 0, pending = <<>>,
         result.kind # "trap"
  PROVE  /\ frames' = frames /\ staged' = staged /\ pending' = <<>>
         /\ result'.kind # "trap"
<1>1. ~Execute
  BY DEF Execute, Compute, Allocate, Branch, Switch, Call, TailCall, Ret, Halt,
     IssueEffect, Suspend, AskOracle, QueryQ, Fork, Commit, Abort, Meter, CtxPush, CtxPop,
     Executing
<1>2. ~(StepLimit \/ PcEscape \/ Fault) /\ ~ReturnTrap /\ ~Answer
  BY DEF StepLimit, PcEscape, Fault, ReturnTrap, Answer, Trapped
<1>3. CASE ReturnHalt \/ ReturnEmpty
  BY <1>3 DEF ReturnHalt, ReturnEmpty, Return, machine, store
<1>4. CASE Resume \/ Shutdown
  BY <1>4 DEF Resume, Shutdown, machine
<1> QED
  BY <1>1, <1>2, <1>3, <1>4 DEF Internal, Host

(* Steps are counted up.                                                    *)
LEMMA StepsCount ==
  ASSUME Internal \/ Host PROVE steps' = steps \/ steps' = steps + 1
<1>1. CASE Execute
  BY <1>1 DEF Execute, Compute, Allocate, Branch, Switch, Call, TailCall, Ret, Halt,
     IssueEffect, Suspend, AskOracle, QueryQ, Fork, Commit, Abort, Meter, CtxPush, CtxPop,
     Executing
<1>2. CASE ReturnTrap \/ ReturnHalt \/ ReturnEmpty \/ StepLimit \/ PcEscape \/ Fault
  BY <1>2 DEF ReturnTrap, ReturnHalt, ReturnEmpty, StepLimit, PcEscape, Fault, machine
<1>3. CASE Host
  BY <1>3 DEF Host, Resume, Answer, Shutdown, machine
<1> QED
  BY <1>1, <1>2, <1>3 DEF Internal

(* The machine runs.                                                        *)
LEMMA RunKeeps ==
  ASSUME DInv, Run PROVE DInv'
<1>1. /\ Internal \/ Host
      /\ UNCHANGED <<snap, taken, damaged, boots, origin, tainted>>
  BY DEF Run, storage
<1>2. Stored'
  BY <1>1 DEF DInv, Stored, Whole
<1>3. CASE tainted
  <2>1. origin # "booted" /\ snap # <<>>
    BY <1>3 DEF DInv, Machines
  <2> QED
    BY <1>1, <1>2, <1>3, <2>1 DEF DInv, Machines, Fresh
<1>4. CASE ~tainted
  <2>1. IInv /\ [Next]_vars
    BY <1>1, <1>4 DEF DInv, Machines, Next
  <2>2. IInv'
    BY <2>1, StepKeeps
  <2>3. snap' = <<>> => origin' = "booted" /\ Waiting'
    BY <1>1, <2>1, WaitingStep DEF DInv, Machines
  <2>4. Fresh'
    <3>1. SUFFICES ASSUME origin = "booted", steps' = 0
                   PROVE  /\ pending' = <<>> /\ staged' = <<>> /\ result'.kind # "trap"
                          /\ \A k \in 1 .. Len(frames') : SlotsIn(frames'[k], Bare)
      BY <1>1 DEF Fresh
    <3>2. steps = 0
      BY <1>1, <2>1, <3>1, StepsCount DEF IInv, CountsOk
    <3>3. /\ pending = <<>> /\ staged = <<>> /\ result.kind # "trap"
          /\ \A k \in 1 .. Len(frames) : SlotsIn(frames[k], Bare)
      BY <3>1, <3>2 DEF DInv, Fresh
    <3> QED
      BY <1>1, <3>1, <3>2, <3>3, FreshStays
  <2> QED
    BY <1>1, <1>2, <2>2, <2>3, <2>4 DEF DInv, Machines
<1> QED
  BY <1>3, <1>4

(* A machine whose frames are its own always finds its function.            *)
LEMMA PanicKeeps ==
  ASSUME DInv, NoSuchFunction PROVE DInv'
<1>1. /\ UNCHANGED <<snap, taken, damaged, boots, origin, tainted>>
      /\ Ready /\ ~(Cur.func < Len(image.funcs))
  BY DEF NoSuchFunction, FuncExists, storage
<1>2. tainted
  <2>1. ~IInv
    BY <1>1, TopFrame DEF Ready
  <2> QED
    BY <2>1 DEF DInv, Machines
<1>3. origin # "booted" /\ snap # <<>>
  BY <1>2 DEF DInv, Machines
<1>4. Stored'
  BY <1>1 DEF DInv, Stored, Whole
<1> QED
  BY <1>1, <1>2, <1>3, <1>4 DEF DInv, Machines, Fresh

(* A snapshot is taken of the first machine.                                *)
LEMMA TakeKeeps ==
  ASSUME DInv, Take PROVE DInv'
<1> DEFINE s == Snapshot(frames, arena)
<1>1. /\ call = "idle" /\ snap = <<>> /\ snap' = <<s>>
      /\ taken' = [image |-> image, issued |-> nextEffect - 1, result |-> result]
      /\ UNCHANGED <<vars, damaged, boots, origin, tainted>>
  BY DEF Take
<1>2. IInv /\ Waiting /\ ~tainted /\ origin = "booted"
  BY <1>1 DEF DInv, Machines
<1>3. /\ arena \in Seq(Word) /\ Len(arena) < Radix /\ frames \in Seq(Frames)
      /\ Len(frames) <= MaxFrames
      /\ \A k \in 1 .. Len(frames) : frames[k].func < Len(image.funcs)
  BY <1>2 DEF IInv, FramesOk, StoreOk
<1>4. /\ s \in Snapshots /\ s.arena = arena /\ s.arenaLen = Len(arena)
      /\ s.frames = frames
  BY <1>3, SnapshotType
<1>5. nextEffect - 1 # 0 =>
        \E k \in 1 .. Len(frames) : \E i \in 1 .. Len(frames[k].slots) :
          frames[k].slots[i].tag = PENDING
  <2>1. SUFFICES ASSUME nextEffect - 1 # 0
                 PROVE  \E k \in 1 .. Len(frames) : \E i \in 1 .. Len(frames[k].slots) :
                          frames[k].slots[i].tag = PENDING
    OBVIOUS
  <2>2. nextEffect > 1
    BY <1>2, <2>1 DEF IInv, CountsOk
  <2>3. frames # <<>> /\ \E i \in 1 .. Cur.sp : Cur.slots[i].tag = PENDING
    BY <1>2, <2>2 DEF Waiting
  <2>4. Len(frames) \in 1 .. Len(frames) /\ Cur \in Frames
    BY <1>2, <2>3, TopFrame, LimitsAssumption
  <2>5. Cur.sp \in Nat /\ Cur.sp <= Len(Cur.slots) /\ Len(Cur.slots) \in Nat
    BY <2>4, FrameFields
  <2>6. \E i \in 1 .. Len(Cur.slots) : Cur.slots[i].tag = PENDING
    BY <2>3, <2>5
  <2> QED
    BY <2>4, <2>6 DEF Cur
<1> HIDE DEF s
<1>6. /\ result.kind \in {"none", "err", "halted", "shut", "trap"}
      /\ result.kind = "halted" => frames = <<>>
      /\ result.kind = "trap" => frames # <<>>
      /\ image \in Images
  BY <1>1, <1>2 DEF IInv, ReplyOk
<1>7. Whole(s)'
  <2>1. s' = s
    BY <1>1 DEF s, vars
  <2>2. /\ taken'.image = image /\ taken'.issued = nextEffect - 1 /\ taken'.result = result
    BY <1>1
  <2>3. s = Snapshot(s.frames, s.arena)
    BY <1>4 DEF s
  <2> QED
    BY <1>3, <1>4, <1>5, <1>6, <2>1, <2>2, <2>3 DEF Whole
<1>8. Stored'
  <2>1. s' = s
    BY <1>1 DEF s, vars
  <2>2. <<s>> \in Seq(Snapshots) /\ Len(<<s>>) = 1 /\ <<s>>[1] = s
    BY <1>4
  <2>3. snap'[1] = s'
    BY <1>1, <2>1
  <2>4. Whole(snap[1])'
    BY <1>7, <2>1, <2>3 DEF Whole
  <2> QED
    BY <1>1, <1>3, <1>4, <2>1, <2>2, <2>4 DEF Stored
<1>9. IInv' /\ Fresh'
  <2>1. IInv'
    BY <1>1, <1>2, StepKeeps
  <2> QED
    BY <1>1, <2>1 DEF DInv, Fresh, vars
<1>10. snap' # <<>>
  BY <1>1
<1> QED
  BY <1>1, <1>2, <1>8, <1>9, <1>10 DEF DInv, Machines

(* A new machine.                                                           *)
LEMMA BootKeeps ==
  ASSUME DInv, Boot PROVE DInv'
<1>1. /\ snap # <<>> /\ origin' = "booted" /\ tainted' = FALSE
      /\ UNCHANGED <<snap, taken, damaged>>
  BY DEF Boot, storage
<1>2. Stored'
  BY <1>1 DEF DInv, Stored, Whole
<1> QED
  BY <1>1, <1>2, BootInit, FreshNext DEF DInv, Machines, Fresh

(* A field of a frame in storage changes.                                   *)
LEMMA FrameNoise ==
  ASSUME NEW s \in Snapshots, NEW k \in DOMAIN s.frames, NEW g \in RawFrames
  PROVE  [s EXCEPT !.frames[k] = g] \in Snapshots
         /\ [s EXCEPT !.frames[k] = g].arena = s.arena
<1> DEFINE r == [s EXCEPT !.frames[k] = g]
<1>1. s.frames \in Seq(RawFrames)
  BY DEF Snapshots
<1>2. [s.frames EXCEPT ![k] = g] \in Seq(RawFrames)
  BY <1>1
<1>3. r = [s EXCEPT !.frames = [s.frames EXCEPT ![k] = g]]
  BY DEF Snapshots
<1> QED
  BY <1>2, <1>3 DEF Snapshots

LEMMA FieldType ==
  ASSUME NEW f \in RawFrames, NEW g \in ChangedFields(f)
  PROVE  g \in RawFrames
<1>1. /\ f.slots \in Seq([tag : Nat, payload : Word])
      /\ Noise \subseteq Word /\ Noise \subseteq Nat
  BY NoiseAssumption, WordFacts DEF Word, RawFrames
<1>2. ASSUME NEW w \in Noise,
             g \in {[f EXCEPT !.func = w], [f EXCEPT !.pc = w],
                   [f EXCEPT !.sp = w], [f EXCEPT !.returns = w]}
      PROVE  g \in RawFrames
  BY <1>1, <1>2 DEF RawFrames
<1>3. ASSUME NEW w \in Noise, NEW i \in DOMAIN f.slots,
             g \in {[f EXCEPT !.slots[i].tag = w], [f EXCEPT !.slots[i].payload = w]}
      PROVE  g \in RawFrames
  <2>1. i \in 1 .. Len(f.slots)
    BY <1>1
  <2>2. f.slots[i] \in [tag : Nat, payload : Word]
    BY <1>1, <2>1, ElementOfSeq
  <2>3. PICK v \in {[f.slots[i] EXCEPT !.tag = w], [f.slots[i] EXCEPT !.payload = w]} :
          g = [f EXCEPT !.slots = [f.slots EXCEPT ![i] = v]]
    BY <1>3
  <2>4. v \in [tag : Nat, payload : Word]
    BY <1>1, <2>2, <2>3
  <2>5. [f.slots EXCEPT ![i] = v] \in Seq([tag : Nat, payload : Word])
    BY <1>1, <2>4
  <2> QED
    BY <2>3, <2>5 DEF RawFrames
<1>4. \/ \E w \in Noise : g \in {[f EXCEPT !.func = w], [f EXCEPT !.pc = w],
                                [f EXCEPT !.sp = w], [f EXCEPT !.returns = w]}
      \/ \E w \in Noise, i \in DOMAIN f.slots :
           g \in {[f EXCEPT !.slots[i].tag = w], [f EXCEPT !.slots[i].payload = w]}
  BY DEF ChangedFields
<1> QED
  BY <1>2, <1>3, <1>4

LEMMA DamageType ==
  ASSUME NEW s \in Snapshots, NEW r \in Damages(s)
  PROVE  r \in Snapshots /\ Len(r.arena) <= Len(s.arena)
<1>1. /\ s.arena \in Seq(Word) /\ s.frames \in Seq(RawFrames)
      /\ Len(s.arena) \in Nat /\ Len(s.frames) \in Nat
  BY DEF Snapshots
<1>2. Noise \subseteq Word
  BY NoiseAssumption
<1> DEFINE Fits == r \in Snapshots /\ Len(r.arena) <= Len(s.arena)
<1>3. CASE r \in BadHeaders(s)
  <2>1. [s EXCEPT !.magic = FALSE] \in Snapshots /\ [s EXCEPT !.magic = FALSE].arena = s.arena
    BY DEF Snapshots
  <2>2. [s EXCEPT !.version = 2] \in Snapshots /\ [s EXCEPT !.version = 2].arena = s.arena
    BY DEF Snapshots
  <2>3. r \in Snapshots /\ r.arena = s.arena
    BY <1>3, <2>1, <2>2, Zenon DEF BadHeaders
  <2> QED
    BY <1>1, <2>3
<1>4. CASE r \in ShortArenas(s)
  <2>1. PICK n \in 0 .. Len(s.arena) - 1 :
          r = [s EXCEPT !.arena = SubSeq(@, 1, n), !.frames = <<>>]
    BY <1>4, Zenon DEF ShortArenas
  <2>2. SubSeq(s.arena, 1, n) \in Seq(Word) /\ Len(SubSeq(s.arena, 1, n)) = n
    BY <1>1, <2>1
  <2>3. << >> \in Seq(RawFrames)
    OBVIOUS
  <2>4. r \in Snapshots /\ r.arena = SubSeq(s.arena, 1, n)
    BY <2>1, <2>2, <2>3 DEF Snapshots
  <2> QED
    BY <1>1, <2>1, <2>2, <2>4
<1>5. CASE r \in ShortLists(s)
  <2>1. PICK n \in 0 .. Len(s.frames) - 1 : r = [s EXCEPT !.frames = SubSeq(@, 1, n)]
    BY <1>5, Zenon DEF ShortLists
  <2>2. SubSeq(s.frames, 1, n) \in Seq(RawFrames)
    BY <1>1, <2>1
  <2>3. r \in Snapshots /\ r.arena = s.arena
    BY <2>1, <2>2 DEF Snapshots
  <2> QED
    BY <1>1, <2>3
<1>6. CASE r \in ChangedCells(s)
  <2>1. PICK i \in DOMAIN s.arena, w \in Noise :
          r = [s EXCEPT !.arena = [s.arena EXCEPT ![i] = w]]
    BY <1>6 DEF ChangedCells
  <2>2. [s.arena EXCEPT ![i] = w] \in Seq(Word) /\ Len([s.arena EXCEPT ![i] = w]) = Len(s.arena)
    BY <1>1, <1>2
  <2>3. r \in Snapshots /\ r.arena = [s.arena EXCEPT ![i] = w]
    BY <2>1, <2>2 DEF Snapshots
  <2> QED
    BY <1>1, <2>2, <2>3
<1>7. CASE r \in ChangedFrames(s)
  <2>1. PICK k \in DOMAIN s.frames :
          r \in {[s EXCEPT !.frames[k] = f] : f \in ChangedFields(s.frames[k])}
    BY <1>7 DEF ChangedFrames
  <2>2. PICK f \in ChangedFields(s.frames[k]) : r = [s EXCEPT !.frames[k] = f]
    BY <2>1
  <2>3. k \in 1 .. Len(s.frames)
    BY <1>1
  <2>4. f \in RawFrames
    BY <1>1, <2>2, <2>3, ElementOfSeq, FieldType
  <2>5. r \in Snapshots /\ r.arena = s.arena
    BY <2>2, <2>4, FrameNoise
  <2> QED
    BY <1>1, <2>5
<1> QED
  BY <1>3, <1>4, <1>5, <1>6, <1>7 DEF Damages

(* Storage damages the snapshot.                                            *)
LEMMA DamageKeeps ==
  ASSUME DInv, Damage PROVE DInv'
<1>1. PICK s \in Damages(snap[1]) : snap' = <<s>>
  BY DEF Damage
<1>2. /\ snap # <<>> /\ damaged' = TRUE /\ UNCHANGED <<vars, taken, boots, history>>
  BY DEF Damage
<1>3. snap[1] \in Snapshots /\ Len(snap[1].arena) < Radix
  BY <1>2 DEF DInv, Stored
<1>4. s \in Snapshots /\ Len(s.arena) <= Len(snap[1].arena)
  BY <1>3, DamageType
<1>5. Len(s.arena) < Radix
  <2>1. s.arena \in Seq(Word) /\ snap[1].arena \in Seq(Word)
    BY <1>3, <1>4 DEF Snapshots
  <2> QED
    BY <1>3, <1>4, <2>1, WordFacts
<1>6. snap' # <<>> /\ snap'[1] = s /\ snap' \in Seq(Snapshots) /\ Len(snap') = 1
  BY <1>1, <1>4
<1>7. Stored'
  BY <1>2, <1>5, <1>6 DEF Stored
<1>8. Machines' /\ Fresh'
  <2>1. ~tainted => IInv'
    BY <1>2, StutterKeeps DEF DInv, Machines
  <2> QED
    BY <1>2, <1>6, <2>1 DEF DInv, Machines, Fresh, history, vars
<1> QED
  BY <1>7, <1>8 DEF DInv

(* Between calls no trap waits to be returned.                              *)
LEMMA IdleMachine ==
  ASSUME IInv, call = "idle" PROVE pending = <<>> /\ halt = <<>>
  BY DEF IInv, OutcomeOk

(* What restore puts in the arena's place.                                  *)
LEMMA RestoredCells ==
  ASSUME NEW s \in Snapshots, HeaderFault(s) = "ok", Len(s.arena) < Radix
  PROVE  /\ SubSeq(s.arena, 1, s.arenaLen) \in Seq(Word)
         /\ Len(SubSeq(s.arena, 1, s.arenaLen)) = s.arenaLen
         /\ Len(SubSeq(s.arena, 1, s.arenaLen)) < Radix
         /\ s.arenaLen = Len(s.arena) => SubSeq(s.arena, 1, s.arenaLen) = s.arena
<1>1. /\ s.arena \in Seq(Word) /\ s.arenaLen \in Nat /\ Len(s.arena) \in Nat
      /\ s.arenaLen <= Len(s.arena)
  BY DEF Snapshots, HeaderFault
<1>2. Len(SubSeq(s.arena, 1, s.arenaLen)) = s.arenaLen
      /\ SubSeq(s.arena, 1, s.arenaLen) \in Seq(Word)
  BY <1>1
<1>3. s.arenaLen < Radix
  BY <1>1, WordFacts
<1>4. s.arenaLen = Len(s.arena) => SubSeq(s.arena, 1, s.arenaLen) = s.arena
  BY <1>1, SubSeqFull
<1> QED
  BY <1>2, <1>3, <1>4

(* A machine is restored, or the restore is refused.                        *)
LEMMA RestoreKeeps ==
  ASSUME DInv, Restore PROVE DInv'
<1> DEFINE s == snap[1]
           accepted == RestoreFault(s) = "ok"
           cells == SubSeq(s.arena, 1, s.arenaLen)
<1>1. /\ call = "idle" /\ snap # <<>> /\ origin = "booted"
      /\ UNCHANGED <<image, staged, forkDepth, budget, segments, steps, outcome, call,
                     storage, boots>>
  BY DEF Restore
<1>2. /\ arena' = IF HeaderFault(s) = "ok" THEN cells ELSE arena
      /\ frames' = IF accepted THEN s.frames ELSE frames
      /\ result' = IF accepted THEN taken.result ELSE result
      /\ origin' \in {"restored", "refused"}
      /\ ~tainted' => /\ accepted => ~damaged /\ image = taken.image
                      /\ arena' # arena => steps = 0
  BY DEF Restore, Untouched
<1>3. IInv /\ pending = <<>> /\ halt = <<>>
  BY <1>1, IdleMachine DEF DInv, Machines
<1>4. s \in Snapshots /\ Len(s.arena) < Radix /\ (~damaged => Whole(s))
  BY <1>1 DEF DInv, Stored
<1>5. Stored'
  BY <1>1 DEF DInv, Stored, Whole, storage
<1>6. ~tainted' => IInv'
  <2>1. SUFFICES ASSUME ~tainted' PROVE IInv'
    OBVIOUS
  <2>2. StoreOk'
    <3>1. CASE arena' = arena
      BY <1>1, <1>3, <3>1 DEF IInv, StoreOk
    <3>2. CASE arena' # arena
      <4>1. HeaderFault(s) = "ok" /\ arena' = cells
        BY <1>2, <3>2
      <4>2. cells \in Seq(Word) /\ Len(cells) < Radix
        BY <1>4, <4>1, RestoredCells
      <4>3. staged = <<>>
        BY <1>1, <1>2, <2>1, <3>2 DEF DInv, Fresh
      <4> QED
        BY <1>1, <1>3, <4>1, <4>2, <4>3 DEF IInv, StoreOk
    <3> QED
      BY <3>1, <3>2
  <2>3. FramesOk' /\ ReplyOk'
    <3>1. CASE accepted
      <4>1. Whole(s) /\ taken.image = image
        BY <1>2, <1>4, <2>1, <3>1
      <4> HIDE DEF s
      <4> QED
        BY <1>1, <1>2, <3>1, <4>1 DEF FramesOk, ReplyOk, Whole
    <3>2. CASE ~accepted
      BY <1>1, <1>2, <1>3, <3>2 DEF IInv, FramesOk, ReplyOk
    <3> QED
      BY <3>1, <3>2
  <2>4. image' \in Images /\ BudgetOk' /\ RingOk' /\ CountsOk' /\ OutcomeOk'
    BY <1>1, <1>3 DEF IInv, BudgetOk, RingOk, CountsOk, OutcomeOk, EffectPending,
       budget, outcome, store
  <2> QED
    BY <2>2, <2>3, <2>4 DEF IInv
<1> QED
  BY <1>1, <1>2, <1>5, <1>6 DEF DInv, Machines, Fresh, storage

LEMMA DStepKeeps == DInv /\ [DurableNext]_all => DInv'
<1> SUFFICES ASSUME DInv, [DurableNext]_all PROVE DInv'
  OBVIOUS
<1>1. CASE Run \/ NoSuchFunction
  BY <1>1, RunKeeps, PanicKeeps
<1>2. CASE Take \/ Damage
  BY <1>2, TakeKeeps, DamageKeeps
<1>3. CASE Boot \/ Restore
  BY <1>3, BootKeeps, RestoreKeeps
<1>4. CASE Finished \/ UNCHANGED all
  <2>1. UNCHANGED <<vars, storage, boots, history>>
    BY <1>4 DEF Finished, Stopped, all
  <2>2. ~tainted => IInv'
    BY <2>1, StutterKeeps DEF DInv, Machines
  <2>3. Machines'
    <3>1. Waiting => Waiting'
      BY <2>1 DEF Waiting, vars, Fetched, Offset, FuncOf, Cur
    <3> QED
      BY <2>1, <2>2, <3>1 DEF DInv, Machines, storage, history
  <2>4. Fresh' /\ Stored'
    BY <2>1 DEF DInv, Fresh, Stored, Whole, vars, storage, history
  <2> QED
    BY <2>3, <2>4 DEF DInv
<1> QED
  BY <1>1, <1>2, <1>3, <1>4 DEF DurableNext

LEMMA DurableInvariant == DurableSpec => []DInv
<1> QED
  BY DurableStarts, DStepKeeps, PTL DEF DurableSpec

-----------------------------------------------------------------------------
(* Whatever became of the bytes in storage, of whatever image the snapshot  *)
(* was and into whatever machine it goes: when restore accepts it, every    *)
(* handle in the slots of its frames ends inside the arena that was         *)
(* restored with them (cont.rs restore).                                    *)
THEOREM RestoredInside == DurableSpec => RestoredHandlesInside
<1> DEFINE Promise == origin = "booted" /\ origin' = "restored" =>
                        \A v \in Slots(frames') : IsArena(v) => EndOf(HandleOf(v)) <= Len(arena')
<1>1. DInv /\ [DurableNext]_all => Promise
  <2> SUFFICES ASSUME DInv, [DurableNext]_all, origin = "booted", origin' = "restored",
                      NEW v \in Slots(frames'), IsArena(v)
               PROVE  EndOf(HandleOf(v)) <= Len(arena')
    OBVIOUS
  <2> DEFINE s == snap[1]
  <2>1. Restore
    BY DEF DurableNext, Run, NoSuchFunction, Take, Damage, Boot, Finished, all, history
  <2>2. /\ RestoreFault(s) = "ok" /\ frames' = s.frames /\ HeaderFault(s) = "ok"
        /\ arena' = SubSeq(s.arena, 1, s.arenaLen) /\ snap # <<>>
    BY <2>1 DEF Restore, RestoreFault
  <2>3. s \in Snapshots
    BY <2>2 DEF DInv, Stored
  <2> HIDE DEF s
  <2>4. PICK k \in DOMAIN s.frames : v \in ToSet(s.frames[k].slots)
    BY <2>2 DEF Slots
  <2>5. s.frames \in Seq(RawFrames) /\ k \in 1 .. Len(s.frames)
    BY <2>3, <2>4 DEF Snapshots
  <2>6. s.frames[k].slots \in Seq([tag : Nat, payload : Word])
    <3>1. s.frames[k] \in RawFrames
      BY <2>5, ElementOfSeq
    <3> QED
      BY <3>1 DEF RawFrames
  <2>7. PICK i \in 1 .. Len(s.frames[k].slots) : v = s.frames[k].slots[i]
    BY <2>4, <2>6 DEF ToSet
  <2> QED
    BY <2>2, <2>3, <2>5, <2>7, AcceptedIsSafe
<1>2. DInv /\ [DurableNext]_all => [Promise]_all
  BY <1>1
<1> HIDE DEF Promise
<1>3. DurableSpec => [][Promise]_all
  BY <1>2, DurableInvariant, PTL DEF DurableSpec
<1> QED
  BY <1>3 DEF RestoredHandlesInside, Promise

(* A snapshot that restore accepts was taken of a machine that had issued   *)
(* no effect: an effect leaves a pending value on the stack that nothing    *)
(* takes off, so the counter that restarts at 1 repeats no id (interp.rs    *)
(* calltool, spawn; cont.rs restore).                                       *)
LEMMA AcceptedIssuedNothing ==
  ASSUME DInv, ~damaged, Accepts
  PROVE  taken.issued = 0
<1> DEFINE s == snap[1]
<1>1. s \in Snapshots /\ Whole(s) /\ RestoreFault(s) = "ok"
  BY DEF DInv, Stored, Accepts
<1> HIDE DEF s
<1>2. SUFFICES ASSUME taken.issued # 0 PROVE FALSE
  OBVIOUS
<1>3. PICK k \in 1 .. Len(s.frames) : \E i \in 1 .. Len(s.frames[k].slots) :
        s.frames[k].slots[i].tag = PENDING
  BY <1>1, <1>2 DEF Whole
<1> QED
  BY <1>1, <1>3, AcceptedIsSafe

THEOREM NothingIssued == DurableSpec => []RestorableIssuedNothing
<1>1. DInv => RestorableIssuedNothing
  BY AcceptedIssuedNothing DEF RestorableIssuedNothing
<1> QED
  BY <1>1, DurableInvariant, PTL

-----------------------------------------------------------------------------
(* What the stored snapshot's handles denote is kept with it, for programs  *)
(* that do not commit a fork and hosts that bring no handle of their own.   *)
NoneCommits(img) == \A k \in DOMAIN img.code : img.code[k].op # "commit"

StoredKnown ==
  snap # <<>> /\ ~damaged /\ NoneCommits(taken.image) =>
    \E G \in SUBSET Values :
      /\ Bare \subseteq G /\ Closed(G, snap[1].arena)
      /\ \A k \in 1 .. Len(snap[1].frames) : SlotsIn(snap[1].frames[k], G)
      /\ taken.issued = 0 => \A v \in G : v.tag # PENDING

KInv == (~tainted => MemoryOk) /\ StoredKnown

LEMMA CommitUse == ASSUME image \in Images PROVE Uses("commit") <=> ~NoneCommits(image)
<1>1. image.code \in Seq(Insn)
  BY ImageFacts
<1>2. DOMAIN image.code = 1 .. Len(image.code)
  BY <1>1
<1> QED
  BY <1>2 DEF Uses, NoneCommits

LEMMA InitMemory == Init => MemoryOk
<1>1. Bare \in SUBSET Values
  BY DEF Bare
<1> QED
  BY <1>1, InitKnown DEF MemoryOk

LEMMA MemoryNext == Init' => MemoryOk'
<1> QED
  BY InitMemory, PTL

LEMMA RunKnows ==
  ASSUME HostValues \subseteq Bare, DInv, KInv, Run \/ NoSuchFunction PROVE KInv'
<1>1. /\ UNCHANGED <<snap, taken, damaged, tainted>>
      /\ Run => Internal \/ Host
  BY DEF Run, NoSuchFunction, storage
<1>2. StoredKnown'
  BY <1>1 DEF KInv, StoredKnown
<1>3. CASE ~tainted
  <2>1. IInv /\ MemoryOk
    BY <1>3 DEF DInv, Machines, KInv
  <2>2. CASE Run
    BY <1>1, <1>2, <2>1, <2>2, MemoryStep DEF Next, KInv
  <2>3. CASE NoSuchFunction
    <3>1. ~IInv
      BY <2>3, TopFrame DEF NoSuchFunction, FuncExists, Ready
    <3> QED
      BY <2>1, <3>1
  <2> QED
    BY <2>2, <2>3
<1> QED
  BY <1>1, <1>2, <1>3 DEF KInv

LEMMA TakeKnows ==
  ASSUME HostValues \subseteq Bare, DInv, KInv, Take PROVE KInv'
<1> DEFINE s == Snapshot(frames, arena)
<1>1. /\ snap = <<>> /\ snap' = <<s>>
      /\ taken'.image = image /\ taken'.issued = nextEffect - 1
      /\ UNCHANGED <<vars, damaged, tainted>>
  BY DEF Take
<1>2. IInv /\ MemoryOk /\ ~tainted
  BY <1>1 DEF DInv, Machines, KInv
<1>3. s.arena = arena /\ s.frames = frames
  BY DEF Snapshot
<1>4. MemoryOk'
  BY <1>1, <1>2, MemoryStep
<1>5. StoredKnown'
  <2>1. SUFFICES ASSUME NoneCommits(image)
                 PROVE  \E G \in SUBSET Values :
                          /\ Bare \subseteq G /\ Closed(G, arena)
                          /\ \A k \in 1 .. Len(frames) : SlotsIn(frames[k], G)
                          /\ nextEffect - 1 = 0 => \A v \in G : v.tag # PENDING
    <3>1. snap'[1].arena = arena /\ snap'[1].frames = frames
      BY <1>1, <1>3
    <3> QED
      BY <1>1, <3>1 DEF StoredKnown
  <2>2. ~Uses("commit")
    BY <1>2, <2>1, CommitUse DEF IInv
  <2>3. PICK G \in SUBSET Values : Known(G) /\ IssuedOnly(G)
    BY <1>2, <2>2 DEF MemoryOk
  <2>4. nextEffect - 1 = 0 => \A v \in G : v.tag # PENDING
    BY <2>3 DEF IssuedOnly
  <2> QED
    BY <2>3, <2>4 DEF Known, HoldsOnly
<1> QED
  BY <1>4, <1>5 DEF KInv

LEMMA RestoreKnows ==
  ASSUME HostValues \subseteq Bare, DInv, KInv, Restore PROVE KInv'
<1> DEFINE s == snap[1]
           accepted == RestoreFault(s) = "ok"
           cells == SubSeq(s.arena, 1, s.arenaLen)
<1>1. /\ call = "idle" /\ snap # <<>> /\ origin = "booted"
      /\ UNCHANGED <<image, outcome, storage>>
  BY DEF Restore
<1>2. /\ arena' = IF HeaderFault(s) = "ok" THEN cells ELSE arena
      /\ frames' = IF accepted THEN s.frames ELSE frames
      /\ accepted => HeaderFault(s) = "ok"
      /\ ~tainted' => /\ accepted => ~damaged /\ image = taken.image
                      /\ arena' # arena => steps = 0
  BY DEF Restore, Untouched, RestoreFault
<1>3. IInv /\ pending = <<>> /\ ~tainted /\ MemoryOk
  BY <1>1, IdleMachine DEF DInv, Machines, KInv
<1>4. s \in Snapshots /\ Len(s.arena) < Radix /\ (~damaged => Whole(s))
  BY <1>1 DEF DInv, Stored
<1>5. StoredKnown'
  BY <1>1 DEF KInv, StoredKnown, storage
<1>6. pending' = <<>> /\ ~EffectPending' /\ nextEffect' = nextEffect
  BY <1>1, <1>3 DEF outcome, EffectPending
<1>7. SUFFICES ASSUME ~tainted', ~Uses("commit")'
               PROVE  \E G \in SUBSET Values : Known(G)' /\ IssuedOnly(G)'
  BY <1>5 DEF KInv, MemoryOk
<1>8. ~Uses("commit")
  BY <1>1, <1>7 DEF Uses
<1>9. CASE accepted
  <2>1. Whole(s) /\ ~damaged /\ NoneCommits(taken.image) /\ Accepts
    BY <1>1, <1>2, <1>3, <1>4, <1>7, <1>8, <1>9, CommitUse DEF IInv, Accepts
  <2>2. PICK G \in SUBSET Values :
          /\ Bare \subseteq G /\ Closed(G, s.arena)
          /\ \A k \in 1 .. Len(s.frames) : SlotsIn(s.frames[k], G)
          /\ taken.issued = 0 => \A v \in G : v.tag # PENDING
    BY <1>1, <2>1 DEF KInv, StoredKnown
  <2>3. \A v \in G : v.tag # PENDING
    BY <2>1, <2>2, AcceptedIssuedNothing
  <2>4. arena' = s.arena /\ frames' = s.frames
    <3>1. s.arenaLen = Len(s.arena)
      BY <2>1 DEF Whole, Snapshot
    <3> QED
      BY <1>2, <1>4, <1>9, <3>1, RestoredCells
  <2>5. Known(G)'
    BY <1>6, <2>2, <2>4 DEF Known, HoldsOnly
  <2> QED
    BY <2>3, <2>5 DEF IssuedOnly
<1>10. CASE ~accepted /\ arena' = arena
  <2>1. PICK G \in SUBSET Values : Known(G) /\ IssuedOnly(G)
    BY <1>3, <1>8 DEF MemoryOk
  <2>2. Known(G)' /\ IssuedOnly(G)'
    BY <1>2, <1>6, <1>10, <2>1 DEF Known, HoldsOnly, IssuedOnly
  <2> QED
    BY <2>2
<1>11. CASE ~accepted /\ arena' # arena
  <2>1. arena' \in Seq(Word) /\ steps = 0 /\ frames' = frames
    BY <1>2, <1>4, <1>7, <1>11, RestoredCells
  <2>2. Closed(Bare, arena')
    BY <2>1, BareClosed
  <2>3. \A k \in 1 .. Len(frames) : SlotsIn(frames[k], Bare)
    BY <1>1, <2>1 DEF DInv, Fresh
  <2>4. Bare \in SUBSET Values /\ \A v \in Bare : v.tag # PENDING
    BY DEF Bare, IsArena, PENDING, STR, BYTES, LIST, VOID, INT
  <2>5. Known(Bare)'
    BY <1>6, <2>1, <2>2, <2>3, <2>4 DEF Known, HoldsOnly, Bare
  <2> QED
    BY <2>4, <2>5 DEF IssuedOnly, Bare
<1> QED
  BY <1>9, <1>10, <1>11

LEMMA KStepKeeps ==
  ASSUME HostValues \subseteq Bare, DInv, KInv, [DurableNext]_all PROVE KInv'
<1>1. CASE Run \/ NoSuchFunction \/ Take \/ Restore
  BY <1>1, RunKnows, TakeKnows, RestoreKnows
<1>2. CASE Damage
  <2>1. damaged' /\ UNCHANGED <<vars, tainted>>
    BY <1>2 DEF Damage, history
  <2>2. ~tainted => MemoryOk'
    BY <2>1, MemoryStep DEF DInv, Machines, KInv
  <2> QED
    BY <2>1, <2>2 DEF KInv, StoredKnown
<1>3. CASE Boot
  <2>1. UNCHANGED <<snap, taken, damaged>>
    BY <1>3 DEF Boot, storage
  <2>2. MemoryOk'
    BY <1>3, BootInit, MemoryNext
  <2> QED
    BY <2>1, <2>2 DEF KInv, StoredKnown
<1>4. CASE Finished \/ UNCHANGED all
  <2>1. UNCHANGED <<vars, storage, history>>
    BY <1>4 DEF Finished, Stopped, all
  <2>2. ~tainted => MemoryOk'
    BY <2>1, MemoryStep DEF DInv, Machines, KInv
  <2> QED
    BY <2>1, <2>2 DEF KInv, StoredKnown, storage, history
<1> QED
  BY <1>1, <1>2, <1>3, <1>4 DEF DurableNext

LEMMA MemoryInvariant ==
  ASSUME HostValues \subseteq Bare
  PROVE  DurableSpec => [](DInv /\ KInv)
<1>1. DurableInit => KInv
  BY InitMemory DEF DurableInit, KInv, StoredKnown
<1>2. DInv /\ KInv /\ [DurableNext]_all => KInv'
  BY KStepKeeps
<1> QED
  BY <1>1, <1>2, DurableInvariant, PTL DEF DurableSpec

-----------------------------------------------------------------------------
(* A snapshot in storage that nothing happened to is accepted exactly if no *)
(* slot of its frames holds a pending value, whatever the program was doing *)
(* when it was taken, and though what was popped is in the snapshot with    *)
(* what was not (cont.rs snapshot, restore).                                *)
THEOREM OwnAccepted ==
  ASSUME HostValues \subseteq Bare
  PROVE  DurableSpec => []OwnSnapshotAccepted
<1>1. DInv /\ KInv => OwnSnapshotAccepted
  <2> SUFFICES ASSUME DInv, KInv, snap # <<>>, ~damaged, NoneCommits(taken.image)
               PROVE  Accepts <=> \A v \in Slots(snap[1].frames) : v.tag # PENDING
    BY DEF OwnSnapshotAccepted, NoneCommits
  <2> DEFINE s == snap[1]
             fs == s.frames
             cells == s.arena
  <2>1. s \in Snapshots /\ Whole(s) /\ Len(cells) < Radix
    BY DEF DInv, Stored
  <2>2. PICK G \in SUBSET Values :
          Closed(G, cells) /\ \A k \in 1 .. Len(fs) : SlotsIn(fs[k], G)
    BY DEF KInv, StoredKnown
  <2>3. Accepts <=> RestoreFault(s) = "ok"
    BY DEF Accepts
  <2> HIDE DEF s
  <2>4. cells \in Seq(Word) /\ fs \in Seq(Frames) /\ s = Snapshot(fs, cells)
    BY <2>1 DEF Snapshots, Whole
  <2> HIDE DEF fs, cells
  <2>5. ASSUME NEW k \in 1 .. Len(fs)
        PROVE  /\ fs[k].slots \in Seq(Values) /\ Len(fs[k].slots) = fs[k].maxstack
               /\ \A i \in 1 .. Len(fs[k].slots) : fs[k].slots[i] \in G
    <3>1. fs[k] \in Frames
      BY <2>4, ElementOfSeq
    <3> QED
      BY <2>2, <3>1, FrameFields DEF SlotsIn
  <2>6. ASSUME NEW v \in G, IsArena(v) PROVE EndOf(HandleOf(v)) <= Len(cells)
    <3>1. Extent(v) <= Len(cells)
      BY <2>2, <2>6 DEF Closed, Denotes
    <3> QED
      BY <2>1, <2>4, <3>1, EndExact
  <2>7. RestoreFault(s) = "ok" <=>
          \A k \in 1 .. Len(fs) : \A i \in 1 .. Len(fs[k].slots) : fs[k].slots[i].tag # PENDING
    BY <2>4, <2>5, <2>6, OwnSnapshot
  <2>8. ASSUME NEW v
        PROVE  v \in Slots(fs) <=>
                 \E k \in 1 .. Len(fs) : \E i \in 1 .. Len(fs[k].slots) : v = fs[k].slots[i]
    <3>1. DOMAIN fs = 1 .. Len(fs)
      BY <2>4
    <3>2. \A k \in 1 .. Len(fs) : DOMAIN fs[k].slots = 1 .. Len(fs[k].slots)
      BY <2>5
    <3> QED
      BY <3>1, <3>2 DEF Slots, ToSet
  <2>9. (\A v \in Slots(fs) : v.tag # PENDING) <=>
          \A k \in 1 .. Len(fs) : \A i \in 1 .. Len(fs[k].slots) : fs[k].slots[i].tag # PENDING
    BY <2>8
  <2> QED
    BY <2>3, <2>7, <2>9 DEF fs, s
<1> QED
  BY <1>1, MemoryInvariant, PTL

(* Through snapshots, restarts and restores, accepted or refused, no handle *)
(* of a machine dangles and its open fork's clone is a prefix of its arena, *)
(* unless the snapshot was damaged, was of another image or went into a     *)
(* machine that had run (cont.rs restore).                                  *)
THEOREM MemoryStaysSound ==
  ASSUME HostValues \subseteq Bare
  PROVE  DurableSpec => []MemorySound
<1>1. DInv /\ KInv => MemorySound
  <2> SUFFICES ASSUME DInv, KInv, ~tainted PROVE HandlesSound /\ ForkPrefix
    BY DEF MemorySound
  <2>1. IInv /\ MemoryOk
    BY DEF DInv, Machines, KInv
  <2> QED
    BY <2>1, ForkIsPrefix, MemorySoundness
<1> QED
  BY <1>1, MemoryInvariant, PTL

-----------------------------------------------------------------------------
(* The first call after a trap executes the instruction that raised it once *)
(* more, as pc has not moved: what it returns is a function of the frames   *)
(* and of the answer.  RInv ties what both machines said to the frames the  *)
(* snapshot was taken of, which outlive its damage in storage.              *)

(* The instructions that raise a trap and issue no effect. *)
Suspending == {"await", "poll", "join", "select", "cancel", "checkpoint", "yieldctx"}
Asking == {"now", "rand", "env", "log", "queryq"}

(* Where a machine with the frames fs is. *)
Place(img, fs) == img.funcs[fs[Len(fs)].func + 1].off + fs[Len(fs)].pc
StopOp(img, fs) == img.code[Place(img, fs) + 1].op
Stuck(img, fs) ==
  fs # <<>> => /\ fs[Len(fs)].func < Len(img.funcs)
               /\ Place(img, fs) < Len(img.code)
               /\ StopOp(img, fs) \in Suspending \cup Asking

(* The frames a call goes on from, and what it then returns. *)
Given(fs, a) ==
  IF a = <<>> THEN fs ELSE [fs EXCEPT ![Len(fs)] = Replace(@, 0, a)]

Reply(img, fs) ==
  IF fs = <<>> THEN [kind |-> "halted", code |-> 0]
  ELSE IF StopOp(img, fs) = "queryq" /\ fs[Len(fs)].sp + 1 > fs[Len(fs)].maxstack
  THEN [kind |-> "err", fault |-> "MaxstackExceeded"]
  ELSE [kind |-> "trap",
        trap |-> IF StopOp(img, fs) \in Suspending THEN [kind |-> "Yield"]
                 ELSE [kind |-> "Oracle", op |-> StopOp(img, fs)]]

(* The first machine, before its snapshot: it stopped at a trap it would    *)
(* raise again, or issued an effect.                                        *)
Paused ==
  /\ call = "idle" => result.kind # "err"
  /\ (pending # <<>> \/ (call = "idle" /\ result.kind \in {"trap", "shut"})) /\ nextEffect = 1 =>
       frames # <<>> /\ Stuck(image, frames)

(* A call that is observed, from the frames fs on.                          *)
InCall(fs) ==
  /\ call \in {"idle", "running"}
  /\ call = "idle" => frames = fs /\ asked = <<>>
  /\ call = "running" =>
       /\ asked # <<>> =>
            /\ \E v \in Values : asked = <<v>>
            /\ fs # <<>> /\ CanReplace(fs[Len(fs)], 0, asked)
       /\ halt = <<>>
       /\ pending = <<>> => frames = Given(fs, asked)
       /\ pending # <<>> =>
            Reply(image, Given(fs, asked)) = [kind |-> "trap", trap |-> pending[1]]

(* What a call returned is what these frames and this answer make of it. *)
AsExpected(x, fs) ==
  Spent(x.result) \/ x.result = Reply(taken.image, Given(fs, x.asked))

(* fs is the frames of the snapshot as it was taken. *)
Tied(fs) ==
  /\ Stuck(taken.image, fs)
  /\ ~damaged => snap[1].frames = fs
  /\ \A x \in ToSet(said.original) : AsExpected(x, fs)
  /\ \A x \in ToSet(said.restored) : AsExpected(x, fs)
  /\ probe # "nobody" => ~tainted /\ image = taken.image /\ InCall(fs)

(* No restored machine has been observed. *)
Unheard == said.restored = <<>> /\ probe # "restored"

RInv ==
  /\ probe \in {"nobody", "original", "restored"}
  /\ said = [original |-> said.original, restored |-> said.restored]
  /\ call # "running" => asked = <<>>
  /\ snap = <<>> => /\ Paused /\ probe = "nobody" /\ taken.result.kind = "none"
                    /\ said = [original |-> <<>>, restored |-> <<>>]
  /\ snap # <<>> /\ taken.result.kind # "none" =>
       \/ (damaged \/ ~Accepts) /\ Unheard
       \/ \E fs \in Seq(Frames) : Tied(fs)

-----------------------------------------------------------------------------
(* The two in terms of the machine.                                         *)
LEMMA AtCur ==
  ASSUME frames # <<>>
  PROVE  Place(image, frames) = Offset /\ StopOp(image, frames) = Fetched.op
  BY DEF Place, StopOp, Offset, Fetched, FuncOf, Cur

(* The instruction a machine stopped at depends on its top frame's function *)
(* and pc alone.                                                            *)
LEMMA SamePlace ==
  ASSUME NEW img, NEW fs, NEW gs, fs # <<>>, gs # <<>>,
         gs[Len(gs)].func = fs[Len(fs)].func, gs[Len(gs)].pc = fs[Len(fs)].pc
  PROVE  /\ Place(img, gs) = Place(img, fs) /\ StopOp(img, gs) = StopOp(img, fs)
         /\ Stuck(img, fs) => Stuck(img, gs)
  BY DEF Place, StopOp, Stuck

(* What can go wrong with one of these instructions.                        *)
LEMMA StuckFault ==
  ASSUME IInv, Fetchable, Fetched.op \in Suspending \cup Asking
  PROVE  FaultOf(Fetched) = IF Fetched.op = "queryq" /\ Cur.sp + 1 > Cur.maxstack
                            THEN "MaxstackExceeded" ELSE "ok"
<1> DEFINE d == Fetched
<1>1. frames # <<>> /\ Cur \in Frames
  BY TopFrame DEF Fetchable, Ready
<1>2. Cur.sp \in Nat /\ Cur.maxstack \in Nat /\ Cur.sp <= Cur.maxstack
  BY <1>1, FrameFields
<1> HIDE DEF d
<1>3. Kinds(d) = <<>>
  BY DEF Kinds, IntBinary, Suspending, Asking, d
<1>4. Arity(d) = 0
  BY <1>3 DEF Arity
<1>5. PopsFault(d) = "ok" /\ DerefsFault(d) = "ok"
  <2>1. 1 .. Arity(d) = {}
    BY <1>4
  <2>2. d.op # "find"
    BY DEF Suspending, Asking, d
  <2> QED
    BY <2>1, <2>2 DEF PopsFault, DerefsFault
<1>6. OwnFault(d) = "ok"
  BY DEF OwnFault, Suspending, Asking, d
<1>7. Left(d) = IF d.op = "queryq" THEN 1 ELSE 0
  BY DEF Left, ComputeOps, AllocOps, IntBinary, Suspending, Asking, d
<1>8. d.op \notin AllocOps \cup {"call", "tail", "ret"}
  BY DEF AllocOps, Suspending, Asking, d
<1>9. RoomFault(d) = IF Cur.sp + Left(d) > Cur.maxstack THEN "MaxstackExceeded" ELSE "ok"
  <2>1. Cur.sp - Arity(d) + Left(d) = Cur.sp + Left(d)
    BY <1>2, <1>4, <1>7
  <2> QED
    BY <1>8, <2>1 DEF RoomFault
<1>10. FaultOf(d) = RoomFault(d)
  BY <1>5, <1>6, <1>8 DEF FaultOf
<1> QED
  BY <1>2, <1>7, <1>9, <1>10 DEF d

(* A call from frames at such an instruction: it raises the trap, or ends.  *)
LEMMA FirstStep ==
  ASSUME IInv, Internal, call = "running", pending = <<>>, halt = <<>>,
         Stuck(image, frames)
  PROVE  \/ /\ call' = "running" /\ halt' = <<>> /\ pending' # <<>>
            /\ Reply(image, frames) = [kind |-> "trap", trap |-> pending'[1]]
         \/ /\ call' # "running"
            /\ Spent(result') \/ result' = Reply(image, frames)
<1>1. CASE frames = <<>>
  <2>1. ~Ready
    BY <1>1 DEF Ready
  <2>2. ~Execute /\ ~StepLimit /\ ~PcEscape /\ ~Fault
    BY <2>1 DEF Execute, Compute, Allocate, Branch, Switch, Call, TailCall, Ret, Halt,
       IssueEffect, Suspend, AskOracle, QueryQ, Fork, Commit, Abort, Meter, CtxPush,
       CtxPop, Executing, Fetchable, StepLimit, PcEscape, Fault
  <2>3. ReturnEmpty
    BY <2>2 DEF Internal, ReturnTrap, ReturnHalt
  <2> QED
    BY <1>1, <2>3 DEF ReturnEmpty, Return, Reply
<1>2. CASE frames # <<>>
  <2>1. /\ Cur.func < Len(image.funcs) /\ Offset < Len(image.code)
        /\ Fetched.op \in Suspending \cup Asking
        /\ Place(image, frames) = Offset /\ StopOp(image, frames) = Fetched.op
    BY <1>2, AtCur DEF Stuck, Cur
  <2>2. Cur \in Frames
    BY <1>2, TopFrame
  <2>3. frames[Len(frames)] = Cur
    BY DEF Cur
  <2>4. Reply(image, frames) =
          IF Fetched.op = "queryq" /\ Cur.sp + 1 > Cur.maxstack
          THEN [kind |-> "err", fault |-> "MaxstackExceeded"]
          ELSE [kind |-> "trap",
                trap |-> IF Fetched.op \in Suspending THEN [kind |-> "Yield"]
                         ELSE [kind |-> "Oracle", op |-> Fetched.op]]
    BY <1>2, <2>1, <2>3 DEF Reply
  <2>5. CASE Execute
    <3>1. Suspend \/ AskOracle \/ QueryQ
      BY <2>1, <2>5 DEF Execute, Compute, Allocate, Branch, Switch, Call, TailCall, Ret,
         Halt, IssueEffect, Fork, Commit, Abort, Meter, CtxPush, CtxPop, Executing,
         ComputeOps, AllocOps, IntBinary, Suspending, Asking
    <3>2. Fetchable /\ FaultOf(Fetched) = "ok" /\ call' = call
      BY <3>1 DEF Suspend, AskOracle, QueryQ, Executing, rest
    <3>3. ~(Fetched.op = "queryq" /\ Cur.sp + 1 > Cur.maxstack)
      BY <2>1, <3>2, StuckFault
    <3>4. CASE Suspend
      <4>1. Fetched.op \in Suspending /\ pending' = <<[kind |-> "Yield"]>> /\ halt' = halt
        BY <3>4 DEF Suspend, Executing, Raise, Suspending
      <4> QED
        BY <2>4, <3>2, <3>3, <4>1
    <3>5. CASE AskOracle
      <4>1. /\ Fetched.op \notin Suspending /\ halt' = halt
            /\ pending' = <<[kind |-> "Oracle", op |-> Fetched.op]>>
        BY <3>5 DEF AskOracle, Executing, Raise, Suspending
      <4> QED
        BY <2>4, <3>2, <3>3, <4>1
    <3>6. CASE QueryQ
      <4>1. /\ Fetched.op = "queryq" /\ Fetched.op \notin Suspending /\ halt' = halt
            /\ pending' = <<[kind |-> "Oracle", op |-> "queryq"]>>
        BY <3>6 DEF QueryQ, Executing, Raise, Suspending
      <4> QED
        BY <2>4, <3>2, <3>3, <4>1
    <3> QED
      BY <3>1, <3>4, <3>5, <3>6
  <2>6. CASE StepLimit
    BY <2>6 DEF StepLimit, Die, Spent
  <2>7. CASE Fault
    <3>1. Fetchable /\ FaultOf(Fetched) # "ok" /\ Die(FaultOf(Fetched))
      BY <2>7 DEF Fault
    <3>2. /\ Fetched.op = "queryq" /\ Cur.sp + 1 > Cur.maxstack
          /\ FaultOf(Fetched) = "MaxstackExceeded"
      BY <2>1, <3>1, StuckFault
    <3> QED
      BY <2>4, <3>1, <3>2 DEF Die
  <2>8. ~PcEscape
    <3>1. Offset \in Nat /\ Len(image.code) \in Nat
      <4>1. Offset \in Nat
        BY <1>2, TopFrame, FrameFields DEF Offset, Funcs
      <4>2. image.code \in Seq(Insn)
        BY ImageFacts DEF IInv
      <4> QED
        BY <4>1, <4>2
    <3> QED
      BY <2>1, <3>1 DEF PcEscape
  <2>9. ~ReturnTrap /\ ~ReturnHalt /\ ~ReturnEmpty
    BY <1>2 DEF ReturnTrap, ReturnHalt, ReturnEmpty
  <2> QED
    BY <2>5, <2>6, <2>7, <2>8, <2>9 DEF Internal
<1> QED
  BY <1>1, <1>2

(* The first machine stops where it would stop again.                       *)
LEMMA PausedStep ==
  ASSUME IInv, Paused, Internal \/ Host PROVE Paused'
<1>1. SUFFICES ASSUME \/ pending' # <<>>
                      \/ call' = "idle" /\ result'.kind \in {"trap", "shut"},
                      nextEffect' = 1
               PROVE  frames' # <<>> /\ Stuck(image, frames)'
  <2>1. ASSUME call' = "idle" PROVE result'.kind # "err"
    <3>1. Shutdown \/ ReturnTrap \/ ReturnHalt \/ ReturnEmpty
      <4>1. Host => Shutdown
        BY <2>1 DEF Host, Resume, Answer, Die
      <4>2. ~Execute
        BY <2>1 DEF Execute, Compute, Allocate, Branch, Switch, Call, TailCall, Ret, Halt,
           IssueEffect, Suspend, AskOracle, QueryQ, Fork, Commit, Abort, Meter, CtxPush,
           CtxPop, Executing, Fetchable, Ready, rest
      <4>3. ~StepLimit /\ ~PcEscape /\ ~Fault
        BY <2>1 DEF StepLimit, PcEscape, Fault, Die
      <4> QED
        BY <4>1, <4>2, <4>3 DEF Internal
    <3> QED
      BY <3>1 DEF Shutdown, ReturnTrap, ReturnHalt, ReturnEmpty, Return
  <2> QED
    BY <2>1 DEF Paused
<1>2. ASSUME NEW ops, Executing(ops), ops \subseteq Suspending \cup Asking,
             frames' = frames \/ \E f \in Frames : /\ f.func = Cur.func
                                                   /\ f.pc = Cur.pc /\ SetTop(f)
      PROVE  frames' # <<>> /\ Stuck(image, frames)'
  <2>1. /\ frames # <<>> /\ Fetched.op \in ops /\ image' = image
        /\ Offset < Len(image.code)
    BY <1>2 DEF Executing, Fetchable, Ready, rest
  <2>2. Stuck(image, frames)
    BY <1>2, <2>1, TopFrame, AtCur DEF Stuck, Cur
  <2>3. CASE frames' = frames
    BY <2>1, <2>2, <2>3
  <2>4. ASSUME NEW f \in Frames, f.func = Cur.func, f.pc = Cur.pc, SetTop(f)
        PROVE  frames' # <<>> /\ Stuck(image, frames)'
    <3>1. /\ Len(frames') = Len(frames) /\ Len(frames) \in Nat \ {0}
          /\ frames'[Len(frames)] = f
      BY <2>1, <2>4, TopShape, TopFrame, LimitsAssumption
    <3>2. frames' # <<>> /\ frames'[Len(frames')] = f
      BY <3>1
    <3>3. Stuck(image, frames')
      BY <2>1, <2>2, <2>4, <3>2, SamePlace DEF Cur
    <3> QED
      BY <2>1, <3>2, <3>3
  <2> QED
    BY <1>2, <2>3, <2>4
<1>3. CASE Suspend
  <2> DEFINE ops == {"await", "poll", "join", "select", "cancel", "checkpoint", "yieldctx"}
  <2>1. Executing(ops) /\ ops \subseteq Suspending \cup Asking /\ frames' = frames
    BY <1>3 DEF Suspend, Suspending
  <2> HIDE DEF ops
  <2> QED
    BY <1>2, <2>1
<1>4. CASE AskOracle
  <2> DEFINE ops == {"now", "rand", "env", "log"}
  <2>1. Executing(ops) /\ ops \subseteq Suspending \cup Asking /\ frames' = frames
    BY <1>4 DEF AskOracle, Asking
  <2> HIDE DEF ops
  <2> QED
    BY <1>2, <2>1
<1>5. CASE QueryQ
  <2> DEFINE ops == {"queryq"}
  <2>1. Executing(ops) /\ ops \subseteq Suspending \cup Asking
    BY <1>5 DEF QueryQ, Asking
  <2>2. \E f \in Frames : f.func = Cur.func /\ f.pc = Cur.pc /\ SetTop(f)
    BY <1>5, QueryQTop
  <2> HIDE DEF ops
  <2> QED
    BY <1>2, <2>1, <2>2
<1>6. ~IssueEffect
  BY <1>1 DEF IssueEffect, IInv, CountsOk
<1>7. CASE Execute /\ ~Suspend /\ ~AskOracle /\ ~QueryQ
  <2>1. pending' = pending /\ pending = <<>> /\ call' = "running"
    BY <1>6, <1>7 DEF Execute, Compute, Allocate, Branch, Switch, Call, TailCall, Ret, Halt,
       Fork, Commit, Abort, Meter, CtxPush, CtxPop, Executing, Fetchable, Ready, rest, outcome
  <2> QED
    BY <1>1, <2>1
<1>8. CASE ReturnTrap
  <2>1. pending # <<>> /\ nextEffect = 1 /\ UNCHANGED <<image, frames>>
    BY <1>1, <1>8 DEF ReturnTrap, Return
  <2> QED
    BY <2>1 DEF Paused
<1>9. CASE ReturnHalt \/ ReturnEmpty
  BY <1>1, <1>9 DEF ReturnHalt, ReturnEmpty, Return, machine
<1>10. CASE StepLimit \/ PcEscape \/ Fault
  <2>1. pending' = pending /\ pending = <<>> /\ call' = "dead"
    BY <1>10 DEF StepLimit, PcEscape, Fault, Die, Fetchable, Ready, outcome
  <2> QED
    BY <1>1, <2>1
<1>11. CASE Resume \/ Answer
  <2>1. call = "idle" /\ pending' = pending /\ call' # "idle"
    BY <1>11 DEF Resume, Answer, Die, Trapped, outcome, machine
  <2> QED
    BY <1>1, <2>1, IdleMachine
<1>12. CASE Shutdown
  <2>1. call = "idle" /\ result.kind = "trap" /\ UNCHANGED <<image, frames, nextEffect>>
    BY <1>12 DEF Shutdown, Trapped, machine, outcome
  <2> QED
    BY <1>1, <2>1 DEF Paused
<1> QED
  BY <1>3, <1>4, <1>5, <1>7, <1>8, <1>9, <1>10, <1>11, <1>12 DEF Internal, Host

(* What an answer does to the frames.                                       *)
LEMMA GivenTop ==
  ASSUME NEW fs \in Seq(Frames), fs # <<>>, NEW v \in Values,
         CanReplace(fs[Len(fs)], 0, <<v>>)
  PROVE  LET gs == Given(fs, <<v>>)
         IN /\ gs = [fs EXCEPT ![Len(fs)] = Replace(fs[Len(fs)], 0, <<v>>)]
            /\ gs # <<>> /\ gs # fs
            /\ gs[Len(gs)].func = fs[Len(fs)].func /\ gs[Len(gs)].pc = fs[Len(fs)].pc
            /\ Opnd(gs[Len(gs)], 1) = v
<1> DEFINE n == Len(fs)
           c == fs[n]
           vs == <<v>>
           g == Replace(c, 0, vs)
           gs == [fs EXCEPT ![n] = g]
<1>1. n \in Nat /\ n \in 1 .. n /\ c \in Frames
  OBVIOUS
<1>2. vs \in Seq(Values) /\ Len(vs) = 1 /\ vs # <<>>
  OBVIOUS
<1>3. Given(fs, vs) = gs
  BY <1>2 DEF Given
<1>4. c.sp \in Nat /\ c.maxstack \in Nat /\ c.sp - 0 = c.sp /\ 0 <= c.sp
  BY <1>1, FrameFields
<1> HIDE DEF c
<1>5. c.sp + 1 <= c.maxstack
  BY <1>2, <1>4 DEF CanReplace, c
<1>6. /\ g.sp = c.sp + 1 /\ g.slots[c.sp + 1] = v
  BY <1>1, <1>4, <1>5, PushedOne
<1> HIDE DEF vs
<1>7. g.func = c.func /\ g.pc = c.pc
  <2>1. c \in Frames /\ c.sp - 0 + Len(vs) <= c.maxstack
    BY <1>1, <1>2, <1>4, <1>5 DEF c
  <2>2. 0 \in Nat /\ 0 <= c.sp /\ vs \in Seq(Values)
    BY <1>2, <1>4
  <2> QED
    BY <2>1, <2>2, ReplaceType
<1> HIDE DEF g
<1>8. Len(gs) = n /\ gs[n] = g /\ gs # <<>>
  BY <1>1
<1> HIDE DEF gs
<1>9. gs # fs
  BY <1>4, <1>6, <1>8 DEF c
<1>10. Opnd(g, 1) = v
  BY <1>4, <1>6 DEF Opnd
<1> QED
  BY <1>3, <1>7, <1>8, <1>9, <1>10 DEF c, gs, g, vs

-----------------------------------------------------------------------------
(* A step of the observed call. *)
LEMMA ObservedStep ==
  ASSUME IInv, NEW fs \in Seq(Frames), Stuck(image, fs), InCall(fs),
         Internal \/ Host, Observe, probe # "nobody"
  PROVE  /\ probe' \in {probe, "nobody"}
         /\ probe' # "nobody" => InCall(fs)' /\ said' = said
         /\ \/ said' = said
            \/ \E x : /\ said' = [said EXCEPT ![probe] = <<x>>]
                      /\ Spent(x.result) \/ x.result = Reply(image, Given(fs, x.asked))
<1>1. CASE call = "idle"
  <2>1. frames = fs /\ asked = <<>> /\ pending = <<>> /\ halt = <<>> /\ Host
    <3>1. ~Internal
      BY <1>1 DEF Internal, Execute, Compute, Allocate, Branch, Switch, Call, TailCall, Ret,
         Halt, IssueEffect, Suspend, AskOracle, QueryQ, Fork, Commit, Abort, Meter, CtxPush,
         CtxPop, Executing, Fetchable, Ready, StepLimit, PcEscape, Fault, ReturnTrap,
         ReturnHalt, ReturnEmpty
    <3> QED
      BY <1>1, <3>1, IdleMachine DEF InCall
  <2>2. said' = said /\ probe' = (IF call' = "running" THEN probe ELSE "nobody")
    BY <1>1 DEF Observe
  <2>3. CASE call' = "running"
    <3>1. asked' = IF frames' = frames THEN <<>>
                   ELSE <<Opnd(frames'[Len(frames')], 1)>>
      BY <1>1, <2>3 DEF Observe
    <3>2. CASE Resume
      <4>1. UNCHANGED <<frames, pending, halt>>
        BY <3>2 DEF Resume, machine
      <4>2. asked' = <<>>
        BY <3>1, <4>1
      <4>3. InCall(fs)'
        BY <2>1, <2>3, <4>1, <4>2 DEF InCall, Given
      <4> QED
        BY <2>2, <2>3, <4>3
    <3>3. CASE Answer
      <4>1. PICK v \in HostValues :
              /\ CanReplace(Cur, 0, <<v>>) /\ SetTop(Replace(Cur, 0, <<v>>))
        BY <2>3, <3>3 DEF Answer, Die
      <4>2. pending' = <<>> /\ halt' = <<>> /\ fs # <<>> /\ v \in Values
        BY <2>1, <2>3, <3>3, LimitsAssumption DEF Answer, Die, outcome, IInv, ReplyOk, Trapped
      <4>3. CanReplace(fs[Len(fs)], 0, <<v>>)
            /\ frames' = [fs EXCEPT ![Len(fs)] = Replace(fs[Len(fs)], 0, <<v>>)]
        BY <2>1, <4>1 DEF Cur, SetTop
      <4>4. /\ Given(fs, <<v>>) = frames' /\ frames' # frames
            /\ Opnd(frames'[Len(frames')], 1) = v
        <5> DEFINE gs == Given(fs, <<v>>)
        <5>1. /\ gs = [fs EXCEPT ![Len(fs)] = Replace(fs[Len(fs)], 0, <<v>>)]
              /\ gs # fs /\ Opnd(gs[Len(gs)], 1) = v
          BY <4>2, <4>3, GivenTop
        <5> HIDE DEF gs
        <5>2. gs = frames'
          BY <4>3, <5>1
        <5> QED
          BY <2>1, <5>1, <5>2 DEF gs
      <4>5. asked' = <<v>> /\ asked' # <<>>
        BY <3>1, <4>4
      <4>6. InCall(fs)'
        BY <2>3, <4>2, <4>3, <4>4, <4>5 DEF InCall
      <4> QED
        BY <2>2, <2>3, <4>6
    <3> QED
      BY <1>1, <2>1, <2>3, <3>2, <3>3 DEF Host, Shutdown
  <2> QED
    BY <2>2, <2>3
<1>2. CASE call = "running"
  <2>1. /\ halt = <<>>
        /\ pending = <<>> => frames = Given(fs, asked)
        /\ pending # <<>> =>
             Reply(image, Given(fs, asked)) = [kind |-> "trap", trap |-> pending[1]]
        /\ asked # <<>> => /\ \E v \in Values : asked = <<v>>
                           /\ fs # <<>> /\ CanReplace(fs[Len(fs)], 0, asked)
    BY <1>2 DEF InCall
  <2>2. Internal
    BY <1>2 DEF Host, Resume, Answer, Shutdown, Trapped
  <2>3. Stuck(image, Given(fs, asked))
    <3>1. CASE asked = <<>>
      BY <3>1 DEF Given
    <3>2. CASE asked # <<>>
      <4>1. PICK v \in Values : asked = <<v>>
        BY <2>1, <3>2
      <4> QED
        BY <2>1, <3>2, <4>1, GivenTop, SamePlace
    <3> QED
      BY <3>1, <3>2
  <2>4. image' = image
    BY <2>2, ImageStays DEF Next
  <2>5. ASSUME call' # "running",
               Spent(result') \/ result' = Reply(image, Given(fs, asked))
        PROVE  /\ probe' = "nobody"
               /\ \E x : /\ said' = [said EXCEPT ![probe] = <<x>>]
                         /\ Spent(x.result) \/ x.result = Reply(image, Given(fs, x.asked))
    <3> DEFINE x == [asked |-> asked, result |-> result']
    <3>1. probe' = "nobody" /\ said' = [said EXCEPT ![probe] = <<x>>]
      BY <1>2, <2>5 DEF Observe
    <3>2. x.asked = asked /\ x.result = result'
      OBVIOUS
    <3> HIDE DEF x
    <3> QED
      BY <2>5, <3>1, <3>2
  <2>6. CASE pending = <<>>
    <3>1. frames = Given(fs, asked)
      BY <2>1, <2>6
    <3>2. CASE /\ call' = "running" /\ halt' = <<>> /\ pending' # <<>>
               /\ Reply(image, frames) = [kind |-> "trap", trap |-> pending'[1]]
      <4>1. asked' = asked /\ said' = said /\ probe' = probe
        BY <1>2, <3>2 DEF Observe
      <4>2. Reply(image, Given(fs, asked)) = [kind |-> "trap", trap |-> pending'[1]]
        BY <3>1, <3>2
      <4>3. InCall(fs)'
        BY <2>1, <2>4, <3>2, <4>1, <4>2 DEF InCall
      <4> QED
        BY <4>1, <4>3
    <3>3. CASE call' # "running" /\ (Spent(result') \/ result' = Reply(image, frames))
      BY <2>5, <3>1, <3>3
    <3> QED
      BY <1>2, <2>1, <2>2, <2>3, <2>6, <3>1, <3>2, <3>3, FirstStep
  <2>7. CASE pending # <<>>
    <3>1. ReturnTrap
      BY <2>2, <2>7 DEF Internal, Execute, Compute, Allocate, Branch, Switch, Call, TailCall,
         Ret, Halt, IssueEffect, Suspend, AskOracle, QueryQ, Fork, Commit, Abort, Meter,
         CtxPush, CtxPop, Executing, Fetchable, Ready, StepLimit, PcEscape, Fault,
         ReturnHalt, ReturnEmpty
    <3>2. call' # "running" /\ result' = Reply(image, Given(fs, asked))
      BY <2>1, <2>7, <3>1 DEF ReturnTrap, Return
    <3> QED
      BY <2>5, <3>2
  <2> QED
    BY <2>6, <2>7
<1> QED
  BY <1>1, <1>2 DEF InCall

-----------------------------------------------------------------------------
(* Each step preserves RInv. *)

(* What Observe says of any step.                                           *)
LEMMA ObserveOnly ==
  ASSUME Observe
  PROVE  /\ probe' \in {probe, "nobody"}
         /\ probe = "nobody" => said' = said
         /\ \/ said' = said
            \/ \E x : said' = [said EXCEPT ![probe] = <<x>>]
         /\ (call # "running" => asked = <<>>) => (call' # "running" => asked' = <<>>)
  BY DEF Observe

(* What is noted is noted for the machine that was observed.                *)
LEMMA SaidOf ==
  ASSUME said = [original |-> said.original, restored |-> said.restored],
         probe \in {"original", "restored"}, NEW x, said' = [said EXCEPT ![probe] = <<x>>]
  PROVE  /\ said' = [original |-> said'.original, restored |-> said'.restored]
         /\ said'.original = IF probe = "original" THEN <<x>> ELSE said.original
         /\ said'.restored = IF probe = "restored" THEN <<x>> ELSE said.restored
<1>1. CASE probe = "original"
  BY <1>1
<1>2. CASE probe = "restored"
  BY <1>2
<1> QED
  BY <1>1, <1>2

(* What every step that is observed keeps.                                  *)
LEMMA SaidShape ==
  ASSUME RInv, Observe
  PROVE  /\ probe' \in {"nobody", "original", "restored"}
         /\ said' = [original |-> said'.original, restored |-> said'.restored]
         /\ call' # "running" => asked' = <<>>
         /\ Unheard => Unheard'
<1>1. /\ probe \in {"nobody", "original", "restored"}
      /\ said = [original |-> said.original, restored |-> said.restored]
      /\ call # "running" => asked = <<>>
  BY DEF RInv
<1>2. CASE said' = said
  <2>1. said' = [original |-> said'.original, restored |-> said'.restored]
    BY <1>1, <1>2
  <2> QED
    BY <1>1, <1>2, <2>1, ObserveOnly DEF Unheard
<1>3. CASE said' # said
  <2>1. probe # "nobody" /\ \E x : said' = [said EXCEPT ![probe] = <<x>>]
    BY <1>3, ObserveOnly
  <2>2. probe \in {"original", "restored"}
    BY <1>1, <2>1
  <2> QED
    BY <1>1, <2>1, <2>2, ObserveOnly, SaidOf DEF Unheard
<1> QED
  BY <1>2, <1>3

(* The machine runs, or finds no function.                                  *)
LEMMA RunResumes ==
  ASSUME DInv, RInv, Run \/ NoSuchFunction PROVE RInv'
<1>1. /\ Observe /\ UNCHANGED <<snap, taken, damaged, tainted>>
      /\ Run => Internal \/ Host
  BY DEF Run, NoSuchFunction, storage
<1>2. NoSuchFunction => ~IInv
  BY TopFrame DEF NoSuchFunction, FuncExists, Ready
<1>3. ASSUME snap = <<>>
      PROVE  /\ Paused' /\ probe' = "nobody" /\ taken'.result.kind = "none"
             /\ said' = [original |-> <<>>, restored |-> <<>>]
  <2>1. IInv
    BY <1>3 DEF DInv, Machines
  <2>2. Internal \/ Host
    BY <1>1, <1>2, <2>1
  <2> QED
    BY <1>1, <1>3, <2>1, <2>2, PausedStep, ObserveOnly DEF RInv
<1>4. ASSUME NEW fs \in Seq(Frames), Tied(fs)
      PROVE  Tied(fs)'
  <2>1. /\ Stuck(taken.image, fs)' /\ (~damaged => snap[1].frames = fs)'
    BY <1>1, <1>4 DEF Tied
  <2>2. CASE probe = "nobody"
    <3>1. said' = said /\ probe' = "nobody"
      BY <1>1, <2>2, ObserveOnly
    <3>2. /\ (\A x \in ToSet(said.original) : AsExpected(x, fs))'
          /\ (\A x \in ToSet(said.restored) : AsExpected(x, fs))'
      BY <1>1, <1>4, <3>1 DEF Tied, AsExpected
    <3> QED
      BY <2>1, <3>1, <3>2 DEF Tied
  <2>3. CASE probe # "nobody"
    <3>1. IInv /\ ~tainted /\ image = taken.image /\ InCall(fs) /\ Stuck(image, fs)
      BY <1>4, <2>3 DEF Tied, DInv, Machines
    <3>2. Internal \/ Host
      BY <1>1, <1>2, <3>1
    <3>3. image' = image
      BY <3>2, ImageStays DEF Next
    <3>4. /\ probe' # "nobody" => InCall(fs)'
          /\ \/ said' = said
             \/ \E x : /\ said' = [said EXCEPT ![probe] = <<x>>]
                       /\ Spent(x.result) \/ x.result = Reply(image, Given(fs, x.asked))
      BY <1>1, <2>3, <3>1, <3>2, ObservedStep
    <3>5. /\ probe \in {"original", "restored"}
          /\ said = [original |-> said.original, restored |-> said.restored]
      BY <2>3 DEF RInv
    <3>6. /\ \A x \in ToSet(said'.original) : AsExpected(x, fs)
          /\ \A x \in ToSet(said'.restored) : AsExpected(x, fs)
      <4>1. CASE said' = said
        BY <1>4, <4>1 DEF Tied
      <4>2. ASSUME NEW x, said' = [said EXCEPT ![probe] = <<x>>],
                   Spent(x.result) \/ x.result = Reply(image, Given(fs, x.asked))
            PROVE  /\ \A y \in ToSet(said'.original) : AsExpected(y, fs)
                   /\ \A y \in ToSet(said'.restored) : AsExpected(y, fs)
        <5>1. AsExpected(x, fs)
          BY <3>1, <4>2 DEF AsExpected
        <5>2. ToSet(<<x>>) = {x}
          BY DEF ToSet
        <5>3. /\ said'.original \in {<<x>>, said.original}
              /\ said'.restored \in {<<x>>, said.restored}
          BY <3>5, <4>2, SaidOf
        <5> QED
          BY <1>4, <5>1, <5>2, <5>3 DEF Tied
      <4> QED
        BY <3>4, <4>1, <4>2
    <3>7. /\ (\A x \in ToSet(said.original) : AsExpected(x, fs))'
          /\ (\A x \in ToSet(said.restored) : AsExpected(x, fs))'
      BY <1>1, <3>6 DEF AsExpected
    <3> QED
      BY <1>1, <2>1, <3>1, <3>3, <3>4, <3>7 DEF Tied
  <2> QED
    BY <2>2, <2>3
<1>5. ASSUME snap' # <<>>, taken'.result.kind # "none"
      PROVE  \/ (damaged' \/ ~Accepts') /\ Unheard'
             \/ \E fs \in Seq(Frames) : Tied(fs)'
  <2>1. Accepts' = Accepts
    BY <1>1 DEF Accepts
  <2>2. CASE (damaged \/ ~Accepts) /\ Unheard
    BY <1>1, <2>1, <2>2, SaidShape
  <2>3. CASE \E fs \in Seq(Frames) : Tied(fs)
    BY <1>4, <2>3
  <2> QED
    BY <1>1, <1>5, <2>2, <2>3 DEF RInv
<1> QED
  BY <1>1, <1>3, <1>5, SaidShape DEF RInv

(* A snapshot is taken: of a machine stopped at such an instruction, or of  *)
(* one that restore will not accept.                                        *)
LEMMA NextIssuedNothing ==
  DInv' /\ ~damaged' /\ Accepts' => taken'.issued = 0
<1> DEFINE F == DInv /\ ~damaged /\ Accepts => taken.issued = 0
<1>1. F
  BY AcceptedIssuedNothing
<1> HIDE DEF F
<1>2. F'
  BY <1>1, PTL
<1> QED
  BY <1>2 DEF F

LEMMA TakeResumes ==
  ASSUME DInv, RInv, Take PROVE RInv'
<1>1. /\ call = "idle" /\ snap = <<>> /\ snap' = <<Snapshot(frames, arena)>>
      /\ taken' = [image |-> image, issued |-> nextEffect - 1, result |-> result]
      /\ probe' = "original"
      /\ UNCHANGED <<vars, damaged, boots, origin, tainted, asked, said>>
  BY DEF Take
<1>2. /\ IInv /\ ~tainted /\ Paused
      /\ said = [original |-> <<>>, restored |-> <<>>] /\ asked = <<>>
  BY <1>1 DEF DInv, Machines, RInv
<1>3. snap' # <<>> /\ snap'[1].frames = frames
  BY <1>1 DEF Snapshot
<1>4. DInv'
  BY TakeKeeps
<1>5. Unheard'
  BY <1>1, <1>2 DEF Unheard
<1>6. ASSUME result.kind # "none", ~damaged', Accepts'
      PROVE  \E fs \in Seq(Frames) : Tied(fs)'
  <2>1. nextEffect = 1
    <3>1. taken'.issued = nextEffect - 1 /\ nextEffect \in Nat
      BY <1>1, <1>2 DEF IInv, CountsOk
    <3> QED
      BY <1>4, <1>6, <3>1, NextIssuedNothing
  <2>2. Stuck(image, frames)
    <3>1. result.kind \in {"halted", "shut", "trap"}
      BY <1>1, <1>2, <1>6 DEF IInv, ReplyOk, Paused
    <3>2. CASE result.kind = "halted"
      BY <1>1, <1>2, <3>2 DEF IInv, ReplyOk, Stuck
    <3>3. CASE result.kind \in {"shut", "trap"}
      BY <1>1, <1>2, <2>1, <3>3 DEF Paused
    <3> QED
      BY <3>1, <3>2, <3>3
  <2>3. frames \in Seq(Frames)
    BY <1>2 DEF IInv, FramesOk
  <2>5. \A fs : fs = frames => InCall(fs)'
    BY <1>1, <1>2 DEF InCall, vars
  <2>6. ASSUME NEW fs, fs = frames PROVE Tied(fs)'
    <3>1. Stuck(taken.image, fs)'
      BY <1>1, <2>2, <2>6
    <3>2. ToSet(said'.original) = {} /\ ToSet(said'.restored) = {}
      BY <1>1, <1>2 DEF ToSet
    <3>3. InCall(fs)' /\ (snap[1].frames = fs)' /\ (image = taken.image)' /\ ~tainted'
      BY <1>1, <1>2, <1>3, <2>5, <2>6 DEF vars
    <3> QED
      BY <3>1, <3>2, <3>3 DEF Tied
  <2> QED
    BY <2>3, <2>6
<1>7. said' = [original |-> said'.original, restored |-> said'.restored]
  BY <1>1, <1>2
<1>8. call' = "idle" /\ asked' = <<>> /\ taken'.result = result
  BY <1>1, <1>2 DEF vars
<1> QED
  BY <1>1, <1>3, <1>5, <1>6, <1>7, <1>8 DEF RInv

(* Storage damages the snapshot, or a machine starts. *)
LEMMA StorageResumes ==
  ASSUME RInv, Damage \/ Boot PROVE RInv'
<1>1. snap # <<>> /\ snap' # <<>> /\ UNCHANGED <<taken, said>>
  BY DEF Damage, Boot, storage, history
<1>2. \/ damaged' /\ UNCHANGED <<vars, history>>
      \/ /\ probe' = "nobody" /\ asked' = <<>> /\ UNCHANGED <<snap, damaged>>
  BY DEF Damage, Boot, storage
<1>3. ASSUME NEW fs, Tied(fs) PROVE Tied(fs)'
  <2>1. /\ Stuck(taken.image, fs)' /\ (~damaged => snap[1].frames = fs)'
        /\ (\A x \in ToSet(said.original) : AsExpected(x, fs))'
        /\ (\A x \in ToSet(said.restored) : AsExpected(x, fs))'
    BY <1>1, <1>2, <1>3 DEF Tied, AsExpected
  <2>2. (probe # "nobody" => ~tainted /\ image = taken.image /\ InCall(fs))'
    BY <1>1, <1>2, <1>3 DEF Tied, InCall, vars, history
  <2> QED
    BY <2>1, <2>2 DEF Tied
<1>4. Unheard => Unheard'
  BY <1>1, <1>2 DEF Unheard, history
<1>5. (damaged \/ ~Accepts) => (damaged' \/ ~Accepts')
  BY <1>2 DEF Accepts
<1>6. /\ probe' \in {"nobody", "original", "restored"}
      /\ said' = [original |-> said'.original, restored |-> said'.restored]
      /\ call' # "running" => asked' = <<>>
  BY <1>1, <1>2 DEF RInv, vars, history
<1> QED
  BY <1>1, <1>3, <1>4, <1>5, <1>6 DEF RInv

(* A machine is restored, or the restore is refused. *)
LEMMA RestoreResumes ==
  ASSUME RInv, Restore PROVE RInv'
<1>1. /\ call = "idle" /\ snap # <<>> /\ call' = call /\ image' = image
      /\ UNCHANGED <<snap, taken, damaged, asked, said>>
  BY DEF Restore, storage
<1>2. ASSUME probe' # "nobody"
      PROVE  /\ Accepts /\ ~damaged /\ image = taken.image /\ ~tainted'
             /\ frames' = snap[1].frames
  BY <1>1, <1>2 DEF Restore, Accepts
<1>3. probe' \in {"nobody", "restored"}
  BY DEF Restore
<1>4. ASSUME NEW fs, Tied(fs) PROVE Tied(fs)'
  <2>1. /\ Stuck(taken.image, fs)' /\ (~damaged => snap[1].frames = fs)'
        /\ (\A x \in ToSet(said.original) : AsExpected(x, fs))'
        /\ (\A x \in ToSet(said.restored) : AsExpected(x, fs))'
    BY <1>1, <1>4 DEF Tied, AsExpected
  <2>2. ASSUME probe' # "nobody"
        PROVE  ~tainted' /\ image' = taken'.image /\ InCall(fs)'
    <3>1. frames' = fs /\ call' = "idle" /\ asked' = <<>>
      BY <1>1, <1>2, <1>4, <2>2 DEF Tied, RInv
    <3> QED
      BY <1>1, <1>2, <2>2, <3>1 DEF InCall
  <2> QED
    BY <2>1, <2>2 DEF Tied
<1>5. ASSUME damaged \/ ~Accepts, Unheard
      PROVE  (damaged' \/ ~Accepts') /\ Unheard'
  <2>1. Accepts' = Accepts
    BY <1>1 DEF Accepts
  <2> QED
    BY <1>1, <1>2, <1>3, <1>5, <2>1 DEF Unheard
<1>6. /\ said' = [original |-> said'.original, restored |-> said'.restored]
      /\ call' # "running" => asked' = <<>>
  BY <1>1 DEF RInv
<1> QED
  BY <1>1, <1>3, <1>4, <1>5, <1>6 DEF RInv

(* The invariant.                                                           *)
LEMMA RStepKeeps == DInv /\ RInv /\ [DurableNext]_all => RInv'
<1> SUFFICES ASSUME DInv, RInv, [DurableNext]_all PROVE RInv'
  OBVIOUS
<1>1. CASE Finished \/ UNCHANGED all
  <2>1. UNCHANGED <<vars, storage, history>>
    BY <1>1 DEF Finished, Stopped, all
  <2>2. UNCHANGED <<snap, taken, damaged, tainted, probe, asked, said, image, frames,
                    pending, halt, nextEffect, call, result>>
    BY <2>1 DEF vars, storage, history
  <2>3. Paused' = Paused /\ Accepts' = Accepts /\ Unheard' = Unheard
    BY <2>2 DEF Paused, Accepts, Unheard
  <2>4. \A fs : Tied(fs)' = Tied(fs)
    BY <2>2 DEF Tied, AsExpected, InCall
  <2> QED
    BY <2>2, <2>3, <2>4 DEF RInv
<1> QED
  BY <1>1, RunResumes, TakeResumes, StorageResumes, RestoreResumes DEF DurableNext

LEMMA ResumeStarts == DurableInit => RInv
  BY DEF DurableInit, Init, RInv, Paused

(* The first step call of a machine that was restored from a snapshot of a  *)
(* machine that had trapped or halted returns what the first call of that   *)
(* machine returned, given the same answer or none, for every program and   *)
(* host, though the ring, the ledger, the counters and the fork were not in *)
(* the snapshot (cont.rs snapshot, restore; interp.rs step).                *)
THEOREM ResumedAlike ==
  DurableSpec => [](taken.result.kind # "none" => ResumesAlike)
<1>1. RInv => (taken.result.kind # "none" => ResumesAlike)
  <2> SUFFICES ASSUME RInv, taken.result.kind # "none",
                      NEW x \in ToSet(said.original), NEW y \in ToSet(said.restored),
                      x.asked = y.asked
               PROVE  x.result = y.result \/ Spent(x.result) \/ Spent(y.result)
    BY DEF ResumesAlike
  <2>1. snap # <<>>
    BY DEF RInv
  <2>2. ~Unheard
    BY DEF Unheard, ToSet
  <2>3. PICK fs \in Seq(Frames) : Tied(fs)
    BY <2>1, <2>2 DEF RInv
  <2>4. AsExpected(x, fs) /\ AsExpected(y, fs)
    BY <2>3 DEF Tied
  <2> QED
    BY <2>4 DEF AsExpected
<1>2. DInv /\ RInv /\ [DurableNext]_all => RInv'
  BY RStepKeeps
<1> QED
  BY <1>1, <1>2, ResumeStarts, DurableInvariant, PTL DEF DurableSpec
=============================================================================
