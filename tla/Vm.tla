---------------------------------- MODULE Vm ----------------------------------
(***************************************************************************)
(* The machine and its host boundary (interp.rs, trap.rs).  One call of    *)
(* Vm::step is a run of internal steps, one per turn of its loop: either   *)
(* the loop finds a trap, an exit code or no frame and the call returns,   *)
(* or it counts a step and executes the instruction under the top frame's  *)
(* pc.  An instruction that fails returns an error; no driver touches the  *)
(* machine after that.                                                     *)
(***************************************************************************)
EXTENDS Verify, Heap, Frame

CONSTANTS
  Images,      \* the admitted images a machine may be built for
  HostValues,  \* the values the host may answer with
  RingLimit,   \* capacity of the context ring (64 in Vm::new)
  MaxSteps,    \* limits.max_steps
  MaxFrames    \* limits.max_frames

Entry(img) ==
  IF \E k \in 1 .. Len(img.funcs) : img.funcs[k].name = "main"
  THEN (CHOOSE k \in 1 .. Len(img.funcs) :
          /\ img.funcs[k].name = "main"
          /\ \A j \in 1 .. k - 1 : img.funcs[j].name # "main") - 1
  ELSE 0

ASSUME ImagesAssumption ==
  \A img \in Images :
    /\ WellFormed(img) /\ Admitted(img)
    /\ img.consts \in Seq([bytes : Seq(Word), utf8 : BOOLEAN])
    /\ \A k \in 1 .. Len(img.consts) : Len(img.consts[k].bytes) < Radix

ASSUME LimitsAssumption ==
  /\ HostValues \subseteq Values
  /\ RingLimit \in Nat \ {0} /\ MaxFrames \in Nat \ {0}
  /\ MaxSteps \in Nat /\ MaxSteps < Words - 1

VARIABLES
  image,       \* the image the machine was built for
  frames,      \* call stack, the top frame last
  arena,       \* cells of the arena
  staged,      \* staged_arena: <<>>, or the arena's clone at the fork
  forkDepth,
  remaining,   \* the ledger
  reserved,
  segments,    \* the context ring
  steps,
  nextEffect,
  pending,     \* <<>>, or the trap to return
  halt,        \* <<>>, or the exit code to return
  call,        \* "idle" | "running" a step call | "dead"
  result       \* what the last step call returned

machine == <<frames, arena, staged, forkDepth, remaining, reserved, segments,
             steps, nextEffect, pending, halt>>
vars == <<image, frames, arena, staged, forkDepth, remaining, reserved,
          segments, steps, nextEffect, pending, halt, call, result>>

(* The parts an instruction that only works on its frame leaves alone. *)
store == <<arena, staged, forkDepth>>
budget == <<remaining, reserved>>
outcome == <<nextEffect, pending, halt>>
rest == <<image, call, result>>

Ledger == INSTANCE Budget
Ring == INSTANCE Ctx WITH MaxText <- Radix - 1

Init ==
  /\ image \in Images
  /\ LET f == image.funcs[Entry(image) + 1]
     IN frames = <<NewFrame(Entry(image), <<>>, f.maxstack, f.returns)>>
  /\ arena = <<>>
  /\ staged = <<>>
  /\ forkDepth = 0
  /\ Ledger!Open([d \in Ledger!Dims |-> I64Max])
  /\ segments = <<>>
  /\ steps = 0
  /\ nextEffect = 1
  /\ pending = <<>>
  /\ halt = <<>>
  /\ call = "idle"
  /\ result = [kind |-> "none"]

-----------------------------------------------------------------------------
(* Fetch: the code is one stream; a frame's pc counts from its function's   *)
(* offset and nothing bounds it by the function's length.                   *)
Cur == frames[Len(frames)]
FuncOf(f) == image.funcs[f.func + 1]
Offset == FuncOf(Cur).off + Cur.pc
Fetched == image.code[Offset + 1]

Ready == call = "running" /\ pending = <<>> /\ halt = <<>> /\ frames # <<>>
Fetchable == Ready /\ steps < MaxSteps /\ Offset < Len(image.code)

Const(b) ==
  IF b < Len(image.consts) THEN image.consts[b + 1]
  ELSE [bytes |-> <<>>, utf8 |-> TRUE]
Table(b) == IF b < Len(image.tables) THEN image.tables[b + 1] ELSE <<>>

-----------------------------------------------------------------------------
(* What an instruction demands of its operands, in the order it pops them.  *)
(* An "int" is checked as it is popped, an arena tag after the last pop.    *)
IntBinary == {"add", "sub", "mul", "div", "mod", "lt", "and", "or", "shl", "shr"}

Kinds(d) ==
  CASE d.op \in IntBinary -> <<"int", "int">>
    [] d.op \in {"not", "switch", "release", "spend"} -> <<"int">>
    [] d.op \in {"drop", "brz", "brnz", "stl"} -> <<"any">>
    [] d.op = "swap" -> <<"any", "any">>
    [] d.op = "rot" -> <<"any", "any", "any">>
    [] d.op \in {"unpack", "fmt", "calltool", "spawn"} -> <<"list">>
    [] d.op = "idx" -> <<"list", "int">>
    [] d.op = "len" -> <<"arena">>
    [] d.op = "cat" -> <<"str", "str">>
    [] d.op = "slice" -> <<"arena", "int", "int">>
    [] d.op = "find" -> <<"arena", "arena">>
    [] d.op = "ctxpush" -> <<"str">>
    [] d.op = "eq" -> IF Opnd(Cur, 1).tag = Opnd(Cur, 2).tag /\ ~IsInt(Opnd(Cur, 1))
                      THEN <<"arena", "arena">> ELSE <<"any", "any">>
    [] d.op = "pack" -> [k \in 1 .. d.b |-> "any"]
    [] d.op \in {"call", "tail"} /\ d.b < Len(image.funcs) ->
         [k \in 1 .. image.funcs[d.b + 1].args |-> "any"]
    [] d.op = "ret" -> [k \in 1 .. Cur.returns |-> "any"]
    [] OTHER -> <<>>

Arity(d) == Len(Kinds(d))
Arg(k) == Opnd(Cur, k)
ArgInt(k) == AsInt(Arg(k))
ArgBytes(k) == Get(arena, HandleOf(Arg(k)))
ArgList(k) == Elements(ArgBytes(k))

PopsFault(d) ==
  LET short(k) == Cur.sp < k
      wrong(k) == Kinds(d)[k] = "int" /\ ~IsInt(Arg(k))
      bad == {k \in 1 .. Arity(d) : short(k) \/ wrong(k)}
  IN IF bad = {} THEN "ok"
     ELSE IF \E k \in bad : short(k) /\ \A j \in bad : k <= j
     THEN "StackUnderflow" ELSE "TagMismatch"

TagOk(v, kind) ==
  CASE kind = "str" -> v.tag = STR
    [] kind = "list" -> v.tag = LIST
    [] kind = "arena" -> IsArena(v)
    [] OTHER -> TRUE

(* as_handle or as_handle_of, then arena.get or arena.get_list. *)
DerefFault(k, kind) ==
  IF ~TagOk(Arg(k), kind) THEN "TagMismatch"
  ELSE IF kind \notin {"str", "list", "arena"} THEN "ok"
  ELSE IF ~Within(arena, HandleOf(Arg(k))) THEN "BadHandle"
  ELSE IF kind = "list" /\ ~WholeSlots(ArgBytes(k)) THEN "BadHandle"
  ELSE IF kind = "list" /\ ~AllReadable(ArgBytes(k)) THEN "SnapshotCorrupt"
  ELSE "ok"

(* find checks its second operand completely before its first; every other  *)
(* instruction checks all tags before it reads the arena.                   *)
DerefsFault(d) ==
  LET fault(k) == DerefFault(k, Kinds(d)[k])
      some(code) == \E k \in 1 .. Arity(d) : fault(k) = code
  IN IF d.op = "find" /\ fault(2) # "ok" THEN fault(2)
     ELSE IF some("TagMismatch") THEN "TagMismatch"
     ELSE IF some("BadHandle") THEN "BadHandle"
     ELSE IF some("SnapshotCorrupt") THEN "SnapshotCorrupt"
     ELSE "ok"

-----------------------------------------------------------------------------
(* Results: the values an instruction leaves on its frame, bottom first.    *)
Position(hay, needle) ==
  LET hits == {i \in 0 .. Len(hay) - Len(needle) :
                 SubSeq(hay, i + 1, i + Len(needle)) = needle}
  IN IF hits = {} THEN -1 ELSE CHOOSE i \in hits : \A j \in hits : i <= j

Same(v, w) ==
  IF v.tag = w.tag /\ ~IsInt(v)
  THEN Get(arena, HandleOf(v)) = Get(arena, HandleOf(w))
  ELSE v = w

(* a below b on the stack, as the arithmetic arms name them. *)
Computed(op, a, b) ==
  CASE op = "add" -> IntV(AsInt(a) + AsInt(b))
    [] op = "sub" -> IntV(AsInt(a) - AsInt(b))
    [] op = "mul" -> IntV(AsInt(a) * AsInt(b))
    [] op = "div" -> IntV(Quotient(AsInt(a), AsInt(b)))
    [] op = "mod" -> IntV(Remainder(AsInt(a), AsInt(b)))
    [] op = "lt"  -> BoolV(AsInt(a) < AsInt(b))
    [] op = "and" -> IntV(BitAnd(a.payload, b.payload))
    [] op = "or"  -> IntV(BitOr(a.payload, b.payload))
    [] op = "shl" -> IntV(AsInt(a) * 2 ^ (b.payload % WordBits))
    [] op = "shr" -> IntV(AsInt(a) \div 2 ^ (b.payload % WordBits))

ComputeOps == IntBinary \cup
  {"nop", "resume", "ldi", "dup", "dupn", "drop", "swap", "rot", "unpack",
   "idx", "len", "find", "eq", "not", "ctxcost"}

Results(d) ==
  CASE d.op \in IntBinary -> <<Computed(d.op, Arg(2), Arg(1))>>
    [] d.op = "ldi" -> <<IntV(Imm(d))>>
    [] d.op = "dup" -> <<Arg(1)>>
    [] d.op = "dupn" -> <<Arg(d.b + 1)>>
    [] d.op = "swap" -> <<Arg(1), Arg(2)>>
    [] d.op = "rot" -> <<Arg(1), Arg(3), Arg(2)>>
    [] d.op = "unpack" -> ArgList(1)
    [] d.op = "idx" -> <<ArgList(1)[ArgInt(2) + 1]>>
    [] d.op = "len" -> <<IntV(Len(ArgBytes(1)))>>
    [] d.op = "find" -> <<IntV(Position(ArgBytes(2), ArgBytes(1)))>>
    [] d.op = "eq" -> <<BoolV(Same(Arg(2), Arg(1)))>>
    [] d.op = "not" -> <<BoolV(ArgInt(1) = 0)>>
    [] d.op = "ctxcost" -> <<IntV(Ring!Cost)>>
    [] OTHER -> <<>>

AllocOps == {"ldc", "argv", "pack", "cat", "fmt", "slice", "ctxwin"}

(* fmt's text is one cell here, unless it has nothing to print. *)
TextCell == PENDING + 1
Formatted(template, items) ==
  IF template = <<>> /\ items = <<>> THEN <<>> ELSE <<TextCell>>

Clamp(n, top) == IF n < 0 THEN 0 ELSE IF n > top THEN top ELSE n
Between(bytes, m, n) ==
  LET lo == Clamp(m, Len(bytes))
      hi == Clamp(n, Len(bytes))
  IN IF lo <= hi THEN SubSeq(bytes, lo + 1, hi) ELSE SubSeq(bytes, hi + 1, lo)

RoleValues == [i \in 1 .. Len(Ring!Window) |-> IntV(Ring!Window[i])]

Payload(d) ==
  CASE d.op = "ldc" -> Const(d.b).bytes
    [] d.op = "argv" -> <<0>>
    [] d.op = "pack" -> ListBytes(TopN(Cur, d.b))
    [] d.op = "cat" -> ArgBytes(2) \o ArgBytes(1)
    [] d.op = "fmt" -> Formatted(Const(d.b).bytes, ArgList(1))
    [] d.op = "slice" -> Between(ArgBytes(1), ArgInt(3), ArgInt(2))
    [] d.op = "ctxwin" -> ListBytes(RoleValues)

PayloadTag(d) ==
  CASE d.op = "ldc" -> IF Const(d.b).utf8 THEN STR ELSE BYTES
    [] d.op \in {"pack", "ctxwin"} -> LIST
    [] d.op = "slice" -> BYTES
    [] OTHER -> STR

(* How many values end up on a frame: the top one, or for ret its caller.   *)
Left(d) ==
  CASE d.op \in ComputeOps -> Len(Results(d))
    [] d.op \in AllocOps \cup {"fork", "queryq", "calltool", "spawn"} -> 1
    [] OTHER -> 0

-----------------------------------------------------------------------------
(* Faults: the code of the first check the instruction fails, or "ok".      *)
OwnFault(d) ==
  CASE d.op \in {"dup", "dupn"} /\ ~CanPeek(Cur, IF d.op = "dup" THEN 0 ELSE d.b)
         -> "StackUnderflow"
    [] d.op \in {"ldl", "stl"} -> "StackUnderflow"     \* no frame has locals
    [] d.op = "idx" /\ ~(ArgInt(2) \in 0 .. Len(ArgList(1)) - 1) -> "IndexRange"
    [] d.op = "find" /\ ArgBytes(1) = <<>> -> "panic"  \* windows(0)
    [] d.op \in {"div", "mod"} /\ ArgInt(1) = 0 -> "DivideByZero"
    [] d.op = "call" /\ Len(frames) >= MaxFrames -> "BudgetExceeded"
    [] d.op = "trap" -> "Trapped"
    [] d.op = "fork" /\ forkDepth > 0 -> "ForkImbalance"
    [] d.op = "reserve" /\ ~Ledger!CanReserve(d.a, d.b) -> "BudgetExceeded"
    [] d.op \in {"release", "spend"} /\ ~Ledger!CanReturn(d.a, ArgInt(1))
         -> "BudgetExceeded"
    [] d.op = "ctxpush" /\ Ring!Full -> "ArenaExhausted"
    [] d.op = "ctxpop" /\ ~Ring!CanEvict(d.b) -> "IndexRange"
    [] OTHER -> "ok"

RoomFault(d) ==
  IF d.op \in AllocOps /\ ~CanAlloc(arena, Payload(d)) THEN "ArenaExhausted"
  ELSE IF Cur.sp - Arity(d) + Left(d) > Cur.maxstack THEN "MaxstackExceeded"
  ELSE IF d.op = "ret" /\ Len(frames) > 1
          /\ frames[Len(frames) - 1].sp + Cur.returns
               > frames[Len(frames) - 1].maxstack
       THEN "MaxstackExceeded"
  ELSE "ok"

FaultOf(d) ==
  IF d.op \in {"call", "tail"} /\ d.b >= Len(image.funcs) THEN "DanglingIndex"
  ELSE IF PopsFault(d) # "ok" THEN PopsFault(d)
  ELSE IF DerefsFault(d) # "ok" THEN DerefsFault(d)
  ELSE IF OwnFault(d) # "ok" THEN OwnFault(d)
  ELSE RoomFault(d)

-----------------------------------------------------------------------------
(* Executing an instruction that succeeds. *)
(* Mutant: an executed instruction is not counted. *)
ExecutingFree(ops) ==
  /\ Fetchable
  /\ Fetched.op \in ops
  /\ FaultOf(Fetched) = "ok"
  /\ UNCHANGED <<rest, steps>>
Executing(ops) ==
  /\ Fetchable
  /\ Fetched.op \in ops
  /\ FaultOf(Fetched) = "ok"
  /\ steps' = steps + 1
  /\ UNCHANGED rest

Advance(f) == [f EXCEPT !.pc = @ + 1]
(* Mutant: a target counts from the branch. *)
JumpBy(f, target) == [f EXCEPT !.pc = @ + target]
Jump(f, target) == [f EXCEPT !.pc = target]
SetTop(f) == frames' = [frames EXCEPT ![Len(frames)] = f]
(* Mutant: a binary operation writes over its right operand only. *)
RewriteTop(d, vs) == Replace(Cur, IF d.op \in IntBinary THEN 1 ELSE Arity(d), vs)
Rewrite(d, vs) == Replace(Cur, Arity(d), vs)

Compute ==
  /\ Executing(ComputeOps)
  /\ SetTop(Advance(Rewrite(Fetched, Results(Fetched))))
  /\ UNCHANGED <<store, budget, segments, outcome>>

Allocate ==
  /\ Executing(AllocOps)
  /\ LET d == Fetched
         h == NewHandle(arena, Payload(d))
     IN /\ arena' = Alloc(arena, Payload(d))
        /\ SetTop(Advance(Rewrite(d, <<HandleV(PayloadTag(d), h)>>)))
  /\ UNCHANGED <<staged, forkDepth, budget, segments, outcome>>

Branch ==
  /\ Executing({"br", "brz", "brnz"})
  /\ LET d == Fetched
         taken == CASE d.op = "br"   -> TRUE
                    [] d.op = "brz"  -> ~Truthy(Arg(1))
                    [] d.op = "brnz" -> Truthy(Arg(1))
         f == Rewrite(d, <<>>)
     IN SetTop(IF taken THEN Jump(f, d.b) ELSE Advance(f))
  /\ UNCHANGED <<store, budget, segments, outcome>>

Switch ==
  /\ Executing({"switch"})
  /\ LET table == Table(Fetched.b)
         arm == IF ArgInt(1) \in 0 .. Len(table) - 2 THEN ArgInt(1) + 1
                ELSE Len(table)
         target == IF table = <<>> THEN 0 ELSE table[arm]
     IN SetTop(Jump(Rewrite(Fetched, <<>>), target))
  /\ UNCHANGED <<store, budget, segments, outcome>>

(* call leaves the caller's pc on the call itself. *)
Call ==
  /\ Executing({"call"})
  /\ LET d == Fetched
         target == image.funcs[d.b + 1]
         args == TopN(Cur, target.args)
     IN frames' = Append([frames EXCEPT ![Len(frames)] = Rewrite(d, <<>>)],
                         NewFrame(d.b, args, target.maxstack, target.returns))
  /\ UNCHANGED <<store, budget, segments, outcome>>

TailCall ==
  /\ Executing({"tail"})
  /\ LET target == image.funcs[Fetched.b + 1]
         args == TopN(Cur, target.args)
     IN SetTop(NewFrame(Fetched.b, args, target.maxstack, target.returns))
  /\ UNCHANGED <<store, budget, segments, outcome>>

ExitCode(vs) == IF vs # <<>> /\ IsInt(vs[1]) THEN AsInt(vs[1]) ELSE 0

(* Mutant: everything the callee left goes to its caller. *)
RetAll ==
  /\ Executing({"ret"})
  /\ LET values == Operands(Cur)
         depth == Len(frames) - 1
     IN IF depth = 0
        THEN frames' = <<>> /\ halt' = <<ExitCode(values)>>
        ELSE /\ frames' = [SubSeq(frames, 1, depth) EXCEPT
                             ![depth] = Replace(@, 0, values)]
             /\ UNCHANGED halt
  /\ UNCHANGED <<store, budget, segments, nextEffect, pending>>

(* The last frame's values become the exit code; any other frame's go to    *)
(* its caller, whose pc is not moved.                                       *)
Ret ==
  /\ Executing({"ret"})
  /\ LET values == TopN(Cur, Cur.returns)
         depth == Len(frames) - 1
     IN IF depth = 0
        THEN /\ frames' = <<>>
             /\ halt' = <<ExitCode(values)>>
        ELSE /\ frames' = [SubSeq(frames, 1, depth) EXCEPT
                             ![depth] = Replace(@, 0, values)]
             /\ UNCHANGED halt
  /\ UNCHANGED <<store, budget, segments, nextEffect, pending>>

Halt ==
  /\ Executing({"halt"})
  /\ frames' = <<>>
  /\ halt' = <<ExitCode(IF Cur.sp > 0 THEN <<Arg(1)>> ELSE <<>>)>>
  /\ UNCHANGED <<store, budget, segments, nextEffect, pending>>

(* The instructions below that raise a trap leave pc where it is. *)
Raise(trap) == pending' = <<trap>>

IssueEffect ==
  /\ Executing({"calltool", "spawn"})
  /\ Raise([kind |-> "Effect", id |-> nextEffect, tool |-> Fetched.b,
            args |-> ArgList(1)])
  /\ nextEffect' = nextEffect + 1
  /\ SetTop(Rewrite(Fetched, <<PendingV(nextEffect)>>))
  /\ UNCHANGED <<store, budget, segments, halt>>

Suspend ==
  /\ Executing({"await", "poll", "join", "select", "cancel", "checkpoint",
                "yieldctx"})
  /\ Raise([kind |-> "Yield"])
  /\ UNCHANGED <<frames, store, budget, segments, nextEffect, halt>>

AskOracle ==
  /\ Executing({"now", "rand", "env", "log"})
  /\ Raise([kind |-> "Oracle", op |-> Fetched.op])
  /\ UNCHANGED <<frames, store, budget, segments, nextEffect, halt>>

QueryQ ==
  /\ Executing({"queryq"})
  /\ Raise([kind |-> "Oracle", op |-> "queryq"])
  /\ SetTop(Rewrite(Fetched, <<IntV(Ledger!Remaining(Fetched.a))>>))
  /\ UNCHANGED <<store, budget, segments, nextEffect, halt>>

Fork ==
  /\ Executing({"fork"})
  /\ forkDepth' = 1
  /\ staged' = <<arena>>
  /\ SetTop(Advance(Rewrite(Fetched, <<IntV(0)>>)))
  /\ UNCHANGED <<arena, budget, segments, outcome>>

(* commit reinstates the clone taken at the fork. *)
Commit ==
  /\ Executing({"commit"})
  /\ arena' = IF staged # <<>> THEN staged[1] ELSE arena
  /\ staged' = <<>>
  /\ forkDepth' = 0
  /\ SetTop(Advance(Cur))
  /\ UNCHANGED <<budget, segments, outcome>>

(* Mutants: the clone is kept; the clone is reinstated. *)
AbortHolds ==
  /\ Executing({"abort"})
  /\ forkDepth' = 0
  /\ SetTop(Advance(Cur))
  /\ UNCHANGED <<arena, staged, budget, segments, outcome>>
AbortRestores ==
  /\ Executing({"abort"})
  /\ arena' = IF staged # <<>> THEN staged[1] ELSE arena
  /\ staged' = <<>>
  /\ forkDepth' = 0
  /\ SetTop(Advance(Cur))
  /\ UNCHANGED <<budget, segments, outcome>>

(* abort keeps the arena and, unlike its table row, moves to the next       *)
(* instruction.                                                             *)
Abort ==
  /\ Executing({"abort"})
  /\ staged' = <<>>
  /\ forkDepth' = 0
  /\ SetTop(Advance(Cur))
  /\ UNCHANGED <<arena, budget, segments, outcome>>

(* reserve takes its amount from operand b and pops nothing. *)
Meter ==
  /\ Executing({"reserve", "release", "spend"})
  /\ LET d == Fetched
     IN \/ d.op = "reserve" /\ Ledger!Reserve(d.a, d.b)
        \/ d.op = "release" /\ Ledger!Release(d.a, ArgInt(1))
        \/ d.op = "spend" /\ Ledger!Spend(d.a, ArgInt(1))
  /\ SetTop(Advance(Rewrite(Fetched, <<>>)))
  /\ UNCHANGED <<store, segments, outcome>>

CtxPush ==
  /\ Executing({"ctxpush"})
  /\ Ring!Push(Fetched.a, Len(ArgBytes(1)))
  /\ SetTop(Advance(Rewrite(Fetched, <<>>)))
  /\ UNCHANGED <<store, budget, outcome>>

CtxPop ==
  /\ Executing({"ctxpop"})
  /\ Ring!PopOldest(Fetched.b)
  /\ SetTop(Advance(Cur))
  /\ UNCHANGED <<store, budget, outcome>>

Execute ==
  \/ Compute \/ Allocate
  \/ Branch \/ Switch \/ Call \/ TailCall \/ Ret \/ Halt
  \/ IssueEffect \/ Suspend \/ AskOracle \/ QueryQ
  \/ Fork \/ Commit \/ Abort
  \/ Meter \/ CtxPush \/ CtxPop

-----------------------------------------------------------------------------
(* The ways a step call ends. *)
Return(r) ==
  /\ call' = "idle"
  /\ result' = r
  /\ UNCHANGED image

Die(code) ==
  /\ call' = "dead"
  /\ result' = [kind |-> "err", fault |-> code]
  /\ UNCHANGED <<image, frames, store, budget, segments, outcome>>

(* Mutant: the trap is returned and stays pending. *)
ReturnTrapKept ==
  /\ call = "running" /\ pending # <<>>
  /\ Return([kind |-> "trap", trap |-> pending[1]])
  /\ UNCHANGED machine

ReturnTrap ==
  /\ call = "running" /\ pending # <<>>
  /\ Return([kind |-> "trap", trap |-> pending[1]])
  /\ pending' = <<>>
  /\ UNCHANGED <<frames, store, budget, segments, steps, nextEffect, halt>>

ReturnHalt ==
  /\ call = "running" /\ pending = <<>> /\ halt # <<>>
  /\ Return([kind |-> "halted", code |-> halt[1]])
  /\ halt' = <<>>
  /\ UNCHANGED <<frames, store, budget, segments, steps, nextEffect, pending>>

ReturnEmpty ==
  /\ call = "running" /\ pending = <<>> /\ halt = <<>> /\ frames = <<>>
  /\ Return([kind |-> "halted", code |-> 0])
  /\ UNCHANGED machine

(* The count is raised before it is compared with the limit. *)
StepLimit ==
  /\ Ready /\ steps >= MaxSteps
  /\ Die("BudgetExceeded")
  /\ steps' = steps + 1

PcEscape ==
  /\ Ready /\ steps < MaxSteps /\ Offset >= Len(image.code)
  /\ Die("UnassignedOpcode")
  /\ steps' = steps + 1

Fault ==
  /\ Fetchable
  /\ FaultOf(Fetched) # "ok"
  /\ Die(FaultOf(Fetched))
  /\ steps' = steps + 1

Internal ==
  Execute \/ ReturnTrap \/ ReturnHalt \/ ReturnEmpty
  \/ StepLimit \/ PcEscape \/ Fault

-----------------------------------------------------------------------------
(* The host.  It may call step without an answer at any time until a call   *)
(* has failed, and answers only a trap ("the host's reply to the previous   *)
(* trap", interp.rs:66); an answer is pushed on the top frame whatever it   *)
(* answers.  A shutdown changes nothing: the call returns the exit status 1 *)
(* (here of a kind of its own, "shut", as the host knows whose exit it is), *)
(* and the next call runs on.                                               *)
Trapped == call = "idle" /\ result.kind = "trap"

Resume ==
  /\ call = "idle"
  /\ call' = "running"
  /\ UNCHANGED <<image, machine, result>>

Answer ==
  /\ Trapped
  /\ \E v \in HostValues :
       IF CanReplace(Cur, 0, <<v>>)
       THEN /\ SetTop(Replace(Cur, 0, <<v>>))
            /\ call' = "running"
            /\ UNCHANGED <<image, store, budget, segments, steps, outcome, result>>
       ELSE Die("MaxstackExceeded") /\ UNCHANGED steps

Shutdown ==
  /\ Trapped
  /\ result' = [kind |-> "shut", code |-> 1]
  /\ UNCHANGED <<image, machine, call>>

Stopped ==
  /\ call = "dead"
  /\ UNCHANGED vars

Host == Resume \/ Answer \/ Shutdown

Next == Internal \/ Host \/ Stopped

(* step's loop keeps turning once it is called; nothing obliges the host.   *)
Spec == Init /\ [][Next]_vars /\ WF_vars(Internal)

-----------------------------------------------------------------------------
Traps == [kind : {"Effect"}, id : Nat, tool : Nat, args : Seq(Values)]
         \cup [kind : {"Oracle"}, op : Ops] \cup [kind : {"Yield"}]

TypeOK ==
  /\ image \in Images
  /\ frames \in Seq(Frames) /\ Len(frames) <= MaxFrames
  /\ arena \in Seq(Word) /\ Len(arena) < Radix
  /\ staged \in Seq(Seq(Word)) /\ Len(staged) <= 1
  /\ forkDepth \in 0 .. 1
  /\ remaining \in [Ledger!Dims -> 0 .. I64Max]
  /\ reserved \in [Ledger!Dims -> 0 .. I64Max]
  /\ segments \in Seq(Ring!Segments) /\ Len(segments) <= RingLimit
  /\ steps \in 0 .. MaxSteps + 1
  /\ nextEffect \in Nat \ {0}
  /\ pending \in Seq(Traps) /\ Len(pending) <= 1
  /\ halt \in Seq(-Half .. I64Max) /\ Len(halt) <= 1
  /\ call \in {"idle", "running", "dead"}
=============================================================================
