---------------------------- MODULE VmProperties ----------------------------
(***************************************************************************)
(* What the machine keeps true, and what its documents say of it.          *)
(***************************************************************************)
EXTENDS Vm

Uses(op) == \E k \in 1 .. Len(image.code) : image.code[k].op = op

(* Every value the machine holds: operands, what pops left above sp, and    *)
(* the arguments of a trap about to be returned.                            *)
Held ==
  (UNION {ToSet(frames[k].slots) : k \in DOMAIN frames})
  \cup (UNION {ToSet(t.args) : t \in {x \in ToSet(pending) : x.kind = "Effect"}})

Extent(v) == HandleOf(v).off + HandleOf(v).len

Sound(v) ==
  IsArena(v) =>
    /\ Extent(v) <= Len(arena)
    /\ v.tag = LIST =>
         LET bytes == Get(arena, HandleOf(v))
         IN /\ WholeSlots(bytes) /\ AllReadable(bytes)
            /\ \A e \in ToSet(Elements(bytes)) :
                 IsArena(e) => Extent(e) <= HandleOf(v).off

(* Unless the program commits a fork, every handle in the machine lies      *)
(* inside the arena, and a list is whole slots whose own handles end before *)
(* the list begins: lists are never cyclic and never dangle (heap.rs alloc, *)
(* get, get_list; frame.rs pop, which leaves stale handles in its slots).   *)
HandlesSound == ~Uses("commit") => \A v \in Held : Sound(v)

(* While a fork is open the clone it took is a prefix of the arena, so the  *)
(* handles that existed at the fork denote the same payload whichever way   *)
(* it ends (interp.rs fork, commit, abort).                                 *)
ForkPrefix ==
  /\ Len(staged) = forkDepth
  /\ staged # <<>> => IsPrefix(staged[1], arena)

(* Values without cells behind them: what a host can name without an arena. *)
Bare == {v \in Values : v.tag \in {VOID, INT} \/ (IsArena(v) /\ v.payload = 0)}

(* Unless the program commits a fork, no pending value anywhere in the      *)
(* machine names an effect that was not issued (after a commit a list that  *)
(* is left over may find the cells of a later string in its place, and read *)
(* any slot there).  Ids are used up no faster than steps are counted, so   *)
(* the step limit bounds them (interp.rs calltool, spawn).                  *)
EffectIdsIssued ==
  /\ ~Uses("commit") =>
       \A v \in Held : v.tag = PENDING => v.payload \in 1 .. nextEffect - 1
  /\ nextEffect <= steps + 1

(* "every branch target is a real instruction in the same function"         *)
(* (lib.rs:47): in a program without abort no frame's pc leaves its         *)
(* function, across branches, calls, returns and tail calls.                *)
PcInFunction ==
  ~Uses("abort") =>
    \A k \in DOMAIN frames : frames[k].pc < FuncOf(frames[k]).len

(* A suspended caller is not touched by its callees: until a frame is the   *)
(* top one again nothing in it changes, and when it is, it has gained       *)
(* exactly the operands the callee declares to return (interp.rs call, ret).*)
CallersUntouched ==
  [][\A k \in 1 .. Len(frames) - 1 :
       /\ k < Len(frames') => frames'[k] = frames[k]
       /\ k = Len(frames') =>
            Operands(frames'[k]) = Operands(frames[k]) \o TopN(Cur, Cur.returns)]_vars

(* The program cannot mint allowance: what is left and on lease together    *)
(* never grows (interp.rs reserve, release, spend over budget.rs).          *)
NothingMinted ==
  [][\A d \in Ledger!Dims :
       remaining'[d] + reserved'[d] <= remaining[d] + reserved[d]]_vars

(* Every step call ends, whatever the program does: with a trap, an exit    *)
(* status or an error (interp.rs:75-95, limits.max_steps).                  *)
StepReturns == call = "running" ~> call # "running"

(* Across the step boundary the machine behaves as HostBoundary promises.   *)
EffectPending == pending # <<>> /\ pending[1].kind = "Effect"
ReplyOf(r) ==
  CASE r.kind = "none" -> [kind |-> "none", id |-> 0]
    [] r.kind = "err" -> [kind |-> "failed", id |-> 0]
    [] r.kind = "halted" -> [kind |-> "stopped", id |-> 0]
    [] r.kind = "shut" -> [kind |-> "closed", id |-> 0]
    [] r.kind = "trap" ->
         [kind |-> "asked", id |-> IF r.trap.kind = "Effect" THEN r.trap.id ELSE 0]
Boundary == INSTANCE HostBoundary WITH
  phase <- call,
  issued <- nextEffect - 1 - (IF EffectPending THEN 1 ELSE 0),
  reply <- ReplyOf(result)
KeepsBoundary == Boundary!Spec

-----------------------------------------------------------------------------
(* The verifier's scan against the machine. *)
TyOf(v) ==
  CASE v.tag = VOID -> "Bottom" [] v.tag = INT -> "Int" [] v.tag = STR -> "Str"
    [] v.tag = BYTES -> "Bytes" [] v.tag = LIST -> "List"
    [] v.tag = PENDING -> "Pending"
Describes(ty, v) ==
  \/ ty = "Top" \/ ty = TyOf(v)
  \/ ty = "Handle" /\ IsArena(v)

(* Programs the scan and the machine read in one order: no branch, no       *)
(* variadic instruction, none that traps and is executed again, not reserve *)
(* (which pops nothing, against its row) and not abort (which runs on).     *)
StraightOps ==
  ((ComputeOps \cup AllocOps) \ Variadic)
  \cup {"fork", "commit", "release", "spend", "ctxpush", "ctxpop", "halt", "trap"}
Linear == \A k \in 1 .. Len(image.code) : image.code[k].op \in StraightOps

(* On a straight-line program the static stack at each instruction is the   *)
(* machine's: as deep as the operand stack, and every operand of the type   *)
(* it was given (verify.rs check_function against the arms of interp.rs).   *)
ScanDescribesStack ==
  Linear /\ frames # <<>> =>
    LET types == Scan(image, FuncOf(Cur))[Cur.pc].types
    IN /\ Len(types) = Cur.sp
       /\ \A k \in 1 .. Cur.sp : Describes(types[k], Cur.slots[k])

(* Of those, the ones in which every type the verifier accepts is one the   *)
(* machine does: idx and slice pop in the reverse order of their rows, fmt  *)
(* is given any "Handle" for a list, cat and ctxpush one for a string, which *)
(* a constant of bytes is not; and a commit may leave handles outside the   *)
(* arena.                                                                   *)
Agreeing ==
  /\ Linear
  /\ \A op \in {"idx", "slice", "fmt", "commit"} : ~Uses(op)
  /\ \A k \in 1 .. Len(image.consts) : image.consts[k].utf8

(* No such program stops for want of an operand or of room for one, over an *)
(* operand's tag, or over a handle.                                         *)
OperandCodes == {"StackUnderflow", "MaxstackExceeded", "TagMismatch"}
StoppedBy(codes) == result.kind = "err" /\ result.fault \in codes
LinearNeverFaults == Agreeing => ~StoppedBy(OperandCodes \cup {"BadHandle"})
=============================================================================
