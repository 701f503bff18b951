------------------------------- MODULE Frame -------------------------------
(***************************************************************************)
(* One execution frame (frame.rs): a fixed array of slots and a movable    *)
(* stack pointer.  A pop only moves sp: the value stays in its slot until  *)
(* a push overwrites it.                                                   *)
(***************************************************************************)
EXTENDS Value

Frames == {f \in [func : Nat, pc : Nat, slots : Seq(Values), sp : Nat,
                  maxstack : Nat, returns : Nat] :
             f.sp <= f.maxstack /\ Len(f.slots) = f.maxstack}

(* Frame::new as the interpreter calls it, with no frame locals.  Arguments *)
(* beyond maxstack are dropped without an error.                            *)
NewFrame(func, args, maxstack, returns) ==
  LET kept == IF Len(args) < maxstack THEN Len(args) ELSE maxstack
  IN [func |-> func, pc |-> 0, sp |-> kept,
      slots |-> [i \in 1 .. maxstack |-> IF i <= kept THEN args[i] ELSE Void],
      maxstack |-> maxstack, returns |-> returns]

(* push and pop in sequence: n operands off, then vs on.                    *)
CanPop(f, n) == n <= f.sp
CanReplace(f, n, vs) == f.sp - n + Len(vs) <= f.maxstack
Replace(f, n, vs) ==
  LET base == f.sp - n
  IN [f EXCEPT !.sp = base + Len(vs),
               !.slots = [i \in 1 .. f.maxstack |->
                            IF base < i /\ i <= base + Len(vs)
                            THEN vs[i - base] ELSE f.slots[i]]]

(* The k-th operand from the top; Void where there is none.                 *)
Opnd(f, k) == IF k <= f.sp THEN f.slots[f.sp - k + 1] ELSE Void

(* pop_n returns the operands first-pushed first.                           *)
TopN(f, n) == SubSeq(f.slots, f.sp - n + 1, f.sp)
Operands(f) == SubSeq(f.slots, 1, f.sp)

(* peek reaches anything below sp, for n = 0 the top.                       *)
CanPeek(f, n) == n < f.sp
=============================================================================
