--------------------------------- MODULE Ctx ---------------------------------
(***************************************************************************)
(* The context ring (ctx.rs).  Only a segment's role and size are ever     *)
(* read back, so a segment keeps those and not its text.                   *)
(***************************************************************************)
EXTENDS Integers, Sequences, FiniteSets

CONSTANTS
  RingLimit,     \* 64 as the machine builds it
  MaxText        \* longest text a segment can hold

VARIABLE segments

Segments == [role : Nat, size : 0 .. MaxText]

(* Mutant: room for one more. *)
FullLate == Len(segments) > RingLimit
Full == Len(segments) >= RingLimit

Push(role, size) ==
  /\ ~Full
  /\ segments' = Append(segments, [role |-> role, size |-> size])

CanEvict(n) == n <= Len(segments)

PopOldest(n) ==
  /\ CanEvict(n)
  /\ segments' = SubSeq(segments, n + 1, Len(segments))

(* window lists the role of each segment. *)
Window == [i \in 1 .. Len(segments) |-> segments[i].role]

(* cost: the bytes of the window, one for each role and those of the texts, *)
(* summed by counting positions.                                            *)
Cost ==
  Cardinality({c \in (1 .. Len(segments)) \X (0 .. MaxText) :
                 c[2] <= segments[c[1]].size})
=============================================================================
