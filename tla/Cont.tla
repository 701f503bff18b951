-------------------------------- MODULE Cont --------------------------------
(***************************************************************************)
(* Continuations (cont.rs): the snapshot of a machine, and the checks that  *)
(* restore makes while it reads one.  A snapshot holds the arena and the    *)
(* frames, and of a frame every slot, those above sp included.  Of the      *)
(* lengths it is written with, those of the arena and of the frame list are *)
(* kept, so that a snapshot can be cut short.                               *)
(***************************************************************************)
EXTENDS Heap, Frame, SequencesExt

SNAP_VERSION == 1

(* Mutants: a frame starts over; only the operands are kept. *)
SnapshotAtStart(frames, arena) ==
  [magic |-> TRUE, version |-> SNAP_VERSION,
   arenaLen |-> Len(arena), arena |-> arena,
   count |-> Len(frames),
   frames |-> [k \in 1 .. Len(frames) |-> [frames[k] EXCEPT !.pc = 0]]]
Snapshot(frames, arena) ==
  [magic |-> TRUE, version |-> SNAP_VERSION,
   arenaLen |-> Len(arena), arena |-> arena,
   count |-> Len(frames), frames |-> frames]

(* restore has replaced the machine's arena once it has read the header and *)
(* the whole arena, before it looks at any frame.                           *)
HeaderFault(s) ==
  IF ~s.magic THEN "SnapshotCorrupt"
  ELSE IF s.version # SNAP_VERSION THEN "SnapshotVersion"
  ELSE IF s.arenaLen > Len(s.arena) THEN "SnapshotCorrupt"
  ELSE "ok"

(* Mutants: only a handle's offset is checked; a handle that ends with the  *)
(* arena is refused; a pending value passes.                                *)
SlotFaultOffset(s, v) ==
  IF v.tag \notin Tags THEN "SnapshotCorrupt"
  ELSE IF v.tag = PENDING THEN "LivePending"
  ELSE IF IsArena(v) /\ HandleOf(v).off > s.arenaLen THEN "BadHandle"
  ELSE "ok"
SlotFaultEnd(s, v) ==
  IF v.tag \notin Tags THEN "SnapshotCorrupt"
  ELSE IF v.tag = PENDING THEN "LivePending"
  ELSE IF IsArena(v) /\ EndOf(HandleOf(v)) >= s.arenaLen THEN "BadHandle"
  ELSE "ok"
SlotFaultPending(s, v) ==
  IF v.tag \notin Tags THEN "SnapshotCorrupt"
  ELSE IF IsArena(v) /\ EndOf(HandleOf(v)) > s.arenaLen THEN "BadHandle"
  ELSE "ok"
SlotFault(s, v) ==
  IF v.tag \notin Tags THEN "SnapshotCorrupt"
  ELSE IF v.tag = PENDING THEN "LivePending"
  ELSE IF IsArena(v) /\ EndOf(HandleOf(v)) > s.arenaLen THEN "BadHandle"
  ELSE "ok"

(* What the checks of a frame say, in their order: each slot, then sp.      *)
(* Mutant: sp is not compared with the slots. *)
FrameFaultsSlots(s, f) == [i \in 1 .. Len(f.slots) |-> SlotFault(s, f.slots[i])]
FrameFaults(s, f) ==
  Append([i \in 1 .. Len(f.slots) |-> SlotFault(s, f.slots[i])],
         IF f.sp > Len(f.slots) THEN "SnapshotCorrupt" ELSE "ok")

(* The first check that fails ends the reading. *)
FirstFault(faults) ==
  LET k == SelectInSeq(faults, LAMBDA fault : fault # "ok")
  IN IF k = 0 THEN "ok" ELSE faults[k]

FramesFault(s) ==
  FirstFault(Append([k \in 1 .. Len(s.frames) |-> FirstFault(FrameFaults(s, s.frames[k]))],
                    IF s.count > Len(s.frames) THEN "SnapshotCorrupt" ELSE "ok"))

RestoreFault(s) ==
  IF HeaderFault(s) # "ok" THEN HeaderFault(s) ELSE FramesFault(s)
=============================================================================
