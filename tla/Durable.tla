------------------------------ MODULE Durable ------------------------------
(***************************************************************************)
(* A machine and its snapshots: the machine of Vm, a host that may take a   *)
(* snapshot between step calls, start a new machine for the same or another *)
(* image, and restore the snapshot, possibly damaged in storage, into       *)
(* whichever machine it has.                                                *)
(***************************************************************************)
EXTENDS VmProperties, Cont

CONSTANTS
  Noise,      \* what a damaged field may read as
  MaxBoots    \* bound: machines started one after the other

ASSUME NoiseAssumption == Noise \subseteq Word

VARIABLES
  snap,     \* <<>>, or the snapshot in storage
  taken,    \* history: the machine the snapshot was taken of
  damaged,  \* history: the snapshot was changed in storage
  boots,    \* machines started so far
  origin,   \* history: "booted", or what came of a restore since
  tainted,  \* history: the frames may hold handles of another arena
  probe,    \* history: whose next step call is observed
  asked,    \* history: <<>>, or the answer that call was given
  said      \* history: for each, <<>> or the call's answer and its reply

storage == <<snap, taken, damaged>>
history == <<origin, tainted, probe, asked, said>>
all == <<vars, storage, boots, history>>

DurableInit ==
  /\ Init
  /\ snap = <<>>
  /\ taken = [image |-> image, issued |-> 0, result |-> result]
  /\ damaged = FALSE
  /\ boots = 1
  /\ origin = "booted"
  /\ tainted = FALSE
  /\ probe = "nobody"
  /\ asked = <<>>
  /\ said = [original |-> <<>>, restored |-> <<>>]

-----------------------------------------------------------------------------
(* The first step call after a snapshot was taken, of the machine it was    *)
(* taken of, and after it was restored, of the machine it went into.        *)
Observe ==
  LET begins == call = "idle" /\ call' = "running"
      ends == call = "running" /\ call' # "running"
      given == IF frames' = frames THEN <<>> ELSE <<Opnd(frames'[Len(frames')], 1)>>
  IN /\ asked' = IF begins THEN given ELSE IF ends THEN <<>> ELSE asked
     /\ said' = IF ends /\ probe # "nobody"
                THEN [said EXCEPT ![probe] = <<[asked |-> asked, result |-> result']>>]
                ELSE said
     /\ probe' = IF call' = "running" THEN probe ELSE "nobody"

(* The machine runs as in Vm, as long as its top frame names a function of  *)
(* its image; fetching from any other one panics.                           *)
FuncExists == Ready /\ steps < MaxSteps => Cur.func < Len(image.funcs)

Run ==
  /\ FuncExists
  /\ Internal \/ Host
  /\ Observe
  /\ UNCHANGED <<storage, boots, origin, tainted>>

NoSuchFunction ==
  /\ ~FuncExists
  /\ Die("panic")
  /\ steps' = steps + 1
  /\ Observe
  /\ UNCHANGED <<storage, boots, origin, tainted>>

-----------------------------------------------------------------------------
(* A step call borrows the machine, so a snapshot is taken between calls.   *)
Take ==
  /\ call = "idle" /\ snap = <<>>
  /\ snap' = <<Snapshot(frames, arena)>>
  /\ taken' = [image |-> image, issued |-> nextEffect - 1, result |-> result]
  /\ probe' = "original"
  /\ UNCHANGED <<vars, damaged, boots, origin, tainted, asked, said>>

(* Storage loses the end of the snapshot or changes one field of it.  (The  *)
(* fields that say how long what follows is are left out, with maxstack,    *)
(* which sizes the slots.)                                                  *)
BadHeaders(s) == {[s EXCEPT !.magic = FALSE], [s EXCEPT !.version = 2]}
ShortArenas(s) ==
  {[s EXCEPT !.arena = SubSeq(@, 1, n), !.frames = <<>>] : n \in 0 .. Len(s.arena) - 1}
ShortLists(s) == {[s EXCEPT !.frames = SubSeq(@, 1, n)] : n \in 0 .. Len(s.frames) - 1}
ChangedCells(s) == {[s EXCEPT !.arena[i] = w] : i \in DOMAIN s.arena, w \in Noise}
ChangedFields(f) ==
  {[f EXCEPT !.func = w] : w \in Noise} \cup {[f EXCEPT !.pc = w] : w \in Noise}
  \cup {[f EXCEPT !.sp = w] : w \in Noise} \cup {[f EXCEPT !.returns = w] : w \in Noise}
  \cup {[f EXCEPT !.slots[i].tag = w] : i \in DOMAIN f.slots, w \in Noise}
  \cup {[f EXCEPT !.slots[i].payload = w] : i \in DOMAIN f.slots, w \in Noise}
ChangedFrames(s) ==
  UNION {{[s EXCEPT !.frames[k] = f] : f \in ChangedFields(s.frames[k])} :
         k \in DOMAIN s.frames}
Damages(s) ==
  BadHeaders(s) \cup ShortArenas(s) \cup ShortLists(s)
  \cup ChangedCells(s) \cup ChangedFrames(s)

Damage ==
  /\ snap # <<>> /\ ~damaged
  /\ \E s \in Damages(snap[1]) \ {snap[1]} : snap' = <<s>>
  /\ damaged' = TRUE
  /\ UNCHANGED <<vars, taken, boots, history>>

(* The process ends, whatever its machine was doing, and another starts.    *)
Boot ==
  /\ snap # <<>> /\ boots < MaxBoots
  /\ boots' = boots + 1
  /\ \E img \in Images :
       /\ image' = img
       /\ LET f == img.funcs[Entry(img) + 1]
          IN frames' = <<NewFrame(Entry(img), <<>>, f.maxstack, f.returns)>>
  /\ arena' = <<>>
  /\ staged' = <<>> /\ forkDepth' = 0
  /\ remaining' = [d \in Ledger!Dims |-> I64Max]
  /\ reserved' = [d \in Ledger!Dims |-> 0]
  /\ segments' = <<>>
  /\ steps' = 0 /\ nextEffect' = 1
  /\ pending' = <<>> /\ halt' = <<>>
  /\ call' = "idle" /\ result' = [kind |-> "none"]
  /\ origin' = "booted" /\ tainted' = FALSE
  /\ probe' = "nobody" /\ asked' = <<>>
  /\ UNCHANGED <<storage, said>>

(* A machine that has not moved since it was started. *)
Untouched == steps = 0 /\ origin = "booted"

(* restore, in either outcome.  The host remembers the trap it owed the     *)
(* machine of the snapshot an answer for.                                   *)
(* Mutant: the arena the machine had is kept. *)
RestoreFrames ==
  /\ call = "idle" /\ snap # <<>> /\ origin = "booted"
  /\ LET s == snap[1]
         accepted == RestoreFault(s) = "ok"
     IN /\ arena' = arena
        /\ frames' = IF accepted THEN s.frames ELSE frames
        /\ result' = IF accepted THEN taken.result ELSE result
        /\ origin' = IF accepted THEN "restored" ELSE "refused"
        /\ probe' = IF accepted /\ ~damaged /\ Untouched /\ image = taken.image
                    THEN "restored" ELSE "nobody"
        /\ tainted' = \/ accepted /\ (damaged \/ image # taken.image)
                      \/ arena' # arena /\ ~Untouched
  /\ UNCHANGED <<image, staged, forkDepth, budget, segments, steps, outcome, call,
                 storage, boots, asked, said>>
Restore ==
  /\ call = "idle" /\ snap # <<>> /\ origin = "booted"
  /\ LET s == snap[1]
         accepted == RestoreFault(s) = "ok"
     IN /\ arena' = IF HeaderFault(s) = "ok" THEN SubSeq(s.arena, 1, s.arenaLen) ELSE arena
        /\ frames' = IF accepted THEN s.frames ELSE frames
        /\ result' = IF accepted THEN taken.result ELSE result
        /\ origin' = IF accepted THEN "restored" ELSE "refused"
        /\ probe' = IF accepted /\ ~damaged /\ Untouched /\ image = taken.image
                    THEN "restored" ELSE "nobody"
        /\ tainted' = \/ accepted /\ (damaged \/ image # taken.image)
                      \/ arena' # arena /\ ~Untouched
  /\ UNCHANGED <<image, staged, forkDepth, budget, segments, steps, outcome, call,
                 storage, boots, asked, said>>

Finished == Stopped /\ UNCHANGED <<storage, boots, history>>

DurableNext == Run \/ NoSuchFunction \/ Take \/ Damage \/ Boot \/ Restore \/ Finished

DurableSpec == DurableInit /\ [][DurableNext]_all

-----------------------------------------------------------------------------
Slots(fs) == UNION {ToSet(fs[k].slots) : k \in DOMAIN fs}
Accepts == snap # <<>> /\ RestoreFault(snap[1]) = "ok"

(* A machine can always be restored from its own snapshot, unless a slot of *)
(* some frame, live or left behind above sp, holds a pending value (cont.rs *)
(* restore; without a commit, which can leave handles outside the arena).   *)
OwnSnapshotAccepted ==
  snap # <<>> /\ ~damaged /\ (\A k \in DOMAIN taken.image.code :
                                taken.image.code[k].op # "commit") =>
    (Accepts <=> \A v \in Slots(snap[1].frames) : v.tag # PENDING)

(* The effect counter is not in a snapshot, and restarts with the machine   *)
(* (interp.rs:61).  No id is used twice all the same: a snapshot that is    *)
(* accepted is of a machine that had not issued any effect, because the     *)
(* pending value of the first never leaves its frame.                       *)
RestorableIssuedNothing == ~damaged /\ Accepts => taken.issued = 0

(* A restored machine answers its first step call, with the same answer or  *)
(* none, as the machine it was taken of did: what the snapshot leaves out,  *)
(* its ring, ledger and fork, does not show at a trap.  Only the step limit *)
(* and the ledger, which start over, may make a difference (cont.rs).       *)
Spent(r) == r.kind = "err" /\ r.fault = "BudgetExceeded"
ResumesAlike ==
  \A x \in ToSet(said.original), y \in ToSet(said.restored) :
    x.asked = y.asked => x.result = y.result \/ Spent(x.result) \/ Spent(y.result)

(* The arena and the frames of a machine belong together through snapshots, *)
(* restarts and restores, accepted or refused, as they do in Vm, unless the *)
(* snapshot was damaged, was of another image, or went into a machine that  *)
(* had run: restore replaces the arena before it has checked the frames.    *)
MemorySound == ~tainted => HandlesSound /\ ForkPrefix

(* Whatever became of a snapshot in storage: once restore accepts it, every *)
(* handle in a slot of the machine lies in the arena the machine has.       *)
RestoredHandlesInside ==
  [][origin = "booted" /\ origin' = "restored" =>
       \A v \in Slots(frames') : IsArena(v) => EndOf(HandleOf(v)) <= Len(arena')]_all
=============================================================================
