# CinderVM: a TLA+ development

CinderVM runs programs of a small stack machine on behalf of a host. A program
is assembled, verified and sealed into an *image*; the machine executes it and
gives control back to the host whenever it needs something from outside (a tool,
a clock, a yield); the host's answers are journalled so that a run can be
replayed, and a running machine can be snapshotted and restored. This directory
models that system (the instruction table and its encodings, the assembler, the
verifier with its control-flow graph, the machine with its arena, frames, ring
and ledger, the host boundary, snapshots, the journal and its replay), checks it
with TLC, and proves with TLAPS that the ledger, the machine, the verifier's scan of
straight lines, its blocks, dominators and loops, the recorded and replayed run,
snapshots and restores, the encodings and the assembler keep their promises for
every program, source, host and limit.

The repository does not hold the image container (`image.rs`) or the Go
supervisor; they are modelled only as far as `src/src` uses them.

## 1. The system

| component | state | operations | interacts with |
|---|---|---|---|
| instruction set `isa.rs` | none; one table row per opcode | decode, encode, operand sign extension, the type lattice's join and satisfies | read by the verifier, the graph and the machine |
| values `value.rs` | tag and 64-bit word | packing of handles, slot read/write | everywhere |
| arena `heap.rs` | one grow-only buffer | alloc, alloc_list, get, get_list, from_bytes | machine, snapshots |
| frame `frame.rs` | function, pc, fixed slots, sp | push, pop, peek, pop_n, locals | machine, snapshots |
| context ring `ctx.rs` | bounded sequence of segments | push, pop_oldest, window, cost | machine |
| budget `budget.rs` | remaining and reserved, per dimension | reserve, release, spend, charge_arena, remaining | machine |
| control-flow graph `cfg.rs` | blocks, reverse postorder, immediate dominators, back edges of one function | build, dominates | verifier |
| verifier `verify.rs` | none between calls | admit | assembler's object in, image out |
| interpreter `interp.rs`, `trap.rs` | all of the above, step and effect counters, fork clone, a pending trap or exit code | `step(answer)`, one arm per opcode | host by calls and replies |
| continuations `cont.rs` | a byte snapshot | snapshot, restore | reads and overwrites the machine's arena and frames |
| journal `journal.rs`, `hash.rs` | chained records and the head hash | append, verify_chain, serialization | recorder, replay host |
| replay `replay.rs` | a journal and a cursor | record, answer | host side of the machine |
| assembler `asm.rs`, `lex.rs` | symbol tables, pending labels, the open function | assemble; Builder's calls | verifier |
| protocol `wire.rs` | none between calls | encode, decode of frames | supervisor |
| driver `bin/cinderc.rs` | the run loop | build, run, disassemble | everything |

The crate is single-threaded. What makes it hard is not interleaving of threads
but *protocol*: the host may call `step` with or without an answer in any order;
an instruction that traps is not over when control comes back; memory is
cloned, swapped and dropped by forks while handles to it sit in frames, popped
slots, traps and lists; and the machine trusts a verifier that reads programs in
a different order from the one in which they run. Two more actors are not in the
process at all: *storage*, which keeps snapshots and journals and may lose or
change part of them, and the *operator*, who ends a process at any moment and
starts another, perhaps with another build of the program.

What makes each component correct:

- *budget*: allowance is never lost, invented or overspent; refusals happen exactly when a lease does not fit.
- *arena, values, frames*: every handle the machine holds denotes bytes that exist; lists never contain themselves.
- *fork*: the clone and the live arena stay reconcilable until the fork ends.
- *control*: the pc stays inside its function; callees do not touch callers.
- *host boundary*: calls and replies alternate, effect ids are fresh and gapless, an exit of the program is final, every call returns.
- *graph*: blocks, reachability and loops agree with the control flow of the instructions.
- *verifier*: what it concludes of a program is true of the machine running it.
- *snapshot*: a machine can be restored from its own snapshot and goes on as it would have; whatever became of the bytes, an accepted snapshot gives no handle outside the arena and issues no effect id again.
- *journal, replay*: what was saved tells a prefix of the run; damage is noticed; a replay repeats the run for as long as the journal carries its answers.
- *encodings*: what was encoded is what is decoded, in either width.
- *assembler*: an accepted source's code says what the source says (opcodes, numbers, names, branches); functions' windows tile the code.

The list of hazards behind these properties, each at its line, is in
`PROJECT.json`.

## 2. The modules

Constant modules (definitions only):

| module | models | correspondence |
|---|---|---|
| `Isa` | `isa.rs` | `TABLE` has a row for each of the 65 opcodes: operand class, pops, pushes; `Variadic` and `Terminal` are the flags |
| `Value` | `value.rs` | a value is a tag and a word of `2*Half` values; a handle packs offset and length in base `Radix` |
| `Heap` | `heap.rs` | the arena is a sequence of cells, one per aligned unit; `Alloc`, `Get`, `Elements` |
| `Frame` | `frame.rs` | slots and `sp`; pops leave stale values above `sp` |
| `Codec` | `isa.rs` encode, decode, imm; `cfg.rs` decode_range | code is a sequence of four-byte words; `Units` is one more than the largest narrow operand |
| `Hash` | `hash.rs` | FNV-1a, a word at a time |
| `Journal` | `journal.rs` | records, `Appended`, the chain walk `ChainFault`, the file `ToBytes`, `FromBytes`, `LoadFault` |
| `Cont` | `cont.rs` | `Snapshot`, and the checks of restore in their order (`HeaderFault`, `FramesFault`) |
| `Cfg` | `cfg.rs` | edges, leaders, blocks, `ReversePostorder` by the same depth-first loop, `Idoms` by the same sweeps and chain intersection, `BackEdges` by the chain walk; loops are recursive functions up to a number of turns within which the code's loop ends |
| `Verify` | `verify.rs` | `Scan` is the type scan, `CheckFunction` the sequence of checks with the code of the first that fails, `Verdict` is `admit` |

State machines:

| module | models | variables |
|---|---|---|
| `Budget` | `budget.rs` | `remaining`, `reserved`; composed into `Metering` and, as `Ledger`, into `Vm` |
| `Ctx` | `ctx.rs` | `segments`; composed, as `Ring`, into `Vm` |
| `Metering` | the ledger under any sequence of calls | the ledger plus the history `limit`, `spent`, `last` |
| `Quota` | abstract: what a ledger promises | `limit`, `spent`, `leased` |
| `Vm` | `interp.rs`, `trap.rs` | the fields of `Vm`, plus `call` (is a `step` call running?) and `result` (what the last one returned) |
| `HostBoundary` | abstract: what the host may rely on | `phase`, `issued`, `reply` |
| `Admission` | `admit` on one object | `object`, `verdict` |
| `Durable` | `Vm` with snapshots, restarts, damage in storage and restores | those of `Vm`, the snapshot in storage, and histories: what it was taken of, what became of the machine, what calls after taking and restoring returned |
| `Replay` | `replay.rs`: a Recorder around a live run, saves, the end of the process, damage or a rebuilt program, a Host that replays | the program as far as it was asked, what it was given, the journal, the file, the host's cursor, and histories |
| `Asm` | `asm.rs`: `assemble` token by token, and `Builder` call by call | tokens, the object, the open function, symbol tables, and histories of what the source asked for |

`Durable` composes `Vm` (all of it, through `VmProperties`) with `Cont`; `Replay`
composes `Journal` with a machine; `Asm` composes `Codec` with the table of `Isa`.
`VmProperties` states the machine's properties; `VmClaims` and
`AsmClaims` the claims of documents and tests that do not hold; the modules named `*_proofs` hold the proofs, `Programs` writes small images down, and
the `MC*` modules give the constants their values.

In `Vm` a call of `step` is several steps of the model, one for each turn of the
code's loop. `Resume` and `Answer` start a call; `ReturnTrap`, `ReturnHalt`,
`ReturnEmpty` are the three returns at the head of the loop; `StepLimit`,
`PcEscape` and `Fault` are the three ways it fails; each remaining action is an
arm of `exec` or a group of arms that change the same state: `Compute` (only the
frame), `Allocate` (frame and arena), and one action for each instruction with an
effect of its own. An instruction first determines the fault it would fail with
(`FaultOf`, in the order the code checks) and executes only if there is none;
after an error the machine is not called again, so the half-done state of a
failed instruction is not kept. A panic is a fault of the name `"panic"`.

The host is bound by two things, which the repository's driver keeps
(cinderc.rs:105-124), and by nothing else. It answers a trap only ("the host's reply
to the previous trap", interp.rs:66): `Answer` and `Shutdown` follow a call that
returned one. And it drops a machine whose call failed. It may call without an
answer at any time, after an exit or a shutdown too. `Shutdown` is what
interp.rs:72 is: the call returns the exit status 1 and changes nothing, so the next
call runs on from the trap and may trap again. In `result` this exit is told from one
of the program by its kind (`"shut"`), as the host knows whose it is; `HostBoundary`
promises finality of the program's own exits only.

In `Durable` the host may take a snapshot between calls, the process may end and
another machine be started for the same or another image (`Boot`), and the
snapshot may be restored into whichever machine there is (`Restore`, one action
with both outcomes: the arena is replaced before the frames are checked). `Damage`
cuts the snapshot or changes one field of it. After a restore of a damaged or
foreign snapshot the machine still runs; a frame that names no function of the
image ends in a panic (`NoSuchFunction`).

In `Replay` the machine is any deterministic one: what it asks next is a function
of the answers it was given. The function `program` is made up as the run goes
on and then kept, so that all programs are covered up to `MaxAsks`. The replay
runs the same function unless the program was rebuilt. One thing may go wrong
between the runs: `Damage` to one field of the file, or `Rebuild`.

In `Asm` each action is one construct of the source (a directive, a label, an
instruction with its operand) with every check and the code of the error it
returns; the code emits and patches as the source is read, so an error leaves
`status` at its code and ends the call. `Builder`'s calls are the second
behaviour of the module (`job = "build"`).

Abstractions of data: string contents are cells whose values matter only for
equality and length; `fmt` yields one opaque cell; a ring segment keeps its role
and size; the tool and constant names are indices. Widths are scaled together:
`2*Half = Radix*Radix`, as 64 bits are two 32-bit halves. All instructions are
narrow. Abstract sizes keep their relation: a list slot is two cells as it is
two aligned units in the code. A payload of a journal is a tag and a word. The
hash takes a word per turn where the code takes a byte: a unit that was changed
stands for one changed byte. (A turn of FNV-1a over a byte loses nothing; over
several bytes two changes may cancel out, and nothing is claimed of them.)
`Vm` runs narrow instructions only; both widths are in `Codec` and `Asm`.

## 3. What is checked

| run | question | bounds |
|---|---|---|
| `metering` | is allowance conserved and refused only when it does not fit? `Conservation`, `RefusedOnlyWhenFull`, refinement `KeepsQuota` | allowances up to 3 on two dimensions, amounts -1..2, an unknown dimension: every comparison has both outcomes and its boundary, and sequences of any length are covered because the state space is finite |
| `vm` | does the machine keep memory, fork, effects, control, budget and the host boundary in order? is the verifier's static stack the machine's? | 26 images chosen so that every opcode group runs and every kind of fault occurs; all admitted programs of five instructions around a fork; all admitted straight-line programs of four instructions and an exit, with `maxstack` 1 to 3: from a pool of fourteen that load, shuffle, compute, allocate and meter, with a constant of text, and from a pool of six around a fork and its commit, with a constant of bytes; 12 steps, 3 frames, a ring of 2, 15 cells of arena, 8-bit words; the host answers with an integer or an empty list, resumes without answering, or shuts down |
| `admission` | do blocks, depth-first order and dominators agree with the instructions' own flow? | all 1331 functions of four instructions over branches to everywhere, a switch with two arms, fallthrough, and all 6561 of five over branches to everywhere but the next instruction, fallthrough: irreducible, nested, unreachable and self loops included; and the objects of two functions of three instructions |
| `replay` | what does a saved journal tell, which damage is noticed, when does a replay repeat the run? | every program that asks up to three times, in effects, oracles and yields; 4 answers (two values, a failure, a shutdown); 4-bit words, so that a hash of a longer stretch does collide; one field damaged, with two noise values, or a rebuilt program: 688 685 states |
| `snapshot` | when is a snapshot accepted, and what does the restored machine do? | 4 images that stop with something in the arena, in a second frame, in a stale slot, in an open fork, in the ring and ledger, none of which commits; 6 steps, 2 frames, 2 machines one after the other, 8-bit words, noise 3, 9 (a valid tag or count, a handle outside, a tag that does not exist): 786 982 states |
| `assembler` | does the code say what the source says? | about 10 500 sources: headers of every shape, bodies of up to three lines from a pool with each class of operand right and wrong, and of up to five lines of branches and wide operands; every call sequence of length 5 on a Builder; 4-bit operands, so that 16 is wide. Every error code is returned by some source: 221 057 states |

Properties of the machine (`VmProperties`):

- `HandlesSound`: every handle in operands, stale slots and trap arguments lies inside the arena, and lists are whole, readable and acyclic, in programs that do not commit (a commit breaks it: see section 5).
- `ForkPrefix`: while a fork is open its clone is a prefix of the arena, and a clone exists exactly while one is open.
- `EffectIdsIssued`: in programs that do not commit, no pending value in a slot, a list or a trap names an effect that was not issued. (After a commit a list handle that is left over may cover the cells of a later string, and `idx` and `unpack` read any slot there.) In every program ids are used up no faster than steps.
- `PcInFunction`: in programs without abort no frame's pc leaves its function.
- `CallersUntouched`: a suspended frame is unchanged until it is on top again, and then has gained exactly the returns.
- `NothingMinted`: the program cannot increase its allowance.
- `StepReturns` (liveness): every step call ends.
- `KeepsBoundary` (refinement): the machine implements `HostBoundary`: ids 1, 2, 3, ... with no gap or repeat whatever the host answers and however often it shuts the machine down and calls it again, and behind an exit the program made only exits.
- `ScanDescribesStack`: on straight-line programs (no branch, no variadic instruction, none that asks the host, neither `reserve` nor `abort`) the scan's types are the operand stack at every instruction: as deep, and each operand of the type it was given.
- `LinearNeverFaults`: so those of them whose types are also the machine's (`Agreeing`) never stop for want of an operand or of room, over a tag or over a handle. Five things are excluded because with them the verifier accepts what the machine refuses: `idx` and `slice` pop in the reverse order of their rows; `fmt` is given any handle for a list, `cat` and `ctxpush` one for a string, which a constant of bytes is not; a commit may leave handles outside the arena.

Properties of the verifier (`Admission`): `BlocksCarryFlow` (an instruction can
be reached exactly if the depth-first order lists its block), `BackEdgesAreLoops`
(the back edges found through the dominator tree are exactly the edges whose
target lies on every execution to their source), `LooplessPasses` (code without
cycles is never refused, and never panics the verifier, over a loop). The right
sides are defined on instructions, independently of blocks and dominators.

Properties of snapshots (`Durable`):

- `OwnSnapshotAccepted`: in programs that do not commit, a machine can be restored from its own snapshot exactly if no slot, live or stale, holds a pending value;
- `RestorableIssuedNothing`: the effect counter is not saved and starts over, yet no id is used twice, because the pending value of the first effect stays in its frame and no snapshot taken after it is accepted;
- `ResumesAlike`: the first call of the restored machine returns what the first call of the original returned, given the same answer, but for the step limit and the ledger, which start over. (By section 5 a machine re-executes the instruction it stopped at, so this says little of what comes after it.)
- `MemorySound`: `HandlesSound` and `ForkPrefix` survive snapshots, restarts and restores, unless the snapshot was damaged, foreign, or went into a machine that had run;
- `RestoredHandlesInside`: whatever became of the bytes, an accepted snapshot holds no handle outside its arena.

Properties of recording and replaying (`Replay`):

- `FileTellsRun`: whenever the process ends, an undamaged file loads and tells a prefix of the run;
- `DamageRefused`: a cut file, or one with a changed magic, head, chain hash or payload, is never replayed;
- `ReplayExact`, `NoFalseAlarm`: up to the first answer the journal does not carry (a yield, a failure, a shutdown: recorded as zeros), a replay gives the run's answers and reports no divergence;
- `KindDamageCaught`: a changed kind passes the chain and is caught by the replay;
- `AnswersFromRecords`: whatever the file and the program, answers come from records of the kind asked for, in order, each used once, although the cursor moves before the kind is checked;
- `ReplayEnds` (liveness): every replay ends.

Properties of the assembler (`Asm`):

- `RoundTrip`: the window of every function decodes to the instructions that were written, of either width, with the numbers written (or the largest operand, for a larger number: the code saturates);
- `ImmediateKept`: a number loaded as an immediate is the number written, if it fits 16 signed bits or needs the wide form;
- `BranchesMeant`: a branch names a label of its function, and one to a label already read reaches the instruction behind it by the machine's addressing;
- `NamesMeant`: constants and tools are what their names stood for when the instruction was read;
- `WindowsTile`: the functions' windows tile the code whatever the order of the Builder's calls;
- `Assembles` (liveness): `assemble` ends.

*Fairness.* `StepReturns` needs weak fairness of `Internal`, the turns of the loop
inside `step`; `ReplayEnds` weak fairness of `Replaying`, the loop that answers the
machine's traps from the journal until it ends; `Assembles` weak fairness of
`Assembling`, the loop over the tokens. These loops have no way to pause, so once
called they keep turning. No fairness is assumed of a live host, of storage, of the
operator or of the caller of a Builder. What ends the loops is the step count,
the records, and the tokens.

*Deadlock* is checked in every run but `admission` and `cycles_metered`, which
stop after their one verdict (a machine that failed stutters by `Stopped`, an ended
replay by `Over`).

## 4. What is proved

**The ledger.** `Metering_proofs`, for all limits and all sets of integer amounts,
from the named assumption `MeteringAssumption` alone:

- `TypeCorrect`: no field of the ledger goes negative;
- `ConservationHolds`: remaining + reserved + spent = limit on every dimension, always;
- `RefusalsHold`: a reserve is granted exactly if the use it asks for fits, although the ledger stores neither the use nor the limit;
- `ImplementsQuota`: the ledger implements `Quota` under the mapping leased = reserved.

The inductive invariant is `TypeOK /\ Conservation`. Conservation is what
`RefusalsHold` and `ImplementsQuota` need: the code compares with `remaining`, the
promise speaks of `limit - spent - reserved`, and only conservation makes the two
the same. Type correctness needs no conservation but the guards on negative
amounts. The proof of each step has a case per call.

**The machine.** `Vm_proofs`, for every set of admitted images, every host, every limit and
every width of the word:

- `TypeCorrect` (`TypeOK`): every part of the machine stays well formed;
- `ForkKept` (`ForkPrefix`): a clone exists exactly while a fork is open, and is a prefix of the arena;
- `AllowanceNeverGrows` (`NothingMinted`): no program gains allowance;
- `ImplementsBoundary` (`KeepsBoundary`): the machine implements `HostBoundary`, for every host that answers traps only and drops a machine that failed;
- `CallersAreKept` (`CallersUntouched`): a caller is as its call left it until its callee returns, and then has gained exactly the declared returns;
- `PcStays` (`PcInFunction`): what `admit` checks of a function's edges keeps every pc in its function, in programs without abort.

The assumptions are the named ones on the constants: `WordAssumption` and
`PowersAssumption` (the word's two halves and the powers of two up to its
width), `ImagesAssumption` (images are well formed, admitted by `CheckFunction`,
and no constant is longer than an offset can tell) and `LimitsAssumption` (the
host answers with values, the limits are positive, the step limit is below the
number of words, so that an effect id always fits its value). Every value the
runs give the constants satisfies them; TLC evaluates them.

`TypeOK` is not inductive. `IInv` adds what a step relies on:

- every frame's function exists in the image (else the fetch means nothing);
- what is left and on lease together fits an i64 (else a release would overflow);
- the clone is no longer than the arena and agrees with it (else commit could leave an arena out of bounds, and `ForkPrefix` is not kept);
- effect ids are no more than the steps counted (else an id would not fit);
- a pending trap excludes an exit code and needs a frame; a pending effect is the newest; after a trap there is a frame to push the answer on (else the answer of the host would land nowhere), after an exit of the program there is none (else the next call would run on), while a shutdown leaves the frames as they are.

The last group is also what makes the boundary work: a mapped step of
`HostBoundary` is enabled only if the last reply and the call stack agree.
`StepKeeps` has a lemma per action; those that fall through share `Advances`,
`Moved` and `Stepped`. What an instruction pops and leaves is bounded by its own
fault check: `Passed` turns `FaultOf = "ok"` into facts about operands and room.

`CallersAreKept` follows from the shapes of the steps: each leaves the frames,
replaces the top one (`TopShape`), or is a call, a return or a halt (`CallShape`,
`RetShape`). `PcStays` is inductive with `IInv`: `AdmittedFunction` reads off
`CheckFunction = "ok"` that all edges stay inside and that the function is not
empty (it has an exit), `Successors` brings this to the instruction fetched.
`abort` must be excluded because its table row calls it terminal while the
interpreter runs on.

**Recording and replaying.** `Replay_proofs`, for every deterministic machine, every
set of answers, every length of a run, every word width and every hash of which a
turn loses nothing (`MixAssumption`; a turn of FNV-1a over a byte multiplies by an
odd number, which can be undone; TLC evaluates it for the hash the run uses):

- `TypeCorrect` (`TypeOK`): journal, file, host and cursor keep their shape, whatever storage did;
- `SavedTellsRun` (`FileTellsRun`), `DamageIsRefused` (`DamageRefused`), `ReplayRepeats` (`ReplayExact`), `NoAlarmIsFalse` (`NoFalseAlarm`), `KindIsCaught` (`KindDamageCaught`), `AnswersAreRecords` (`AnswersFromRecords`).

`IInv` follows the run in time. While the live run lasts, the journal is a chain
that tells all of it (`Recorded`); an undamaged file is whole and tells a prefix
(`Saved`); after damage the file does not load (`Caught`) or still tells the run
up to the damage (`Kept`); the program is a function, so given the live run's own
answers it asks what it asked then (`Scripted`); and the replay, by induction on
the cursor, is given the live run's answers for as long as the journal carries
them (`Loaded`, `Faithful`, `Asked`). `DamageCaught` goes field by field: a changed
chain hash differs from the one the walk reaches there, a changed payload makes
the walk reach another one behind it (`PayloadCaught`, the only use of
`MixAssumption` beyond types), a changed header or a cut end is seen directly.

**What handles denote.** `Memory_proofs`, under the same assumptions and one
hypothesis on the host, `HostValues \subseteq Bare`: what it answers needs no cells
(void, an integer, an empty string or list). The driver of the repository answers
`Value::int(0)` (cinderc.rs:117-122), and there is no call by which a host could
write to the arena, so any other handle it named would be made up.

- `HandlesStaySound` (`HandlesSound`): in programs without commit no handle dangles, in a slot, above sp, or in a trap, and lists are never cyclic;
- `IdsStayIssued` (`EffectIdsIssued`): no pending value is made up.

Neither is inductive with `IInv`: `unpack` and `idx` turn cells of the arena into
values, and those may be lists whose elements are lists again, to any depth. The
invariant `MemoryOk` therefore says that there *is* a set of known values, with
the bare ones in it, such that the machine holds no other (`HoldsOnly`) and the
elements of a known list are known and lie before it (`Closed`). A step finds the
next set: most keep it, an allocation adds the handle it returns (`NewDenotes`: the
new cells decode to the values that were packed; `DenotesStill`: an arena that grows
changes no value), a call of a tool adds the pending value, and nothing else is ever
added (`Grown`), which is what `IdsStayIssued` needs. No induction over lists occurs:
the set does what a recursive "reachable" would.

**What the scan says of a straight line.** `Linear_proofs`, under the assumptions of
the machine alone (a straight-line program asks the host nothing):

- `ScanDescribes` (`ScanDescribesStack`) and `NoOperandFaults` (`LinearNeverFaults`), for every program of every length that is admitted.

`Scan` is defined by recursion over the stream, so its values have to be earned:
`ScanStates` proves that a function as it is defined by exists, from the first length
for which there would be none, and `ScanPasses` that in an admitted function no
instruction is at fault, from the last one that is. `ScanInv` relates the
types at the pc with the slots below `sp`, one by one (`Matches`), in two relations at
once: `Loose`, the type describes the value, and for agreeing programs `Firm`, which
adds that the value is an integer, a string or a list within the arena and that what
is only known to be a handle is a string (else `cat` may meet a list), and it adds
that nothing was asked of the host (else an answer would be pushed behind the scan's
back). `Restacked` shows that pops and pushes on both stacks go together,
`AdvanceScans` goes through the instructions, `AcceptedOperand` and `OtherFaults`
turn an accepted type into a passed check. Two things are not as one expects: `dup`
pops nothing but has a row that pops one and pushes two, and `halt` peeks where its
row pops.

**Snapshots and restore.** `Durable_proofs`, first over any snapshot of which nothing
is known but the widths of its fields: `AcceptedIsSafe` (an accepted one has every
stack pointer inside its slots, every tag known, no pending value, every handle
inside the arena) and `OwnSnapshot` (a machine whose handles lie in its arena gets
its own arena and frames back, unless some slot holds a pending value). Both rest on
`AcceptedParts`, which turns the first fault of a list of checks into a statement
about all of them. Then of the behaviours of `DurableSpec`, through any number of
snapshots, restarts, damages and restores:

- `RestoredInside` (`RestoredHandlesInside`), whatever became of the bytes;
- `NothingIssued` (`RestorableIssuedNothing`);
- `OwnAccepted` (`OwnSnapshotAccepted`) and `MemoryStaysSound` (`MemorySound`), with the hypothesis on the host of `Memory_proofs`;
- `ResumedAlike` (`ResumesAlike`), for a snapshot of a machine that had trapped or halted.

`IInv` does not hold of every machine of `Durable`: a frame of a damaged snapshot may
name a function the image does not have. `DInv` says where it does: `Machines` (a
machine that is not tainted satisfies `IInv`; a booted one is not tainted, and while
storage is empty every machine is a booted one), `Fresh` (an
untouched machine owes nothing and holds bare values only: why a restore into it
mixes no arenas, even if it is refused halfway) and `Stored` (the snapshot has the
widths of its fields, and one that was not damaged is of a machine that satisfied
`IInv` and, if it had issued an effect, still has the pending value in a slot:
`WaitingStep` proves that it never leaves its frame). `KInv` adds `MemoryOk` for the
machine and the same set of known values for the snapshot.

`ResumedAlike` compares the calls of two machines, one of which is gone when the other
runs. What makes it provable is that neither has to be followed for long: a machine
that returned a trap has not moved its pc, so its next call executes one instruction,
the one that trapped, on the same frames and the answer (`Paused`, `FirstStep`), and
what that gives is a function of the image, the frames and the answer (`Reply`).
`RInv` says that both calls, finished or under way, follow this function for one list
of frames, those the snapshot was taken of, even after it was damaged in storage
(`Tied`). Effects do not come in, as their pending value has the snapshot refused
(`NothingIssued`).

**Encodings.** `Asm_proofs`, for every width of the narrow form: `DecodeEncodes`
(decode at an instruction's first word, wherever it stands, returns what was
encoded and its length), `HalfAnInstruction` (a prefix at the end of the code
decodes to nothing) and `NarrowImmediate` (which numbers come back as they were
written, and that the others come back negative).

**The assembler.** `Asm_proofs`, for every set of sources, every set of names and
words a `Builder` is given and every number of its calls:

- `TypeCorrect` (`TypeOK`): every field of the object fits its width;
- `ReadsBack` (`RoundTrip`), `ImmediatesKept` (`ImmediateKept`), `BranchesReach` (`BranchesMeant`), `NamesAreMeant` (`NamesMeant`);
- `WindowsAlwaysTile` (`WindowsTile`).

The assumptions are two. `SourcesAssumption`: a source is a nonempty sequence of
tokens whose last is the end, which is what `lex` returns, and short enough for the
bytes of its code to be counted in 32 bits; the lexer's spans (lex.rs) and
`assemble`'s byte counts (asm.rs:150) are cut to 32 bits without a check, so nothing is
claimed of sources beyond that. `InsnsAssumption`: a front end passes `insn` an opcode
of the table, a byte and a word, as its signature says.

The invariant has four parts, each resting on those before it. `IInv` (the tiling;
it needs neither assumption) adds to
the closed functions that one function is open once any is closed and begins where
the last of them ends, so that closing it, at the end of the source or in the middle
of a `Builder`'s calls, leaves no gap. `OneInv` says that `assemble` closes no function
before the end, so the one it reads begins with the code, and that it stays among its
tokens, which needs that no construct passes the last of them (`Passes`). `TypeInv` adds that the index tables point into
the object's tables, and that code, constants and tools are no longer than the tokens
passed (`Counted`): an index or a label fits an operand only because the source does.
`MeantInv` says that each closed function, and the open one, keeps what was
asked of it (`Keeps`): decoding its words one after the other yields as many
instructions as were asked for, each says what was asked by the tables as they are
(`Says`), and a branch goes to where its label's instruction starts (`Branches`).

`decode_range` is recursive, and what it computes is proved all the same: `DecodedFrom`
shows that the function it is defined by exists, from the last place in the body for
which there would be none, and `ReadBack` that it finds the instructions a body `Reads`
as, from the last one where it would not. From there on a step is local: an instruction encoded
behind the code leaves the decoding of those before it (`DecodeStays`, `ReadsOn`,
`KeepsOn`), a longer table leaves what they say (`SaysStays`), and a label is the number
of words so far, so it equals where the next instruction starts whatever the widths
before it (`LabelMeant`, `StartsAlike`). `AskedSays` goes through the operand classes.

**The verifier's graph.** `Admission_proofs`, for every object, from `ObjectsAssumption`
(objects are well formed) alone:

- `BlocksCarryFlowHolds` (`BlocksCarryFlow`): in each function whose edges are accepted, an instruction may be executed exactly if its block is listed in the reverse postorder of the block graph;
- `BackEdgesHold` (`BackEdgesAreLoops`): in each such function the back edges are the steps of execution that close a loop, no more and no fewer;
- `LooplessPassesHolds` (`LooplessPasses`): an object whose code never loops is not refused over a loop, and does not panic the verifier over one.

The invariant is only that the object stays what was offered, and that a verdict,
once given, is that on it (`Judged`). The work is in the
recursive functions of `Cfg`: each is shown to exist (`Recursion`) and then followed
number by number (`Counting`). Six parts:

- *blocks*. Leaders are counted from below (`BelowStep`, `BelowOnto`), so `Starts` lists them in order, every instruction has the block of the last leader before it, and a terminator is what precedes the next leader (`StartsLead`, `Terminators`, `EndsItsBlock`). A step of execution therefore stays in its block by falling through, or goes from a terminator to a leader along an edge of the graph (`EdgesLift`), and every edge comes from such a step (`EdgesFall`).
- *the walk*. `WalkOk` holds after every turn (`TurnKeeps`): a seen block is on the stack or finished, not both, and once; the successors before the next one of a block on the stack are seen, of a finished block all are; nothing is seen outside any closed set with the entry; the stack is a path, and each finished block has a predecessor that finishes later. A turn ends one visit, so after as many turns as there are visits the stack is empty (`WalkEnds`), and what is seen is the least closed set (`ReachableIsLeast`). This also shows that the bound on `Walked` is none: the code's loop ends within it.
- *execution*. `Onward` grows at most once per instruction, so it is the least set with the successors and theirs (`OnwardIsLeast`). Two least sets, one of instructions and one of blocks, then contain each other (`BlocksCarry`).
- *chains*. Of the order of the blocks the dominators need only that each but the entry comes behind one of its predecessors and that no edge leaves the list (`PostorderIsOrdered`). While every processed block has a processed one further up (`Climbs`), a chain is a least set as well (`ChainIsLeast`), `Intersect` returns a block on both chains below which they share nothing (`IntersectMeets`), within its bound, and a revised block is moved to where the chains of all its processed predecessors meet (`RevisedMeets`).
- *sweeps*. A dominator is defined without chains: `a` dominates `b` if a set of blocks that no edge leaves but to `a`, with the entry in it, leaves `b` out (`Dom`). Three facts are kept by each step of each sweep (`SweepStep`): no dominator is lost (`Covers`: whatever dominates a block and is another dominates the block above it); on the part of the order the sweep has not come to yet, a block's chain is within those of its predecessors (`Forward`); and where the chains of all predecessors meet, the chain from above the block already is (`Waits`). Hence a step moves a block further up or not at all (`MoveFacts`), and a sweep that changes something lowers the sum of all depths (`DepthsDrop`, as a set of pairs that loses one). So the sweeps end within the square of the number of blocks, the bound on `Idoms` is none, and at the end no step changes anything (`IdomsSettle`): then what is on a chain dominates, and by `Covers` what dominates is on the chain (`ChainsDominate`). Neither reducibility nor an order better than the walk's is assumed.
- *loops*. `BackEdgesFound` puts this together: the back edges are the edges from a reachable block to a dominator of it. A step that closes a loop goes from a terminator to a leader (`LoopStepsLift`), and the instructions that are reached without its target, taken together by blocks, show that the target's block dominates (`LoopStepsDominate`); the other way round, the blocks reached without a dominator are whole blocks of instructions reached without its leader (`BackEdgesFall`). For the last theorem: without a loop there is no such step (`LooplessHasNoSteps`), so no window is cut; and no other check refuses with the code of a loop (`ScanFinds`, `LooplessFunctionPasses`).

**Only model-checked.**

- `ResumesAlike` for a snapshot taken before the machine's first call: both machines then run a whole call from the same start, and that they end alike is that the machine is deterministic, a fact about two behaviours that needs the whole transition relation written once more as a function of the state.
- `Durable`'s `TypeOK` for a tainted machine: a damaged frame may say that its stack pointer, function or pc is anything (`IInv` does not hold of it).
- The three liveness properties `StepReturns`, `ReplayEnds` and `Assembles`: liveness is out of the prover's reach.

## 5. Where the code and its documents disagree

Shown by a run that TLC finds violated:

| run | the document says | the code does |
|---|---|---|
| `commit_keeps_writes` | commit accepts the fork's writes (isa.rs:302) | reinstates the clone taken at the fork |
| `call_returns` | a call comes back (test interp.rs:541) | returns to the call itself and calls again |
| `oracle_resumes` | an oracle resumes with its answer (isa.rs:142) | executes the instruction again, with the answer on the stack |
| `operands_proved` | depths agree on every path, operands have accepted types (README.md:291, lib.rs:45) | stream-order scan; `idx` pops in the reverse order of its row |
| `cycles_metered` | every cycle is metered (README.md:310) | the window is cut with block ids used as instruction indices |
| `functions_assemble` | a source of two functions assembles and runs to 8 (test interp.rs:541-543) | refuses the second `.fn` as a duplicate (and before it `call 1`, as the operand of call must be a name, asm.rs:234) |

Noticed while translating and kept in the model as the code has them, without a
run of their own: abort keeps the fork's writes (interp.rs:374 against
isa.rs:303) and runs on behind a terminal instruction; `pending_trap` and
`halted` are empty whenever they can be called (interp.rs:431, 437); a tool call
is executed again on resume, on what it pushed or on the answer, where the README's
program goes on (interp.rs:346 against README.md:166-167); allocation is never
charged, `charge_arena` has no caller (isa.rs:138, README.md:230); `len` of a list counts bytes (isa.rs:260); `cat`
refuses byte strings (isa.rs:261); `reserve` pops nothing, so scan and machine part
there (interp.rs:388 against isa.rs:311); an empty needle panics `find` (interp.rs:225 against README.md:336); forks are counted
over the stream, not per path (verify.rs:121 against README.md:313); the pending
checks come after a variadic instruction has cleared the types (verify.rs:101);
dead code is admitted (cfg.rs:291); a back edge over several blocks panics the
slice (verify.rs:115); the verifier's own accepted-loop test underflows
(verify.rs:163); a partial spend leaves the rest on lease (budget.rs:69).

Of the parts around the machine, likewise without a run of their own:

- *snapshots*: README.md:365 says restore validates before it trusts, but the arena is replaced before the frames are checked. Nothing ties a snapshot to its image, whatever README.md:367-368 says: a restored frame may name a function the image does not have (a panic). The test cont.rs:113-130 expects a restored machine to finish with 9; but its program never traps, so its first call already runs to the end and leaves no frames: the original's second call and the restored machine's first both return `Halted(0)` (interp.rs:82). A finished effect leaves its pending value above sp, so no later snapshot is ever accepted.
- *journal*: README.md:403 says an edited journal is detectable; kinds and sequence numbers are not chained (`KindDamageCaught` shows what the replay still catches), and a smaller count passes if the shorter chain has the same head. The test journal.rs:166 expects `ChainBroken` for damage to the last payload; the walk reports `Diverged`, from the head. The in-flight records README.md describes do not exist in the code.
- *replay*: lib.rs:31 and README.md:424 promise an exact replay; a yield, a failure or a shutdown is recorded as zeros and replays as a void value. The cursor moves before the record is looked at.
- *assembler*: forward branches (README.md:171 has one) and calls are never patched and keep word 0; the name of a call is looked up among the labels; `.isa cdx/4`, as the test asm.rs:393 has it, leaves a token over and is refused; typed arguments `(a i32)` are not accepted. Labels count words while the graph takes targets for instruction indices (isa.rs:115-117), and the pc advances one word over a wide instruction, into its inner word. Numbers from 2^15 to 2^16-1 come back negative (`NarrowImmediate`).
- *driver*: cinderc.rs:122 drops the reply of the call that carries the answer, a trap or an exit included.

## 6. Not modelled, and the plan

*Not modelled.* `wire.rs`: encoders and decoders of single frames without state,
which only their tests call; the supervisor they would talk to is not in the
repository. The characters of the lexer: a source is its tokens. Diagnostics,
disassembly, documentation output and command lines: text without state. Tool
execution is the host's. `bin/cinderc.rs`: its run loop is one behaviour of the
host in `Vm`, the rest is file I/O.

*Left out of the modelled parts.* Damage to the fields that say how long what
follows is (lengths of slots and payloads, `maxstack`): they shift every byte
behind them. Damage to several fields at once. `decode_range`'s errors (it is
given windows of whole instructions). Wide instructions inside `Vm`. The
locals of frames, which the interpreter never gives any.

*Left to do*, in order:

1. An invariant of `Vm` that also holds of a machine restored from a damaged
   snapshot, and with it `Durable`'s type correctness.
2. Wide instructions in `Vm`, with the pc advancing as it does.
