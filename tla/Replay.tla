------------------------------- MODULE Replay -------------------------------
(***************************************************************************)
(* Recording and replaying a run (replay.rs over journal.rs).  A live host  *)
(* answers a machine and a Recorder appends each answer to a journal; the   *)
(* journal is saved, the process ends, the file may have been damaged or    *)
(* the program rebuilt; a Host is made from the file and answers a fresh    *)
(* machine.                                                                 *)
(*                                                                          *)
(* The machine is any deterministic one: what it does next is a function of *)
(* the answers it was given since its start.  The function is made up as    *)
(* the run asks for it and then kept, so every program up to the bound is   *)
(* covered.                                                                 *)
(***************************************************************************)
EXTENDS Journal

CONSTANTS
  Answers,     \* the answers a live host may give
  Noise,       \* what a damaged cell may read as
  MaxAsks      \* bound: a machine exits once it was given this many answers

ASSUME ReplayAssumption ==
  /\ Answers \subseteq [kind : {"Value", "Fail", "Shutdown"}, value : Values]
  /\ Noise \subseteq Word
  /\ MaxAsks \in Nat

VARIABLES
  program,  \* answers so far -> what the machine does next
  given,    \* the answers the running machine has been given
  phase,    \* "live" | "ended" | "down" | "refused" |
            \* "replaying" | "over"
  journal,  \* the Recorder's journal
  live,     \* history: what was asked and answered in the live run
  file,     \* <<>>, or what was last saved
  damage,   \* history: the field of the file that was changed, and where
  rebuilt,  \* history: the program is not the recorded one
  host,     \* the replay host: its journal and its cursor
  used,     \* history: the record behind each answer replayed
  verdict   \* how loading or replaying last went

vars == <<program, given, phase, journal, live, file, damage, rebuilt, host,
          used, verdict>>

Asks == {"Effect", "Oracle", "Yield"}
NoDamage == [field |-> "none", at |-> 0]
Fresh(j) == [journal |-> j, cursor |-> 0]

Init ==
  /\ program = [h \in {} |-> "Exit"]
  /\ given = <<>>
  /\ phase = "live"
  /\ journal = NewJournal
  /\ live = <<>>
  /\ file = <<>>
  /\ damage = NoDamage
  /\ rebuilt = FALSE
  /\ host = Fresh(NewJournal)
  /\ used = <<>>
  /\ verdict = "ok"

-----------------------------------------------------------------------------
(* The machine, given what it was given, makes this turn. *)
Learn(history, turn) ==
  [h \in DOMAIN program \cup {history} |->
     IF h \in DOMAIN program THEN program[h] ELSE turn]

Turns(turn) ==
  /\ given \in DOMAIN program => turn = program[given]
  /\ Len(given) >= MaxAsks => turn = "Exit"
  /\ program' = Learn(given, turn)

-----------------------------------------------------------------------------
(* The live run. *)
KindRecorded(ask) == IF ask = "Oracle" THEN KIND_ORACLE ELSE KIND_EFFECT

(* Recorder::record keeps the value of a plain answer to an oracle or an    *)
(* effect, and zeros for everything else.                                   *)
(* Mutants: an answer to an oracle is not kept either; the value is written *)
(* behind a buffer that is already full.                                    *)
PayloadOfEffects(ask, answer) ==
  IF ask = "Effect" /\ answer.kind = "Value" THEN Write(answer.value)
  ELSE <<0, 0>>
PayloadOfBuffer(ask, answer) == <<0, 0>> \o Write(answer.value)
PayloadOf(ask, answer) ==
  IF ask \in {"Oracle", "Effect"} /\ answer.kind = "Value"
  THEN Write(answer.value)
  ELSE <<0, 0>>

(* A value and a failure are pushed on the machine's stack alike; a         *)
(* shutdown ends the run.                                                   *)
Serve ==
  /\ phase = "live"
  /\ \E ask \in Asks, answer \in Answers :
       /\ Turns(ask)
       /\ journal' = Appended(journal, KindRecorded(ask), PayloadOf(ask, answer))
       /\ live' = Append(live, [ask |-> ask, answer |-> answer])
       /\ IF answer.kind = "Shutdown"
          THEN phase' = "ended" /\ UNCHANGED given
          ELSE given' = Append(given, answer.value) /\ UNCHANGED phase
  /\ UNCHANGED <<file, damage, rebuilt, host, used, verdict>>

Exit ==
  /\ phase = "live"
  /\ Turns("Exit")
  /\ phase' = "ended"
  /\ UNCHANGED <<given, journal, live, file, damage, rebuilt, host, used, verdict>>

(* The journal may be saved at any time while its process lives, and only   *)
(* what was saved outlives it.                                              *)
Save ==
  /\ phase \in {"live", "ended"}
  /\ file # <<ToBytes(journal)>>
  /\ file' = <<ToBytes(journal)>>
  /\ UNCHANGED <<program, given, phase, journal, live, damage, rebuilt, host,
                 used, verdict>>

Stop ==
  /\ phase \in {"live", "ended"}
  /\ phase' = "down"
  /\ given' = <<>>
  /\ journal' = NewJournal
  /\ UNCHANGED <<program, live, file, damage, rebuilt, host, used, verdict>>

-----------------------------------------------------------------------------
(* Between the runs one thing may go wrong: storage loses the end of the    *)
(* file or changes one field of it, or the program is rebuilt.  (A changed  *)
(* length of a payload, which shifts all that follows, is left out.)        *)
Headers == {"magic", "count", "head"}
Covered == {"magic", "head", "cut", "prev", "payload"}
Fields == Covered \cup {"count", "kind", "seq"}

Damaged(f, field, k) ==
  CASE field = "magic" -> {[f EXCEPT !.magic = FALSE]}
    [] field = "count" -> {[f EXCEPT !.count = n] : n \in 0 .. Len(f.records) + 1}
    [] field = "head" -> {[f EXCEPT !.head = w] : w \in Noise}
    [] field = "cut" -> {[f EXCEPT !.records = SubSeq(@, 1, k - 1)]}
    [] field = "prev" -> {[f EXCEPT !.records[k].prev = w] : w \in Noise}
    [] field = "payload" ->
         {[f EXCEPT !.records[k].payload[c] = w] : c \in 1 .. SlotLen, w \in Noise}
    [] field = "kind" ->
         {[f EXCEPT !.records[k].kind = n] : n \in {KIND_EFFECT, KIND_ORACLE}}
    [] field = "seq" -> {[f EXCEPT !.records[k].seq = @ + 1]}

Damage ==
  /\ phase = "down" /\ file # <<>> /\ damage = NoDamage /\ ~rebuilt
  /\ \E field \in Fields :
       \E k \in IF field \in Headers THEN {0} ELSE 1 .. Len(file[1].records) :
         \E f \in Damaged(file[1], field, k) \ {file[1]} :
           /\ file' = <<f>>
           /\ damage' = [field |-> field, at |-> k]
  /\ UNCHANGED <<program, given, phase, journal, live, rebuilt, host, used, verdict>>

Rebuild ==
  /\ phase = "down" /\ damage = NoDamage /\ ~rebuilt
  /\ rebuilt' = TRUE
  /\ program' = [h \in {} |-> "Exit"]
  /\ UNCHANGED <<given, phase, journal, live, file, damage, host, used, verdict>>

Load ==
  /\ phase = "down" /\ file # <<>>
  /\ verdict' = LoadFault(file[1])
  /\ IF LoadFault(file[1]) = "ok"
     THEN /\ phase' = "replaying"
          /\ host' = Fresh(FromBytes(file[1]))
     ELSE phase' = "refused" /\ UNCHANGED host
  /\ UNCHANGED <<program, given, journal, live, file, damage, rebuilt, used>>

-----------------------------------------------------------------------------
(* The replay: Host::answer for each trap of the machine.  A host that      *)
(* returned an error may be asked again or given up.                        *)
Left == Len(host.journal.records) - host.cursor
NextRecord == host.journal.records[host.cursor + 1]

(* Mutant: a yield is taken for an oracle. *)
KindExpectedYield(ask) == IF ask = "Effect" THEN KIND_EFFECT ELSE KIND_ORACLE
KindExpected(ask) == IF ask \in {"Effect", "Yield"} THEN KIND_EFFECT ELSE KIND_ORACLE

(* Mutant: the kind is not looked at. *)
ServedAnyKind(record, ask) ==
  IF ~Readable(record.payload) THEN "SnapshotCorrupt" ELSE "ok"
Served(record, ask) ==
  IF record.kind # KindExpected(ask) THEN "Diverged"
  ELSE IF ~Readable(record.payload) THEN "SnapshotCorrupt"
  ELSE "ok"

(* The cursor moves before the record is looked at. *)
(* Mutants: it waits at a record of the wrong kind; it stays at a good one. *)
MovedIfServed(h, outcome) ==
  IF outcome = "ok" THEN [h EXCEPT !.cursor = @ + 1] ELSE h
MovedIfRefused(h, outcome) ==
  IF outcome = "ok" THEN h ELSE [h EXCEPT !.cursor = @ + 1]
Moved(h, outcome) == [h EXCEPT !.cursor = @ + 1]

Answer ==
  /\ phase = "replaying" /\ Left > 0
  /\ \E ask \in Asks : Turns(ask) /\ verdict' = Served(NextRecord, ask)
  /\ host' = Moved(host, verdict')
  /\ IF verdict' = "ok"
     THEN /\ given' = Append(given, Read(NextRecord.payload))
          /\ used' = Append(used, host.cursor + 1)
     ELSE UNCHANGED <<given, used>>
  /\ UNCHANGED <<phase, journal, live, file, damage, rebuilt>>

Exhausted ==
  /\ phase = "replaying" /\ Left = 0
  /\ \E ask \in Asks : Turns(ask)
  /\ phase' = "over"
  /\ verdict' = "JournalExhausted"
  /\ UNCHANGED <<given, journal, live, file, damage, rebuilt, host, used>>

Finish ==
  /\ phase = "replaying"
  /\ Turns("Exit")
  /\ phase' = "over"
  /\ verdict' = "ok"
  /\ UNCHANGED <<given, journal, live, file, damage, rebuilt, host, used>>

GiveUp ==
  /\ phase = "replaying" /\ verdict # "ok"
  /\ phase' = "over"
  /\ UNCHANGED <<program, given, journal, live, file, damage, rebuilt, host,
                 used, verdict>>

Over ==
  /\ phase \in {"over", "refused"} \/ (phase = "down" /\ file = <<>>)
  /\ UNCHANGED vars

-----------------------------------------------------------------------------
Replaying == Answer \/ Exhausted \/ Finish

Next ==
  \/ Serve \/ Exit \/ Save \/ Stop
  \/ Damage \/ Rebuild \/ Load
  \/ Replaying \/ GiveUp \/ Over

(* The loop that replays keeps asking until it has an end or an error; the  *)
(* live run, the disk and the operator owe nothing.                         *)
Spec == Init /\ [][Next]_vars /\ WF_vars(Replaying)

-----------------------------------------------------------------------------
Turn == Asks \cup {"Exit"}

(* Every part of a recorded and of a replayed run keeps its shape. *)
TypeOK ==
  /\ DOMAIN program \subseteq Seq(Values)
  /\ \A h \in DOMAIN program : program[h] \in Turn
  /\ given \in Seq(Values)
  /\ phase \in {"live", "ended", "down", "refused", "replaying", "over"}
  /\ journal \in Journals
  /\ live \in Seq([ask : Asks, answer : Answers])
  /\ file \in Seq(Files) /\ Len(file) <= 1
  /\ damage \in [field : Fields \cup {"none"}, at : Nat]
  /\ rebuilt \in BOOLEAN
  /\ host \in [journal : Journals, cursor : Nat]
  /\ used \in Seq(Nat)

(* The k-th answer is in the journal, not zeros in its place. *)
Carried(k) == live[k].ask # "Yield" /\ live[k].answer.kind = "Value"

(* A record carries the answer it was made for: what was asked for in its   *)
(* kind, and the value if the journal keeps it.                             *)
Tells(record, n) ==
  /\ record.kind = KindExpected(live[n].ask)
  /\ record.payload = IF Carried(n) THEN Write(live[n].answer.value) ELSE <<0, 0>>

TellsRun(records) ==
  /\ Len(records) <= Len(live)
  /\ \A n \in 1 .. Len(records) : Tells(records[n], n)

(* Whenever the process ends, an undamaged file loads, and tells the answers*)
(* of a prefix of the live run in their order; what the Recorder holds in   *)
(* memory tells all of it (journal.rs append, verify_chain, from_bytes).    *)
FileTellsRun ==
  /\ file # <<>> /\ damage = NoDamage =>
       LoadFault(file[1]) = "ok" /\ TellsRun(file[1].records)
  /\ phase \in {"live", "ended"} =>
       TellsRun(journal.records) /\ Len(journal.records) = Len(live)

(* "a truncated or edited journal is detectable" (README.md:403): a file    *)
(* that lost its end, or of which one unit that the chain covers was        *)
(* changed, is never replayed, however short the hash; only a count of      *)
(* records that was made smaller can pass, if the shorter chain happens to  *)
(* have the same head (journal.rs from_bytes, hash.rs).                     *)
Replayed == phase \in {"replaying", "over"}
DamageRefused == damage.field \in Covered => ~Replayed

SameRun == ~rebuilt /\ damage.field \in {"none", "seq", "count"}

(* As long as the journal carries the answers, the replayed machine is given*)
(* what the recorded one was given, in the same order (replay.rs answer).   *)
ReplayExact ==
  Replayed /\ SameRun =>
    \A n \in 0 .. Len(given) :
      (\A k \in 1 .. n : k <= Len(live) /\ Carried(k)) =>
         \A k \in 1 .. n : given[k] = live[k].answer.value /\ used[k] = k

(* And it is not told that it diverged: an unchanged program over an        *)
(* undamaged file diverges only behind an answer the journal did not carry. *)
NoFalseAlarm ==
  Replayed /\ SameRun /\ verdict # "ok" =>
    \/ verdict = "JournalExhausted"
    \/ \E k \in 1 .. host.cursor - 1 : ~Carried(k)

(* A changed kind passes the chain but not the replay: no answer comes from *)
(* the record unless the run had left the recorded one before it.           *)
KindDamageCaught ==
  damage.field = "kind" /\ (\A k \in 1 .. damage.at - 1 : Carried(k)) =>
    \A n \in 1 .. Len(used) : used[n] # damage.at

(* Each answer given in a replay is the value of one record, of the kind the*)
(* machine was asking for; records are used in order and each at most once, *)
(* and the cursor is past all of them (replay.rs answer, which moves the    *)
(* cursor before it looks at the kind).                                     *)
AnswersFromRecords ==
  LET records == host.journal.records
  IN /\ host.cursor <= Len(records) /\ Len(used) = IF Replayed THEN Len(given) ELSE 0
     /\ \A n \in 1 .. Len(used) :
          /\ used[n] <= host.cursor
          /\ n > 1 => used[n - 1] < used[n]
          /\ records[used[n]].kind = KindRecorded(program[SubSeq(given, 1, n - 1)])
          /\ given[n] = Read(records[used[n]].payload)

(* Every replay ends, whatever the file and the program: each call of the   *)
(* host uses up a record or is the last (replay.rs:27).                     *)
ReplayEnds == phase = "replaying" ~> phase = "over"
=============================================================================
