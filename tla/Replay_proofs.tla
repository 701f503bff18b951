--------------------------- MODULE Replay_proofs ---------------------------
(***************************************************************************)
(* What recording and replaying promise for every machine, every answer a  *)
(* host gives, every length of a run, and every width and hash that mixes  *)
(* without loss.  The argument: the journal tells the live run record by   *)
(* record, what storage then does to the file is either caught or leaves   *)
(* the records readable up to the damage, and a replay that starts from    *)
(* such a file gives the program its own answers back for as long as the   *)
(* journal carries them.                                                   *)
(***************************************************************************)
EXTENDS Replay, SequenceTheorems, TLAPS

(* A chain that verify_chain walks to its end. *)
IsChain(j) ==
  /\ \A k \in 1 .. Len(j.records) : j.records[k].prev = Reached(j, k)
  /\ j.head = Reached(j, Len(j.records) + 1)

(* A file as it was saved. *)
Whole(f) ==
  /\ f.magic /\ f.count = Len(f.records)
  /\ IsChain([records |-> f.records, head |-> f.head])

(* The first n answers of the live run. *)
Script(n) == [k \in 1 .. n |-> live[k].answer.value]

(* Nothing has touched the program, nor what the first n records tell. *)
TrueTo(n) ==
  /\ ~rebuilt
  /\ damage.field \in {"none", "seq", "count"} \/ (damage.field = "kind" /\ n < damage.at)

(* What the records of a file that loads tell of the live run. *)
Told(records) ==
  /\ Len(records) <= Len(live)
  /\ \A n \in 1 .. Len(records) : TrueTo(n) => Tells(records[n], n)
  /\ damage.field = "kind" /\ damage.at \in 1 .. Len(records) =>
       records[damage.at].kind # KindExpected(live[damage.at].ask)

(* The Recorder tells all of the run so far. *)
Recorded ==
  phase \in {"live", "ended"} =>
    /\ damage = NoDamage /\ ~rebuilt
    /\ IsChain(journal) /\ TellsRun(journal.records)
    /\ Len(journal.records) = Len(live)

(* An undamaged file is whole and tells a prefix of the run. *)
Saved ==
  file # <<>> /\ damage = NoDamage => Whole(file[1]) /\ TellsRun(file[1].records)

(* Damage to what the chain covers does not load. *)
Caught ==
  /\ damage # NoDamage => file # <<>> /\ ~rebuilt
  /\ damage.field = "none" => damage = NoDamage
  /\ damage.field \in Covered => LoadFault(file[1]) # "ok"

(* And what loads tells the run up to the damage. *)
Kept == file # <<>> /\ LoadFault(file[1]) = "ok" => Told(FromBytes(file[1]).records)

(* The program asks, after the answers of the live run, what it asked then. *)
Scripted ==
  /\ ~rebuilt => \A n \in 0 .. Len(live) - 1 :
                   Script(n) \in DOMAIN program /\ program[Script(n)] = live[n + 1].ask
  /\ phase = "live" => given = Script(Len(live))

(* A replay is over the file; before it nothing is replayed. *)
Loaded ==
  /\ Replayed => /\ file # <<>> /\ LoadFault(file[1]) = "ok"
                 /\ host.journal = FromBytes(file[1])
  /\ ~Replayed => used = <<>> /\ host.cursor = 0
  /\ phase \in {"down", "refused"} => given = <<>>

(* The journal carries the first n answers. *)
Clean(n) == \A k \in 1 .. n : k <= Len(live) /\ Carried(k)

(* The replay is the live run as far as the journal carries it. *)
Faithful ==
  Replayed =>
    /\ Len(given) <= host.cursor
    /\ \A n \in 0 .. host.cursor :
         Clean(n) /\ TrueTo(n) =>
           n <= Len(given) /\ \A k \in 1 .. n : given[k] = live[k].answer.value /\ used[k] = k

(* What was answered in the replay had been asked for. *)
Asked ==
  Replayed => \A n \in 0 .. Len(given) - 1 :
                SubSeq(given, 1, n) \in DOMAIN program /\ program[SubSeq(given, 1, n)] \in Asks

(* Inductive: everything above, and the properties themselves. *)
IInv ==
  /\ TypeOK /\ Recorded /\ Saved /\ Caught /\ Kept /\ Scripted /\ Loaded
  /\ Faithful /\ Asked /\ AnswersFromRecords /\ NoFalseAlarm /\ KindDamageCaught
-----------------------------------------------------------------------------
(* The journal on its own.                                                  *)
LEMMA WordZero == 0 \in Word /\ Tags \subseteq Word /\ <<0, 0>> \in Payloads
<1>1. Words \in Nat /\ Words > 6
  BY WordAssumption DEF Words
<1>2. 0 \in Word /\ Tags \subseteq Word
  BY <1>1 DEF Word, Tags
<1>3. <<0, 0>> \in Seq(Word) /\ Len(<<0, 0>>) = 2
  BY <1>2
<1> QED
  BY <1>2, <1>3 DEF Payloads, SlotLen

(* A payload is two words. *)
LEMMA PayloadFields ==
  ASSUME NEW p \in Payloads
  PROVE  /\ p \in Seq(Word) /\ Len(p) = 2 /\ DOMAIN p = {1, 2}
         /\ p[1] \in Word /\ p[2] \in Word
<1>1. p \in Seq(Word) /\ Len(p) = 2
  BY DEF Payloads, SlotLen
<1> QED
  BY <1>1

(* A value that was written is read back. *)
LEMMA WriteType ==
  ASSUME NEW v \in Values
  PROVE  Write(v) \in Payloads /\ Readable(Write(v)) /\ Read(Write(v)) = v
<1>1. v.tag \in Tags /\ v.payload \in Word /\ v = [tag |-> v.tag, payload |-> v.payload]
  BY DEF Values
<1>2. v.tag \in Word
  BY <1>1, WordZero
<1>3. <<v.tag, v.payload>> \in Seq(Word) /\ Len(<<v.tag, v.payload>>) = 2
  BY <1>1, <1>2
<1> QED
  BY <1>1, <1>3 DEF Write, Readable, Read, Payloads, SlotLen

LEMMA PayloadType ==
  ASSUME NEW ask \in Asks, NEW answer \in Answers
  PROVE  PayloadOf(ask, answer) \in Payloads
  BY ReplayAssumption, WriteType, WordZero DEF PayloadOf

(* The chain is a word, and another first payload or hash is another chain. *)
LEMMA ChainType ==
  ASSUME NEW h \in Word, NEW p \in Payloads
  PROVE  Chain(h, p) \in Word
<1>1. Basis \in Word /\ p[1] \in Word /\ p[2] \in Word
  BY MixAssumption, PayloadFields
<1>2. Mix(Basis, h) \in Word
  BY <1>1, MixAssumption
<1>3. Mix(Mix(Basis, h), p[1]) \in Word
  BY <1>1, <1>2, MixAssumption
<1> QED
  BY <1>1, <1>3, MixAssumption DEF Chain

LEMMA MixInjective ==
  ASSUME NEW h \in Word, NEW g \in Word, NEW u \in Word, NEW w \in Word
  PROVE  /\ Mix(h, u) \in Word
         /\ h # g => Mix(h, u) # Mix(g, u)
         /\ u # w => Mix(h, u) # Mix(h, w)
  BY MixAssumption

LEMMA ChainInjective ==
  ASSUME NEW h \in Word, NEW p \in Payloads, NEW q \in Payloads,
         NEW c \in {1, 2}, p[c] # q[c], \A d \in {1, 2} \ {c} : p[d] = q[d]
  PROVE  Chain(h, p) # Chain(h, q)
<1>1. Basis \in Word /\ p[1] \in Word /\ p[2] \in Word /\ q[1] \in Word /\ q[2] \in Word
  BY MixAssumption, PayloadFields
<1> DEFINE base == Mix(Basis, h)
<1>2. base \in Word
  BY <1>1, MixAssumption
<1> HIDE DEF base
<1>3. Mix(base, p[1]) \in Word /\ Mix(base, q[1]) \in Word
  BY <1>1, <1>2, MixAssumption
<1>4. CASE c = 1
  <2>1. p[2] = q[2]
    BY <1>4
  <2>2. Mix(base, p[1]) # Mix(base, q[1])
    BY <1>1, <1>2, <1>4, MixInjective
  <2> DEFINE x == Mix(base, p[1])
             y == Mix(base, q[1])
  <2>a. x \in Word /\ y \in Word /\ x # y
    BY <1>3, <2>2
  <2> HIDE DEF x, y
  <2>b. Mix(x, p[2]) # Mix(y, p[2])
    BY <1>1, <2>a, MixInjective
  <2>3. Mix(Mix(base, p[1]), p[2]) # Mix(Mix(base, q[1]), p[2])
    BY <2>b DEF x, y
  <2> QED
    BY <2>1, <2>3 DEF Chain, base
<1>5. CASE c = 2
  <2>1. p[1] = q[1]
    BY <1>5
  <2>2. Mix(Mix(base, p[1]), p[2]) # Mix(Mix(base, p[1]), q[2])
    BY <1>1, <1>3, <1>5, MixAssumption
  <2> QED
    BY <2>1, <2>2 DEF Chain, base
<1> QED
  BY <1>4, <1>5

LEMMA RecordFields ==
  ASSUME NEW r \in Records
  PROVE  r.seq \in Nat /\ r.kind \in Nat /\ r.payload \in Payloads /\ r.prev \in Word
  BY DEF Records

LEMMA JournalFields ==
  ASSUME NEW j \in Journals
  PROVE  /\ j.records \in Seq(Records) /\ j.head \in Word /\ Len(j.records) \in Nat
         /\ \A k \in 1 .. Len(j.records) : j.records[k] \in Records
  BY DEF Journals

LEMMA NewJournalType == NewJournal \in Journals /\ IsChain(NewJournal)
<1>1. NewJournal.records = <<>> /\ NewJournal.head = 0
  BY DEF NewJournal
<1>2. Len(NewJournal.records) = 0 /\ NewJournal \in Journals
  BY WordZero DEF NewJournal, Journals
<1> QED
  BY <1>1, <1>2 DEF IsChain, Reached

LEMMA ChainFaultOk == ASSUME NEW j PROVE ChainFault(j) = "ok" <=> IsChain(j)
  BY DEF ChainFault, IsChain

(* What append does to the records, and that the chain stays one. *)
LEMMA AppendedType ==
  ASSUME NEW j \in Journals, NEW kind \in Nat, NEW payload \in Payloads
  PROVE  /\ Appended(j, kind, payload) \in Journals
         /\ Appended(j, kind, payload).head = Chain(j.head, payload)
         /\ Len(Appended(j, kind, payload).records) = Len(j.records) + 1
         /\ \A k \in 1 .. Len(j.records) :
              Appended(j, kind, payload).records[k] = j.records[k]
         /\ Appended(j, kind, payload).records[Len(j.records) + 1] =
              [seq |-> Len(j.records), kind |-> kind, payload |-> payload, prev |-> j.head]
<1> DEFINE r == [seq |-> Len(j.records), kind |-> kind, payload |-> payload, prev |-> j.head]
<1>1. r \in Records
  BY JournalFields DEF Records
<1>2. /\ Append(j.records, r) \in Seq(Records)
      /\ Len(Append(j.records, r)) = Len(j.records) + 1
      /\ \A k \in 1 .. Len(j.records) : Append(j.records, r)[k] = j.records[k]
      /\ Append(j.records, r)[Len(j.records) + 1] = r
  BY <1>1, JournalFields, AppendProperties
<1>3. Appended(j, kind, payload) = [records |-> Append(j.records, r), head |-> Chain(j.head, payload)]
  BY DEF Appended
<1>4. Chain(j.head, payload) \in Word
  BY ChainType, JournalFields
<1> HIDE DEF r
<1>5. Appended(j, kind, payload) \in Journals
  BY <1>2, <1>3, <1>4 DEF Journals
<1> QED
  BY <1>2, <1>3, <1>5 DEF r

LEMMA AppendedChain ==
  ASSUME NEW j \in Journals, NEW kind \in Nat, NEW payload \in Payloads, IsChain(j)
  PROVE  IsChain(Appended(j, kind, payload))
<1> DEFINE n == Len(j.records)
           a == Appended(j, kind, payload)
<1>1. /\ n \in Nat /\ a.head = Chain(j.head, payload) /\ Len(a.records) = n + 1
      /\ \A k \in 1 .. n : a.records[k] = j.records[k]
      /\ a.records[n + 1].prev = j.head /\ a.records[n + 1].payload = payload
  <2>1. n \in Nat
    BY JournalFields
  <2>2. /\ a.head = Chain(j.head, payload) /\ Len(a.records) = n + 1
        /\ \A k \in 1 .. n : a.records[k] = j.records[k]
        /\ a.records[n + 1] =
              [seq |-> n, kind |-> kind, payload |-> payload, prev |-> j.head]
    BY AppendedType
  <2> QED
    BY <2>1, <2>2
<1> HIDE DEF a, n
<1>2. \A k \in 1 .. n + 1 : Reached(a, k) = Reached(j, k)
  <2> TAKE k \in 1 .. n + 1
  <2>1. k = 1 \/ k - 1 \in 1 .. n
    BY <1>1
  <2> QED
    BY <1>1, <2>1 DEF Reached
<1>3. \A k \in 1 .. n : a.records[k].prev = Reached(a, k)
  BY <1>1, <1>2 DEF IsChain, n
<1>4. a.records[n + 1].prev = Reached(a, n + 1)
  BY <1>1, <1>2 DEF IsChain, n
<1>5. a.head = Reached(a, n + 2)
  <2>1. n + 2 # 1 /\ n + 2 - 1 = n + 1
    BY <1>1
  <2> QED
    BY <1>1, <2>1 DEF Reached
<1>6. \A k \in 1 .. n + 1 : a.records[k].prev = Reached(a, k)
  BY <1>1, <1>3, <1>4
<1> QED
  BY <1>1, <1>5, <1>6 DEF IsChain, a

-----------------------------------------------------------------------------
(* The file.                                                                *)
LEMMA FileFields ==
  ASSUME NEW f \in Files
  PROVE  /\ f = [magic |-> f.magic, head |-> f.head, count |-> f.count, records |-> f.records]
         /\ f.magic \in BOOLEAN /\ f.head \in Word /\ f.count \in Nat
         /\ f.records \in Seq(Records) /\ Len(f.records) \in Nat
         /\ \A k \in 1 .. Len(f.records) : f.records[k] \in Records
  BY DEF Files

(* What from_bytes returns when it succeeds. *)
LEMMA LoadedJournal ==
  ASSUME NEW f \in Files, f.count <= Len(f.records)
  PROVE  /\ FromBytes(f) \in Journals /\ FromBytes(f).head = f.head
         /\ Len(FromBytes(f).records) = f.count
         /\ \A k \in 1 .. f.count : FromBytes(f).records[k] = f.records[k]
<1>1. f.count \in Nat /\ f.records \in Seq(Records) /\ f.head \in Word
  BY FileFields
<1>2. /\ SubSeq(f.records, 1, f.count) \in Seq(Records)
      /\ Len(SubSeq(f.records, 1, f.count)) = f.count
      /\ \A k \in 1 .. f.count : SubSeq(f.records, 1, f.count)[k] = f.records[k]
  BY <1>1
<1>3. FromBytes(f) = [records |-> SubSeq(f.records, 1, f.count), head |-> f.head]
  BY DEF FromBytes
<1> DEFINE rs == SubSeq(f.records, 1, f.count)
<1> HIDE DEF rs
<1>4. [records |-> rs, head |-> f.head] \in Journals
  BY <1>1, <1>2 DEF rs, Journals
<1> QED
  BY <1>2, <1>3, <1>4 DEF rs

LEMMA Loads ==
  ASSUME NEW f \in Files
  PROVE  LoadFault(f) = "ok" <=>
           f.magic /\ f.count <= Len(f.records) /\ IsChain(FromBytes(f))
<1>1. f.magic \in BOOLEAN /\ f.count \in Nat /\ Len(f.records) \in Nat
  BY FileFields
<1>2. CASE ~f.magic \/ f.count > Len(f.records)
  BY <1>1, <1>2 DEF LoadFault
<1>3. CASE f.magic /\ f.count <= Len(f.records)
  BY <1>1, <1>3, ChainFaultOk DEF LoadFault
<1> QED
  BY <1>1, <1>2, <1>3

LEMMA WholeLoads ==
  ASSUME NEW f \in Files, Whole(f)
  PROVE  LoadFault(f) = "ok" /\ FromBytes(f) = [records |-> f.records, head |-> f.head]
<1>1. f.count = Len(f.records) /\ f.records \in Seq(Records) /\ f.magic
  BY FileFields DEF Whole
<1>2. SubSeq(f.records, 1, f.count) = f.records
  BY <1>1, SubSeqFull
<1>3. FromBytes(f) = [records |-> f.records, head |-> f.head]
  BY <1>2 DEF FromBytes
<1>4. f.count <= Len(f.records)
  BY <1>1, FileFields
<1> QED
  BY <1>1, <1>3, <1>4, Loads DEF Whole

LEMMA SavedFile ==
  ASSUME NEW j \in Journals, IsChain(j)
  PROVE  ToBytes(j) \in Files /\ Whole(ToBytes(j)) /\ ToBytes(j).records = j.records
<1>1. j.records \in Seq(Records) /\ j.head \in Word /\ Len(j.records) \in Nat
  BY JournalFields
<1>2. ToBytes(j) = [magic |-> TRUE, head |-> j.head, count |-> Len(j.records),
                    records |-> j.records]
  BY DEF ToBytes
<1>3. [records |-> j.records, head |-> j.head] = j
  BY DEF Journals
<1> QED
  BY <1>1, <1>2, <1>3 DEF Files, Whole

(* Damage, field by field: what it makes of the file. *)
LEMMA DamagedRecord ==
  ASSUME NEW f \in Files, NEW k \in 1 .. Len(f.records), NEW r \in Records
  PROVE  /\ [f EXCEPT !.records[k] = r] \in Files
         /\ [f EXCEPT !.records[k] = r].magic = f.magic
         /\ [f EXCEPT !.records[k] = r].head = f.head
         /\ [f EXCEPT !.records[k] = r].count = f.count
         /\ Len([f EXCEPT !.records[k] = r].records) = Len(f.records)
         /\ \A n \in 1 .. Len(f.records) :
              [f EXCEPT !.records[k] = r].records[n] = IF n = k THEN r ELSE f.records[n]
<1> DEFINE rs == [f.records EXCEPT ![k] = r]
<1>1. rs \in Seq(Records) /\ Len(rs) = Len(f.records)
      /\ \A n \in 1 .. Len(f.records) : rs[n] = IF n = k THEN r ELSE f.records[n]
  BY FileFields
<1>2. [f EXCEPT !.records[k] = r] = [f EXCEPT !.records = rs]
  BY FileFields
<1> HIDE DEF rs
<1>3. /\ [f EXCEPT !.records = rs] =
           [magic |-> f.magic, head |-> f.head, count |-> f.count, records |-> rs]
  BY FileFields
<1> QED
  BY <1>1, <1>2, <1>3, FileFields DEF Files

(* One record of a whole file changed: what that is, in each case. *)
LEMMA DamagedField ==
  ASSUME NEW f \in Files, NEW field \in {"prev", "payload", "kind", "seq"},
         NEW k \in 1 .. Len(f.records), NEW g \in Damaged(f, field, k)
  PROVE  \E r \in Records :
           /\ g = [f EXCEPT !.records[k] = r]
           /\ field # "seq" => r.seq = f.records[k].seq
           /\ field # "kind" => r.kind = f.records[k].kind
           /\ field # "prev" => r.prev = f.records[k].prev
           /\ field # "payload" => r.payload = f.records[k].payload
           /\ field = "payload" =>
                \E c \in {1, 2} : \A d \in {1, 2} \ {c} : r.payload[d] = f.records[k].payload[d]
<1> DEFINE o == f.records[k]
<1>1. /\ o \in Records /\ o.seq \in Nat /\ o.kind \in Nat /\ o.payload \in Payloads
      /\ o.prev \in Word
      /\ o = [seq |-> o.seq, kind |-> o.kind, payload |-> o.payload, prev |-> o.prev]
  BY FileFields DEF Records
<1>2. CASE field = "prev"
  <2>1. PICK w \in Noise : g = [f EXCEPT !.records[k].prev = w]
    BY <1>2 DEF Damaged
  <2> DEFINE r == [o EXCEPT !.prev = w]
  <2>2. r = [seq |-> o.seq, kind |-> o.kind, payload |-> o.payload, prev |-> w]
    BY <1>1
  <2>3. r \in Records /\ g = [f EXCEPT !.records[k] = r]
    BY <1>1, <2>1, <2>2, ReplayAssumption, FileFields DEF Records
  <2> HIDE DEF o
  <2> QED
    BY <1>2, <2>2, <2>3 DEF o
<1>3. CASE field = "payload"
  <2>1. PICK c \in 1 .. SlotLen, w \in Noise : g = [f EXCEPT !.records[k].payload[c] = w]
    BY <1>3 DEF Damaged
  <2>2. c \in {1, 2}
    BY DEF SlotLen
  <2> DEFINE p == [o.payload EXCEPT ![c] = w]
             r == [o EXCEPT !.payload = p]
  <2>3. p \in Payloads
    <3>1. p \in Seq(Word) /\ Len(p) = 2
      BY <1>1, <2>2, PayloadFields, ReplayAssumption
    <3> QED
      BY <3>1 DEF Payloads, SlotLen
  <2>4. \A d \in {1, 2} \ {c} : p[d] = o.payload[d]
    BY <1>1, PayloadFields
  <2>5. g = [f EXCEPT !.records[k] = r]
    BY <2>1, FileFields
  <2> HIDE DEF p
  <2>6. r = [seq |-> o.seq, kind |-> o.kind, payload |-> p, prev |-> o.prev]
    BY <1>1
  <2>7. r \in Records
    BY <1>1, <2>3, <2>6 DEF Records
  <2> HIDE DEF r, o
  <2> QED
    BY <1>3, <2>2, <2>4, <2>5, <2>6, <2>7 DEF o
<1>4. CASE field = "kind"
  <2>1. PICK n \in {KIND_EFFECT, KIND_ORACLE} : g = [f EXCEPT !.records[k].kind = n]
    BY <1>4 DEF Damaged
  <2> DEFINE r == [o EXCEPT !.kind = n]
  <2>2. r = [seq |-> o.seq, kind |-> n, payload |-> o.payload, prev |-> o.prev]
    BY <1>1
  <2>3. r \in Records /\ g = [f EXCEPT !.records[k] = r]
    BY <1>1, <2>1, <2>2, FileFields DEF Records, KIND_EFFECT, KIND_ORACLE
  <2> HIDE DEF o
  <2> QED
    BY <1>4, <2>2, <2>3 DEF o
<1>5. CASE field = "seq"
  <2>1. g = [f EXCEPT !.records[k].seq = @ + 1]
    BY <1>5 DEF Damaged
  <2> DEFINE r == [o EXCEPT !.seq = @ + 1]
  <2>2. r = [seq |-> o.seq + 1, kind |-> o.kind, payload |-> o.payload, prev |-> o.prev]
    BY <1>1
  <2>3. r \in Records /\ g = [f EXCEPT !.records[k] = r]
    BY <1>1, <2>1, <2>2, FileFields DEF Records
  <2> HIDE DEF o
  <2> QED
    BY <1>5, <2>2, <2>3 DEF o
<1> QED
  BY <1>2, <1>3, <1>4, <1>5

LEMMA RecordEq ==
  ASSUME NEW r \in Records, NEW o \in Records, r.seq = o.seq, r.kind = o.kind,
         r.payload = o.payload, r.prev = o.prev
  PROVE  r = o
  BY DEF Records

(* Two chains with the same count, alike before record k: the walk reaches  *)
(* the same hash up to record k.                                            *)
LEMMA SameWalk ==
  ASSUME NEW a \in Journals, NEW b \in Journals, NEW k \in 1 .. Len(a.records),
         Len(b.records) = Len(a.records),
         \A n \in 1 .. Len(a.records) : n # k => b.records[n] = a.records[n]
  PROVE  Reached(b, k) = Reached(a, k)
<1>1. Len(a.records) \in Nat
  BY JournalFields
<1>2. CASE k = 1
  BY <1>2 DEF Reached
<1>3. CASE k # 1
  <2>1. k - 1 \in 1 .. Len(a.records) /\ k - 1 # k
    BY <1>1, <1>3
  <2> QED
    BY <2>1, <1>3 DEF Reached
<1> QED
  BY <1>2, <1>3

(* A whole file of which one record was changed is a journal of one record  *)
(* changed, if it is read at all.                                           *)
LEMMA ChangedRecord ==
  ASSUME NEW f \in Files, Whole(f), NEW k \in 1 .. Len(f.records), NEW r \in Records,
         NEW g, g = [f EXCEPT !.records[k] = r]
  PROVE  /\ g \in Files
         /\ FromBytes(f) \in Journals /\ IsChain(FromBytes(f))
         /\ FromBytes(g) \in Journals
         /\ Len(FromBytes(f).records) = Len(f.records)
         /\ Len(FromBytes(g).records) = Len(f.records)
         /\ FromBytes(g).head = FromBytes(f).head
         /\ \A n \in 1 .. Len(f.records) :
              /\ FromBytes(f).records[n] = f.records[n]
              /\ FromBytes(g).records[n] = IF n = k THEN r ELSE f.records[n]
<1>1. /\ g \in Files /\ g.head = f.head /\ g.count = f.count
      /\ Len(g.records) = Len(f.records)
      /\ \A n \in 1 .. Len(f.records) : g.records[n] = IF n = k THEN r ELSE f.records[n]
  BY DamagedRecord
<1>2. f.count = Len(f.records) /\ Len(f.records) \in Nat
  BY FileFields DEF Whole
<1>3. f.count <= Len(f.records) /\ g.count <= Len(g.records)
  BY <1>1, <1>2
<1>4. /\ FromBytes(f) \in Journals /\ FromBytes(f).head = f.head
      /\ Len(FromBytes(f).records) = f.count
      /\ \A n \in 1 .. f.count : FromBytes(f).records[n] = f.records[n]
  BY <1>3, LoadedJournal
<1>5. /\ FromBytes(g) \in Journals /\ FromBytes(g).head = g.head
      /\ Len(FromBytes(g).records) = g.count
      /\ \A n \in 1 .. g.count : FromBytes(g).records[n] = g.records[n]
  BY <1>1, <1>3, LoadedJournal
<1>6. IsChain(FromBytes(f))
  BY WholeLoads DEF Whole
<1> QED
  BY <1>1, <1>2, <1>4, <1>5, <1>6

(* A changed prev is not the hash the walk has reached. *)
LEMMA PrevCaught ==
  ASSUME NEW f \in Files, Whole(f), NEW k \in 1 .. Len(f.records),
         NEW g \in Damaged(f, "prev", k) \ {f}
  PROVE  LoadFault(g) # "ok" /\ g \in Files
<1>1. PICK r \in Records : g = [f EXCEPT !.records[k] = r] /\ r.seq = f.records[k].seq
        /\ r.kind = f.records[k].kind /\ r.payload = f.records[k].payload
  BY DamagedField
<1>2. r.prev # f.records[k].prev
  <2>1. SUFFICES ASSUME r.prev = f.records[k].prev PROVE g = f
    OBVIOUS
  <2>2. r = f.records[k]
    BY <1>1, <2>1, FileFields, RecordEq
  <2> QED
    BY <1>1, <2>2, FileFields
<1> DEFINE a == FromBytes(f)
           b == FromBytes(g)
<1>3. /\ g \in Files /\ a \in Journals /\ IsChain(a) /\ b \in Journals
      /\ Len(a.records) = Len(f.records) /\ Len(b.records) = Len(f.records)
      /\ a.records[k] = f.records[k] /\ b.records[k] = r
      /\ \A n \in 1 .. Len(a.records) : n # k => b.records[n] = a.records[n]
  <2>1. /\ g \in Files
        /\ FromBytes(f) \in Journals /\ IsChain(FromBytes(f))
        /\ FromBytes(g) \in Journals
        /\ Len(FromBytes(f).records) = Len(f.records)
        /\ Len(FromBytes(g).records) = Len(f.records)
        /\ FromBytes(g).head = FromBytes(f).head
        /\ \A n \in 1 .. Len(f.records) :
             /\ FromBytes(f).records[n] = f.records[n]
             /\ FromBytes(g).records[n] = IF n = k THEN r ELSE f.records[n]
    BY <1>1, ChangedRecord
  <2> HIDE DEF a, b
  <2> QED
    BY <2>1, FileFields DEF a, b
<1>4. Reached(b, k) = Reached(a, k)
  BY <1>3, SameWalk
<1>5. a.records[k].prev = Reached(a, k)
  BY <1>3 DEF IsChain
<1>6. b.records[k].prev # Reached(b, k) /\ k \in 1 .. Len(b.records)
  BY <1>2, <1>3, <1>4, <1>5
<1>7. ~IsChain(b)
  BY <1>6 DEF IsChain
<1> QED
  BY <1>3, <1>7, Loads

(* A changed payload takes the walk to another hash behind it. *)
LEMMA PayloadCaught ==
  ASSUME NEW f \in Files, Whole(f), NEW k \in 1 .. Len(f.records),
         NEW g \in Damaged(f, "payload", k) \ {f}
  PROVE  LoadFault(g) # "ok" /\ g \in Files
<1>1. PICK r \in Records : g = [f EXCEPT !.records[k] = r] /\ r.seq = f.records[k].seq
        /\ r.kind = f.records[k].kind /\ r.prev = f.records[k].prev
        /\ \E c \in {1, 2} : \A d \in {1, 2} \ {c} : r.payload[d] = f.records[k].payload[d]
  BY DamagedField
<1>10. g = [f EXCEPT !.records[k] = r]
  BY <1>1
<1>11. /\ g \in Files
      /\ FromBytes(f) \in Journals /\ IsChain(FromBytes(f))
      /\ FromBytes(g) \in Journals
      /\ Len(FromBytes(f).records) = Len(f.records)
      /\ Len(FromBytes(g).records) = Len(f.records)
      /\ FromBytes(g).head = FromBytes(f).head
      /\ \A n \in 1 .. Len(f.records) :
           /\ FromBytes(f).records[n] = f.records[n]
           /\ FromBytes(g).records[n] = IF n = k THEN r ELSE f.records[n]
  BY <1>10, ChangedRecord
<1> DEFINE o == f.records[k]
<1>2. o \in Records /\ o.payload \in Payloads /\ r.payload \in Payloads /\ o.prev \in Word
  BY FileFields, RecordFields
<1>3. PICK c \in {1, 2} : \A d \in {1, 2} \ {c} : r.payload[d] = o.payload[d]
  BY <1>1
<1>4. r.payload[c] # o.payload[c]
  <2>1. SUFFICES ASSUME r.payload[c] = o.payload[c] PROVE g = f
    OBVIOUS
  <2>2. r.payload[1] = o.payload[1] /\ r.payload[2] = o.payload[2]
    BY <1>3, <2>1
  <2>3. r.payload = o.payload
    BY <1>2, <2>2, PayloadFields, SeqEqual
  <2>4. r = o
    BY <1>1, <1>2, <2>3 DEF Records
  <2> QED
    BY <1>1, <2>4, FileFields
<1>5. Chain(o.prev, r.payload) # Chain(o.prev, o.payload)
  <2> HIDE DEF o
  <2> QED
    BY <1>2, <1>3, <1>4, ChainInjective
<1> DEFINE a == FromBytes(f)
           b == FromBytes(g)
           m == Len(f.records)
<1>6. /\ g \in Files /\ a \in Journals /\ IsChain(a) /\ b \in Journals
      /\ Len(a.records) = m /\ Len(b.records) = m /\ m \in Nat
      /\ b.head = a.head
      /\ a.records[k] = o /\ b.records[k] = r
      /\ \A n \in 1 .. m : n # k => b.records[n] = a.records[n]
  <2> HIDE DEF a, b
  <2> QED
    BY <1>11, FileFields DEF a, b
<1> HIDE DEF a, b, o, m
<1>7. k + 1 # 1 /\ (k + 1) - 1 = k /\ k \in 1 .. m
  BY <1>6 DEF m
<1>8. Reached(b, k + 1) # Reached(a, k + 1)
  BY <1>1, <1>5, <1>6, <1>7 DEF Reached, o
<1>9. ~IsChain(b)
  <2>1. CASE k = m
    BY <1>6, <1>8, <2>1 DEF IsChain
  <2>2. CASE k # m
    <3>1. k + 1 \in 1 .. m /\ k + 1 # k
      BY <1>6, <1>7, <2>2
    <3>2. a.records[k + 1].prev = Reached(a, k + 1) /\ b.records[k + 1] = a.records[k + 1]
      BY <1>6, <3>1 DEF IsChain
    <3> QED
      BY <1>6, <1>8, <3>1, <3>2 DEF IsChain
  <2> QED
    BY <2>1, <2>2
<1> QED
  BY <1>6, <1>9, Loads DEF b

(* A header that was changed, or an end that was cut off. *)
LEMMA OuterCaught ==
  ASSUME NEW f \in Files, Whole(f), NEW field \in {"magic", "head", "cut"},
         NEW k \in IF field \in Headers THEN {0} ELSE 1 .. Len(f.records),
         NEW g \in Damaged(f, field, k) \ {f}
  PROVE  LoadFault(g) # "ok" /\ g \in Files
<1>1. /\ f.magic /\ f.count = Len(f.records) /\ Len(f.records) \in Nat
      /\ f = [magic |-> f.magic, head |-> f.head, count |-> f.count, records |-> f.records]
  BY FileFields DEF Whole
<1>2. CASE field = "magic"
  <2>1. g = [f EXCEPT !.magic = FALSE]
    BY <1>2 DEF Damaged
  <2>2. g = [magic |-> FALSE, head |-> f.head, count |-> f.count, records |-> f.records]
    BY <1>1, <2>1
  <2>3. g \in Files /\ ~g.magic
    BY <2>2, FileFields DEF Files
  <2> QED
    BY <2>3, Loads
<1>3. CASE field = "head"
  <2>1. PICK w \in Noise : g = [f EXCEPT !.head = w]
    BY <1>3 DEF Damaged
  <2>2. g = [magic |-> f.magic, head |-> w, count |-> f.count, records |-> f.records]
    BY <1>1, <2>1
  <2>3. w \in Word /\ w # f.head
    BY <1>1, <2>2, ReplayAssumption
  <2>4. g \in Files
    BY <2>2, <2>3, FileFields DEF Files
  <2>5. FromBytes(g).records = FromBytes(f).records
    BY <2>2 DEF FromBytes
  <2>6. FromBytes(g).head = w /\ FromBytes(f).head = f.head
    BY <2>2 DEF FromBytes
  <2>7. IsChain(FromBytes(f))
    BY WholeLoads DEF Whole
  <2>8. ~IsChain(FromBytes(g))
    BY <2>3, <2>5, <2>6, <2>7 DEF IsChain, Reached
  <2> QED
    BY <2>4, <2>8, Loads
<1>4. CASE field = "cut"
  <2>1. k \in 1 .. Len(f.records) /\ g = [f EXCEPT !.records = SubSeq(@, 1, k - 1)]
    BY <1>4 DEF Damaged, Headers
  <2>2. /\ SubSeq(f.records, 1, k - 1) \in Seq(Records)
        /\ Len(SubSeq(f.records, 1, k - 1)) = k - 1
    BY <1>1, <2>1, FileFields
  <2>3. g = [magic |-> f.magic, head |-> f.head, count |-> f.count,
             records |-> SubSeq(f.records, 1, k - 1)]
    BY <1>1, <2>1
  <2>4. g \in Files
    BY <2>2, <2>3, FileFields DEF Files
  <2>5. g.count = Len(f.records) /\ Len(g.records) = k - 1
    BY <1>1, <2>2, <2>3
  <2>6. ~(g.count <= Len(g.records))
    BY <1>1, <2>1, <2>5
  <2> QED
    BY <2>4, <2>6, Loads
<1> QED
  BY <1>2, <1>3, <1>4

LEMMA DamageCaught ==
  ASSUME NEW f \in Files, Whole(f), NEW field \in Covered,
         NEW k \in IF field \in Headers THEN {0} ELSE 1 .. Len(f.records),
         NEW g \in Damaged(f, field, k) \ {f}
  PROVE  LoadFault(g) # "ok" /\ g \in Files
<1>1. CASE field \in {"magic", "head", "cut"}
  BY <1>1, OuterCaught
<1>2. CASE field \in {"prev", "payload"}
  <2>1. k \in 1 .. Len(f.records)
    BY <1>2 DEF Headers
  <2> QED
    BY <1>2, <2>1, PrevCaught, PayloadCaught
<1> QED
  BY <1>1, <1>2 DEF Covered

(* What is not covered leaves, in the records that are loaded, the payloads *)
(* and all kinds but the one that was changed.                              *)
LEMMA DamageKept ==
  ASSUME NEW f \in Files, Whole(f), NEW field \in Fields \ Covered,
         NEW k \in IF field \in Headers THEN {0} ELSE 1 .. Len(f.records),
         NEW g \in Damaged(f, field, k) \ {f}
  PROVE  /\ g \in Files
         /\ LoadFault(g) = "ok" =>
              LET rs == FromBytes(g).records
              IN /\ Len(rs) \in Nat /\ Len(rs) <= Len(f.records)
                 /\ \A n \in 1 .. Len(rs) :
                      /\ rs[n].payload = f.records[n].payload
                      /\ n # k \/ field # "kind" => rs[n].kind = f.records[n].kind
                 /\ field = "kind" /\ k \in 1 .. Len(rs) => rs[k].kind # f.records[k].kind
<1> DEFINE rs == FromBytes(g).records
<1>1. /\ f.count = Len(f.records) /\ Len(f.records) \in Nat
      /\ f = [magic |-> f.magic, head |-> f.head, count |-> f.count, records |-> f.records]
  BY FileFields DEF Whole
<1>2. CASE field = "count"
  <2>1. PICK n \in 0 .. Len(f.records) + 1 : g = [f EXCEPT !.count = n]
    BY <1>2 DEF Damaged
  <2>2. g = [magic |-> f.magic, head |-> f.head, count |-> n, records |-> f.records]
    BY <1>1, <2>1
  <2>3. g \in Files /\ g.records = f.records
    BY <2>2, FileFields DEF Files
  <2>4. ASSUME LoadFault(g) = "ok"
        PROVE  /\ Len(rs) \in Nat /\ Len(rs) <= Len(f.records)
               /\ \A m \in 1 .. Len(rs) : rs[m] = f.records[m]
    <3>1. g.count <= Len(g.records) /\ g.count \in Nat
      BY <2>3, <2>4, Loads, FileFields
    <3> QED
      BY <1>1, <2>3, <3>1, LoadedJournal
  <2> HIDE DEF rs
  <2> QED
    BY <1>2, <2>3, <2>4 DEF rs
<1>3. CASE field \in {"kind", "seq"}
  <2>1. k \in 1 .. Len(f.records)
    BY <1>3 DEF Headers
  <2>2. PICK r \in Records :
          /\ g = [f EXCEPT !.records[k] = r]
          /\ field # "seq" => r.seq = f.records[k].seq
          /\ field # "kind" => r.kind = f.records[k].kind
          /\ r.prev = f.records[k].prev /\ r.payload = f.records[k].payload
    BY <1>3, <2>1, DamagedField
  <2>3. field = "kind" => r.kind # f.records[k].kind
    <3>1. SUFFICES ASSUME field = "kind", r.kind = f.records[k].kind PROVE g = f
      OBVIOUS
    <3>2. r = f.records[k]
      <4>1. r.seq = f.records[k].seq
        BY <2>2, <3>1
      <4> QED
        BY <2>1, <2>2, <3>1, <4>1, FileFields, RecordEq
    <3> QED
      BY <2>1, <2>2, <3>2, FileFields
  <2>4. /\ g \in Files /\ Len(rs) = Len(f.records)
        /\ \A n \in 1 .. Len(f.records) : rs[n] = IF n = k THEN r ELSE f.records[n]
    BY <2>1, <2>2, ChangedRecord
  <2> HIDE DEF rs
  <2>5. Len(rs) \in Nat /\ Len(rs) <= Len(f.records)
    BY <1>1, <2>4
  <2>6. \A n \in 1 .. Len(rs) :
          /\ rs[n].payload = f.records[n].payload
          /\ n # k \/ field # "kind" => rs[n].kind = f.records[n].kind
    BY <2>2, <2>4
  <2>7. field = "kind" => rs[k].kind # f.records[k].kind
    BY <2>1, <2>3, <2>4
  <2> QED
    BY <2>4, <2>5, <2>6, <2>7 DEF rs
<1> QED
  BY <1>2, <1>3 DEF Fields, Covered

-----------------------------------------------------------------------------
(* The machine and the live run.                                            *)
LEMMA LiveFields ==
  ASSUME TypeOK
  PROVE  /\ Len(live) \in Nat
         /\ \A k \in 1 .. Len(live) :
              live[k].ask \in Asks /\ live[k].answer \in Answers
              /\ live[k].answer.value \in Values
<1>1. \A a \in Answers : a.value \in Values
  BY ReplayAssumption
<1> DEFINE T == [ask : Asks, answer : Answers]
<1>2. live \in Seq(T)
  BY DEF TypeOK
<1>3. \A x \in T : x.ask \in Asks /\ x.answer \in Answers
  OBVIOUS
<1> HIDE DEF T
<1>4. Len(live) \in Nat /\ \A k \in 1 .. Len(live) : live[k] \in T
  BY <1>2, LenProperties, ElementOfSeq
<1> QED
  BY <1>1, <1>3, <1>4

LEMMA ScriptType ==
  ASSUME TypeOK, NEW n \in 0 .. Len(live)
  PROVE  Script(n) \in Seq(Values) /\ Len(Script(n)) = n
<1>1. n \in Nat /\ \A k \in 1 .. n : live[k].answer.value \in Values
  BY LiveFields
<1> QED
  BY <1>1, IsASeq DEF Script

(* A turn is remembered, and was remembered if the program had come there.  *)
LEMMA TurnFacts ==
  ASSUME TypeOK, NEW turn \in Turn, Turns(turn)
  PROVE  /\ given \in DOMAIN program' /\ program'[given] = turn
         /\ given \in DOMAIN program => turn = program[given]
         /\ DOMAIN program \subseteq DOMAIN program'
         /\ \A h \in DOMAIN program : program'[h] = program[h]
         /\ DOMAIN program' \subseteq Seq(Values)
         /\ \A h \in DOMAIN program' : program'[h] \in Turn
<1>1. /\ DOMAIN program \subseteq Seq(Values) /\ given \in Seq(Values)
      /\ \A h \in DOMAIN program : program[h] \in Turn
  BY DEF TypeOK
<1>2. /\ given \in DOMAIN program => turn = program[given]
      /\ program' = [h \in DOMAIN program \cup {given} |->
                       IF h \in DOMAIN program THEN program[h] ELSE turn]
  BY DEF Turns, Learn
<1> QED
  BY <1>1, <1>2

-----------------------------------------------------------------------------
(* What keeps each part of the invariant.                                   *)
LEMMA FileStays ==
  ASSUME Saved, Caught, Kept, UNCHANGED <<live, file, damage, rebuilt>>
  PROVE  Saved' /\ Caught' /\ Kept'
<1>1. Saved'
  BY DEF Saved, TellsRun, Tells, Carried
<1>2. Caught'
  BY DEF Caught
<1>3. Kept'
  BY DEF Kept, Told, TrueTo, Tells, Carried
<1> QED
  BY <1>1, <1>2, <1>3

LEMMA ScriptStays ==
  ASSUME Scripted, UNCHANGED <<live, rebuilt>>,
         DOMAIN program \subseteq DOMAIN program',
         \A h \in DOMAIN program : program'[h] = program[h],
         phase' # "live" \/ (phase = "live" /\ given' = given)
  PROVE  Scripted'
<1>1. \A n : Script(n)' = Script(n)
  BY DEF Script
<1> QED
  BY <1>1 DEF Scripted

LEMMA NothingReplayed ==
  ASSUME ~Replayed', used' = <<>>, host'.cursor = 0, Len(host'.journal.records) \in Nat
  PROVE  Faithful' /\ Asked' /\ AnswersFromRecords' /\ NoFalseAlarm' /\ KindDamageCaught'
  BY DEF Faithful, Asked, AnswersFromRecords, NoFalseAlarm, KindDamageCaught

LEMMA InitHolds == Init => IInv
<1> SUFFICES ASSUME Init PROVE IInv
  OBVIOUS
<1> USE DEF Init
<1>1. journal \in Journals /\ IsChain(journal)
  BY NewJournalType
<1>2. /\ host = [journal |-> journal, cursor |-> 0] /\ Len(host.journal.records) = 0
      /\ Len(journal.records) = 0 /\ journal.records = <<>>
  BY DEF Fresh, NewJournal
<1>3. TypeOK
  <2>1. /\ given \in Seq(Values) /\ file \in Seq(Files) /\ Len(file) <= 1
        /\ used \in Seq(Nat) /\ live \in Seq([ask : Asks, answer : Answers])
    OBVIOUS
  <2>2. damage \in [field : Fields \cup {"none"}, at : Nat]
    BY DEF NoDamage
  <2>3. host \in [journal : Journals, cursor : Nat]
    BY <1>1, <1>2
  <2>4. DOMAIN program = {}
    OBVIOUS
  <2> QED
    BY <1>1, <2>1, <2>2, <2>3, <2>4 DEF TypeOK
<1>4. ~Replayed
  BY DEF Replayed
<1>5. Recorded
  BY <1>1, <1>2 DEF Recorded, TellsRun
<1>6. Saved /\ Caught /\ Kept
  BY DEF Saved, Caught, Kept, Covered, NoDamage
<1>7. Scripted
  <2>1. given = Script(Len(live))
    BY DEF Script
  <2> QED
    BY <2>1 DEF Scripted
<1>8. Loaded
  BY <1>2, <1>4 DEF Loaded
<1>9. Faithful /\ Asked /\ AnswersFromRecords /\ NoFalseAlarm /\ KindDamageCaught
  BY <1>2, <1>4 DEF Faithful, Asked, AnswersFromRecords, NoFalseAlarm, KindDamageCaught
<1> QED
  BY <1>3, <1>5, <1>6, <1>7, <1>8, <1>9 DEF IInv

-----------------------------------------------------------------------------
(* The live run.                                                            *)
LEMMA ServeKeeps == ASSUME IInv, Serve PROVE IInv'
<1> USE DEF IInv
<1>1. PICK ask \in Asks, answer \in Answers :
        /\ Turns(ask)
        /\ journal' = Appended(journal, KindRecorded(ask), PayloadOf(ask, answer))
        /\ live' = Append(live, [ask |-> ask, answer |-> answer])
        /\ IF answer.kind = "Shutdown"
           THEN phase' = "ended" /\ UNCHANGED given
           ELSE given' = Append(given, answer.value) /\ UNCHANGED phase
  BY DEF Serve
<1>2. /\ phase = "live" /\ phase' \in {"live", "ended"}
      /\ UNCHANGED <<file, damage, rebuilt, host, used, verdict>>
  BY <1>1 DEF Serve
<1>3. /\ damage = NoDamage /\ ~rebuilt /\ IsChain(journal)
      /\ TellsRun(journal.records) /\ Len(journal.records) = Len(live)
      /\ given = Script(Len(live)) /\ journal \in Journals
  BY <1>2 DEF Recorded, Scripted, TypeOK
<1>a. PICK n \in Nat : n = Len(live)
  BY LiveFields
<1>b. answer.value \in Values
  BY ReplayAssumption
<1> DEFINE entry == [ask |-> ask, answer |-> answer]
           kind == KindRecorded(ask)
           payload == PayloadOf(ask, answer)
<1>4. /\ Len(live') = n + 1 /\ live'[n + 1] = entry
      /\ \A k \in 1 .. n : live'[k] = live[k]
      /\ live' \in Seq([ask : Asks, answer : Answers])
  <2> DEFINE T == [ask : Asks, answer : Answers]
  <2>1. live \in Seq(T) /\ entry \in T
    BY DEF TypeOK
  <2>2. live' = Append(live, entry)
    BY <1>1
  <2> HIDE DEF T, entry
  <2> QED
    BY <1>a, <2>1, <2>2, AppendProperties, LenProperties DEF T
<1>5. kind \in {KIND_EFFECT, KIND_ORACLE} /\ kind \in Nat /\ payload \in Payloads
  BY PayloadType DEF KindRecorded, KIND_EFFECT, KIND_ORACLE
<1>6. /\ journal' \in Journals /\ IsChain(journal') /\ Len(journal'.records) = n + 1
      /\ \A k \in 1 .. n : journal'.records[k] = journal.records[k]
      /\ journal'.records[n + 1].kind = kind /\ journal'.records[n + 1].payload = payload
  <2>1. /\ Appended(journal, kind, payload) \in Journals
        /\ Len(Appended(journal, kind, payload).records) = Len(journal.records) + 1
        /\ \A k \in 1 .. Len(journal.records) :
              Appended(journal, kind, payload).records[k] = journal.records[k]
        /\ Appended(journal, kind, payload).records[Len(journal.records) + 1] =
              [seq |-> Len(journal.records), kind |-> kind, payload |-> payload,
               prev |-> journal.head]
    BY <1>3, <1>5, AppendedType
  <2>2. IsChain(Appended(journal, kind, payload))
    BY <1>3, <1>5, AppendedChain
  <2> HIDE DEF kind, payload
  <2>3. journal' = Appended(journal, kind, payload)
    BY <1>1 DEF kind, payload
  <2> QED
    BY <1>3, <1>a, <2>1, <2>2, <2>3
<1>7. TypeOK'
  <2>1. /\ DOMAIN program' \subseteq Seq(Values)
        /\ \A h \in DOMAIN program' : program'[h] \in Turn
    BY <1>1, TurnFacts DEF Turn
  <2>2. given' \in Seq(Values)
    <3>1. given' = given \/ given' = Append(given, answer.value)
      BY <1>1
    <3>2. given \in Seq(Values)
      BY DEF TypeOK
    <3> QED
      BY <1>b, <3>1, <3>2
  <2> QED
    BY <1>2, <1>4, <1>6, <2>1, <2>2 DEF TypeOK
<1>8. Recorded'
  <2>1. \A k \in 1 .. n : Tells(journal.records[k], k)
    BY <1>3, <1>a DEF TellsRun
  <2>2. \A k \in 1 .. n : Tells(journal.records[k], k)'
    BY <1>4, <1>6, <2>1 DEF Tells, Carried
  <2>3. Tells(journal.records[n + 1], n + 1)'
    <3>1. kind = KindExpected(ask)
      BY DEF KindRecorded, KindExpected, Asks
    <3>2. payload = IF ask # "Yield" /\ answer.kind = "Value"
                    THEN Write(answer.value) ELSE <<0, 0>>
      BY DEF PayloadOf, Asks
    <3>3. live'[n + 1].ask = ask /\ live'[n + 1].answer = answer
      BY <1>4
    <3> HIDE DEF kind, payload, entry
    <3> QED
      BY <1>6, <3>1, <3>2, <3>3 DEF Tells, Carried
  <2>4. \A k \in 1 .. n + 1 : k \in 1 .. n \/ k = n + 1
    BY <1>4
  <2>5. TellsRun(journal.records)'
    BY <1>4, <1>6, <2>2, <2>3, <2>4 DEF TellsRun
  <2> QED
    BY <1>2, <1>3, <1>4, <1>6, <2>5 DEF Recorded
<1>9. Saved' /\ Caught' /\ Kept'
  <2>1. Saved'
    BY <1>2, <1>4, <1>a DEF Saved, TellsRun, Tells, Carried
  <2>2. Caught'
    BY <1>2 DEF Caught
  <2>3. Kept'
    <3>1. damage.field = "none"
      BY <1>3 DEF NoDamage
    <3> QED
      BY <1>2, <1>4, <1>a, <3>1 DEF Kept, Told, TrueTo, Tells, Carried
  <2> QED
    BY <2>1, <2>2, <2>3
<1>10. Scripted'
  <2>1. \A k \in 0 .. n : Script(k)' = Script(k)
    <3> TAKE k \in 0 .. n
    <3>1. \A m \in 1 .. k : live'[m] = live[m]
      BY <1>4
    <3> QED
      BY <3>1 DEF Script
  <2>2. \A k \in 0 .. n : Script(k) \in DOMAIN program'
                          /\ program'[Script(k)] = live'[k + 1].ask
    <3> TAKE k \in 0 .. n
    <3>1. CASE k = n
      BY <1>1, <1>3, <1>4, <1>a, <3>1, TurnFacts DEF Turn
    <3>2. CASE k # n
      <4>1. k \in 0 .. n - 1 /\ k + 1 \in 1 .. n
        BY <1>4, <3>2
      <4>2. Script(k) \in DOMAIN program /\ program[Script(k)] = live[k + 1].ask
        BY <1>3, <1>a, <4>1 DEF Scripted
      <4> QED
        BY <1>1, <1>4, <4>1, <4>2, TurnFacts DEF Turn
    <3> QED
      BY <3>1, <3>2
  <2>3. phase' = "live" => given' = Script(n + 1)'
    <3>1. SUFFICES ASSUME phase' = "live" PROVE given' = Script(n + 1)'
      OBVIOUS
    <3>2. given' = Append(given, answer.value)
      BY <1>1, <3>1
    <3>3. given \in Seq(Values) /\ Len(given) = n /\ answer.value \in Values
      BY <1>3, <1>a, <1>b, ScriptType
    <3>4. /\ given' \in Seq(Values) /\ Len(given') = n + 1
          /\ given'[n + 1] = answer.value
          /\ \A k \in 1 .. n : given'[k] = live[k].answer.value
      BY <1>3, <1>a, <3>2, <3>3, AppendProperties DEF Script
    <3>5. \A k \in 1 .. n + 1 : given'[k] = live'[k].answer.value
      BY <1>4, <3>4
    <3>6. given' = [k \in 1 .. n + 1 |-> given'[k]]
      BY <3>4
    <3> QED
      BY <3>5, <3>6 DEF Script
  <2>4. Len(live') - 1 = n
    BY <1>4
  <2> QED
    BY <1>4, <2>1, <2>2, <2>3, <2>4 DEF Scripted
<1>11. Loaded' /\ ~Replayed'
  BY <1>2 DEF Loaded, Replayed
<1>12. used' = <<>> /\ host'.cursor = 0 /\ Len(host'.journal.records) \in Nat
  BY <1>2, JournalFields DEF Loaded, Replayed, TypeOK
<1>13. Faithful' /\ Asked' /\ AnswersFromRecords' /\ NoFalseAlarm' /\ KindDamageCaught'
  BY <1>11, <1>12, NothingReplayed
<1> QED
  BY <1>7, <1>8, <1>9, <1>10, <1>11, <1>13

(* Before a replay begins, a step of the machine or of the disk leaves      *)
(* nothing replayed.                                                        *)
LEMMA BeforeReplay ==
  ASSUME IInv, ~Replayed, ~Replayed', UNCHANGED <<host, used>>
  PROVE  Faithful' /\ Asked' /\ AnswersFromRecords' /\ NoFalseAlarm' /\ KindDamageCaught'
<1>1. used' = <<>> /\ host'.cursor = 0 /\ Len(host'.journal.records) \in Nat
  BY JournalFields DEF IInv, Loaded, TypeOK
<1> QED
  BY <1>1, NothingReplayed

LEMMA ExitKeeps == ASSUME IInv, Exit PROVE IInv'
<1> USE DEF IInv
<1>1. /\ phase = "live" /\ phase' = "ended" /\ Turns("Exit")
      /\ UNCHANGED <<given, journal, live, file, damage, rebuilt, host, used, verdict>>
  BY DEF Exit
<1>2. /\ DOMAIN program \subseteq DOMAIN program'
      /\ \A h \in DOMAIN program : program'[h] = program[h]
      /\ DOMAIN program' \subseteq Seq(Values)
      /\ \A h \in DOMAIN program' : program'[h] \in Turn
  BY <1>1, TurnFacts DEF Turn
<1>3. TypeOK'
  BY <1>1, <1>2 DEF TypeOK
<1>4. Recorded'
  BY <1>1 DEF Recorded, TellsRun, Tells, Carried
<1>5. Saved' /\ Caught' /\ Kept'
  BY <1>1, FileStays
<1>6. Scripted'
  BY <1>1, <1>2, ScriptStays
<1>7. Loaded' /\ ~Replayed /\ ~Replayed'
  BY <1>1 DEF Loaded, Replayed
<1> QED
  BY <1>1, <1>3, <1>4, <1>5, <1>6, <1>7, BeforeReplay

LEMMA SaveKeeps == ASSUME IInv, Save PROVE IInv'
<1> USE DEF IInv
<1>1. /\ phase \in {"live", "ended"} /\ file' = <<ToBytes(journal)>>
      /\ UNCHANGED <<program, given, phase, journal, live, damage, rebuilt, host,
                     used, verdict>>
  BY DEF Save
<1>2. /\ damage = NoDamage /\ ~rebuilt /\ IsChain(journal) /\ journal \in Journals
      /\ TellsRun(journal.records)
  BY <1>1 DEF Recorded, TypeOK
<1>3. /\ file' # <<>> /\ file'[1] = ToBytes(journal) /\ file'[1] \in Files
      /\ Whole(file'[1]) /\ file'[1].records = journal.records
      /\ file' \in Seq(Files) /\ Len(file') <= 1
  <2>1. ToBytes(journal) \in Files /\ Whole(ToBytes(journal))
        /\ ToBytes(journal).records = journal.records
    BY <1>2, SavedFile
  <2> QED
    BY <1>1, <2>1
<1>4. TypeOK'
  BY <1>1, <1>3 DEF TypeOK
<1>5. Recorded'
  BY <1>1 DEF Recorded, TellsRun, Tells, Carried
<1>6. TellsRun(journal.records)'
  BY <1>1, <1>2 DEF TellsRun, Tells, Carried
<1>7. Saved'
  BY <1>1, <1>3, <1>6 DEF Saved, TellsRun, Tells, Carried
<1>8. Caught'
  BY <1>1, <1>2 DEF Caught, NoDamage, Covered
<1>9. Kept'
  <2>1. FromBytes(file'[1]).records = journal.records
    BY <1>3, WholeLoads
  <2>2. damage'.field = "none"
    BY <1>1, <1>2 DEF NoDamage
  <2>3. Told(journal.records)'
    BY <1>1, <1>6, <2>2 DEF Told, TellsRun
  <2> QED
    BY <1>1, <2>1, <2>3 DEF Kept, Told, TrueTo, Tells, Carried
<1>10. Scripted'
  BY <1>1 DEF Scripted, Script
<1>11. Loaded' /\ ~Replayed /\ ~Replayed'
  BY <1>1 DEF Loaded, Replayed
<1> QED
  BY <1>1, <1>4, <1>5, <1>7, <1>8, <1>9, <1>10, <1>11, BeforeReplay

LEMMA StopKeeps == ASSUME IInv, Stop PROVE IInv'
<1> USE DEF IInv
<1>1. /\ phase \in {"live", "ended"} /\ phase' = "down" /\ given' = <<>>
      /\ journal' = NewJournal
      /\ UNCHANGED <<program, live, file, damage, rebuilt, host, used, verdict>>
  BY DEF Stop
<1>2. TypeOK'
  BY <1>1, NewJournalType DEF TypeOK
<1>3. Recorded'
  BY <1>1 DEF Recorded
<1>4. Saved' /\ Caught' /\ Kept'
  BY <1>1, FileStays
<1>5. Scripted'
  BY <1>1, ScriptStays
<1>6. Loaded' /\ ~Replayed /\ ~Replayed'
  BY <1>1 DEF Loaded, Replayed
<1> QED
  BY <1>1, <1>2, <1>3, <1>4, <1>5, <1>6, BeforeReplay

-----------------------------------------------------------------------------
(* Between the runs.                                                        *)
LEMMA DamageKeeps == ASSUME IInv, Damage PROVE IInv'
<1> USE DEF IInv
<1>1. PICK field \in Fields :
        \E k \in IF field \in Headers THEN {0} ELSE 1 .. Len(file[1].records) :
          \E f \in Damaged(file[1], field, k) \ {file[1]} :
            file' = <<f>> /\ damage' = [field |-> field, at |-> k]
  BY DEF Damage
<1>2. PICK k \in IF field \in Headers THEN {0} ELSE 1 .. Len(file[1].records) :
        \E f \in Damaged(file[1], field, k) \ {file[1]} :
          file' = <<f>> /\ damage' = [field |-> field, at |-> k]
  BY <1>1
<1>3. PICK f \in Damaged(file[1], field, k) \ {file[1]} :
        file' = <<f>> /\ damage' = [field |-> field, at |-> k]
  BY <1>2
<1>4. /\ phase = "down" /\ file # <<>> /\ damage = NoDamage /\ ~rebuilt
      /\ UNCHANGED <<program, given, phase, journal, live, rebuilt, host, used, verdict>>
  BY DEF Damage
<1> DEFINE o == file[1]
<1>5. o \in Files /\ Whole(o) /\ TellsRun(o.records) /\ Len(o.records) \in Nat
  <2>1. file \in Seq(Files) /\ Len(file) > 0
    BY <1>4 DEF TypeOK
  <2>2. o \in Files
    BY <2>1
  <2> QED
    BY <1>4, <2>2, FileFields DEF Saved
<1>6. f \in Files /\ (field \in Covered => LoadFault(f) # "ok")
  <2>1. CASE field \in Covered
    BY <1>5, <2>1, DamageCaught
  <2>2. CASE field \notin Covered
    <3>1. field \in Fields \ Covered
      BY <2>2
    <3> QED
      BY <1>5, <2>2, <3>1, DamageKept
  <2> QED
    BY <2>1, <2>2
<1>7. /\ file' # <<>> /\ file'[1] = f /\ damage'.field = field /\ damage'.at = k
      /\ file' \in Seq(Files) /\ Len(file') <= 1 /\ k \in Nat
      /\ field # "none" /\ damage' # NoDamage
  <2>1. k \in Nat
    BY <1>5
  <2>2. field # "none"
    BY DEF Fields, Covered
  <2> QED
    BY <1>3, <1>6, <2>1, <2>2 DEF NoDamage
<1>8. TypeOK'
  <2>1. damage' \in [field : Fields \cup {"none"}, at : Nat]
    BY <1>3, <1>7
  <2> QED
    BY <1>4, <1>7, <2>1 DEF TypeOK
<1>9. Recorded'
  BY <1>4 DEF Recorded
<1>10. Saved'
  BY <1>7 DEF Saved
<1>11. Caught'
  BY <1>4, <1>6, <1>7 DEF Caught
<1>12. Kept'
  <2>1. SUFFICES ASSUME LoadFault(f) = "ok" PROVE Told(FromBytes(f).records)'
    BY <1>7 DEF Kept, Told, TrueTo, Tells, Carried
  <2> DEFINE rs == FromBytes(f).records
  <2>2. field \in Fields \ Covered
    BY <1>6, <2>1
  <2>3. /\ Len(rs) \in Nat /\ Len(rs) <= Len(o.records)
        /\ \A n \in 1 .. Len(rs) :
             /\ rs[n].payload = o.records[n].payload
             /\ n # k \/ field # "kind" => rs[n].kind = o.records[n].kind
        /\ field = "kind" /\ k \in 1 .. Len(rs) => rs[k].kind # o.records[k].kind
    BY <1>5, <2>1, <2>2, DamageKept
  <2>4. Len(o.records) <= Len(live) /\ \A n \in 1 .. Len(o.records) : Tells(o.records[n], n)
    BY <1>5 DEF TellsRun
  <2>5. Len(live) \in Nat
    BY LiveFields
  <2> HIDE DEF rs, o
  <2>6. \A n \in 1 .. Len(rs) : n \in 1 .. Len(o.records)
    BY <1>5, <2>3
  <2>7. ASSUME NEW n \in 1 .. Len(rs), TrueTo(n)' PROVE Tells(rs[n], n)
    <3>1. n # k \/ field # "kind"
      BY <1>7, <2>7 DEF TrueTo
    <3> QED
      BY <2>3, <2>4, <2>6, <3>1 DEF Tells
  <2>8. field = "kind" /\ k \in 1 .. Len(rs) => rs[k].kind # KindExpected(live[k].ask)
    BY <2>3, <2>4, <2>6 DEF Tells
  <2>9. Len(rs) <= Len(live)
    BY <1>5, <2>3, <2>4, <2>5
  <2>10. \A n \in 1 .. Len(rs) : TrueTo(n)' => Tells(rs[n], n)'
    BY <1>4, <2>7 DEF Tells, Carried
  <2> QED
    BY <1>4, <1>7, <2>8, <2>9, <2>10 DEF Told, rs
<1>13. Scripted'
  BY <1>4, ScriptStays
<1>14. Loaded' /\ ~Replayed /\ ~Replayed'
  BY <1>4 DEF Loaded, Replayed
<1> QED
  BY <1>4, <1>8, <1>9, <1>10, <1>11, <1>12, <1>13, <1>14, BeforeReplay

LEMMA RebuildKeeps == ASSUME IInv, Rebuild PROVE IInv'
<1> USE DEF IInv
<1>1. /\ phase = "down" /\ damage = NoDamage /\ rebuilt'
      /\ program' = [h \in {} |-> "Exit"] /\ rebuilt' \in BOOLEAN
      /\ UNCHANGED <<given, phase, journal, live, file, damage, host, used, verdict>>
  BY DEF Rebuild
<1>2. TypeOK'
  BY <1>1 DEF TypeOK
<1>3. Recorded' /\ Scripted'
  BY <1>1 DEF Recorded, Scripted
<1>4. Saved' /\ Caught'
  BY <1>1 DEF Saved, Caught, TellsRun, Tells, Carried
<1>5. Kept'
  BY <1>1 DEF Kept, Told, TrueTo, NoDamage
<1>6. Loaded' /\ ~Replayed /\ ~Replayed'
  BY <1>1 DEF Loaded, Replayed
<1> QED
  BY <1>1, <1>2, <1>3, <1>4, <1>5, <1>6, BeforeReplay

LEMMA LoadKeeps == ASSUME IInv, Load PROVE IInv'
<1> USE DEF IInv
<1>1. /\ phase = "down" /\ file # <<>> /\ verdict' = LoadFault(file[1])
      /\ IF LoadFault(file[1]) = "ok"
         THEN phase' = "replaying" /\ host' = Fresh(FromBytes(file[1]))
         ELSE phase' = "refused" /\ UNCHANGED host
      /\ UNCHANGED <<program, given, journal, live, file, damage, rebuilt, used>>
  BY DEF Load
<1>2. given' = <<>> /\ used' = <<>> /\ host.cursor = 0
  BY <1>1 DEF Loaded, Replayed
<1>3. Recorded' /\ Scripted'
  BY <1>1, ScriptStays DEF Recorded
<1>4. Saved' /\ Caught' /\ Kept'
  BY <1>1, FileStays
<1>5. CASE LoadFault(file[1]) = "ok"
  <2>1. phase' = "replaying" /\ host' = [journal |-> FromBytes(file[1]), cursor |-> 0]
        /\ verdict' = "ok"
    BY <1>1, <1>5 DEF Fresh
  <2>2. FromBytes(file[1]) \in Journals
    <3>1. file[1] \in Files
      BY <1>1 DEF TypeOK
    <3> QED
      BY <1>5, <3>1, Loads, LoadedJournal
  <2>3. TypeOK'
    <3>1. host' \in [journal : Journals, cursor : Nat]
      BY <2>1, <2>2
    <3> QED
      BY <1>1, <2>1, <3>1 DEF TypeOK
  <2>4. Loaded' /\ Replayed'
    BY <1>1, <1>5, <2>1 DEF Loaded, Replayed
  <2>5. Len(host'.journal.records) \in Nat
    BY <2>1, <2>2, JournalFields
  <2>6. Faithful' /\ Asked' /\ AnswersFromRecords' /\ NoFalseAlarm' /\ KindDamageCaught'
    BY <1>2, <2>1, <2>4, <2>5
       DEF Faithful, Asked, AnswersFromRecords, NoFalseAlarm, KindDamageCaught
  <2> QED
    BY <1>3, <1>4, <2>3, <2>4, <2>6
<1>6. CASE LoadFault(file[1]) # "ok"
  <2>1. phase' = "refused" /\ UNCHANGED <<host, used>>
    BY <1>1, <1>6
  <2>2. TypeOK'
    BY <1>1, <2>1 DEF TypeOK
  <2>3. Loaded' /\ ~Replayed /\ ~Replayed'
    BY <1>1, <1>2, <2>1 DEF Loaded, Replayed
  <2> QED
    BY <1>3, <1>4, <2>1, <2>2, <2>3, BeforeReplay
<1> QED
  BY <1>5, <1>6

-----------------------------------------------------------------------------
(* The replay.                                                              *)

(* A program that has been given the live run's own answers asks what it    *)
(* asked then.                                                              *)
LEMMA AsksTheSame ==
  ASSUME IInv, NEW ask \in Asks, Turns(ask), NEW c \in Nat, c < Len(live), ~rebuilt,
         Len(given) = c, \A k \in 1 .. c : given[k] = live[k].answer.value
  PROVE  ask = live[c + 1].ask
<1>1. given = Script(c)
  <2>1. given = [k \in 1 .. c |-> given[k]]
    BY DEF IInv, TypeOK
  <2> QED
    BY <2>1 DEF Script
<1>2. c \in 0 .. Len(live) - 1
  BY LiveFields DEF IInv
<1>3. given \in DOMAIN program /\ program[given] = live[c + 1].ask
  BY <1>1, <1>2 DEF IInv, Scripted
<1> QED
  BY <1>3, TurnFacts DEF IInv, Turn

(* The record at the cursor, what it tells, and that it is served when it   *)
(* is what the program asks for.                                            *)
LEMMA ToldServed ==
  ASSUME TypeOK, NEW r \in Records, NEW n \in 1 .. Len(live), Tells(r, n)
  PROVE  Served(r, live[n].ask) = "ok"
<1>1. live[n].answer.value \in Values
  BY LiveFields
<1>2. Readable(<<0, 0>>)
  BY DEF Readable, Tags
<1>3. r.payload = Write(live[n].answer.value) \/ r.payload = <<0, 0>>
  BY DEF Tells
<1>4. Readable(r.payload)
  BY <1>1, <1>2, <1>3, WriteType
<1> QED
  BY <1>4 DEF Served, Tells

LEMMA ReadType ==
  ASSUME NEW p \in Payloads, Readable(p)
  PROVE  Read(p) \in Values
  BY PayloadFields DEF Readable, Read, Values

(* What the first elements of a sequence are. *)
LEMMA Prefix ==
  ASSUME NEW S, NEW s \in Seq(S), NEW m \in Nat, m <= Len(s)
  PROVE  /\ Len(SubSeq(s, 1, m)) = m /\ SubSeq(s, 1, m) \in Seq(S)
         /\ \A k \in 1 .. m : SubSeq(s, 1, m)[k] = s[k]
<1>1. \A k \in 1 .. m : s[k] \in S
  OBVIOUS
<1> QED
  BY <1>1, SubSeqProperties

LEMMA AnswerKeeps == ASSUME IInv, Answer PROVE IInv'
<1> USE DEF IInv
<1>1. PICK ask \in Asks : Turns(ask) /\ verdict' = Served(NextRecord, ask)
  BY DEF Answer
<1>2. /\ phase = "replaying" /\ Left > 0 /\ host' = [host EXCEPT !.cursor = @ + 1]
      /\ IF verdict' = "ok"
         THEN /\ given' = Append(given, Read(NextRecord.payload))
              /\ used' = Append(used, host.cursor + 1)
         ELSE UNCHANGED <<given, used>>
      /\ UNCHANGED <<phase, journal, live, file, damage, rebuilt>>
  BY DEF Answer, Moved
<1>3. PICK c \in Nat : c = host.cursor
  BY DEF TypeOK
<1>4. PICK rs \in Seq(Records) : rs = host.journal.records
  BY DEF TypeOK, Journals
<1>5. PICK n \in Nat : n = Len(given)
  BY DEF TypeOK
<1>6. /\ Replayed /\ file # <<>> /\ LoadFault(file[1]) = "ok"
      /\ host.journal = FromBytes(file[1]) /\ Told(rs)
  BY <1>2, <1>4 DEF Replayed, Loaded, Kept
<1>7. /\ c < Len(rs) /\ Len(rs) <= Len(live) /\ Len(rs) \in Nat /\ Len(live) \in Nat
      /\ c + 1 \in 1 .. Len(rs) /\ c + 1 \in 1 .. Len(live)
  <2>1. Len(rs) \in Nat /\ Len(live) \in Nat /\ Len(rs) - c > 0
    BY <1>2, <1>3, <1>4, LiveFields DEF Left
  <2> QED
    BY <1>6, <2>1 DEF Told
<1>8. PICK r \in Records : r = rs[c + 1] /\ NextRecord = r
  BY <1>3, <1>4, <1>7 DEF NextRecord
<1>9. /\ host'.journal = host.journal /\ host'.cursor = c + 1
      /\ host' \in [journal : Journals, cursor : Nat]
  <2>1. host \in [journal : Journals, cursor : Nat]
    BY DEF TypeOK
  <2>2. host' = [host EXCEPT !.cursor = c + 1]
    BY <1>2, <1>3
  <2> QED
    BY <2>1, <2>2
<1>10. /\ given \in Seq(Values) /\ used \in Seq(Nat) /\ Len(used) = n /\ n <= c
  BY <1>3, <1>5, <1>6 DEF TypeOK, AnswersFromRecords, Faithful
<1>11. r \in Records /\ r.payload \in Payloads
  BY <1>7, <1>8, RecordFields
<1>12. ASSUME verdict' = "ok"
       PROVE  /\ r.kind = KindExpected(ask) /\ Readable(r.payload)
              /\ given' \in Seq(Values) /\ Len(given') = n + 1
              /\ given'[n + 1] = Read(r.payload)
              /\ used' \in Seq(Nat) /\ Len(used') = n + 1 /\ used'[n + 1] = c + 1
              /\ \A k \in 1 .. n : given'[k] = given[k] /\ used'[k] = used[k]
  <2>1. /\ r.kind = KindExpected(ask) /\ Readable(r.payload)
    BY <1>1, <1>8, <1>12 DEF Served
  <2>2. PICK v \in Values : v = Read(r.payload)
    BY <1>11, <2>1, ReadType
  <2>3. given' = Append(given, v) /\ used' = Append(used, c + 1)
    BY <1>2, <1>3, <1>8, <1>12, <2>2
  <2> QED
    BY <1>5, <1>10, <2>1, <2>2, <2>3, AppendProperties
<1>14. /\ Len(given') \in Nat /\ given' \in Seq(Values) /\ used' \in Seq(Nat)
       /\ Len(used') = Len(given') /\ n <= Len(given') /\ Len(given') <= c + 1
       /\ \A k \in 1 .. n : given'[k] = given[k] /\ used'[k] = used[k]
  <2>1. CASE verdict' = "ok"
    BY <1>10, <1>12, <2>1
  <2>2. CASE verdict' # "ok"
    BY <1>2, <1>5, <1>10, <2>2
  <2> QED
    BY <2>1, <2>2
<1>15. /\ given \in DOMAIN program' /\ program'[given] = ask
       /\ DOMAIN program \subseteq DOMAIN program'
       /\ \A h \in DOMAIN program : program'[h] = program[h]
       /\ DOMAIN program' \subseteq Seq(Values)
       /\ \A h \in DOMAIN program' : program'[h] \in Turn
  BY <1>1, TurnFacts DEF Turn
<1>16. TypeOK'
  <2>1. Served(NextRecord, ask) \in {"ok", "Diverged", "SnapshotCorrupt"}
    BY DEF Served
  <2> QED
    BY <1>2, <1>9, <1>14, <1>15 DEF TypeOK
<1>17. Recorded'
  BY <1>2 DEF Recorded
<1>18. Saved' /\ Caught' /\ Kept'
  BY <1>2, FileStays
<1>19. Scripted'
  BY <1>2, <1>15, ScriptStays
<1>20. Loaded' /\ Replayed'
  BY <1>2, <1>6, <1>9 DEF Loaded, Replayed
(* While the journal carries the answers the replay is in step. *)
<1>21. ASSUME Clean(c), TrueTo(c)
       PROVE  /\ n = c /\ ask = live[c + 1].ask
              /\ \A k \in 1 .. c : given[k] = live[k].answer.value /\ used[k] = k
  <2>1. c <= n /\ \A k \in 1 .. c : given[k] = live[k].answer.value /\ used[k] = k
    BY <1>3, <1>5, <1>6, <1>21 DEF Faithful
  <2>2. n = c
    BY <1>10, <2>1
  <2>3. ask = live[c + 1].ask
    BY <1>1, <1>5, <1>7, <1>21, <2>1, <2>2, AsksTheSame DEF TrueTo
  <2> QED
    BY <2>1, <2>2, <2>3
<1>22. ASSUME Clean(c), TrueTo(c + 1)
       PROVE  verdict' = "ok" /\ TrueTo(c) /\ Tells(r, c + 1)
  <2>1. TrueTo(c)
    BY <1>22 DEF TrueTo, TypeOK
  <2>2. Tells(r, c + 1)
    BY <1>6, <1>7, <1>8, <1>22 DEF Told
  <2>3. Served(r, live[c + 1].ask) = "ok"
    BY <1>7, <1>11, <2>2, ToldServed
  <2> QED
    BY <1>1, <1>8, <1>21, <1>22, <2>1, <2>2, <2>3
<1>23. Faithful'
  <2>1. SUFFICES ASSUME NEW m \in 0 .. c + 1, Clean(m)', TrueTo(m)'
                 PROVE  /\ m <= Len(given')
                        /\ \A k \in 1 .. m : given'[k] = live[k].answer.value /\ used'[k] = k
    BY <1>2, <1>9, <1>14 DEF Faithful
  <2>2. Clean(m) /\ TrueTo(m)
    BY <1>2, <2>1 DEF Clean, Carried, TrueTo
  <2>3. CASE m \in 0 .. c
    <3>1. m <= n /\ \A k \in 1 .. m : given[k] = live[k].answer.value /\ used[k] = k
      BY <1>3, <1>5, <1>6, <2>2, <2>3 DEF Faithful
    <3> QED
      BY <1>14, <2>3, <3>1
  <2>4. CASE m = c + 1
    <3>1. Clean(c) /\ Carried(c + 1)
      BY <2>2, <2>4 DEF Clean
    <3>2. verdict' = "ok" /\ TrueTo(c) /\ Tells(r, c + 1)
      BY <1>22, <2>2, <2>4, <3>1
    <3>3. n = c /\ \A k \in 1 .. c : given[k] = live[k].answer.value /\ used[k] = k
      BY <1>21, <3>1, <3>2
    <3>4. Read(r.payload) = live[c + 1].answer.value
      <4>1. r.payload = Write(live[c + 1].answer.value)
        BY <3>1, <3>2 DEF Tells
      <4>2. live[c + 1].answer.value \in Values
        BY <1>7, LiveFields
      <4> QED
        BY <4>1, <4>2, WriteType
    <3>5. given'[c + 1] = live[c + 1].answer.value /\ used'[c + 1] = c + 1
          /\ Len(given') = c + 1
      BY <1>12, <3>2, <3>3, <3>4
    <3>6. \A k \in 1 .. c + 1 : k \in 1 .. c \/ k = c + 1
      OBVIOUS
    <3> QED
      BY <1>14, <2>4, <3>3, <3>5, <3>6
  <2> QED
    BY <2>3, <2>4
<1>24. ASSUME NEW m \in 0 .. n
      PROVE  SubSeq(given', 1, m) = SubSeq(given, 1, m)
  <2>1. m <= Len(given) /\ m <= Len(given') /\ m \in Nat
    BY <1>5, <1>14
  <2>2. /\ Len(SubSeq(given, 1, m)) = m /\ Len(SubSeq(given', 1, m)) = m
        /\ SubSeq(given, 1, m) \in Seq(Values) /\ SubSeq(given', 1, m) \in Seq(Values)
        /\ \A k \in 1 .. m : SubSeq(given, 1, m)[k] = given[k]
                             /\ SubSeq(given', 1, m)[k] = given'[k]
    BY <1>10, <1>14, <2>1, Prefix
  <2>3. \A k \in 1 .. m : SubSeq(given, 1, m)[k] = SubSeq(given', 1, m)[k]
    BY <1>14, <2>2
  <2> DEFINE x == SubSeq(given, 1, m)
             y == SubSeq(given', 1, m)
  <2> HIDE DEF x, y
  <2> QED
    BY <2>2, <2>3, SeqEqual DEF x, y
<1>25. Asked'
  <2>1. ASSUME NEW m \in 0 .. n, m < Len(given')
        PROVE  /\ SubSeq(given', 1, m) \in DOMAIN program'
               /\ program'[SubSeq(given', 1, m)] \in Asks
    <3>1. CASE m = n
      <4>1. SubSeq(given', 1, m) = given
        BY <1>5, <1>10, <1>24, <3>1, SubSeqFull
      <4> QED
        BY <1>15, <4>1
    <3>2. CASE m # n
      <4>1. m \in 0 .. Len(given) - 1
        BY <1>5, <3>2
      <4>2. SubSeq(given, 1, m) \in DOMAIN program /\ program[SubSeq(given, 1, m)] \in Asks
        BY <1>6, <4>1 DEF Asked
      <4> QED
        BY <1>15, <1>24, <4>2
    <3> QED
      BY <3>1, <3>2
  <2>2. Len(given') <= n + 1
    <3>1. CASE verdict' = "ok"
      BY <1>12, <3>1
    <3>2. CASE verdict' # "ok"
      BY <1>2, <1>5, <3>2
    <3> QED
      BY <3>1, <3>2
  <2>3. \A m \in 0 .. Len(given') - 1 : m \in 0 .. n /\ m < Len(given')
    BY <1>14, <2>2
  <2> QED
    BY <2>1, <2>3 DEF Asked
<1>26. AnswersFromRecords'
  <2>1. /\ \A m \in 1 .. n :
              /\ used[m] <= c /\ (m > 1 => used[m - 1] < used[m])
              /\ rs[used[m]].kind = KindRecorded(program[SubSeq(given, 1, m - 1)])
              /\ given[m] = Read(rs[used[m]].payload)
    BY <1>3, <1>4, <1>10 DEF AnswersFromRecords
  <2>2. ASSUME NEW m \in 1 .. n
        PROVE  /\ used'[m] <= c + 1 /\ (m > 1 => used'[m - 1] < used'[m])
               /\ rs[used'[m]].kind = KindRecorded(program'[SubSeq(given', 1, m - 1)])
               /\ given'[m] = Read(rs[used'[m]].payload)
    <3>1. m - 1 \in 0 .. n /\ m - 1 \in 0 .. Len(given) - 1 /\ used[m] \in Nat
      BY <1>5, <1>10
    <3>2. SubSeq(given, 1, m - 1) \in DOMAIN program
      BY <1>6, <3>1 DEF Asked
    <3>3. program'[SubSeq(given', 1, m - 1)] = program[SubSeq(given, 1, m - 1)]
      BY <1>15, <1>24, <3>1, <3>2
    <3>4. used'[m] = used[m] /\ given'[m] = given[m] /\ (m > 1 => used'[m - 1] = used[m - 1])
      BY <1>14
    <3> QED
      BY <2>1, <3>1, <3>3, <3>4
  <2>3. ASSUME verdict' = "ok"
        PROVE  /\ used'[n + 1] <= c + 1 /\ (n + 1 > 1 => used'[n] < used'[n + 1])
               /\ rs[used'[n + 1]].kind = KindRecorded(program'[SubSeq(given', 1, n)])
               /\ given'[n + 1] = Read(rs[used'[n + 1]].payload)
    <3>1. used'[n + 1] = c + 1 /\ given'[n + 1] = Read(r.payload) /\ r.kind = KindExpected(ask)
      BY <1>12, <2>3
    <3>2. SubSeq(given', 1, n) = given
      BY <1>5, <1>10, <1>24, SubSeqFull
    <3>3. KindExpected(ask) = KindRecorded(ask)
      BY DEF KindExpected, KindRecorded, Asks
    <3>4. n > 0 => used'[n] < c + 1
      <4>1. SUFFICES ASSUME n > 0 PROVE used'[n] < c + 1
        OBVIOUS
      <4>2. n \in 1 .. n /\ used[n] \in Nat
        BY <1>10, <4>1
      <4> QED
        BY <1>14, <2>1, <4>2
    <3>5. used'[n + 1] <= c + 1 /\ (n + 1 > 1 => used'[n] < used'[n + 1])
      BY <1>10, <3>1, <3>4
    <3>6. program'[SubSeq(given', 1, n)] = ask
      BY <1>15, <3>2
    <3>7. rs[used'[n + 1]] = r
      BY <1>8, <3>1
    <3> QED
      BY <3>1, <3>3, <3>5, <3>6, <3>7
  <2>4. ASSUME NEW m \in 1 .. Len(used')
        PROVE  /\ used'[m] <= c + 1 /\ (m > 1 => used'[m - 1] < used'[m])
               /\ rs[used'[m]].kind = KindRecorded(program'[SubSeq(given', 1, m - 1)])
               /\ given'[m] = Read(rs[used'[m]].payload)
    <3>1. CASE m \in 1 .. n
      BY <2>2, <3>1
    <3>2. CASE m \notin 1 .. n
      <4>1. verdict' = "ok" /\ m = n + 1 /\ m - 1 = n
        <5>1. CASE verdict' = "ok"
          BY <1>12, <3>2, <5>1
        <5>2. CASE verdict' # "ok"
          BY <1>2, <1>10, <3>2, <5>2
        <5> QED
          BY <5>1, <5>2
      <4> QED
        BY <2>3, <4>1
    <3> QED
      BY <3>1, <3>2
  <2>5. host'.journal.records = rs /\ host'.cursor = c + 1 /\ c + 1 <= Len(rs)
    BY <1>4, <1>7, <1>9
  <2> QED
    BY <1>14, <1>20, <2>4, <2>5 DEF AnswersFromRecords
<1>27. NoFalseAlarm'
  <2>1. SUFFICES ASSUME SameRun, verdict' # "ok", \A k \in 1 .. c : Carried(k)
                 PROVE  FALSE
    <3>1. SameRun' = SameRun /\ \A k : Carried(k)' = Carried(k)
      BY <1>2 DEF SameRun, Carried
    <3> QED
      BY <1>9, <3>1 DEF NoFalseAlarm
  <2>2. Clean(c)
    BY <1>7, <2>1 DEF Clean
  <2>3. TrueTo(c + 1)
    BY <2>1 DEF SameRun, TrueTo
  <2> QED
    BY <1>22, <2>1, <2>2, <2>3
<1>28. KindDamageCaught'
  <2>1. SUFFICES ASSUME damage.field = "kind",
                        \A k \in 1 .. damage.at - 1 : Carried(k),
                        NEW m \in 1 .. Len(used'), used'[m] = damage.at
                 PROVE  FALSE
    <3>1. \A k : Carried(k)' = Carried(k)
      BY <1>2 DEF Carried
    <3> QED
      BY <1>2, <3>1 DEF KindDamageCaught
  <2>2. damage.at \in Nat /\ ~rebuilt
    BY <2>1 DEF TypeOK, Caught, NoDamage
  <2>3. m \notin 1 .. n
    <3>1. \A k \in 1 .. n : used[k] # damage.at
      BY <1>10, <2>1 DEF KindDamageCaught
    <3> QED
      BY <1>14, <2>1, <3>1
  <2>4. verdict' = "ok" /\ m = n + 1
    <3>1. CASE verdict' = "ok"
      BY <1>12, <2>3, <3>1
    <3>2. CASE verdict' # "ok"
      BY <1>2, <1>10, <2>3, <3>2
    <3> QED
      BY <3>1, <3>2
  <2>5. damage.at = c + 1 /\ r.kind = KindExpected(ask)
    BY <1>12, <2>1, <2>4
  <2>6. Clean(c) /\ TrueTo(c)
    <3>1. \A k \in 1 .. c : k <= Len(live) /\ k \in 1 .. damage.at - 1
      BY <1>7, <2>5
    <3> QED
      BY <2>1, <2>2, <2>5, <3>1 DEF Clean, TrueTo
  <2>7. ask = live[c + 1].ask
    BY <1>21, <2>6
  <2>8. r.kind # KindExpected(live[c + 1].ask)
    BY <1>6, <1>7, <1>8, <2>1, <2>5 DEF Told
  <2> QED
    BY <2>5, <2>7, <2>8
<1> QED
  BY <1>16, <1>17, <1>18, <1>19, <1>20, <1>23, <1>25, <1>26, <1>27, <1>28

(* A replay that ends leaves everything but its verdict. *)
LEMMA EndKeeps ==
  ASSUME IInv, phase = "replaying", phase' = "over",
         verdict' \in {verdict, "ok", "JournalExhausted"},
         DOMAIN program \subseteq DOMAIN program',
         \A h \in DOMAIN program : program'[h] = program[h],
         DOMAIN program' \subseteq Seq(Values),
         \A h \in DOMAIN program' : program'[h] \in Turn,
         UNCHANGED <<given, journal, live, file, damage, rebuilt, host, used>>
  PROVE  IInv'
<1> USE DEF IInv
<1>1. TypeOK'
  BY DEF TypeOK
<1>2. Recorded' /\ Scripted'
  BY ScriptStays DEF Recorded
<1>3. Saved' /\ Caught' /\ Kept'
  BY FileStays
<1>4. Loaded' /\ Replayed /\ Replayed'
  BY DEF Loaded, Replayed
<1>5. Faithful'
  BY <1>4 DEF Faithful, Clean, TrueTo, Carried
<1>6. Asked'
  BY <1>4 DEF Asked
<1>7. AnswersFromRecords'
  <2>1. \A n \in 1 .. Len(used) :
          program'[SubSeq(given, 1, n - 1)] = program[SubSeq(given, 1, n - 1)]
    <3> TAKE n \in 1 .. Len(used)
    <3>1. Len(used) = Len(given) /\ Len(given) \in Nat
      BY <1>4 DEF AnswersFromRecords, TypeOK
    <3>2. n - 1 \in 0 .. Len(given) - 1
      BY <3>1
    <3> QED
      BY <1>4, <3>2 DEF Asked
  <2> QED
    BY <1>4, <2>1 DEF AnswersFromRecords
<1>8. NoFalseAlarm'
  BY <1>4 DEF NoFalseAlarm, SameRun, Carried
<1>9. KindDamageCaught'
  BY DEF KindDamageCaught, Carried
<1> QED
  BY <1>1, <1>2, <1>3, <1>4, <1>5, <1>6, <1>7, <1>8, <1>9

LEMMA ExhaustedKeeps == ASSUME IInv, Exhausted PROVE IInv'
<1>1. PICK ask \in Asks : Turns(ask)
  BY DEF Exhausted
<1>2. /\ phase = "replaying" /\ phase' = "over" /\ verdict' = "JournalExhausted"
      /\ UNCHANGED <<given, journal, live, file, damage, rebuilt, host, used>>
  BY DEF Exhausted
<1> QED
  BY <1>1, <1>2, TurnFacts, EndKeeps DEF IInv, Turn

LEMMA FinishKeeps == ASSUME IInv, Finish PROVE IInv'
<1>1. /\ phase = "replaying" /\ phase' = "over" /\ verdict' = "ok" /\ Turns("Exit")
      /\ UNCHANGED <<given, journal, live, file, damage, rebuilt, host, used>>
  BY DEF Finish
<1> QED
  BY <1>1, TurnFacts, EndKeeps DEF IInv, Turn

LEMMA GiveUpKeeps == ASSUME IInv, GiveUp PROVE IInv'
<1>1. /\ phase = "replaying" /\ phase' = "over" /\ UNCHANGED <<program, verdict>>
      /\ UNCHANGED <<given, journal, live, file, damage, rebuilt, host, used>>
  BY DEF GiveUp
<1>2. /\ DOMAIN program \subseteq Seq(Values)
      /\ \A h \in DOMAIN program : program[h] \in Turn
  BY DEF IInv, TypeOK
<1> QED
  BY <1>1, <1>2, EndKeeps

LEMMA StutterKeeps == ASSUME IInv, UNCHANGED vars PROVE IInv'
<1> USE DEF IInv, vars
<1>1. TypeOK' /\ Recorded' /\ Loaded'
  BY DEF TypeOK, Recorded, TellsRun, Tells, Carried, Loaded, Replayed
<1>2. Saved' /\ Caught' /\ Kept'
  BY FileStays
<1>3. Scripted'
  BY DEF Scripted, Script
<1>4. Faithful' /\ Asked'
  BY DEF Faithful, Asked, Clean, TrueTo, Carried, Replayed
<1>5. AnswersFromRecords' /\ NoFalseAlarm' /\ KindDamageCaught'
  BY DEF AnswersFromRecords, NoFalseAlarm, KindDamageCaught, Replayed, SameRun, Carried
<1> QED
  BY <1>1, <1>2, <1>3, <1>4, <1>5

LEMMA StepHolds == IInv /\ [Next]_vars => IInv'
<1> SUFFICES ASSUME IInv, [Next]_vars PROVE IInv'
  OBVIOUS
<1>1. CASE Serve
  BY <1>1, ServeKeeps
<1>2. CASE Exit
  BY <1>2, ExitKeeps
<1>3. CASE Save
  BY <1>3, SaveKeeps
<1>4. CASE Stop
  BY <1>4, StopKeeps
<1>5. CASE Damage
  BY <1>5, DamageKeeps
<1>6. CASE Rebuild
  BY <1>6, RebuildKeeps
<1>7. CASE Load
  BY <1>7, LoadKeeps
<1>8. CASE Answer
  BY <1>8, AnswerKeeps
<1>9. CASE Exhausted
  BY <1>9, ExhaustedKeeps
<1>10. CASE Finish
  BY <1>10, FinishKeeps
<1>11. CASE GiveUp
  BY <1>11, GiveUpKeeps
<1>12. CASE Over \/ UNCHANGED vars
  BY <1>12, StutterKeeps DEF Over
<1> QED
  BY <1>1, <1>2, <1>3, <1>4, <1>5, <1>6, <1>7, <1>8, <1>9, <1>10, <1>11, <1>12
     DEF Next, Replaying

LEMMA Invariant == Spec => []IInv
<1>1. Init => IInv
  BY InitHolds
<1>2. IInv /\ [Next]_vars => IInv'
  BY StepHolds
<1> QED
  BY <1>1, <1>2, PTL DEF Spec

-----------------------------------------------------------------------------
(* Every part of a recorded and of a replayed run keeps its shape: the      *)
(* journal, the file whatever storage made of it, the host and its cursor.  *)
THEOREM TypeCorrect == Spec => []TypeOK
<1>1. IInv => TypeOK
  BY DEF IInv
<1> QED
  BY <1>1, Invariant, PTL

(* Whenever the process ends, what was saved loads and tells a prefix of    *)
(* the run (journal.rs append, to_bytes, from_bytes).                       *)
THEOREM SavedTellsRun == Spec => []FileTellsRun
<1>1. IInv => FileTellsRun
  <2> SUFFICES ASSUME IInv PROVE FileTellsRun
    OBVIOUS
  <2>1. ASSUME file # <<>>, damage = NoDamage
        PROVE  LoadFault(file[1]) = "ok" /\ TellsRun(file[1].records)
    <3>1. file[1] \in Files
      BY <2>1 DEF IInv, TypeOK
    <3>2. Whole(file[1]) /\ TellsRun(file[1].records)
      BY <2>1 DEF IInv, Saved
    <3> QED
      BY <3>1, <3>2, WholeLoads
  <2>2. ASSUME phase \in {"live", "ended"}
        PROVE  TellsRun(journal.records) /\ Len(journal.records) = Len(live)
    BY <2>2 DEF IInv, Recorded
  <2> QED
    BY <2>1, <2>2 DEF FileTellsRun
<1> QED
  BY <1>1, Invariant, PTL

(* A file that lost its end, or of which a unit the chain covers was        *)
(* changed, is never replayed: for every hash of which a turn loses nothing.*)
THEOREM DamageIsRefused == Spec => []DamageRefused
<1>1. IInv => DamageRefused
  BY DEF IInv, Caught, Loaded, DamageRefused
<1> QED
  BY <1>1, Invariant, PTL

(* As long as the journal carries the answers, a replay repeats the run     *)
(* (replay.rs record, answer).                                              *)
THEOREM ReplayRepeats == Spec => []ReplayExact
<1>1. IInv => ReplayExact
  <2> SUFFICES ASSUME IInv, Replayed, SameRun, NEW n \in 0 .. Len(given),
                      \A k \in 1 .. n : k <= Len(live) /\ Carried(k)
               PROVE  \A k \in 1 .. n : given[k] = live[k].answer.value /\ used[k] = k
    BY DEF ReplayExact
  <2>1. n \in 0 .. host.cursor
    BY DEF IInv, Faithful, TypeOK
  <2>2. Clean(n) /\ TrueTo(n)
    BY DEF Clean, TrueTo, SameRun
  <2> QED
    BY <2>1, <2>2 DEF IInv, Faithful
<1> QED
  BY <1>1, Invariant, PTL

(* An unchanged program over an undamaged file is not told that it diverged *)
(* before an answer that the journal does not carry.                        *)
THEOREM NoAlarmIsFalse == Spec => []NoFalseAlarm
<1>1. IInv => NoFalseAlarm
  BY DEF IInv
<1> QED
  BY <1>1, Invariant, PTL

(* A changed kind passes the chain and is caught by the replay.             *)
THEOREM KindIsCaught == Spec => []KindDamageCaught
<1>1. IInv => KindDamageCaught
  BY DEF IInv
<1> QED
  BY <1>1, Invariant, PTL

(* Whatever the file and the program, each answer of a replay is the value  *)
(* of one record of the kind that was asked for, each used once, in order.  *)
THEOREM AnswersAreRecords == Spec => []AnswersFromRecords
<1>1. IInv => AnswersFromRecords
  BY DEF IInv
<1> QED
  BY <1>1, Invariant, PTL
=============================================================================
