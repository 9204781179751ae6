------------------------- MODULE RunPersistenceProofs -------------------------
(***************************************************************************)
(* Theorems of RunPersistence for every set of reactions and               *)
(* configurations, and any number of steps, sessions and crashes.          *)
(***************************************************************************)
EXTENDS RunPersistence, FiniteSetTheorems, SequenceTheorems, TLAPS

RowType == [step : Nat, reaction : Reactions]
Bytes == {"appended", "rewritten"}
FrameType == [step : Nat, final : BOOLEAN, bytes : Bytes]
FolderType == [state : {"absent", "incomplete", "complete"}, discovered : Nat, count : Nat]

\* A run whose files are open, or were closed in order.
Open == Working \cup {"closed"}
\* ... and whose last event is in the log.
Settled == Open \ {"record", "raised", "partial"}
Unpublished == {"begin", "record", "raised", "finish"}
Before == {"begin", "idle", "record", "finish", "raised", "partial"}

TypeInv ==
  /\ settings \in Configurations
  /\ log \in Seq(RowType) /\ logSynced \in Nat
  /\ frames \in Seq(FrameType) /\ framesSynced \in Nat
  /\ torn \subseteq {"events", "trajectory"}
  /\ folder \in [Reactions -> FolderType]
  /\ checkpoint # NoCheckpoint => checkpoint \in CheckpointType
  /\ run \in Seq(Reactions) /\ start \in Nat
  /\ committed \in Nat /\ suffix \in Seq(RowType)
  /\ stats \in [Reactions -> Nat] /\ pending \subseteq Reactions /\ todo \subseteq Reactions
  /\ saved \in Nat /\ closing \in BOOLEAN
  /\ pc \in Open \cup Resuming \cup {"new", "down"}
  /\ sessions \in Nat

\* The rows are those of the first events of the run.
RowsAgree(rows, reactions) ==
  /\ Len(rows) <= Len(reactions)
  /\ \A i \in 1 .. Len(rows) : rows[i] = Row(i, reactions[i])

\* What an fsync has covered.
SyncInv ==
  /\ logSynced <= Len(log) /\ framesSynced <= Len(frames)
  /\ pc \in {"syncEvents", "flush", "publish"} => framesSynced = Len(frames)
  /\ pc \in {"flush", "publish"} => logSynced = Len(log)

\* The log and the history, which keeps only its end in memory.
LogInv ==
  /\ pc = "new" => log = <<>> /\ run = <<>> /\ committed = 0 /\ suffix = <<>> /\ torn = {}
  /\ pc # "new" => sessions > 0
  /\ pc \in Open =>
       /\ RowsAgree(log, run) /\ torn = {}
       /\ Len(log) = committed + Len(suffix)
       /\ \A i \in 1 .. Len(suffix) : suffix[i] = log[committed + i]
  /\ pc \in Settled => Len(log) = Step
  /\ pc = "record" => Step = Len(log) + 1
  /\ pc \in {"raised", "partial"} => Step <= Len(log) + 1
  /\ pc \in Resuming =>
       /\ checkpoint # NoCheckpoint /\ Len(log) = checkpoint.events
       /\ "events" \notin torn /\ sessions > 1

FrameInv ==
  /\ pc = "new" => frames = <<>> /\ ~closing
  /\ pc = "begin" /\ sessions = 1 => frames = <<>>
  /\ \A i \in 2 .. Len(frames) : frames[i - 1].step < frames[i].step
  /\ pc \in Open => \A i \in 1 .. Len(frames) : frames[i].step <= Step
  /\ pc \in {"record", "finish"} => \A i \in 1 .. Len(frames) : frames[i].step < Step
  /\ pc \in Before => ~closing
  /\ pc \in {"ending", "closed"} => closing
  /\ pc \in Open /\ closing /\ Enabled =>
       Last > 0 /\ frames[Last].step = Step /\ frames[Last].final

\* What the checkpoint counts is there, and so are the folders of its events.
CheckpointInv ==
  checkpoint # NoCheckpoint =>
    /\ pc # "new"
    /\ checkpoint.events = Len(checkpoint.run) /\ checkpoint.events <= logSynced
    /\ \A i \in 1 .. checkpoint.events :
         /\ log[i] = Row(i, checkpoint.run[i])
         /\ folder[checkpoint.run[i]].state = "complete"
         /\ folder[checkpoint.run[i]].discovered <= checkpoint.events
    /\ Len(checkpoint.frames) <= framesSynced
    /\ \A i \in 1 .. Len(checkpoint.frames) :
         frames[i].bytes = checkpoint.frames[i] /\ frames[i].step <= checkpoint.events

FolderInv ==
  /\ pc = "new" => \A r \in Reactions : folder[r] = Absent
  /\ pc \in Open =>
       /\ \A r \in Reactions :
            /\ folder[r].state = "incomplete" => r \in todo \/ pc = "partial"
            /\ folder[r].state = "complete" => folder[r].discovered <= Step
       /\ \A i \in 1 .. Len(log) : folder[run[i]].state = "complete"
  /\ pc \in Open \ Unpublished => todo = {}
  /\ pc = "record" => folder[run[Step]].state = "complete" \/ run[Step] \in todo
  /\ pc = "reconcile" => \A r \in Reactions : ~Stray(r)

StatisticsInv ==
  /\ pc = "new" => pending = {} /\ \A r \in Reactions : stats[r] = 0
  /\ pc \in Open \cup {"reconcile"} =>
       /\ pending \subseteq Complete
       /\ \A r \in Reactions : stats[r] = Fired(log, r)
       /\ \A r \in Complete \ pending : folder[r].count = stats[r]
  /\ pc \in {"publish", "closed"} => pending = {}

IInv == TypeInv /\ SyncInv /\ LogInv /\ FrameInv /\ CheckpointInv /\ FolderInv /\ StatisticsInv

-----------------------------------------------------------------------------
(* Facts about sequences. *)

LEMMA Extended ==
  ASSUME NEW S, NEW s \in Seq(S), NEW e \in S
  PROVE  /\ Append(s, e) \in Seq(S) /\ Len(Append(s, e)) = Len(s) + 1
         /\ \A i \in 1 .. Len(s) : Append(s, e)[i] = s[i]
         /\ Append(s, e)[Len(s) + 1] = e
  BY AppendProperties

LEMMA Prefix ==
  ASSUME NEW S, NEW s \in Seq(S), NEW n \in 0 .. Len(s)
  PROVE  /\ SubSeq(s, 1, n) \in Seq(S) /\ Len(SubSeq(s, 1, n)) = n
         /\ \A i \in 1 .. n : SubSeq(s, 1, n)[i] = s[i]
<1>1. Len(s) \in Nat
  BY LenProperties
<1>2. \A i \in 1 .. n : s[i] \in S
  BY <1>1, ElementOfSeq
<1>3. 1 \in Int /\ n \in Int
  BY <1>1
<1> QED BY <1>1, <1>2, <1>3, SubSeqProperties

\* How often a reaction has fired is the number of its rows.
LEMMA FiredAppend ==
  ASSUME NEW rows \in Seq(RowType), NEW row \in RowType, NEW r \in Reactions
  PROVE  /\ Fired(rows, r) \in Nat
         /\ Fired(Append(rows, row), r) = IF row.reaction = r THEN Fired(rows, r) + 1 ELSE Fired(rows, r)
<1> DEFINE S == {i \in DOMAIN rows : rows[i].reaction = r}
           n == Len(rows) + 1
           T == {i \in DOMAIN Append(rows, row) : Append(rows, row)[i].reaction = r}
<1>1. DOMAIN rows = 1 .. Len(rows) /\ Len(rows) \in Nat
  BY LenProperties
<1>2. DOMAIN Append(rows, row) = 1 .. n
  BY Extended, LenProperties
<1>3. IsFiniteSet(1 .. Len(rows))
  BY <1>1, FS_Interval
<1>4. IsFiniteSet(S) /\ n \notin S
  BY <1>1, <1>3, FS_Subset
<1>5. T = IF row.reaction = r THEN S \cup {n} ELSE S
  <2> HIDE DEF S
  <2>1. \A i \in 1 .. Len(rows) : Append(rows, row)[i] = rows[i]
    BY Extended
  <2>2. Append(rows, row)[n] = row
    BY Extended
  <2>3. 1 .. n = (1 .. Len(rows)) \cup {n} /\ n \notin 1 .. Len(rows)
    BY <1>1
  <2> QED BY <1>1, <1>2, <2>1, <2>2, <2>3 DEF S
<1>6. Cardinality(S) \in Nat /\ Cardinality(S \cup {n}) = Cardinality(S) + 1
  BY <1>4, FS_AddElement, FS_CardinalityType
<1> HIDE DEF S, T, n
<1>7. Fired(rows, r) = Cardinality(S) /\ Fired(Append(rows, row), r) = Cardinality(T)
  BY DEF Fired, S, T
<1> QED BY <1>5, <1>6, <1>7

LEMMA FiredNever ==
  ASSUME NEW rows \in Seq(RowType), NEW r, \A i \in 1 .. Len(rows) : rows[i].reaction # r
  PROVE  Fired(rows, r) = 0
<1>1. DOMAIN rows = 1 .. Len(rows)
  BY LenProperties
<1>2. {i \in DOMAIN rows : rows[i].reaction = r} = {}
  BY <1>1
<1> QED BY <1>2, FS_EmptySet DEF Fired

LEMMA FiredNat ==
  ASSUME NEW rows \in Seq(RowType), NEW r
  PROVE  Fired(rows, r) \in Nat
<1> DEFINE S == {i \in DOMAIN rows : rows[i].reaction = r}
<1>1. DOMAIN rows = 1 .. Len(rows) /\ Len(rows) \in Nat
  BY LenProperties
<1>2. IsFiniteSet(1 .. Len(rows))
  BY <1>1, FS_Interval
<1>3. IsFiniteSet(S)
  BY <1>1, <1>2, FS_Subset
<1>4. Cardinality(S) \in Nat
  BY <1>3, FS_CardinalityType
<1> QED BY <1>4 DEF Fired

\* The extent of a trajectory.
LEMMA ExtentSound ==
  ASSUME NEW fs \in Seq(FrameType)
  PROVE  /\ Extent(fs) \in Seq(Bytes) /\ Len(Extent(fs)) = Len(fs)
         /\ \A i \in 1 .. Len(fs) : Extent(fs)[i] = fs[i].bytes
<1>1. DOMAIN fs = 1 .. Len(fs) /\ Len(fs) \in Nat /\ \A i \in 1 .. Len(fs) : fs[i] \in FrameType
  BY LenProperties, ElementOfSeq
<1>2. Extent(fs) = [i \in 1 .. Len(fs) |-> fs[i].bytes]
  BY <1>1 DEF Extent
<1>3. \A i \in 1 .. Len(fs) : fs[i].bytes \in Bytes
  BY <1>1 DEF FrameType
<1> HIDE DEF Bytes
<1>4. Extent(fs) \in [1 .. Len(fs) -> Bytes]
  BY <1>2, <1>3
<1>5. Extent(fs) \in Seq(Bytes)
  BY <1>1, <1>4, SeqDef
<1>6. Len(Extent(fs)) = Len(fs)
  BY <1>1, <1>4, <1>5, LenProperties
<1> QED BY <1>2, <1>5, <1>6

LEMMA InitInv == ASSUME Init PROVE IInv
<1> USE DEF Init
<1>1. log \in Seq(RowType) /\ frames \in Seq(FrameType) /\ run \in Seq(Reactions) /\ suffix \in Seq(RowType)
      /\ Len(log) = 0 /\ Len(frames) = 0
  BY EmptySeq
<1>2. folder \in [Reactions -> FolderType] /\ stats \in [Reactions -> Nat]
  BY DEF Absent, FolderType
<1>3. TypeInv
  BY <1>1, <1>2 DEF TypeInv, Open, Working, Resuming
<1>4. SyncInv /\ LogInv /\ FrameInv /\ CheckpointInv /\ FolderInv /\ StatisticsInv
  BY <1>1 DEF SyncInv, LogInv, FrameInv, CheckpointInv, FolderInv, StatisticsInv, Open, Working, Settled,
       Resuming, Before, Unpublished
<1> QED BY <1>3, <1>4 DEF IInv

-----------------------------------------------------------------------------
(* What the checkpoint counts stays, whatever else is written. *)
LEMMA CheckpointKept ==
  ASSUME IInv, UNCHANGED checkpoint, pc' # "new",
         checkpoint # NoCheckpoint =>
           /\ checkpoint.events <= logSynced'
           /\ \A i \in 1 .. checkpoint.events :
                /\ log'[i] = log[i]
                /\ folder'[checkpoint.run[i]].state = "complete"
                /\ folder'[checkpoint.run[i]].discovered <= checkpoint.events
           /\ Len(checkpoint.frames) <= framesSynced'
           /\ \A i \in 1 .. Len(checkpoint.frames) :
                frames'[i].bytes = frames[i].bytes /\ frames'[i].step = frames[i].step
  PROVE  CheckpointInv'
  BY DEF IInv, CheckpointInv

LEMMA CheckpointTyped ==
  ASSUME IInv, checkpoint # NoCheckpoint
  PROVE  /\ checkpoint.run \in Seq(Reactions) /\ checkpoint.events \in Nat
         /\ checkpoint.frames \in Seq(Bytes)
         /\ checkpoint.events = Len(checkpoint.run) /\ Len(checkpoint.frames) \in Nat
         /\ \A i \in 1 .. checkpoint.events : checkpoint.run[i] \in Complete
  <1>1. checkpoint \in CheckpointType /\ checkpoint.events = Len(checkpoint.run)
    BY DEF IInv, TypeInv, CheckpointInv
  <1>2. checkpoint.run \in Seq(Reactions) /\ checkpoint.events \in Nat /\ checkpoint.frames \in Seq(Bytes)
    BY <1>1 DEF CheckpointType, Bytes
  <1>3. \A i \in 1 .. checkpoint.events : checkpoint.run[i] \in Reactions
    BY <1>1, <1>2, ElementOfSeq
  <1> QED BY <1>1, <1>2, <1>3, LenProperties DEF IInv, CheckpointInv, Complete

LEMMA CheckpointGrows ==
  ASSUME IInv, UNCHANGED checkpoint, pc' # "new",
         logSynced' \in Nat, logSynced <= logSynced', framesSynced' \in Nat, framesSynced <= framesSynced',
         \A i \in 1 .. logSynced : log'[i] = log[i],
         \A i \in 1 .. framesSynced : frames'[i].bytes = frames[i].bytes /\ frames'[i].step = frames[i].step,
         \A r \in Complete :
           folder'[r].state = "complete" /\ folder'[r].discovered = folder[r].discovered
  PROVE  CheckpointInv'
<1> SUFFICES ASSUME checkpoint # NoCheckpoint PROVE CheckpointInv'
  BY DEF CheckpointInv
<1>1. logSynced \in Nat /\ framesSynced \in Nat
  BY DEF IInv, TypeInv
<1>2. checkpoint.events <= logSynced /\ Len(checkpoint.frames) <= framesSynced
      /\ \A i \in 1 .. checkpoint.events : folder[checkpoint.run[i]].discovered <= checkpoint.events
  BY DEF IInv, CheckpointInv
<1> QED BY <1>1, <1>2, CheckpointTyped, CheckpointKept

(* The trajectory with one more frame, of a later step. *)
LEMMA FrameAppended ==
  ASSUME TypeInv, SyncInv, FrameInv, NEW f \in FrameType, frames' = Append(frames, f),
         \A i \in 1 .. Len(frames) : frames[i].step < f.step
  PROVE  /\ frames' \in Seq(FrameType) /\ Len(frames') = Len(frames) + 1 /\ Len(frames') \in Nat \ {0}
         /\ \A i \in 2 .. Len(frames') : frames'[i - 1].step < frames'[i].step
         /\ \A i \in 1 .. Len(frames') : frames'[i].step <= f.step
         /\ frames'[Len(frames')] = f
         /\ \A i \in 1 .. Len(frames) : frames'[i] = frames[i]
         /\ \A i \in 1 .. framesSynced : frames'[i] = frames[i]
<1>1. frames \in Seq(FrameType) /\ Len(frames) \in Nat /\ framesSynced \in Nat /\ framesSynced <= Len(frames)
  BY LenProperties DEF TypeInv, SyncInv
<1>2. /\ frames' \in Seq(FrameType) /\ Len(frames') = Len(frames) + 1
      /\ \A i \in 1 .. Len(frames) : frames'[i] = frames[i]
      /\ frames'[Len(frames) + 1] = f
  BY <1>1, Extended
<1>3. f.step \in Nat /\ \A i \in 1 .. Len(frames) : frames[i].step \in Nat
  <2>1. \A i \in 1 .. Len(frames) : frames[i] \in FrameType
    BY <1>1, ElementOfSeq
  <2> QED BY <2>1 DEF FrameType
<1>4. \A i \in 2 .. Len(frames) : frames[i - 1].step < frames[i].step
  BY DEF FrameInv
<1>5. ASSUME NEW i \in 2 .. Len(frames') PROVE frames'[i - 1].step < frames'[i].step
  <2>1. CASE i \in 2 .. Len(frames)
    <3>1. i - 1 \in 1 .. Len(frames) /\ i \in 1 .. Len(frames)
      BY <1>1, <2>1
    <3> QED BY <1>2, <1>4, <2>1, <3>1
  <2>2. CASE i = Len(frames) + 1
    <3>1. i - 1 = Len(frames) /\ i - 1 \in 1 .. Len(frames)
      BY <1>1, <1>2, <2>2
    <3> QED BY <1>2, <2>2, <3>1
  <2> QED BY <1>1, <1>2, <2>1, <2>2
<1>6. ASSUME NEW i \in 1 .. Len(frames') PROVE frames'[i].step <= f.step
  <2>1. CASE i \in 1 .. Len(frames)
    BY <1>2, <1>3, <2>1
  <2>2. CASE i = Len(frames) + 1
    BY <1>2, <1>3, <2>2
  <2> QED BY <1>1, <1>2, <2>1, <2>2
<1> QED BY <1>1, <1>2, <1>5, <1>6

(* The trajectory cut to a prefix. *)
LEMMA FramesCut ==
  ASSUME TypeInv, FrameInv, NEW n \in 0 .. Len(frames), frames' = SubSeq(frames, 1, n)
  PROVE  /\ frames' \in Seq(FrameType) /\ Len(frames') = n
         /\ \A i \in 2 .. n : frames'[i - 1].step < frames'[i].step
         /\ \A i \in 1 .. n : frames'[i] = frames[i]
<1>1. frames \in Seq(FrameType) /\ Len(frames) \in Nat
  BY LenProperties DEF TypeInv
<1>2. /\ frames' \in Seq(FrameType) /\ Len(frames') = n
      /\ \A i \in 1 .. n : frames'[i] = frames[i]
  BY <1>1, Prefix
<1>3. \A i \in 2 .. n : i \in 2 .. Len(frames) /\ i \in 1 .. n /\ i - 1 \in 1 .. n
  BY <1>1
<1> QED BY <1>2, <1>3 DEF FrameInv

LEMMA SyncsKeepCheckpoint ==
  ASSUME IInv, UNCHANGED <<log, frames, folder, checkpoint>>, pc' # "new",
         logSynced' \in {logSynced, Len(log)}, framesSynced' \in {framesSynced, Len(frames)}
  PROVE  CheckpointInv'
<1>1. /\ logSynced \in Nat /\ framesSynced \in Nat /\ Len(log) \in Nat /\ Len(frames) \in Nat
      /\ logSynced <= Len(log) /\ framesSynced <= Len(frames)
  BY LenProperties DEF IInv, TypeInv, SyncInv
<1>2. /\ logSynced' \in Nat /\ framesSynced' \in Nat
      /\ logSynced <= logSynced' /\ framesSynced <= framesSynced'
  BY <1>1
<1>3. \A q \in Complete : folder'[q] = folder[q] /\ folder[q].state = "complete"
  BY DEF Complete
<1> QED BY <1>2, <1>3, CheckpointGrows

LEMMA StartFreshKeeps ==
  ASSUME IInv, StartFresh
  PROVE  IInv'
<1> USE DEF IInv, StartFresh, files, history, statistics, Open, Working, Settled, Resuming, Before, Unpublished
<1>1. TypeInv'
  BY DEF TypeInv
<1>2. SyncInv' /\ LogInv' /\ FrameInv' /\ CheckpointInv'
  BY EmptySeq DEF SyncInv, LogInv, TypeInv, RowsAgree, Step, FrameInv, CheckpointInv
<1>3. FolderInv'
  BY DEF FolderInv, TypeInv, LogInv, Step, Absent
<1>4. StatisticsInv'
  <2>1. log = <<>> /\ 1 .. Len(log) = {} /\ log \in Seq(RowType)
    BY EmptySeq DEF LogInv, TypeInv
  <2>2. ASSUME NEW r \in Reactions PROVE Fired(log, r) = 0
    <3>1. \A i \in 1 .. Len(log) : log[i].reaction # r
      BY <2>1
    <3> QED BY ONLY <2>1, <3>1, FiredNever
  <2>3. Complete = {} /\ Complete' = Complete
    BY DEF FolderInv, Absent, Complete
  <2> QED BY <2>2, <2>3 DEF StatisticsInv
<1> QED BY <1>1, <1>2, <1>3, <1>4

LEMMA WriteStructuresKeeps ==
  ASSUME IInv, NEW r \in Reactions, WriteStructures(r)
  PROVE  IInv'
<1> USE DEF IInv, WriteStructures, Writing
<1>1. /\ folder' \in [Reactions -> FolderType] /\ folder'[r].state = "incomplete"
      /\ \A q \in Reactions \ {r} : folder'[q] = folder[q]
  BY DEF TypeInv, FolderType
<1>2. UNCHANGED <<log, logSynced, frames, framesSynced, torn, checkpoint, run, start, committed,
                  suffix, stats, pending, todo, saved, closing, pc, sessions, settings>>
  BY DEF files, history, statistics, control
<1>3. r \in todo /\ r \notin Complete /\ pc \in Unpublished /\ Complete' = Complete
  BY <1>1 DEF Complete, Unpublished
<1>4. TypeInv'
  BY <1>1, <1>2 DEF TypeInv
<1>5. SyncInv' /\ LogInv' /\ FrameInv'
  BY <1>2 DEF SyncInv, LogInv, FrameInv, RowsAgree, Step, Last, Enabled, DumpEvery
<1>6. CheckpointInv'
  <2>1. \A q \in Complete : folder'[q] = folder[q] /\ folder[q].state = "complete"
    BY <1>1, <1>3 DEF Complete
  <2>2. logSynced \in Nat /\ framesSynced \in Nat /\ pc # "new"
    BY <1>3 DEF TypeInv, Unpublished
  <2> HIDE DEF IInv, WriteStructures
  <2> QED BY <1>2, <2>1, <2>2, CheckpointGrows
<1>7. FolderInv'
  <2>1. \A i \in 1 .. Len(run) : run[i] \in Reactions
    BY ElementOfSeq DEF TypeInv
  <2>2. pc = "record" => Step \in 1 .. Len(run)
    BY LenProperties DEF LogInv, TypeInv, Step
  <2>3. \A i \in 1 .. Len(log) : pc \in Open => i \in 1 .. Len(run)
    BY LenProperties DEF LogInv, TypeInv, RowsAgree
  <2> QED BY <1>1, <1>2, <1>3, <2>1, <2>2, <2>3 DEF FolderInv, Unpublished, Complete, Step, Open, Working, Stray
<1>8. StatisticsInv'
  BY <1>1, <1>2, <1>3 DEF StatisticsInv, Unpublished, Complete
<1> QED BY <1>4, <1>5, <1>6, <1>7, <1>8

LEMMA WriteMetadataKeeps ==
  ASSUME IInv, NEW r \in Reactions, WriteMetadata(r)
  PROVE  IInv'
<1> USE DEF IInv, WriteMetadata, Writing
<1>1. Step \in Nat
  BY LenProperties DEF TypeInv, Step
<1>2. /\ folder' \in [Reactions -> FolderType]
      /\ folder'[r] = [state |-> "complete", discovered |-> Step, count |-> 0]
      /\ \A q \in Reactions \ {r} : folder'[q] = folder[q]
  BY <1>1 DEF TypeInv, FolderType
<1>3. /\ stats' \in [Reactions -> Nat] /\ stats'[r] = 0
      /\ \A q \in Reactions \ {r} : stats'[q] = stats[q]
  BY DEF TypeInv
<1>4. UNCHANGED <<log, logSynced, frames, framesSynced, torn, checkpoint, run, start, committed,
                  suffix, pending, saved, closing, pc, sessions, settings>>
  BY DEF files, history, control
<1>5. r \notin Complete /\ pc \in Unpublished /\ Complete' = Complete \cup {r}
  BY <1>2 DEF Complete, Unpublished
<1>6. TypeInv'
  BY <1>2, <1>3, <1>4 DEF TypeInv
<1>7. SyncInv' /\ LogInv' /\ FrameInv'
  BY <1>4 DEF SyncInv, LogInv, FrameInv, RowsAgree, Step, Last, Enabled, DumpEvery
<1>8. CheckpointInv'
  <2>1. \A q \in Complete : folder'[q] = folder[q] /\ folder[q].state = "complete"
    BY <1>2, <1>5 DEF Complete
  <2>2. logSynced \in Nat /\ framesSynced \in Nat /\ pc # "new"
    BY <1>5 DEF TypeInv, Unpublished
  <2> HIDE DEF IInv, WriteMetadata
  <2> QED BY <1>4, <2>1, <2>2, CheckpointGrows
<1>9. FolderInv'
  <2>1. \A i \in 1 .. Len(run) : run[i] \in Reactions
    BY ElementOfSeq DEF TypeInv
  <2>2. pc = "record" => Step \in 1 .. Len(run)
    BY LenProperties DEF LogInv, TypeInv, Step
  <2>3. \A i \in 1 .. Len(log) : pc \in Open => i \in 1 .. Len(run)
    BY LenProperties DEF LogInv, TypeInv, RowsAgree
  <2> QED BY <1>1, <1>2, <1>4, <1>5, <2>1, <2>2, <2>3 DEF FolderInv, Unpublished, Complete, Step, Open, Working, Stray
<1>10. StatisticsInv'
  <2>1. pc \in Open /\ pc \notin {"new", "publish", "closed"}
    BY <1>5 DEF Unpublished, Open, Working
  <2>2. ASSUME NEW i \in 1 .. Len(log) PROVE log[i].reaction # r
    <3>1. folder[run[i]].state = "complete"
      BY <2>1 DEF FolderInv
    <3>2. log[i] = Row(i, run[i])
      BY <2>1 DEF LogInv, RowsAgree
    <3> QED BY <3>1, <3>2, <1>5 DEF Row, Complete
  <2>3. Fired(log, r) = 0
    BY <2>2, FiredNever DEF TypeInv
  <2>4. \A q \in Complete : q # r /\ folder'[q] = folder[q] /\ stats'[q] = stats[q]
    BY <1>2, <1>3, <1>5 DEF Complete
  <2> QED BY <1>2, <1>3, <1>4, <1>5, <2>1, <2>3, <2>4 DEF StatisticsInv
<1> QED BY <1>6, <1>7, <1>8, <1>9, <1>10

LEMMA BeginKeeps ==
  ASSUME IInv, Begin
  PROVE  IInv'
<1> USE DEF IInv, Begin
<1>1. UNCHANGED <<log, logSynced, framesSynced, torn, folder, checkpoint, run, start, committed,
                  suffix, stats, pending, todo, saved, closing, sessions, settings>>
  BY DEF history, statistics, control
<1>2. pc = "begin" /\ pc' = "idle" /\ Step \in Nat /\ 0 <= Step
  BY LenProperties DEF TypeInv, Step
<1>3. \/ frames' = frames
      \/ frames = <<>> /\ frames' = Append(frames, Frame(0, FALSE))
  BY <1>2 DEF FrameInv
<1>4. /\ frames' \in Seq(FrameType) /\ Len(frames') \in Nat /\ Len(frames) <= Len(frames')
      /\ \A i \in 2 .. Len(frames') : frames'[i - 1].step < frames'[i].step
      /\ \A i \in 1 .. Len(frames') : frames'[i].step <= Step
      /\ \A i \in 1 .. framesSynced : frames'[i] = frames[i]
  <2>1. CASE frames' = frames
    <3>1. frames \in Seq(FrameType) /\ Len(frames) \in Nat
      BY LenProperties DEF TypeInv
    <3>2. /\ \A i \in 2 .. Len(frames) : frames[i - 1].step < frames[i].step
          /\ \A i \in 1 .. Len(frames) : frames[i].step <= Step
      BY <1>2 DEF FrameInv, Open, Working
    <3> QED BY ONLY <2>1, <3>1, <3>2
  <2>2. CASE frames = <<>> /\ frames' = Append(frames, Frame(0, FALSE))
    <3> DEFINE f == Frame(0, FALSE)
    <3>1. f \in FrameType /\ f.step = 0
      BY DEF Frame, FrameType, Bytes
    <3>2. \A i \in 1 .. Len(frames) : frames[i].step < f.step
      BY <2>2, EmptySeq
    <3> HIDE DEF f
    <3>3. frames' = Append(frames, f)
      BY <2>2 DEF f
    <3> HIDE DEF Begin
    <3>4. /\ frames' \in Seq(FrameType) /\ Len(frames') = Len(frames) + 1 /\ Len(frames') \in Nat \ {0}
          /\ \A i \in 2 .. Len(frames') : frames'[i - 1].step < frames'[i].step
          /\ \A i \in 1 .. Len(frames') : frames'[i].step <= f.step
          /\ \A i \in 1 .. framesSynced : frames'[i] = frames[i]
      BY <3>1, <3>2, <3>3, FrameAppended
    <3>5. \A i \in 1 .. Len(frames') : frames'[i] \in FrameType
      BY <3>4, ElementOfSeq
    <3>6. \A i \in 1 .. Len(frames') : frames'[i].step \in Nat
      BY <3>5 DEF FrameType
    <3>7. Len(frames) \in Nat
      BY LenProperties DEF TypeInv
    <3> QED BY <1>2, <3>1, <3>4, <3>6, <3>7
  <2> QED BY <1>3, <2>1, <2>2
<1>5. TypeInv'
  BY <1>1, <1>2, <1>4 DEF TypeInv, Open, Working
<1>6. SyncInv'
  BY <1>1, <1>2, <1>4, LenProperties DEF SyncInv, TypeInv
<1>7. LogInv'
  BY <1>1, <1>2 DEF LogInv, RowsAgree, Step, Open, Working, Settled, Resuming
<1>8. FrameInv'
  BY <1>1, <1>2, <1>4 DEF FrameInv, Step, Before, Open
<1>9. CheckpointInv'
  <2>1. \A q \in Complete : folder'[q] = folder[q] /\ folder[q].state = "complete"
    BY <1>1 DEF Complete
  <2>2. logSynced \in Nat /\ framesSynced \in Nat
    BY DEF TypeInv
  <2> HIDE DEF IInv, Begin
  <2> QED BY <1>1, <1>2, <1>4, <2>1, <2>2, CheckpointGrows
<1>10. FolderInv' /\ StatisticsInv'
  BY <1>1, <1>2 DEF FolderInv, StatisticsInv, Open, Working, Unpublished, Step, Complete, Stray
<1> QED BY <1>5, <1>6, <1>7, <1>8, <1>9, <1>10

LEMMA RunExtended ==
  ASSUME TypeInv, FrameInv, FolderInv, LogInv, pc = "idle", NEW r \in Reactions, run' = Append(run, r)
  PROVE  /\ run' \in Seq(Reactions) /\ Step \in Nat /\ Step' = Step + 1 /\ run'[Step'] = r
         /\ \A i \in 1 .. Step : run'[i] = run[i]
         /\ Len(log) = Step
         /\ \A i \in 1 .. Len(frames) : frames[i].step < Step' /\ frames[i].step <= Step'
         /\ \A q \in Reactions : folder[q].state # "incomplete"
         /\ \A q \in Complete : folder[q].discovered <= Step'
<1>1. run \in Seq(Reactions) /\ Step \in Nat /\ Step = Len(run)
  BY LenProperties DEF TypeInv, Step
<1>2. run' \in Seq(Reactions) /\ Step' = Step + 1 /\ run'[Step'] = r /\ \A i \in 1 .. Step : run'[i] = run[i]
  BY <1>1, Extended DEF Step
<1>3. \A i \in 1 .. Len(frames) : frames[i] \in FrameType
  BY ElementOfSeq DEF TypeInv
<1>4. \A i \in 1 .. Len(frames) : frames[i].step \in Nat /\ frames[i].step <= Step
  BY <1>3 DEF FrameInv, FrameType, Open, Working
<1>5. /\ \A q \in Reactions : folder[q].state # "incomplete"
      /\ \A q \in Complete : folder[q].discovered \in Nat /\ folder[q].discovered <= Step
  BY DEF FolderInv, Open, Working, Unpublished, TypeInv, FolderType, Complete
<1>6. Len(log) = Step
  BY DEF LogInv, Settled, Open, Working
<1> QED BY <1>1, <1>2, <1>4, <1>5, <1>6

LEMMA FireKeeps ==
  ASSUME IInv, NEW r \in Reactions, Fire(r) \/ FireRaises(r)
  PROVE  IInv'
<1>1. /\ UNCHANGED <<log, logSynced, frames, framesSynced, torn, folder, checkpoint, start, committed,
                     suffix, stats, pending, saved, closing, sessions, settings>>
      /\ pc = "idle" /\ pc' \in {"record", "raised"} /\ run' = Append(run, r)
      /\ todo' \subseteq Reactions /\ (pc' = "record" => todo' = {r} \ Complete)
  BY DEF Fire, FireRaises, files, history, statistics, control
<1>2. /\ run' \in Seq(Reactions) /\ Step \in Nat /\ Step' = Step + 1 /\ run'[Step'] = r
      /\ \A i \in 1 .. Step : run'[i] = run[i]
      /\ Len(log) = Step
      /\ \A i \in 1 .. Len(frames) : frames[i].step < Step' /\ frames[i].step <= Step'
      /\ \A q \in Reactions : folder[q].state # "incomplete"
      /\ \A q \in Complete : folder[q].discovered <= Step'
  BY <1>1, RunExtended DEF IInv
<1> USE DEF IInv
<1>3. TypeInv'
  BY <1>1, <1>2 DEF TypeInv, Open, Working
<1>4. SyncInv' /\ CheckpointInv' /\ StatisticsInv'
  BY <1>1 DEF SyncInv, CheckpointInv, StatisticsInv, Open, Working, Complete
<1>5. LogInv'
  BY <1>1, <1>2 DEF LogInv, RowsAgree, Step, Open, Working, Settled, Resuming
<1>6. FrameInv'
  BY <1>1, <1>2 DEF FrameInv, Before, Open, Working
<1>7. FolderInv'
  <2>1. \A i \in 1 .. Len(log) : folder[run[i]].state = "complete"
    BY <1>1 DEF FolderInv, Open, Working
  <2>2. folder'[run'[Step']].state = "complete" \/ r \notin Complete
    BY <1>1, <1>2 DEF Complete
  <2> QED BY <1>1, <1>2, <2>1, <2>2 DEF FolderInv, Open, Working, Unpublished, Complete
<1> QED BY <1>3, <1>4, <1>5, <1>6, <1>7


LEMMA PersistPartialKeeps ==
  ASSUME IInv, PersistPartial
  PROVE  IInv'
<1> USE DEF IInv, PersistPartial, files, history, statistics, control, Open, Working, Settled, Resuming, Before, Unpublished
<1>1. TypeInv'
  BY DEF TypeInv, FolderType
<1>2. SyncInv'
  BY DEF SyncInv, TypeInv
<1>3. LogInv'
  BY DEF LogInv, TypeInv, SyncInv, RowsAgree, Step
<1>4. FrameInv'
  BY DEF FrameInv, TypeInv, LogInv, Step, Last, Enabled, DumpEvery
<1>5. CheckpointInv'
  BY DEF CheckpointInv, TypeInv, SyncInv
<1>6. FolderInv'
  BY DEF FolderInv, TypeInv, LogInv, Step, Complete, Stray, Absent
<1>7. StatisticsInv'
  BY DEF StatisticsInv, TypeInv, FolderInv, Complete
<1> QED BY <1>1, <1>2, <1>3, <1>4, <1>5, <1>6, <1>7

LEMMA OutputRaisesKeeps ==
  ASSUME IInv, OutputRaises
  PROVE  IInv'
<1> USE DEF IInv, OutputRaises, files, history, statistics, control, Open, Working, Settled, Resuming, Before, Unpublished
<1>1. TypeInv'
  BY DEF TypeInv, FolderType
<1>2. SyncInv'
  BY DEF SyncInv, TypeInv
<1>3. LogInv'
  BY DEF LogInv, TypeInv, SyncInv, RowsAgree, Step
<1>4. FrameInv'
  BY DEF FrameInv, TypeInv, LogInv, Step, Last, Enabled, DumpEvery
<1>5. CheckpointInv'
  BY DEF CheckpointInv, TypeInv, SyncInv
<1>6. FolderInv'
  BY DEF FolderInv, TypeInv, LogInv, Step, Complete, Stray, Absent
<1>7. StatisticsInv'
  BY DEF StatisticsInv, TypeInv, FolderInv, Complete
<1> QED BY <1>1, <1>2, <1>3, <1>4, <1>5, <1>6, <1>7

LEMMA CloseSinksKeeps ==
  ASSUME IInv, CloseSinks
  PROVE  IInv'
<1> USE DEF IInv, CloseSinks, history, statistics, control
<1>1. TypeInv' /\ SyncInv' /\ LogInv' /\ FrameInv' /\ FolderInv' /\ StatisticsInv'
  BY LenProperties DEF TypeInv, SyncInv, LogInv, FrameInv, FolderInv, StatisticsInv, Open, Working, Settled,
       Resuming, Before, Unpublished
<1>2. CheckpointInv'
  BY SyncsKeepCheckpoint
<1> QED BY <1>1, <1>2

LEMMA RecordEventKeeps ==
  ASSUME IInv, RecordEvent
  PROVE  IInv'
<1> USE DEF IInv
<1> DEFINE r == run[Step]
           row == Row(Step, r)
<1>1. /\ UNCHANGED <<logSynced, frames, framesSynced, torn, folder, checkpoint, run, committed,
                     start, saved, closing, sessions, settings>>
      /\ pc = "record" /\ pc' = "finish" /\ todo = {} /\ todo' \subseteq Reactions
      /\ log' = Append(log, row) /\ suffix' = Append(suffix, row)
      /\ stats' = [stats EXCEPT ![r] = @ + 1] /\ pending' = pending \cup {r}
  BY DEF RecordEvent, control
<1>2. Step \in Nat \ {0} /\ Step = Len(run) /\ Len(log) \in Nat /\ Step = Len(log) + 1
      /\ Len(suffix) \in Nat /\ Len(log) = committed + Len(suffix) /\ committed \in Nat
  BY <1>1, LenProperties DEF TypeInv, LogInv, Step, Open, Working
<1>3. r \in Reactions /\ row \in RowType /\ row.reaction = r
  <2>1. Step \in 1 .. Len(run)
    BY <1>2
  <2>2. r \in Reactions
    BY <2>1, ElementOfSeq DEF TypeInv
  <2> QED BY <1>2, <2>2 DEF Row, RowType
<1>4. r \in Complete
  BY <1>1, <1>3 DEF FolderInv, Complete
<1> HIDE DEF r
<1>5. row = Row(Step, r) /\ r = run[Step]
  BY DEF r
<1> HIDE DEF row
<1>6. /\ log' \in Seq(RowType) /\ Len(log') = Len(log) + 1 /\ log'[Len(log) + 1] = row
      /\ \A i \in 1 .. Len(log) : log'[i] = log[i]
  BY <1>1, <1>3, Extended DEF TypeInv
<1>7. /\ suffix' \in Seq(RowType) /\ Len(suffix') = Len(suffix) + 1 /\ suffix'[Len(suffix) + 1] = row
      /\ \A i \in 1 .. Len(suffix) : suffix'[i] = suffix[i]
  BY <1>1, <1>3, Extended DEF TypeInv
<1>8. stats' \in [Reactions -> Nat] /\ stats'[r] = stats[r] + 1 /\ \A q \in Reactions \ {r} : stats'[q] = stats[q]
  BY <1>1, <1>3 DEF TypeInv
<1>9. TypeInv'
  BY <1>1, <1>3, <1>6, <1>7, <1>8 DEF TypeInv, Open, Working
<1>10. SyncInv'
  BY <1>1, <1>2, <1>6 DEF SyncInv, TypeInv
<1>11. LogInv'
  <2>1. RowsAgree(log', run')
    <3>1. \A i \in 1 .. Len(log) : log[i] = Row(i, run[i])
      BY <1>1 DEF LogInv, RowsAgree, Open, Working
    <3>2. \A i \in 1 .. Len(log) + 1 : i \in 1 .. Len(log) \/ i = Len(log) + 1
      BY <1>2
    <3> QED BY <1>1, <1>2, <1>5, <1>6, <3>1, <3>2 DEF RowsAgree
  <2>2. \A i \in 1 .. Len(suffix') : suffix'[i] = log'[committed + i]
    <3>1. \A i \in 1 .. Len(suffix) : suffix[i] = log[committed + i] /\ committed + i \in 1 .. Len(log)
      BY <1>1, <1>2 DEF LogInv, Open, Working
    <3>2. \A i \in 1 .. Len(suffix) + 1 : i \in 1 .. Len(suffix) \/ i = Len(suffix) + 1
      BY <1>2
    <3>3. committed + (Len(suffix) + 1) = Len(log) + 1
      BY <1>2
    <3> QED BY <1>6, <1>7, <3>1, <3>2, <3>3
  <2>3. Len(log') = committed' + Len(suffix') /\ torn' = {} /\ Len(log') = Step'
    BY <1>1, <1>2, <1>6, <1>7 DEF LogInv, Open, Working, Step
  <2> QED BY <1>1, <2>1, <2>2, <2>3 DEF LogInv, Open, Working, Settled, Resuming
<1>12. FrameInv'
  BY <1>1 DEF FrameInv, Step, Before, Open, Working
<1>13. CheckpointInv'
  <2>1. \A q \in Complete : folder'[q] = folder[q] /\ folder[q].state = "complete"
    BY <1>1 DEF Complete
  <2>2. logSynced \in Nat /\ framesSynced \in Nat /\ logSynced <= Len(log)
    BY DEF TypeInv, SyncInv
  <2>3. \A i \in 1 .. logSynced : log'[i] = log[i]
    BY <1>2, <1>6, <2>2
  <2> HIDE DEF IInv
  <2> QED BY <1>1, <2>1, <2>2, <2>3, CheckpointGrows
<1>14. FolderInv'
  <2>1. \A i \in 1 .. Len(log) + 1 : i \in 1 .. Len(log) \/ i = Step
    BY <1>2
  <2>2. \A i \in 1 .. Len(log) : folder[run[i]].state = "complete"
    BY <1>1 DEF FolderInv, Open, Working
  <2>3. folder[run[Step]].state = "complete"
    BY <1>4, <1>5 DEF Complete
  <2> QED BY <1>1, <1>6, <2>1, <2>2, <2>3 DEF FolderInv, Open, Working, Unpublished, Step
<1>15. StatisticsInv'
  <2>1. pending \subseteq Complete /\ Complete' = Complete
    BY <1>1 DEF StatisticsInv, Open, Working, Complete
  <2>2. ASSUME NEW q \in Reactions PROVE stats'[q] = Fired(log', q)
    <3>1. stats[q] = Fired(log, q) /\ log \in Seq(RowType)
      BY <1>1 DEF StatisticsInv, Open, Working, TypeInv
    <3>2. Fired(log', q) = IF r = q THEN Fired(log, q) + 1 ELSE Fired(log, q)
      BY <1>1, <1>3, <3>1, FiredAppend
    <3> QED BY <1>3, <1>8, <3>1, <3>2
  <2>3. \A q \in Complete \ pending' : folder'[q].count = stats'[q]
    BY <1>1, <1>8 DEF StatisticsInv, Open, Working, Complete
  <2> QED BY <1>1, <1>4, <2>1, <2>2, <2>3 DEF StatisticsInv
<1> QED BY <1>9, <1>10, <1>11, <1>12, <1>13, <1>14, <1>15

LEMMA FinishStepKeeps ==
  ASSUME IInv, FinishStep
  PROVE  IInv'
<1> USE DEF IInv
<1>1. /\ UNCHANGED <<log, logSynced, framesSynced, torn, folder, checkpoint, run, start, committed,
                     suffix, stats, pending, todo, saved, closing, sessions, settings>>
      /\ pc = "finish" /\ pc' \in {"syncTrajectory", "idle"} /\ todo = {}
  BY DEF FinishStep, history, statistics, control
<1> DEFINE f == Frame(Step, Step = start + StepsPerSession)
<1>2. frames' = frames \/ frames' = Append(frames, f)
  BY DEF FinishStep
<1>3. Step \in Nat /\ Len(frames) \in Nat
  BY LenProperties DEF TypeInv, Step
<1>4. f \in FrameType /\ f.step = Step
  BY <1>3 DEF Frame, FrameType, Bytes
<1>5. \A i \in 1 .. Len(frames) : frames[i].step < f.step
  BY <1>1, <1>4 DEF FrameInv
<1> HIDE DEF f
<1>6. /\ frames' \in Seq(FrameType) /\ Len(frames') \in Nat /\ Len(frames) <= Len(frames')
      /\ \A i \in 2 .. Len(frames') : frames'[i - 1].step < frames'[i].step
      /\ \A i \in 1 .. Len(frames') : frames'[i].step <= Step
      /\ \A i \in 1 .. framesSynced : frames'[i] = frames[i]
  <2>1. CASE frames' = frames
    <3>1. frames \in Seq(FrameType)
      BY DEF TypeInv
    <3>2. /\ \A i \in 2 .. Len(frames) : frames[i - 1].step < frames[i].step
          /\ \A i \in 1 .. Len(frames) : frames[i].step <= Step
      BY <1>1 DEF FrameInv, Open, Working
    <3> QED BY ONLY <1>3, <2>1, <3>1, <3>2
  <2>2. CASE frames' = Append(frames, f)
    <3>1. /\ frames' \in Seq(FrameType) /\ Len(frames') = Len(frames) + 1 /\ Len(frames') \in Nat \ {0}
          /\ \A i \in 2 .. Len(frames') : frames'[i - 1].step < frames'[i].step
          /\ \A i \in 1 .. Len(frames') : frames'[i].step <= f.step
          /\ \A i \in 1 .. framesSynced : frames'[i] = frames[i]
      BY <1>4, <1>5, <2>2, FrameAppended
    <3> QED BY ONLY <1>3, <1>4, <3>1
  <2> QED BY <1>2, <2>1, <2>2
<1>7. TypeInv'
  BY <1>1, <1>6 DEF TypeInv, Open, Working
<1>8. SyncInv'
  BY <1>1, <1>3, <1>6 DEF SyncInv, TypeInv
<1>9. LogInv'
  BY <1>1 DEF LogInv, RowsAgree, Step, Open, Working, Settled, Resuming
<1>10. FrameInv'
  BY <1>1, <1>6 DEF FrameInv, Step, Before, Open, Working
<1>11. CheckpointInv'
  <2>1. \A q \in Complete : folder'[q] = folder[q] /\ folder[q].state = "complete"
    BY <1>1 DEF Complete
  <2>2. logSynced \in Nat /\ framesSynced \in Nat
    BY DEF TypeInv
  <2> HIDE DEF IInv
  <2> QED BY <1>1, <1>6, <2>1, <2>2, CheckpointGrows
<1>12. FolderInv' /\ StatisticsInv'
  BY <1>1 DEF FolderInv, StatisticsInv, Open, Working, Unpublished, Step, Complete, Stray
<1> QED BY <1>7, <1>8, <1>9, <1>10, <1>11, <1>12

LEMMA CloseFrames ==
  ASSUME IInv, Close
  PROVE  /\ frames' \in Seq(FrameType) /\ Len(frames') \in Nat /\ Len(frames) <= Len(frames')
         /\ \A i \in 2 .. Len(frames') : frames'[i - 1].step < frames'[i].step
         /\ \A i \in 1 .. Len(frames') : frames'[i].step <= Step
         /\ \A i \in 1 .. framesSynced : frames'[i].bytes = frames[i].bytes /\ frames'[i].step = frames[i].step
         /\ Enabled => Len(frames') > 0 /\ frames'[Len(frames')].step = Step /\ frames'[Len(frames')].final
         /\ framesSynced' \in Nat /\ framesSynced <= framesSynced' /\ framesSynced' <= Len(frames')
<1> USE DEF IInv
<1>1. frames \in Seq(FrameType) /\ Len(frames) \in Nat /\ Step \in Nat /\ framesSynced \in Nat
      /\ framesSynced <= Len(frames) /\ pc = "idle"
  BY LenProperties DEF TypeInv, SyncInv, Step, Close
<1>2. /\ \A i \in 2 .. Len(frames) : frames[i - 1].step < frames[i].step
      /\ \A i \in 1 .. Len(frames) : frames[i].step <= Step
  BY <1>1 DEF FrameInv, Open, Working
<1>3. \A i \in 1 .. Len(frames) : frames[i] \in FrameType
  BY <1>1, ElementOfSeq
<1>4. CASE Appends
  <2> DEFINE f == Frame(Step, TRUE)
  <2>1. f \in FrameType /\ f.step = Step /\ f.final
    BY <1>1 DEF Frame, FrameType, Bytes
  <2>6. frames' = Append(frames, f)
    BY <1>4 DEF Close
  <2> HIDE DEF f
  <2>2. ASSUME NEW i \in 1 .. Len(frames) PROVE frames[i].step < f.step
    <3>1. Last \in 1 .. Len(frames) /\ frames[Last].step # Step /\ frames[Last].step <= Step /\ frames[Last].step \in Nat
      BY <1>1, <1>2, <1>3, <1>4, <2>2 DEF Appends, Last, FrameType
    <3>2. CASE i = Last
      BY ONLY <1>1, <2>1, <3>1, <3>2
    <3>3. CASE i # Last
      <4>1. i + 1 \in 2 .. Len(frames) /\ i + 1 \in 1 .. Len(frames)
        BY <1>1, <3>3 DEF Last
      <4>2. frames[i].step < frames[i + 1].step
        <5>1. (i + 1) - 1 = i
          BY <1>1
        <5> QED BY <1>2, <4>1, <5>1
      <4>3. frames[i + 1].step <= Step /\ frames[i].step \in Nat /\ frames[i + 1].step \in Nat
        BY <1>2, <1>3, <4>1 DEF FrameType
      <4> QED BY ONLY <1>1, <2>1, <4>2, <4>3
    <3> QED BY <3>2, <3>3
  <2>4. framesSynced' = framesSynced
    BY <1>4 DEF Close, Marks
  <2>5. /\ frames' \in Seq(FrameType) /\ Len(frames') = Len(frames) + 1 /\ Len(frames') \in Nat \ {0}
        /\ \A i \in 2 .. Len(frames') : frames'[i - 1].step < frames'[i].step
        /\ \A i \in 1 .. Len(frames') : frames'[i].step <= f.step
        /\ frames'[Len(frames')] = f
        /\ \A i \in 1 .. framesSynced : frames'[i] = frames[i]
    BY <2>1, <2>2, <2>6, FrameAppended
  <2> QED BY ONLY <1>1, <2>1, <2>4, <2>5
<1>5. CASE Marks
  <2>1. frames' = [frames EXCEPT ![Last] = Marked] /\ framesSynced' = Last
    BY <1>5 DEF Close, Marks
  <2>2. Last = Len(frames) /\ Last \in 1 .. Len(frames) /\ Last > 0
    BY <1>1, <1>5 DEF Last, Marks, Appends
  <2>3. /\ Marked \in FrameType /\ Marked.step = frames[Last].step /\ Marked.final
        /\ framesSynced = Last => Marked.bytes = frames[Last].bytes
    <3> DEFINE g == frames[Last]
    <3>1. g \in FrameType
      BY <1>3, <2>2
    <3>2. Marked = [g EXCEPT !.final = TRUE, !.bytes = IF framesSynced < Last THEN "rewritten" ELSE g.bytes]
      BY DEF Marked
    <3> HIDE DEF g
    <3>3. /\ Marked \in FrameType /\ Marked.step = g.step /\ Marked.final
          /\ Marked.bytes = IF framesSynced < Last THEN "rewritten" ELSE g.bytes
      BY ONLY <3>1, <3>2 DEF FrameType, Bytes
    <3>4. ~(Last < Last)
      BY <1>1, <2>2
    <3> QED BY <3>3, <3>4 DEF g
  <2>4. frames[Last].step = Step
    BY <1>5 DEF Marks, Appends
  <2>5. /\ frames' \in Seq(FrameType) /\ Len(frames') = Len(frames)
        /\ \A i \in 1 .. Len(frames) : frames'[i] = IF i = Last THEN Marked ELSE frames[i]
    BY <1>1, <2>1, <2>2, <2>3, ExceptSeq
  <2>6. \A i \in 1 .. Len(frames) : frames'[i].step = frames[i].step
    BY <2>3, <2>5
  <2>7. ASSUME NEW i \in 2 .. Len(frames) PROVE frames'[i - 1].step < frames'[i].step
    <3>1. i - 1 \in 1 .. Len(frames) /\ i \in 1 .. Len(frames)
      BY <1>1
    <3> QED BY <1>2, <2>6, <3>1
  <2>8. ASSUME NEW i \in 1 .. framesSynced
        PROVE  frames'[i].bytes = frames[i].bytes /\ frames'[i].step = frames[i].step
    <3>1. i \in 1 .. Len(frames) /\ (i = Last => framesSynced = Last)
      BY <1>1, <2>2
    <3> QED BY <2>3, <2>5, <2>6, <3>1
  <2> QED BY <1>1, <1>2, <2>1, <2>2, <2>3, <2>4, <2>5, <2>6, <2>7, <2>8
<1>6. CASE ~Appends /\ ~Marks
  <2>1. frames' = frames /\ framesSynced' = framesSynced
    BY <1>6 DEF Close
  <2>2. Enabled => Last > 0 /\ frames[Last].step = Step /\ frames[Last].final
    BY <1>1, <1>6 DEF Appends, Marks, Last
  <2> QED BY <1>1, <1>2, <2>1, <2>2 DEF Last
<1> QED BY <1>4, <1>5, <1>6

LEMMA CloseKeeps ==
  ASSUME IInv, Close
  PROVE  IInv'
<1>1. /\ UNCHANGED <<log, logSynced, torn, folder, checkpoint, run, start, committed,
                     suffix, stats, pending, todo, saved, sessions, settings>>
      /\ pc = "idle" /\ pc' \in {"syncTrajectory", "ending"} /\ closing' = TRUE
  BY DEF Close, history, statistics
<1>2. /\ frames' \in Seq(FrameType) /\ Len(frames') \in Nat /\ Len(frames) <= Len(frames')
      /\ \A i \in 2 .. Len(frames') : frames'[i - 1].step < frames'[i].step
      /\ \A i \in 1 .. Len(frames') : frames'[i].step <= Step
      /\ \A i \in 1 .. framesSynced : frames'[i].bytes = frames[i].bytes /\ frames'[i].step = frames[i].step
      /\ Enabled => Len(frames') > 0 /\ frames'[Len(frames')].step = Step /\ frames'[Len(frames')].final
      /\ framesSynced' \in Nat /\ framesSynced <= framesSynced' /\ framesSynced' <= Len(frames')
  BY CloseFrames
<1> USE DEF IInv
<1>3. TypeInv'
  BY <1>1, <1>2 DEF TypeInv, Open, Working
<1>4. SyncInv'
  BY <1>1, <1>2 DEF SyncInv
<1>5. LogInv'
  BY <1>1 DEF LogInv, RowsAgree, Step, Open, Working, Settled, Resuming
<1>6. FrameInv'
  BY <1>1, <1>2 DEF FrameInv, Step, Before, Open, Working, Last, Enabled, DumpEvery
<1>7. CheckpointInv'
  <2>1. \A q \in Complete : folder'[q] = folder[q] /\ folder[q].state = "complete"
    BY <1>1 DEF Complete
  <2>2. logSynced \in Nat /\ framesSynced \in Nat
    BY DEF TypeInv
  <2> HIDE DEF IInv
  <2> QED BY <1>1, <1>2, <2>1, <2>2, CheckpointGrows
<1>8. FolderInv' /\ StatisticsInv'
  BY <1>1 DEF FolderInv, StatisticsInv, Open, Working, Unpublished, Step, Complete, Stray
<1> QED BY <1>3, <1>4, <1>5, <1>6, <1>7, <1>8

LEMMA SyncTrajectoryKeeps ==
  ASSUME IInv, SyncTrajectory
  PROVE  IInv'
<1> USE DEF IInv, SyncTrajectory, history, statistics, control
<1>1. TypeInv' /\ SyncInv' /\ LogInv'
  BY LenProperties DEF TypeInv, SyncInv, LogInv, RowsAgree, Step, Open, Working, Settled, Resuming
<1>2. FrameInv' /\ FolderInv' /\ StatisticsInv'
  BY DEF FrameInv, FolderInv, StatisticsInv, Open, Working, Before, Unpublished, Step, Last, Enabled,
       DumpEvery, Complete, Stray
<1>3. CheckpointInv'
  BY SyncsKeepCheckpoint
<1> QED BY <1>1, <1>2, <1>3

LEMMA SyncEventsKeeps ==
  ASSUME IInv, SyncEvents
  PROVE  IInv'
<1> USE DEF IInv, SyncEvents, files, history, statistics, control, Open, Working, Settled, Resuming, Before, Unpublished
<1>1. TypeInv'
  BY DEF TypeInv, FolderType
<1>2. SyncInv'
  BY DEF SyncInv, TypeInv
<1>3. LogInv'
  BY DEF LogInv, TypeInv, SyncInv, RowsAgree, Step
<1>4. FrameInv'
  BY DEF FrameInv, TypeInv, LogInv, Step, Last, Enabled, DumpEvery
<1>5. CheckpointInv'
  BY DEF CheckpointInv, TypeInv, SyncInv
<1>6. FolderInv'
  BY DEF FolderInv, TypeInv, LogInv, Step, Complete, Stray, Absent
<1>7. StatisticsInv'
  BY DEF StatisticsInv, TypeInv, FolderInv, Complete
<1> QED BY <1>1, <1>2, <1>3, <1>4, <1>5, <1>6, <1>7

LEMMA FlushStatisticsKeeps ==
  ASSUME IInv, NEW r \in Reactions, FlushStatistics(r)
  PROVE  IInv'
<1> USE DEF IInv
<1>1. /\ UNCHANGED <<log, logSynced, frames, framesSynced, torn, checkpoint, run, start, committed,
                     suffix, stats, todo, saved, closing, pc, sessions, settings>>
      /\ pc \in {"flush", "ending", "partial"} /\ r \in pending /\ pending' = pending \ {r}
      /\ folder' = [folder EXCEPT ![r].count = stats[r]]
  BY DEF FlushStatistics, files, history, control
<1>2. /\ folder' \in [Reactions -> FolderType] /\ folder'[r].count = stats[r]
      /\ \A q \in Reactions : folder'[q].state = folder[q].state /\ folder'[q].discovered = folder[q].discovered
      /\ \A q \in Reactions \ {r} : folder'[q] = folder[q]
  BY <1>1 DEF TypeInv, FolderType
<1>3. Complete' = Complete
  BY <1>2 DEF Complete
<1>4. TypeInv'
  BY <1>1, <1>2 DEF TypeInv
<1>5. SyncInv' /\ LogInv' /\ FrameInv'
  BY <1>1 DEF SyncInv, LogInv, FrameInv, RowsAgree, Step, Last, Enabled, DumpEvery
<1>6. CheckpointInv'
  <2>1. \A q \in Complete : folder'[q].state = "complete" /\ folder'[q].discovered = folder[q].discovered
    BY <1>2 DEF Complete
  <2>2. logSynced \in Nat /\ framesSynced \in Nat
    BY DEF TypeInv
  <2> HIDE DEF IInv
  <2> QED BY <1>1, <2>1, <2>2, CheckpointGrows
<1>7. FolderInv'
  <2>1. \A i \in 1 .. Len(log) : folder[run[i]].state = "complete" /\ run[i] \in Reactions
    <3>1. \A i \in 1 .. Len(log) : i \in 1 .. Len(run)
      BY <1>1, LenProperties DEF LogInv, RowsAgree, Open, Working, TypeInv
    <3> QED BY <1>1, <3>1, ElementOfSeq DEF FolderInv, Open, Working, TypeInv
  <2> QED BY <1>1, <1>2, <2>1 DEF FolderInv, Open, Working, Step, Unpublished
<1>8. StatisticsInv'
  BY <1>1, <1>2, <1>3 DEF StatisticsInv, Open, Working, Complete
<1> QED BY <1>4, <1>5, <1>6, <1>7, <1>8

LEMMA CommitHistoryKeeps ==
  ASSUME IInv, CommitHistory
  PROVE  IInv'
<1> USE DEF IInv
<1>1. CountsAgree /\ pc = "flush" /\ Len(log) \in Nat
  BY LenProperties DEF CommitHistory, CountsAgree, LogInv, Open, Working, TypeInv
<1>2. /\ UNCHANGED <<log, logSynced, frames, framesSynced, torn, folder, checkpoint, run, start,
                     stats, pending, todo, saved, closing, sessions, settings>>
      /\ pc' = "publish" /\ pending = {}
      /\ \/ committed' = committed /\ suffix' = suffix
         \/ committed' = Len(log) /\ suffix' = <<>>
  BY <1>1 DEF CommitHistory, files, statistics, control, history
<1>3. <<>> \in Seq(RowType) /\ Len(<<>>) = 0
  BY EmptySeq
<1>4. TypeInv'
  BY <1>1, <1>2, <1>3 DEF TypeInv, Open, Working
<1>5. SyncInv' /\ FrameInv' /\ CheckpointInv' /\ FolderInv' /\ StatisticsInv'
  BY <1>1, <1>2 DEF SyncInv, FrameInv, CheckpointInv, FolderInv, StatisticsInv, Open, Working, Before,
       Unpublished, Step, Last, Enabled, DumpEvery, Complete
<1>6. LogInv'
  BY <1>1, <1>2, <1>3 DEF LogInv, RowsAgree, Step, Open, Working, Settled, Resuming, TypeInv
<1> QED BY <1>4, <1>5, <1>6

LEMMA PublishKeeps ==
  ASSUME IInv, Publish
  PROVE  IInv'
<1> USE DEF IInv
<1>1. /\ UNCHANGED <<log, logSynced, frames, framesSynced, torn, folder, run, start, committed, suffix,
                     stats, pending, todo, closing, sessions, settings>>
      /\ pc = "publish" /\ pc' = IF closing THEN "ending" ELSE "idle"
      /\ saved' = Step
      /\ checkpoint' = [run |-> run, events |-> Len(log), frames |-> Extent(frames)]
  BY DEF Publish, files, history, statistics
<1>2. Step = Len(run) /\ Step \in Nat /\ Len(log) = Step /\ Len(frames) \in Nat
      /\ logSynced = Len(log) /\ framesSynced = Len(frames)
  BY <1>1, LenProperties DEF TypeInv, Step, LogInv, Settled, Open, Working, SyncInv
<1>3. /\ Extent(frames) \in Seq(Bytes) /\ Len(Extent(frames)) = Len(frames)
      /\ \A i \in 1 .. Len(frames) : Extent(frames)[i] = frames[i].bytes
  BY ExtentSound DEF TypeInv
<1>4. checkpoint' \in CheckpointType
  BY <1>1, <1>2, <1>3 DEF CheckpointType, TypeInv, Bytes
<1>5. TypeInv'
  BY <1>1, <1>2, <1>4 DEF TypeInv, Open, Working
<1>6. SyncInv' /\ LogInv' /\ FrameInv' /\ FolderInv' /\ StatisticsInv'
  BY <1>1 DEF SyncInv, LogInv, RowsAgree, FrameInv, FolderInv, StatisticsInv, Open, Working, Before, Settled,
       Resuming, Unpublished, Step, Last, Enabled, DumpEvery, Complete, TypeInv
<1>7. CheckpointInv'
  <2>1. \A i \in 1 .. Len(log) : /\ log[i] = Row(i, run[i])
                                 /\ folder[run[i]].state = "complete" /\ run[i] \in Reactions
    <3>1. \A i \in 1 .. Len(log) : run[i] \in Reactions
      BY <1>2, ElementOfSeq DEF TypeInv
    <3> QED BY <1>1, <3>1 DEF LogInv, RowsAgree, FolderInv, Open, Working
  <2>2. \A i \in 1 .. Len(log) : folder[run[i]].discovered <= Step
    BY <1>1, <2>1 DEF FolderInv, Open, Working
  <2>3. \A i \in 1 .. Len(frames) : frames[i].step <= Step
    BY <1>1 DEF FrameInv, Open, Working
  <2> HIDE DEF IInv
  <2> QED BY <1>1, <1>2, <1>3, <2>1, <2>2, <2>3 DEF CheckpointInv
<1> QED BY <1>5, <1>6, <1>7

LEMMA EndKeeps ==
  ASSUME IInv, End
  PROVE  IInv'
<1> USE DEF IInv, End, history, statistics, control
<1>1. TypeInv' /\ SyncInv' /\ LogInv'
  BY LenProperties DEF TypeInv, SyncInv, LogInv, RowsAgree, Step, Open, Working, Settled, Resuming
<1>2. FrameInv' /\ FolderInv' /\ StatisticsInv'
  BY DEF FrameInv, FolderInv, StatisticsInv, Open, Working, Before, Unpublished, Step, Last, Enabled,
       DumpEvery, Complete, Stray
<1>3. CheckpointInv'
  BY SyncsKeepCheckpoint
<1> QED BY <1>1, <1>2, <1>3

LEMMA CrashLeaves ==
  ASSUME IInv, Crash
  PROVE  /\ \E n \in logSynced .. Len(log) : log' = SubSeq(log, 1, n) /\ logSynced' = n /\ Len(log') = n
         /\ \E n \in framesSynced .. Len(frames) :
              frames' = SubSeq(frames, 1, n) /\ framesSynced' = n /\ Len(frames') = n
         /\ torn' \subseteq {"events", "trajectory"}
<1>1. /\ log \in Seq(RowType) /\ Len(log) \in Nat /\ logSynced \in Nat
      /\ frames \in Seq(FrameType) /\ Len(frames) \in Nat /\ framesSynced \in Nat
  BY LenProperties DEF IInv, TypeInv
<1>2. PICK n \in logSynced .. Len(log) : log' = SubSeq(log, 1, n)
  BY DEF Crash, Survivors
<1>3. PICK m \in framesSynced .. Len(frames) : frames' = SubSeq(frames, 1, m)
  BY DEF Crash, Survivors
<1>4. Len(log') = n /\ Len(frames') = m
  <2>1. n \in 0 .. Len(log) /\ m \in 0 .. Len(frames)
    BY <1>1
  <2> QED BY <1>1, <1>2, <1>3, <2>1, Prefix
<1>5. logSynced' = Len(log') /\ framesSynced' = Len(frames')
  BY DEF Crash
<1>6. torn' \subseteq {"events", "trajectory"}
  BY DEF Crash, IInv, TypeInv
<1> QED BY <1>2, <1>3, <1>4, <1>5, <1>6

LEMMA CrashKeeps ==
  ASSUME IInv, Crash
  PROVE  IInv'
<1>1. /\ UNCHANGED <<folder, checkpoint, run, start, committed, suffix, stats, pending, todo, saved,
                     closing, sessions, settings>>
      /\ pc \in Working \cup Resuming /\ pc' = "down"
  BY DEF Crash, history, statistics, control
<1>2. PICK n \in logSynced .. Len(log) : log' = SubSeq(log, 1, n) /\ logSynced' = n /\ Len(log') = n
  BY CrashLeaves
<1>3. PICK m \in framesSynced .. Len(frames) : frames' = SubSeq(frames, 1, m) /\ framesSynced' = m /\ Len(frames') = m
  BY CrashLeaves
<1>4. torn' \subseteq {"events", "trajectory"}
  BY CrashLeaves
<1> USE DEF IInv
<1>5. /\ log \in Seq(RowType) /\ Len(log) \in Nat /\ logSynced \in Nat /\ n \in 0 .. Len(log) /\ n \in Nat
      /\ frames \in Seq(FrameType) /\ Len(frames) \in Nat /\ framesSynced \in Nat
      /\ m \in 0 .. Len(frames) /\ m \in Nat
  BY LenProperties DEF TypeInv
<1>6. log' \in Seq(RowType) /\ \A i \in 1 .. n : log'[i] = log[i]
  BY <1>2, <1>5, Prefix
<1>7. /\ frames' \in Seq(FrameType)
      /\ \A i \in 2 .. m : frames'[i - 1].step < frames'[i].step
      /\ \A i \in 1 .. m : frames'[i] = frames[i]
  BY <1>3, <1>5, FramesCut
<1>8. TypeInv'
  BY <1>1, <1>2, <1>3, <1>4, <1>5, <1>6, <1>7 DEF TypeInv
<1>9. SyncInv'
  BY <1>1, <1>2, <1>3, <1>5 DEF SyncInv
<1>10. LogInv' /\ FrameInv' /\ FolderInv' /\ StatisticsInv'
  BY <1>1, <1>3, <1>7 DEF LogInv, FrameInv, FolderInv, StatisticsInv, Open, Working, Settled, Resuming, Before,
       Unpublished
<1>11. CheckpointInv'
  <2>1. \A q \in Complete : folder'[q] = folder[q] /\ folder[q].state = "complete"
    BY <1>1 DEF Complete
  <2>2. \A i \in 1 .. logSynced : log'[i] = log[i]
    BY <1>2, <1>5, <1>6
  <2>3. \A i \in 1 .. framesSynced : frames'[i] = frames[i]
    BY <1>3, <1>5, <1>7
  <2>4. logSynced <= logSynced' /\ framesSynced <= framesSynced'
    BY <1>2, <1>3, <1>5
  <2> HIDE DEF IInv
  <2> QED BY <1>1, <1>2, <1>3, <1>5, <2>1, <2>2, <2>3, <2>4, CheckpointGrows
<1> QED BY <1>8, <1>9, <1>10, <1>11


(* A resume is never refused: the rows and frames the checkpoint counts are
   there. *)
LEMMA PrefixValid ==
  ASSUME IInv, checkpoint # NoCheckpoint
  PROVE  ValidPrefix(log, checkpoint)
<1>1. /\ checkpoint.run \in Seq(Reactions) /\ checkpoint.events \in Nat
      /\ checkpoint.events = Len(checkpoint.run)
      /\ checkpoint.events <= logSynced /\ logSynced <= Len(log) /\ logSynced \in Nat /\ Len(log) \in Nat
  BY CheckpointTyped, LenProperties DEF IInv, CheckpointInv, SyncInv, TypeInv
<1>2. ASSUME NEW i \in 1 .. checkpoint.events PROVE log[i].step = i
  <2>1. log[i] = Row(i, checkpoint.run[i])
    BY DEF IInv, CheckpointInv
  <2> QED BY <2>1 DEF Row
<1>3. ASSUME NEW i \in 2 .. checkpoint.events
      PROVE  log[i].step = log[i - 1].step + 1
  <2>1. i \in 1 .. checkpoint.events /\ i - 1 \in 1 .. checkpoint.events /\ i = (i - 1) + 1
    BY <1>1
  <2> QED BY <1>2, <2>1
<1>4. Len(log) >= checkpoint.events
  BY <1>1
<1>5. checkpoint.events = 0 \/ checkpoint.events \in 1 .. checkpoint.events
  BY <1>1
<1> QED BY <1>1, <1>2, <1>3, <1>4, <1>5 DEF ValidPrefix

LEMMA ResumeKeeps ==
  ASSUME IInv, Resume
  PROVE  IInv'
<1>1. /\ UNCHANGED <<frames, framesSynced, folder, checkpoint, run, start, committed, suffix, stats,
                     pending, todo, saved, closing, settings>>
      /\ pc \in {"down", "closed"} /\ checkpoint # NoCheckpoint /\ sessions' = sessions + 1
  BY DEF Resume, history, statistics
<1>2. log' = Retained /\ logSynced' = Len(Retained) /\ torn' = torn \ {"events"} /\ pc' = "reopen"
  BY <1>1, PrefixValid DEF Resume
<1>3. /\ checkpoint.events \in Nat /\ checkpoint.events <= logSynced
      /\ logSynced \in Nat /\ logSynced <= Len(log) /\ Len(log) \in Nat /\ log \in Seq(RowType)
  BY <1>1, CheckpointTyped, LenProperties DEF IInv, CheckpointInv, SyncInv, TypeInv
<1>4. checkpoint.events \in 0 .. Len(log)
  BY <1>3
<1>5. /\ log' \in Seq(RowType) /\ Len(log') = checkpoint.events /\ logSynced' = checkpoint.events
      /\ \A i \in 1 .. checkpoint.events : log'[i] = log[i]
  BY <1>2, <1>3, <1>4, Prefix DEF Retained
<1> USE DEF IInv
<1>6. TypeInv'
  BY <1>1, <1>2, <1>3, <1>5 DEF TypeInv, Resuming
<1>7. SyncInv'
  BY <1>1, <1>2, <1>3, <1>5 DEF SyncInv
<1>8. LogInv'
  BY <1>1, <1>2, <1>5 DEF LogInv, Open, Working, Settled, Resuming, TypeInv
<1>9. FrameInv' /\ FolderInv' /\ StatisticsInv'
  BY <1>1, <1>2 DEF FrameInv, FolderInv, StatisticsInv, Open, Working, Before, Unpublished
<1>10. CheckpointInv'
  <2>1. \A i \in 1 .. checkpoint.events :
          log'[i] = log[i] /\ folder[checkpoint.run[i]].state = "complete"
          /\ folder[checkpoint.run[i]].discovered <= checkpoint.events
    BY <1>1, <1>5 DEF CheckpointInv
  <2>2. Len(checkpoint.frames) <= framesSynced /\ checkpoint.events <= logSynced'
    BY <1>1, <1>3, <1>5 DEF CheckpointInv
  <2> HIDE DEF IInv
  <2> QED BY <1>1, <1>2, <2>1, <2>2, CheckpointKept
<1> QED BY <1>6, <1>7, <1>8, <1>9, <1>10

LEMMA QuarantineKeeps ==
  ASSUME IInv, NEW r \in Reactions, Quarantine(r)
  PROVE  IInv'
<1>1. /\ UNCHANGED <<log, logSynced, frames, framesSynced, torn, checkpoint, run, start, committed,
                     suffix, stats, pending, todo, saved, closing, pc, sessions, settings>>
      /\ pc = "reopen" /\ Stray(r) /\ folder' = [folder EXCEPT ![r] = Absent]
  BY DEF Quarantine, files, history, statistics, control
<1> USE DEF IInv
<1>2. /\ folder' \in [Reactions -> FolderType]
      /\ \A q \in Reactions \ {r} : folder'[q] = folder[q]
  BY <1>1 DEF TypeInv, FolderType, Absent
<1>3. TypeInv'
  BY <1>1, <1>2 DEF TypeInv
<1>4. SyncInv' /\ LogInv' /\ FrameInv'
  BY <1>1 DEF SyncInv, LogInv, FrameInv, RowsAgree, Step, Last, Enabled, DumpEvery
<1>5. FolderInv' /\ StatisticsInv'
  BY <1>1 DEF FolderInv, StatisticsInv, Open, Working, Unpublished
<1>6. CheckpointInv'
  <2>1. /\ checkpoint # NoCheckpoint /\ checkpoint.events <= logSynced
        /\ Len(checkpoint.frames) <= framesSynced
        /\ \A i \in 1 .. checkpoint.events :
             folder[checkpoint.run[i]].state = "complete"
             /\ folder[checkpoint.run[i]].discovered <= checkpoint.events
    BY <1>1 DEF LogInv, Resuming, CheckpointInv
  <2>2. /\ checkpoint.events = Len(checkpoint.run) /\ checkpoint.events \in Nat
        /\ \A i \in 1 .. checkpoint.events : checkpoint.run[i] \in Reactions
    BY <2>1, CheckpointTyped DEF Complete
  <2>3. folder[r].discovered \in Nat
    BY DEF TypeInv, FolderType
  <2>4. \A i \in 1 .. checkpoint.events : checkpoint.run[i] # r
    BY <1>1, <2>1, <2>2, <2>3 DEF Stray
  <2>5. \A i \in 1 .. checkpoint.events : folder'[checkpoint.run[i]] = folder[checkpoint.run[i]]
    BY <1>2, <2>2, <2>4
  <2> HIDE DEF IInv
  <2> QED BY <1>1, <2>1, <2>5, CheckpointKept
<1> QED BY <1>3, <1>4, <1>5, <1>6

LEMMA ReopenKeeps ==
  ASSUME IInv, Reopen
  PROVE  IInv'
<1>1. /\ UNCHANGED <<log, logSynced, frames, framesSynced, torn, folder, checkpoint, run, start, committed,
                     suffix, todo, saved, closing, sessions, settings>>
      /\ pc = "reopen" /\ pc' = "reconcile" /\ \A r \in Reactions : ~Stray(r)
      /\ stats' = Restored /\ pending' = {r \in Complete : folder[r].count # Restored[r]}
  BY DEF Reopen, files, history, control
<1> USE DEF IInv
<1>2. log \in Seq(RowType) /\ \A r : Fired(log, r) \in Nat
  BY FiredNat DEF TypeInv
<1>3. stats' \in [Reactions -> Nat] /\ pending' \subseteq Complete /\ Complete \subseteq Reactions
  BY <1>1, <1>2 DEF Restored, Complete
<1>4. TypeInv'
  BY <1>1, <1>3 DEF TypeInv, Resuming
<1>5. SyncInv' /\ LogInv' /\ FrameInv' /\ CheckpointInv' /\ FolderInv'
  BY <1>1 DEF SyncInv, LogInv, FrameInv, CheckpointInv, FolderInv, Open, Working, Settled, Resuming, Before,
       Unpublished, Stray
<1>6. StatisticsInv'
  <2>1. ASSUME NEW i \in 1 .. Len(log) PROVE log[i].reaction \in Complete
    <3>1. checkpoint # NoCheckpoint /\ Len(log) = checkpoint.events
      BY <1>1 DEF LogInv, Resuming
    <3>2. log[i] = Row(i, checkpoint.run[i]) /\ checkpoint.run[i] \in Complete
      BY <3>1, CheckpointTyped DEF CheckpointInv
    <3> QED BY <3>2 DEF Row
  <2>2. ASSUME NEW r \in Reactions PROVE stats'[r] = Fired(log, r)
    <3>1. CASE r \in Complete
      BY <1>1, <3>1 DEF Restored
    <3>2. CASE r \notin Complete
      <4>1. \A i \in 1 .. Len(log) : log[i].reaction # r
        BY <2>1, <3>2
      <4>2. Fired(log, r) = 0
        BY <1>2, <4>1, FiredNever
      <4> QED BY <1>1, <3>2, <4>2 DEF Restored
    <3> QED BY <3>1, <3>2
  <2>3. \A r \in Complete \ pending' : folder[r].count = stats'[r]
    BY <1>1
  <2>4. Complete' = Complete
    BY <1>1 DEF Complete
  <2> QED BY <1>1, <1>3, <2>2, <2>3, <2>4 DEF StatisticsInv, Open, Working
<1> QED BY <1>4, <1>5, <1>6

LEMMA FramesValid ==
  ASSUME IInv, checkpoint # NoCheckpoint
  PROVE  ValidFrames(checkpoint)
<1>1. /\ checkpoint.frames \in Seq(Bytes) /\ Len(checkpoint.frames) \in Nat
      /\ checkpoint.events = Len(checkpoint.run)
      /\ Len(checkpoint.frames) <= framesSynced /\ framesSynced <= Len(frames) /\ framesSynced \in Nat
      /\ Len(frames) \in Nat /\ frames \in Seq(FrameType)
  BY CheckpointTyped, LenProperties DEF IInv, CheckpointInv, SyncInv, TypeInv
<1>2. \A i \in 1 .. Len(checkpoint.frames) :
        frames[i].bytes = checkpoint.frames[i] /\ frames[i].step <= Len(checkpoint.run)
  BY <1>1 DEF IInv, CheckpointInv
<1> DEFINE kept == SubSeq(frames, 1, Len(checkpoint.frames))
<1>3. Len(checkpoint.frames) \in 0 .. Len(frames)
  BY <1>1
<1>4. /\ kept \in Seq(FrameType) /\ Len(kept) = Len(checkpoint.frames)
      /\ \A i \in 1 .. Len(checkpoint.frames) : kept[i] = frames[i]
  BY <1>1, <1>3, Prefix
<1> HIDE DEF kept
<1>5. /\ Extent(kept) \in Seq(Bytes) /\ Len(Extent(kept)) = Len(kept)
      /\ \A i \in 1 .. Len(kept) : Extent(kept)[i] = kept[i].bytes
  BY <1>4, ExtentSound
<1>6. \A i \in 1 .. Len(Extent(kept)) : Extent(kept)[i] = checkpoint.frames[i]
  BY <1>2, <1>4, <1>5
<1>7. Extent(kept) = checkpoint.frames
  BY <1>1, <1>4, <1>5, <1>6, SeqEqual
<1>8. \A i \in 2 .. Len(checkpoint.frames) : frames[i - 1].step < frames[i].step
  <2>1. \A i \in 2 .. Len(checkpoint.frames) : i \in 2 .. Len(frames)
    BY <1>1
  <2> QED BY <2>1 DEF IInv, FrameInv
<1> QED BY <1>1, <1>2, <1>7, <1>8 DEF ValidFrames, kept

LEMMA ReconcileKeeps ==
  ASSUME IInv, Reconcile
  PROVE  IInv'
<1>1. /\ UNCHANGED <<log, logSynced, folder, checkpoint, stats, pending, sessions, settings>>
      /\ pc = "reconcile"
  BY DEF Reconcile, statistics
<1>2. checkpoint # NoCheckpoint /\ Len(log) = checkpoint.events /\ "events" \notin torn /\ sessions > 1
  BY <1>1 DEF IInv, LogInv, Resuming
<1>3. /\ frames' = SubSeq(frames, 1, Len(checkpoint.frames))
      /\ framesSynced' = Len(checkpoint.frames)
      /\ torn' = torn \ {"trajectory"}
      /\ run' = checkpoint.run /\ start' = Len(checkpoint.run)
      /\ committed' = Len(log) /\ suffix' = <<>>
      /\ saved' = 0 /\ closing' = FALSE
      /\ todo' \subseteq Reactions \ Complete
      /\ pc' \in {"begin", "raised"}
  BY <1>2, FramesValid DEF Reconcile
<1>4. /\ checkpoint.run \in Seq(Reactions) /\ checkpoint.events \in Nat /\ checkpoint.events = Len(checkpoint.run)
      /\ checkpoint.frames \in Seq(Bytes) /\ Len(checkpoint.frames) \in Nat
      /\ \A i \in 1 .. checkpoint.events : checkpoint.run[i] \in Complete
  BY <1>2, CheckpointTyped
<1>5. Step' = checkpoint.events /\ Len(log) \in Nat
  BY <1>2, <1>3, <1>4 DEF Step
<1> USE DEF IInv
<1>6. /\ Len(checkpoint.frames) <= framesSynced /\ framesSynced \in Nat /\ framesSynced <= Len(frames)
      /\ Len(frames) \in Nat /\ logSynced \in Nat /\ logSynced <= Len(log)
  BY <1>2, LenProperties DEF CheckpointInv, SyncInv, TypeInv
<1>7. Len(checkpoint.frames) \in 0 .. Len(frames)
  BY <1>4, <1>6
<1>8. /\ frames' \in Seq(FrameType) /\ Len(frames') = Len(checkpoint.frames)
      /\ \A i \in 2 .. Len(checkpoint.frames) : frames'[i - 1].step < frames'[i].step
      /\ \A i \in 1 .. Len(checkpoint.frames) : frames'[i] = frames[i]
  BY <1>3, <1>7, FramesCut
<1>9. <<>> \in Seq(RowType) /\ Len(<<>>) = 0 /\ torn' = {}
  BY <1>2, <1>3, EmptySeq DEF TypeInv
<1>10. TypeInv'
  BY <1>1, <1>3, <1>4, <1>5, <1>8, <1>9 DEF TypeInv, Open, Working
<1>11. SyncInv'
  BY <1>1, <1>3, <1>4, <1>6, <1>8 DEF SyncInv
<1>12. LogInv'
  <2>1. RowsAgree(log', run')
    BY <1>1, <1>2, <1>3, <1>4 DEF RowsAgree, CheckpointInv
  <2> QED BY <1>1, <1>2, <1>3, <1>5, <1>9, <2>1 DEF LogInv, Open, Working, Settled, Resuming, TypeInv
<1>13. FrameInv'
  <2>1. \A i \in 1 .. Len(checkpoint.frames) : frames[i].step <= checkpoint.events
    BY <1>2 DEF CheckpointInv
  <2>2. \A i \in 1 .. Len(frames') : frames'[i].step <= Step'
    BY <1>5, <1>8, <2>1
  <2> HIDE DEF IInv
  <2> QED BY <1>1, <1>2, <1>3, <1>8, <2>2 DEF FrameInv, Before, Open, Working
<1>14. CheckpointInv'
  <2>1. \A i \in 1 .. checkpoint.events :
          /\ folder[checkpoint.run[i]].state = "complete"
          /\ folder[checkpoint.run[i]].discovered <= checkpoint.events
    BY <1>2 DEF CheckpointInv
  <2>2. checkpoint.events <= logSynced
    BY <1>2 DEF CheckpointInv
  <2>3. pc' # "new" /\ Len(checkpoint.frames) <= framesSynced'
    BY <1>3, <1>4
  <2> HIDE DEF IInv
  <2> QED BY <1>1, <1>8, <2>1, <2>2, <2>3, CheckpointKept
<1>15. FolderInv'
  <2>1. \A r \in Reactions :
          folder[r].state # "incomplete" /\ (folder[r].state = "complete" => ~(folder[r].discovered > checkpoint.events))
    BY <1>1, <1>4 DEF FolderInv, Stray
  <2>2. \A r \in Reactions : folder[r].discovered \in Nat
    BY DEF TypeInv, FolderType
  <2>3. \A r \in Reactions : folder[r].state = "complete" => folder[r].discovered <= Step'
    BY <1>4, <1>5, <2>1, <2>2
  <2>4. \A i \in 1 .. Len(log) : folder[checkpoint.run[i]].state = "complete"
    BY <1>2 DEF CheckpointInv
  <2> HIDE DEF IInv
  <2> QED BY <1>1, <1>3, <2>1, <2>3, <2>4 DEF FolderInv, Open, Working, Unpublished
<1>16. StatisticsInv'
  BY <1>1, <1>3 DEF StatisticsInv, Open, Working, Complete
<1> QED BY <1>10, <1>11, <1>12, <1>13, <1>14, <1>15, <1>16

LEMMA StepInv ==
  ASSUME IInv, [Next]_vars
  PROVE  IInv'
<1>1. CASE UNCHANGED vars
  BY <1>1 DEF vars, IInv, TypeInv, SyncInv, LogInv, RowsAgree, FrameInv, CheckpointInv, FolderInv, StatisticsInv,
       Step, Last, Enabled, DumpEvery, Complete, Stray
<1>2. ASSUME NEW r \in Reactions,
             \/ WriteStructures(r) \/ WriteMetadata(r) \/ Fire(r) \/ FireRaises(r)
             \/ FlushStatistics(r) \/ Quarantine(r)
      PROVE  IInv'
  BY <1>2, WriteStructuresKeeps, WriteMetadataKeeps, FireKeeps, FlushStatisticsKeeps, QuarantineKeeps
<1>3. CASE Abandoned
  BY <1>1, <1>3 DEF Abandoned
<1> QED BY <1>1, <1>2, <1>3, StartFreshKeeps, BeginKeeps, PersistPartialKeeps, OutputRaisesKeeps,
        CloseSinksKeeps, RecordEventKeeps, FinishStepKeeps, CloseKeeps, SyncTrajectoryKeeps,
        SyncEventsKeeps, CommitHistoryKeeps, PublishKeeps, EndKeeps, CrashKeeps, ResumeKeeps,
        ReopenKeeps, ReconcileKeeps DEF Next

LEMMA RowsOfAre ==
  ASSUME NEW rows \in Seq(RowType), NEW reactions \in Seq(Reactions),
         RowsAgree(rows, reactions), Len(rows) = Len(reactions)
  PROVE  rows = RowsOf(reactions)
<1>1. rows \in [1 .. Len(rows) -> RowType] /\ DOMAIN reactions = 1 .. Len(rows)
  BY LenProperties
<1>2. RowsOf(reactions) = [i \in 1 .. Len(rows) |-> Row(i, reactions[i])]
  BY <1>1 DEF RowsOf
<1>3. \A i \in 1 .. Len(rows) : rows[i] = Row(i, reactions[i])
  BY DEF RowsAgree
<1> QED BY <1>1, <1>2, <1>3

LEMMA HistoryIsLog ==
  ASSUME IInv, pc \in Open
  PROVE  History = log
<1>1. /\ log \in Seq(RowType) /\ Len(log) \in Nat /\ suffix \in Seq(RowType) /\ Len(suffix) \in Nat
      /\ committed \in Nat /\ Len(log) = committed + Len(suffix)
      /\ \A i \in 1 .. Len(suffix) : suffix[i] = log[committed + i]
  BY LenProperties DEF IInv, TypeInv, LogInv
<1> DEFINE start_ == SubSeq(log, 1, committed)
<1>2. committed \in 0 .. Len(log)
  BY <1>1
<1>3. start_ \in Seq(RowType) /\ Len(start_) = committed /\ \A i \in 1 .. committed : start_[i] = log[i]
  BY <1>1, <1>2, Prefix
<1> HIDE DEF start_
<1>4. /\ start_ \o suffix \in Seq(RowType) /\ Len(start_ \o suffix) = committed + Len(suffix)
      /\ \A i \in 1 .. committed + Len(suffix) :
           (start_ \o suffix)[i] = IF i <= committed THEN start_[i] ELSE suffix[i - committed]
  BY <1>1, <1>3, ConcatProperties
<1>5. ASSUME NEW i \in 1 .. Len(log) PROVE (start_ \o suffix)[i] = log[i]
  <2>1. CASE i <= committed
    BY <1>1, <1>3, <1>4, <2>1
  <2>2. CASE ~(i <= committed)
    <3>1. i - committed \in 1 .. Len(suffix) /\ committed + (i - committed) = i
      BY <1>1, <2>2
    <3> QED BY <1>1, <1>4, <2>2, <3>1
  <2> QED BY <2>1, <2>2
<1>6. start_ \o suffix = log
  <2>1. Len(start_ \o suffix) = Len(log)
    BY <1>1, <1>4
  <2>2. \A i \in 1 .. Len(start_ \o suffix) : (start_ \o suffix)[i] = log[i]
    BY <1>5, <2>1
  <2> QED BY <1>1, <1>4, <2>1, <2>2, SeqEqual
<1> QED BY <1>6 DEF History, start_

(* The inductive invariant of the files of a run: whatever is written, raised or
   lost, and however often a run is resumed. *)
THEOREM PersistenceInvariance == Spec => []IInv
<1>1. Init => IInv
  BY InitInv
<1>2. IInv /\ [Next]_vars => IInv'
  BY StepInv
<1> QED BY <1>1, <1>2, PTL DEF Spec

(* No resume is refused, whatever a crash has left, and the counts of the history
   agree at every commit. *)
THEOREM NeverRefusedHolds == Spec => []NeverRefused
<1>1. IInv => NeverRefused
  BY DEF IInv, TypeInv, Open, Working, Resuming, NeverRefused
<1> QED BY <1>1, PersistenceInvariance, PTL

(* The checkpoint never runs ahead of the files it counts, between any two steps
   of write_checkpoint and of a resume. *)
THEOREM CheckpointCoveredHolds == Spec => []CheckpointCovered
<1>1. IInv => CheckpointCovered
  <2> SUFFICES ASSUME IInv, checkpoint # NoCheckpoint PROVE CheckpointCovered
    BY DEF CheckpointCovered
  <2> DEFINE n == checkpoint.events
             rows == SubSeq(log, 1, n)
             kept == SubSeq(frames, 1, Len(checkpoint.frames))
  <2>1. /\ checkpoint.run \in Seq(Reactions) /\ n \in Nat /\ n = Len(checkpoint.run)
        /\ checkpoint.frames \in Seq(Bytes) /\ Len(checkpoint.frames) \in Nat
    BY CheckpointTyped
  <2>2. /\ n <= logSynced /\ logSynced <= Len(log) /\ logSynced \in Nat /\ Len(log) \in Nat /\ log \in Seq(RowType)
        /\ Len(checkpoint.frames) <= framesSynced
        /\ \A i \in 1 .. n : log[i] = Row(i, checkpoint.run[i])
        /\ \A i \in 1 .. Len(checkpoint.frames) : frames[i].step <= n
    BY LenProperties DEF IInv, CheckpointInv, SyncInv, TypeInv
  <2>3. rows = RowsOf(checkpoint.run)
    <3>1. n \in 0 .. Len(log)
      BY <2>1, <2>2
    <3> HIDE DEF n
    <3>2. rows \in Seq(RowType) /\ Len(rows) = n /\ \A i \in 1 .. n : rows[i] = log[i]
      BY <2>2, <3>1, Prefix
    <3> HIDE DEF rows
    <3>3. n \in Nat /\ Len(checkpoint.run) = n /\ \A i \in 1 .. n : log[i] = Row(i, checkpoint.run[i])
      BY <2>1, <2>2
    <3>4. RowsAgree(rows, checkpoint.run) /\ Len(rows) = Len(checkpoint.run)
      BY <3>2, <3>3 DEF RowsAgree
    <3> QED BY <2>1, <3>2, <3>4, RowsOfAre
  <2>4. Extent(kept) = checkpoint.frames
    BY FramesValid DEF ValidFrames
  <2> QED BY <2>1, <2>2, <2>3, <2>4 DEF CheckpointCovered
<1> QED BY <1>1, PersistenceInvariance, PTL

(* The history of a session is the log and that of the state it works on: no
   event lost or doubled by crashes and resumes. *)
THEOREM HistoryFaithfulHolds == Spec => []HistoryFaithful
<1>1. IInv => HistoryFaithful
  <2> SUFFICES ASSUME IInv, InSession PROVE HistoryFaithful
    BY DEF HistoryFaithful
  <2>1. pc \in Open
    BY DEF InSession, Open
  <2>2. /\ log \in Seq(RowType) /\ Len(log) \in Nat /\ run \in Seq(Reactions) /\ Step = Len(run) /\ Step \in Nat
        /\ RowsAgree(log, run) /\ torn = {}
    BY <2>1, LenProperties DEF IInv, TypeInv, LogInv, Step
  <2>3. Len(log) <= Step
    BY <2>2 DEF RowsAgree
  <2>4. /\ Step <= Len(log) + 1
        /\ pc \notin {"record", "raised", "partial"} => Len(log) = Step
    BY <2>1, <2>2 DEF IInv, LogInv, Settled
  <2>5. log = RowsOf(EventsRecorded)
    <3>1. CASE Len(log) = Step
      <4>1. EventsRecorded = run
        BY <2>2, <3>1 DEF EventsRecorded
      <4> QED BY <2>2, <3>1, <4>1, RowsOfAre
    <3>2. CASE Len(log) < Step
      <4> DEFINE fired == SubSeq(run, 1, Len(log))
      <4>1. EventsRecorded = fired
        BY <2>2, <2>4, <3>2 DEF EventsRecorded
      <4>2. Len(log) \in 0 .. Len(run)
        BY <2>2, <2>3
      <4>3. fired \in Seq(Reactions) /\ Len(fired) = Len(log) /\ \A i \in 1 .. Len(log) : fired[i] = run[i]
        BY <2>2, <4>2, Prefix
      <4> HIDE DEF fired
      <4>4. RowsAgree(log, fired)
        BY <2>2, <4>3 DEF RowsAgree
      <4> QED BY <2>2, <4>1, <4>3, <4>4, RowsOfAre
    <3> QED BY <2>2, <2>3, <3>1, <3>2
  <2>6. History = log
    BY <2>1, HistoryIsLog
  <2> QED BY <2>2, <2>4, <2>5, <2>6 DEF HistoryFaithful
<1> QED BY <1>1, PersistenceInvariance, PTL

(* The frames increase and never run ahead of the session, and a closed run ends
   in a frame of its final state. *)
THEOREM TrajectoryFaithfulHolds == Spec => []TrajectoryFaithful
<1>1. IInv => TrajectoryFaithful
  <2> SUFFICES ASSUME IInv PROVE TrajectoryFaithful
    OBVIOUS
  <2>1. Len(frames) \in Nat
    BY LenProperties DEF IInv, TypeInv
  <2>2. \A i \in 1 .. Len(frames) : i > 1 => i \in 2 .. Len(frames)
    BY <2>1
  <2>3. InSession => pc \in Open
    BY DEF InSession, Open
  <2>4. pc = "closed" => pc \in Open /\ closing
    BY DEF Open, IInv, FrameInv
  <2> QED BY <2>2, <2>3, <2>4 DEF TrajectoryFaithful, IInv, FrameInv
<1> QED BY <1>1, PersistenceInvariance, PTL

(* No folder a session trusts belongs to an abandoned continuation, and every
   event refers to a folder that is there. *)
THEOREM FoldersFaithfulHolds == Spec => []FoldersFaithful
<1>1. IInv => FoldersFaithful
  <2> SUFFICES ASSUME IInv, InSession PROVE FoldersFaithful
    BY DEF FoldersFaithful
  <2>1. pc \in Open
    BY DEF InSession, Open
  <2>2. ASSUME NEW i \in 1 .. Len(log) PROVE log[i].reaction \in Complete
    <3>1. log[i] = Row(i, run[i]) /\ Len(log) <= Len(run) /\ Len(log) \in Nat /\ Len(run) \in Nat
      BY <2>1, LenProperties DEF IInv, LogInv, RowsAgree, TypeInv
    <3>2. i \in 1 .. Len(run)
      BY <3>1
    <3>3. run[i] \in Reactions /\ folder[run[i]].state = "complete"
      BY <2>1, <3>2, ElementOfSeq DEF IInv, FolderInv, TypeInv
    <3> QED BY <3>1, <3>3 DEF Row, Complete
  <2> QED BY <2>1, <2>2 DEF FoldersFaithful, IInv, FolderInv
<1> QED BY <1>1, PersistenceInvariance, PTL

(* At every checkpoint and at the end the statistics in the folders are those of
   the log. *)
THEOREM StatisticsAgreeHolds == Spec => []StatisticsAgree
<1>1. IInv => StatisticsAgree
  <2> SUFFICES ASSUME IInv, pc \in {"publish", "closed"}, NEW r \in Complete
               PROVE  folder[r].count = Fired(log, r)
    BY DEF StatisticsAgree
  <2>1. pc \in Open /\ r \in Reactions /\ pending = {}
    BY DEF Open, Working, Complete, IInv, StatisticsInv
  <2> QED BY <2>1 DEF IInv, StatisticsInv
<1> QED BY <1>1, PersistenceInvariance, PTL


-----------------------------------------------------------------------------
(* The refinement.  What the abstract log calls the history is the log while a
   session is open and what the checkpoint holds otherwise. *)
Recorded == IF InSession \/ pc = "closed" THEN History ELSE Durable
Permanent == IF checkpoint = NoCheckpoint THEN <<>> ELSE RowsOf(checkpoint.run)
Mapped == IF pc \in Open THEN log ELSE Permanent

LEMMA MappingSound == IInv /\ CheckpointCovered => Recorded = Mapped /\ Durable = Permanent
<1> SUFFICES ASSUME IInv, CheckpointCovered PROVE Recorded = Mapped /\ Durable = Permanent
  OBVIOUS
<1>1. Durable = Permanent
  BY DEF CheckpointCovered, Durable, Permanent
<1>2. (InSession \/ pc = "closed") <=> pc \in Open
  BY DEF InSession, Open
<1> QED BY <1>1, <1>2, HistoryIsLog DEF Recorded, Mapped

LEMMA StepImplements ==
  ASSUME IInv, [Next]_vars,
         Recorded = Mapped, Durable = Permanent, Recorded' = Mapped', Durable' = Permanent'
  PROVE  Log!Next \/ UNCHANGED <<Recorded, Durable>>
<1>1. CASE Publish
  <2>1. pc = "publish" /\ pc' \in Open /\ pc \in Open /\ log' = log /\ checkpoint'.run = run
    BY <1>1 DEF Publish, files, Open, Working
  <2>2. checkpoint' # NoCheckpoint
    <3>1. checkpoint' = [run |-> run, events |-> Len(log), frames |-> Extent(frames)]
      BY <1>1 DEF Publish
    <3>2. run \in Seq(Reactions) /\ Len(log) \in Nat /\ Extent(frames) \in Seq(Bytes)
      BY LenProperties, ExtentSound DEF IInv, TypeInv
    <3>3. checkpoint' \in CheckpointType
      BY <3>1, <3>2 DEF CheckpointType, Bytes
    <3> QED BY <3>3, NoCheckpointAssumption
  <2>3. log = RowsOf(run)
    <3>1. RowsAgree(log, run) /\ Len(log) = Len(run) /\ log \in Seq(RowType) /\ run \in Seq(Reactions)
      BY <2>1 DEF IInv, LogInv, TypeInv, Settled, Open, Working, Step
    <3> QED BY <3>1, RowsOfAre
  <2>4. Permanent' = log
    BY <2>1, <2>2, <2>3 DEF Permanent
  <2>5. Durable' = Recorded /\ Recorded' = Recorded
    BY <2>1, <2>4 DEF Mapped
  <2> QED BY <2>5 DEF Log!Next, Log!Commit, Recorded
<1>2. CASE RecordEvent
  <2> DEFINE row == Row(Step, run[Step])
  <2>1. /\ pc \in Open /\ pc' \in Open /\ log' = Append(log, row) /\ checkpoint' = checkpoint
    BY <1>2 DEF RecordEvent, Open, Working
  <2>2. /\ log \in Seq(RowType) /\ Step = Len(log) + 1 /\ Len(log) \in Nat /\ Step = Len(run)
        /\ run \in Seq(Reactions)
    BY <1>2, LenProperties DEF RecordEvent, IInv, LogInv, TypeInv, Step
  <2>3. run[Step] \in Reactions
    <3>1. Step \in 1 .. Len(run)
      BY <2>2
    <3> QED BY <2>2, <3>1, ElementOfSeq
  <2>4. row \in RowType /\ row \in [step : {Len(log) + 1}, reaction : Reactions]
    BY <2>2, <2>3 DEF Row, RowType
  <2> HIDE DEF row
  <2>5. /\ log' \in Seq(RowType) /\ Len(log') = Len(log) + 1
        /\ \A i \in 1 .. Len(log) : log'[i] = log[i]
        /\ log'[Len(log) + 1] = row
    BY <2>1, <2>2, <2>4, Extended
  <2>6. SubSeq(log', 1, Len(log)) = log
    <3>1. Len(log) \in 0 .. Len(log')
      BY <2>2, <2>5
    <3>2. /\ SubSeq(log', 1, Len(log)) \in Seq(RowType) /\ Len(SubSeq(log', 1, Len(log))) = Len(log)
          /\ \A i \in 1 .. Len(log) : SubSeq(log', 1, Len(log))[i] = log'[i]
      BY <2>5, <3>1, Prefix
    <3>3. \A i \in 1 .. Len(SubSeq(log', 1, Len(log))) : SubSeq(log', 1, Len(log))[i] = log[i]
      BY <2>5, <3>2
    <3> QED BY <2>2, <3>2, <3>3, SeqEqual
  <2>7. Recorded = log /\ Recorded' = log' /\ Durable' = Durable
    BY <2>1 DEF Mapped, Permanent
  <2>8. /\ Len(Recorded') = Len(Recorded) + 1
        /\ SubSeq(Recorded', 1, Len(Recorded)) = Recorded
        /\ Recorded'[Len(Recorded')] \in [step : {Len(Recorded')}, reaction : Reactions]
        /\ Durable' = Durable
    BY <2>4, <2>5, <2>6, <2>7
  <2> QED BY <2>8 DEF Log!Next, Log!Happen, Recorded
<1>3. CASE Crash \/ CloseSinks \/ Resume
  <2>1. checkpoint' = checkpoint /\ pc' \notin Open
    BY <1>3, PrefixValid DEF Crash, CloseSinks, Resume, Open, Working
  <2>2. Recorded' = Durable /\ Durable' = Durable
    BY <2>1 DEF Mapped, Permanent
  <2> QED BY <2>2 DEF Log!Next, Log!RollBack, Recorded
<1>4. CASE Reconcile
  <2>1. /\ pc \notin Open /\ pc = "reconcile" /\ log' = log /\ checkpoint' = checkpoint
    BY <1>4 DEF Reconcile, Open, Working
  <2>2. checkpoint # NoCheckpoint /\ Len(log) = checkpoint.events /\ log \in Seq(RowType)
    BY <2>1 DEF IInv, LogInv, TypeInv, Resuming
  <2>3. pc' \in Open
    BY <1>4, <2>2, FramesValid DEF Reconcile, Open, Working
  <2>4. log = RowsOf(checkpoint.run)
    <3>1. checkpoint.run \in Seq(Reactions) /\ checkpoint.events = Len(checkpoint.run) /\ checkpoint.events \in Nat
      BY <2>2, CheckpointTyped
    <3>2. RowsAgree(log, checkpoint.run)
      BY <2>2, <3>1 DEF RowsAgree, IInv, CheckpointInv
    <3> QED BY <2>2, <3>1, <3>2, RowsOfAre
  <2>5. Recorded = Permanent /\ Recorded' = log /\ Permanent = log /\ Durable' = Durable
    BY <2>1, <2>2, <2>3, <2>4 DEF Mapped, Permanent
  <2> QED BY <2>5
<1>5. CASE StartFresh
  <2>1. /\ pc = "new" /\ pc' \in Open /\ pc \notin Open /\ log' = log /\ checkpoint' = checkpoint
    BY <1>5 DEF StartFresh, files, Open, Working
  <2>2. log = <<>> /\ checkpoint = NoCheckpoint
    BY <2>1 DEF IInv, LogInv, CheckpointInv
  <2> QED BY <2>1, <2>2 DEF Mapped, Permanent
<1>6. CASE \E r \in Reactions : Quarantine(r)
  BY <1>6 DEF Quarantine, files, Mapped, Permanent
<1>7. CASE Reopen
  BY <1>7 DEF Reopen, files, Mapped, Permanent, Open, Working
<1>8. CASE \/ Begin \/ PersistPartial \/ OutputRaises \/ FinishStep \/ Close
           \/ SyncTrajectory \/ SyncEvents \/ CommitHistory \/ End
           \/ \E r \in Reactions : \/ WriteStructures(r) \/ WriteMetadata(r)
                                  \/ Fire(r) \/ FireRaises(r) \/ FlushStatistics(r)
  <2>1. pc \in Open /\ log' = log /\ checkpoint' = checkpoint
    BY <1>8 DEF Begin, PersistPartial, OutputRaises, FinishStep, Close, SyncTrajectory, SyncEvents,
         CommitHistory, End, WriteStructures, WriteMetadata, Writing, Fire, FireRaises, FlushStatistics, files,
         Open, Working
  <2>2. CASE CommitHistory
    <3>1. CountsAgree
      BY <2>2, LenProperties DEF CommitHistory, CountsAgree, IInv, LogInv, Open, Working, TypeInv
    <3>2. pc' \in Open
      BY <2>2, <3>1 DEF CommitHistory, Open, Working
    <3> QED BY <2>1, <3>2 DEF Mapped, Permanent
  <2>3. CASE ~CommitHistory
    <3>1. pc' \in Open
      BY <1>8, <2>3 DEF Begin, PersistPartial, OutputRaises, FinishStep, Close, SyncTrajectory, SyncEvents,
           End, WriteStructures, WriteMetadata, Writing, Fire, FireRaises, FlushStatistics, Open, Working
    <3> QED BY <2>1, <3>1 DEF Mapped, Permanent
  <2> QED BY <2>2, <2>3
<1>9. CASE Abandoned \/ UNCHANGED vars
  BY <1>9 DEF Abandoned, vars, Mapped, Permanent
<1> QED BY <1>1, <1>2, <1>3, <1>4, <1>5, <1>6, <1>7, <1>8, <1>9 DEF Next

(* The history and what the checkpoint holds of it implement a checkpointed log:
   a crash takes a run back to its last checkpoint and nowhere else. *)
THEOREM HistoryRefinement == Spec => ImplementsCheckpointedLog
<1>1. Init => Log!Init
  BY DEF Init, Log!Init, Durable, InSession, Working
<1>2. Spec => [](Recorded = Mapped /\ Durable = Permanent)
  BY MappingSound, PersistenceInvariance, CheckpointCoveredHolds, PTL
<1>3. /\ IInv /\ [Next]_vars
      /\ Recorded = Mapped /\ Durable = Permanent
      /\ (Recorded = Mapped /\ Durable = Permanent)'
      => [Log!Next]_<<Recorded, Durable>>
  <2> SUFFICES ASSUME IInv, [Next]_vars,
                      Recorded = Mapped, Durable = Permanent, Recorded' = Mapped', Durable' = Permanent'
               PROVE  Log!Next \/ UNCHANGED <<Recorded, Durable>>
    OBVIOUS
  <2> QED BY StepImplements
<1> QED BY <1>1, <1>2, <1>3, PersistenceInvariance, PTL
      DEF Spec, ImplementsCheckpointedLog, Log!Spec, Recorded
=============================================================================
