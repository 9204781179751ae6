---------------------------- MODULE RunPersistence ----------------------------
(***************************************************************************)
(* The files of a run and the sessions that write them: the event log, the *)
(* trajectory, the reaction folders with their statistics, and the one     *)
(* checkpoint that makes a prefix of all of them authoritative.  A session *)
(* may raise or crash anywhere; the next one resumes from the checkpoint   *)
(* and reconciles every file with it.                                      *)
(*                                                                         *)
(* A session is reduced to the sequence of reactions it fires, which also  *)
(* stands for its graph, clock and random state.  Bytes are counted in     *)
(* rows and frames; a file may end in a torn one.  Appends that were not   *)
(* synced may be lost from the end, in whole rows or in part of one;       *)
(* atomic replacements (atomic_output_path) are there or not.              *)
(***************************************************************************)
EXTENDS Naturals, Sequences, FiniteSets

CONSTANTS
  Reactions,        \* reaction folders: kind, species, site and lateral class
  Configurations,   \* the configurations a run may have
  NoCheckpoint

ASSUME PersistenceAssumption ==
  \A c \in Configurations :
    /\ c.steps \in Nat            \* kmc.n_steps
    /\ c.every \in Nat \ {0}      \* checkpoint.every_n_steps
    /\ c.dump \in Nat             \* output.trajectory_dump_every; 0 disables the trajectory
    /\ c.sessions \in Nat         \* bound: sessions started on one output directory

\* What checkpoint.pkl holds: the state, the number of rows and the extent of
\* the trajectory.
CheckpointType == [run : Seq(Reactions), events : Nat, frames : Seq({"appended", "rewritten"})]

ASSUME NoCheckpointAssumption == NoCheckpoint \notin CheckpointType

VARIABLES
  settings,      \* the configuration, the same in every session
  \* On disk.
  log,           \* events.jsonl
  logSynced,     \* how many of its rows an fsync has covered
  frames,        \* kmc.extxyz
  framesSynced,  \* also TrajectoryWriter._checkpoint_offset, where Close reads it
  torn,          \* the files that end in part of a row or frame
  folder,        \* reactions/: per reaction, its folder and statistics
  checkpoint,    \* checkpoint.pkl
  \* In the memory of the session.
  run,           \* the reactions fired since step 0
  start,         \* runtime.start_step
  committed,     \* EventHistory: how many rows it reads from the log ...
  suffix,        \* ... and the records it keeps after them
  stats,         \* ReactionWriter: how often each reaction has fired
  pending,       \* the folders whose reaction.json is behind stats
  todo,          \* the reactions a sweep found and has yet to write
  saved,         \* the step of this session's last checkpoint, or 0
  closing,       \* has KMCOutputManager.close begun?
  pc,
  sessions       \* sessions started so far

files == <<log, logSynced, frames, framesSynced, torn>>
history == <<committed, suffix>>
statistics == <<stats, pending>>
control == <<start, saved, closing, sessions, settings>>
vars == <<log, logSynced, frames, framesSynced, torn, folder, checkpoint, run, start,
          committed, suffix, stats, pending, todo, saved, closing, pc, sessions, settings>>

StepsPerSession == settings.steps
CheckpointEvery == settings.every
DumpEvery == settings.dump
MaxSessions == settings.sessions

Absent == [state |-> "absent", discovered |-> 0, count |-> 0]

Step == Len(run)
Row(i, r) == [step |-> i, reaction |-> r]
Complete == {r \in Reactions : folder[r].state = "complete"}
Fired(rows, r) == Cardinality({i \in DOMAIN rows : rows[i].reaction = r})
Enabled == DumpEvery > 0
Last == Len(frames)
Frame(i, final) == [step |-> i, final |-> final, bytes |-> "appended"]
\* A byte offset into the trajectory is the extent of the frames before it.
Extent(fs) == [i \in DOMAIN fs |-> fs[i].bytes]

-----------------------------------------------------------------------------
Init ==
  /\ settings \in Configurations
  /\ log = <<>> /\ logSynced = 0
  /\ frames = <<>> /\ framesSynced = 0
  /\ torn = {}
  /\ folder = [r \in Reactions |-> Absent]
  /\ checkpoint = NoCheckpoint
  /\ run = <<>> /\ start = 0
  /\ committed = 0 /\ suffix = <<>>
  /\ stats = [r \in Reactions |-> 0] /\ pending = {} /\ todo = {}
  /\ saved = 0 /\ closing = FALSE
  /\ pc = "new" /\ sessions = 0

\* A fresh run; ensure_run_output_available refuses it once there are outputs.
\* The initial sweep leaves any set of reactions in the index, or raises.
StartFresh ==
  /\ pc = "new" /\ MaxSessions > 0
  /\ sessions' = 1
  /\ todo' \in SUBSET Reactions
  /\ pc' \in {"begin", "raised"}
  /\ UNCHANGED <<files, folder, checkpoint, run, start, history, statistics, saved, closing,
                 settings>>

-----------------------------------------------------------------------------
\* Writing reaction folders: ensure_reaction for each reaction of todo.

Writing == pc \in {"begin", "record", "finish", "raised"} /\ todo # {}

\* _ensure_reaction_folder: the structures come first.
WriteStructures(r) ==
  /\ Writing /\ r \in todo
  /\ folder[r].state = "absent"
  /\ folder' = [folder EXCEPT ![r].state = "incomplete"]
  /\ UNCHANGED <<files, checkpoint, run, history, statistics, todo, control, pc>>

\* _write_reaction_json publishes the folder, with the step that found it.
WriteMetadata(r) ==
  /\ Writing /\ r \in todo
  /\ folder[r].state = "incomplete"
  /\ folder' = [folder EXCEPT ![r] =
                  [state |-> "complete", discovered |-> Step, count |-> 0]]
  /\ stats' = [stats EXCEPT ![r] = 0]
  /\ todo' = todo \ {r}
  /\ UNCHANGED <<files, checkpoint, run, history, pending, control, pc>>

-----------------------------------------------------------------------------
\* A session.

\* KMCOutputManager.initialise, after its folders: a fresh run writes frame 0.
Begin ==
  /\ pc = "begin" /\ todo = {}
  /\ frames' = IF Enabled /\ sessions = 1 THEN Append(frames, Frame(0, FALSE)) ELSE frames
  /\ pc' = "idle"
  /\ UNCHANGED <<log, logSynced, framesSynced, torn, folder, checkpoint, run, history,
                 statistics, todo, control>>

\* _run_step as far as its scientific updates succeed.
Fire(r) ==
  /\ pc = "idle" /\ Step < start + StepsPerSession
  /\ run' = Append(run, r)
  /\ todo' = {r} \ Complete
  /\ pc' = "record"
  /\ UNCHANGED <<files, folder, checkpoint, history, statistics, control>>

\* Its recomputation or expansion raises: _persist_partial_outputs writes the
\* reactions that were already complete, but not the event.
FireRaises(r) ==
  /\ pc = "idle" /\ Step < start + StepsPerSession
  /\ run' = Append(run, r)
  /\ todo' \in SUBSET (Reactions \ Complete)
  /\ pc' = "raised"
  /\ UNCHANGED <<files, folder, checkpoint, history, statistics, control>>

\* The log is synced after those reactions, or after an error that kept some
\* of them from being written.
PersistPartial ==
  /\ pc = "raised"
  /\ logSynced' = Len(log)
  /\ todo' = {}
  /\ pc' = "partial"
  /\ UNCHANGED <<log, frames, framesSynced, torn, folder, checkpoint, run, history,
                 statistics, control>>

\* Writing the outputs of the event raises instead, before or after its row.
OutputRaises ==
  /\ pc \in {"record", "finish"}
  /\ pc' = "raised"
  /\ UNCHANGED <<files, folder, checkpoint, run, history, statistics, todo, control>>

\* OutputSinks.close.
CloseSinks ==
  /\ pc = "partial" /\ pending = {}
  /\ framesSynced' = Len(frames)
  /\ pc' = "down"
  /\ UNCHANGED <<log, logSynced, frames, torn, folder, checkpoint, run, history,
                 statistics, todo, control>>

\* record_event: the row is buffered, the statistics are queued.
RecordEvent ==
  /\ pc = "record" /\ todo = {}
  /\ LET r == run[Step]
     IN /\ log' = Append(log, Row(Step, r))
        /\ suffix' = Append(suffix, Row(Step, r))
        /\ stats' = [stats EXCEPT ![r] = @ + 1]
        /\ pending' = pending \cup {r}
  /\ todo' \in SUBSET (Reactions \ Complete)
  /\ pc' = "finish"
  /\ UNCHANGED <<logSynced, frames, framesSynced, torn, folder, checkpoint, run, committed,
                 control>>

FrameDue == Enabled /\ Step % DumpEvery = 0
CheckpointDue == Step % CheckpointEvery = 0

\* finish_step, after its folders.
FinishStep ==
  /\ pc = "finish" /\ todo = {}
  /\ frames' = IF FrameDue THEN Append(frames, Frame(Step, Step = start + StepsPerSession))
             ELSE frames
  /\ pc' = IF CheckpointDue THEN "syncTrajectory" ELSE "idle"
  /\ UNCHANGED <<log, logSynced, framesSynced, torn, folder, checkpoint, run, history,
                 statistics, todo, control>>

\* Mutant: the final frame keeps to the cadence.
AppendsIfDue == FrameDue /\ (Last = 0 \/ frames[Last].step # Step)

\* write_final_snapshot appends a frame of the final state, or marks the one
\* that is there.  Marking rewrites the file atomically, with a longer frame
\* unless a checkpoint refers to its bytes.
Appends == Enabled /\ (Last = 0 \/ frames[Last].step # Step)
Marks == Enabled /\ ~Appends /\ ~frames[Last].final

\* Mutant: marking a frame never minds its length.
MarkedLonger == [frames[Last] EXCEPT !.final = TRUE, !.bytes = "rewritten"]

Marked == [frames[Last] EXCEPT
             !.final = TRUE,
             !.bytes = IF framesSynced < Last THEN "rewritten" ELSE @]

\* close(): all the steps were taken, or there is nothing left to fire.
Close ==
  /\ pc = "idle"
  /\ frames' = IF Appends THEN Append(frames, Frame(Step, TRUE))
               ELSE IF Marks THEN [frames EXCEPT ![Last] = Marked] ELSE frames
  /\ framesSynced' = IF Marks THEN Last ELSE framesSynced
  /\ closing' = TRUE
  /\ pc' = IF Step > start /\ saved # Step THEN "syncTrajectory" ELSE "ending"
  /\ UNCHANGED <<log, logSynced, torn, folder, checkpoint, run, history,
                 statistics, todo, start, saved, sessions, settings>>

-----------------------------------------------------------------------------
\* write_checkpoint: every file first, then the checkpoint that counts them.

SyncTrajectory ==
  /\ pc = "syncTrajectory"
  /\ framesSynced' = Len(frames)
  /\ pc' = "syncEvents"
  /\ UNCHANGED <<log, logSynced, frames, torn, folder, checkpoint, run, history, statistics,
                 todo, control>>

\* Mutant: the rows are flushed but not synced.
SyncEventsNothing ==
  /\ pc = "syncEvents"
  /\ pc' = "flush"
  /\ UNCHANGED <<files, folder, checkpoint, run, history, statistics, todo, control>>

SyncEvents ==
  /\ pc = "syncEvents"
  /\ logSynced' = Len(log)
  /\ pc' = "flush"
  /\ UNCHANGED <<log, frames, framesSynced, torn, folder, checkpoint, run, history,
                 statistics, todo, control>>

\* flush_reaction_stats, one folder after the other.
FlushStatistics(r) ==
  /\ pc \in {"flush", "ending", "partial"} /\ r \in pending
  /\ folder' = [folder EXCEPT ![r].count = stats[r]]
  /\ pending' = pending \ {r}
  /\ UNCHANGED <<files, checkpoint, run, history, stats, todo, control, pc>>

\* A fresh run keeps its history in a list, a resumed one in an EventHistory,
\* whose mark_committed raises when the counts disagree.
Lazy == sessions > 1
CountsAgree == Lazy => Len(log) = committed + Len(suffix)

CommitHistory ==
  /\ pc = "flush" /\ pending = {}
  /\ pc' = IF CountsAgree THEN "publish" ELSE "refused"
  /\ IF Lazy /\ CountsAgree
     THEN committed' = Len(log) /\ suffix' = <<>>
     ELSE UNCHANGED history
  /\ UNCHANGED <<files, folder, checkpoint, run, statistics, todo, control>>

\* CheckpointWriter.maybe_write: the new checkpoint replaces the old one.
Publish ==
  /\ pc = "publish"
  /\ checkpoint' = [run |-> run, events |-> Len(log), frames |-> Extent(frames)]
  /\ saved' = Step
  /\ pc' = IF closing THEN "ending" ELSE "idle"
  /\ UNCHANGED <<files, folder, run, history, statistics, todo, start, closing, sessions,
                 settings>>

\* The trajectory and the reaction writer are synced and closed.
End ==
  /\ pc = "ending" /\ pending = {}
  /\ logSynced' = Len(log) /\ framesSynced' = Len(frames)
  /\ pc' = "closed"
  /\ UNCHANGED <<log, frames, torn, folder, checkpoint, run, history, statistics, todo, control>>

-----------------------------------------------------------------------------
\* Crashes.

Working == {"begin", "idle", "record", "raised", "partial", "finish", "syncTrajectory", "syncEvents",
            "flush", "publish", "ending"}
Resuming == {"reopen", "reconcile"}

\* What a crash may leave of a file: all that was synced, and any prefix of
\* the rest, down to a part of a row.
Survivors(file, synced) == {SubSeq(file, 1, n) : n \in synced .. Len(file)}

Crash ==
  /\ pc \in Working \cup Resuming
  /\ log' \in Survivors(log, logSynced)
  /\ frames' \in Survivors(frames, framesSynced)
  /\ torn' \in SUBSET ((IF log' # log THEN {"events"} ELSE {})
                      \cup (IF frames' # frames THEN {"trajectory"} ELSE {})
                      \cup torn)
  /\ logSynced' = Len(log') /\ framesSynced' = Len(frames')
  /\ pc' = "down"
  /\ UNCHANGED <<folder, checkpoint, run, history, statistics, todo, control>>

-----------------------------------------------------------------------------
\* Resuming from the checkpoint.

\* _CommittedEventValidator over the committed prefix.
ValidPrefix(rows, c) ==
  /\ Len(rows) >= c.events
  /\ \A i \in 2 .. c.events : rows[i].step = rows[i - 1].step + 1
  /\ IF c.events = 0 THEN Len(c.run) = 0 ELSE rows[c.events].step = Len(c.run)

\* Mutant: the rows after the committed ones stay.
RetainedWithTail == log

Retained == SubSeq(log, 1, checkpoint.events)

\* resolve_run_identity: load the checkpoint, reconcile events.jsonl with it.
Resume ==
  /\ pc \in {"down", "closed"}
  /\ checkpoint # NoCheckpoint /\ sessions < MaxSessions
  /\ IF ValidPrefix(log, checkpoint)
     THEN /\ log' = Retained
          /\ logSynced' = Len(Retained)
          /\ torn' = torn \ {"events"}
          /\ pc' = "reopen"
     ELSE /\ pc' = "refused"
          /\ UNCHANGED <<log, logSynced, torn>>
  /\ sessions' = sessions + 1
  /\ UNCHANGED <<frames, framesSynced, folder, checkpoint, run, history, statistics, todo,
                 start, saved, closing, settings>>

\* Mutant: off by one, a folder found at the step of the checkpoint is moved.
StrayFromCheckpoint(r) ==
  \/ folder[r].state = "incomplete"
  \/ folder[r].state = "complete" /\ folder[r].discovered >= Len(checkpoint.run)

\* _quarantine_uncommitted_reaction_folders: incomplete, or found later.
Stray(r) ==
  \/ folder[r].state = "incomplete"
  \/ folder[r].state = "complete" /\ folder[r].discovered > Len(checkpoint.run)

Quarantine(r) ==
  /\ pc = "reopen" /\ Stray(r)
  /\ folder' = [folder EXCEPT ![r] = Absent]
  /\ UNCHANGED <<files, checkpoint, run, history, statistics, todo, control, pc>>

\* Mutant: the counts are read back from the folders.
RestoredFromFolders == [r \in Reactions |-> IF r \in Complete THEN folder[r].count ELSE 0]

\* ReactionWriter._restore_existing_state: the statistics are those of the
\* reconciled events, and the folders that differ are to be rewritten.
Restored == [r \in Reactions |-> IF r \in Complete THEN Fired(log, r) ELSE 0]

Reopen ==
  /\ pc = "reopen" /\ \A r \in Reactions : ~Stray(r)
  /\ stats' = Restored
  /\ pending' = {r \in Complete : folder[r].count # Restored[r]}
  /\ pc' = "reconcile"
  /\ UNCHANGED <<files, folder, checkpoint, run, history, todo, control>>

\* reconcile_trajectory over the committed frames.
ValidFrames(c) ==
  /\ Len(frames) >= Len(c.frames)
  /\ Extent(SubSeq(frames, 1, Len(c.frames))) = c.frames
  /\ \A i \in 1 .. Len(c.frames) : frames[i].step <= Len(c.run)
  /\ \A i \in 2 .. Len(c.frames) : frames[i - 1].step < frames[i].step

\* TrajectoryWriter.__init__, resolve_kmc_resume and initialise_runtime: the
\* session has the state of the checkpoint and the history of the log.
Reconcile ==
  /\ pc = "reconcile"
  /\ IF ValidFrames(checkpoint)
     THEN /\ frames' = SubSeq(frames, 1, Len(checkpoint.frames))
          /\ framesSynced' = Len(checkpoint.frames)
          /\ torn' = torn \ {"trajectory"}
          /\ run' = checkpoint.run /\ start' = Len(checkpoint.run)
          /\ committed' = Len(log) /\ suffix' = <<>>
          /\ saved' = 0 /\ closing' = FALSE
          /\ todo' \in SUBSET (Reactions \ Complete)
          /\ pc' \in {"begin", "raised"}
     ELSE /\ pc' = "refused"
          /\ UNCHANGED <<frames, framesSynced, torn, run, start, history, saved, closing, todo>>
  /\ UNCHANGED <<log, logSynced, folder, checkpoint, statistics, sessions, settings>>

\* Nothing is left to do: no session may start any more.
Abandoned ==
  /\ \/ pc = "refused"
     \/ pc \in {"down", "closed"} /\ (checkpoint = NoCheckpoint \/ sessions = MaxSessions)
  /\ UNCHANGED vars

Next ==
  \/ StartFresh \/ Begin
  \/ \E r \in Reactions : \/ WriteStructures(r) \/ WriteMetadata(r)
                         \/ Fire(r) \/ FireRaises(r)
                         \/ FlushStatistics(r) \/ Quarantine(r)
  \/ PersistPartial \/ OutputRaises \/ CloseSinks \/ RecordEvent \/ FinishStep \/ Close
  \/ SyncTrajectory \/ SyncEvents \/ CommitHistory \/ Publish \/ End
  \/ Crash \/ Resume \/ Reopen \/ Reconcile \/ Abandoned

Spec == Init /\ [][Next]_vars

-----------------------------------------------------------------------------
(***************************************************************************)
(* Properties.                                                             *)
(***************************************************************************)
RowsOf(reactions) == [i \in DOMAIN reactions |-> Row(i, reactions[i])]

\* A checkpoint never runs ahead of the files: the rows and frames it counts
\* are durable, the rows are those of its own run, and the frames show only
\* states of that run - at every moment, also between the steps of
\* write_checkpoint and while a resume is under way.
CheckpointCovered ==
  checkpoint # NoCheckpoint =>
    /\ checkpoint.events <= logSynced
    /\ SubSeq(log, 1, checkpoint.events) = RowsOf(checkpoint.run)
    /\ Len(checkpoint.frames) <= framesSynced
    /\ Extent(SubSeq(frames, 1, Len(checkpoint.frames))) = checkpoint.frames
    /\ \A i \in 1 .. Len(checkpoint.frames) : frames[i].step <= Len(checkpoint.run)

\* Whatever a crash leaves, the next resume is not refused, and the history
\* counts agree at every commit.
NeverRefused == pc # "refused"

InSession == pc \in Working
EventsRecorded == IF pc \in {"record", "raised", "partial"} /\ Len(log) < Step
                  THEN SubSeq(run, 1, Len(log)) ELSE run
History == SubSeq(log, 1, committed) \o suffix

\* The history of a session - the committed prefix it reads back from the log
\* and the records it keeps - is that of the state it works on, across any
\* number of crashes and resumes: no event lost, none twice, none of an
\* abandoned continuation, and nothing appended to a torn row.
HistoryFaithful ==
  InSession => /\ History = RowsOf(EventsRecorded)
               /\ log = RowsOf(EventsRecorded)
               /\ torn = {}
               /\ Step <= Len(log) + 1

\* The frames of a session are strictly increasing in kmc_step and never
\* beyond the step it is at, and a run that closes has a frame of its final
\* state, marked as such, whatever the cadence and wherever it stopped.
TrajectoryFaithful ==
  /\ InSession => \A i \in 1 .. Len(frames) :
                    /\ frames[i].step <= Step
                    /\ i > 1 => frames[i - 1].step < frames[i].step
  /\ pc = "closed" /\ Enabled => Last > 0 /\ frames[Last].step = Step /\ frames[Last].final

\* No folder that a session trusts belongs to an abandoned continuation, and
\* every event of its log refers to a folder that is there.
FoldersFaithful ==
  InSession =>
    /\ \A r \in Reactions :
         /\ folder[r].state = "incomplete" => r \in todo \/ pc = "partial"
         /\ folder[r].state = "complete" => folder[r].discovered <= Step
    /\ \A i \in 1 .. Len(log) : log[i].reaction \in Complete

\* At the moment a checkpoint is published, and when a run is closed, the
\* statistics in the folders are those of the log, although a crash may have
\* left them ahead of it or rewritten only some of them.
StatisticsAgree ==
  pc \in {"publish", "closed"} =>
    \A r \in Complete : folder[r].count = Fired(log, r)

\* The history and what a checkpoint holds of it implement a checkpointed log.
Durable == IF checkpoint = NoCheckpoint THEN <<>> ELSE SubSeq(log, 1, checkpoint.events)
Log == INSTANCE CheckpointedLog WITH
         history <- IF InSession \/ pc = "closed" THEN History ELSE Durable,
         permanent <- Durable
ImplementsCheckpointedLog == Log!Spec

\* "atomically removes frames beyond the checkpoint step before append"
\* (docs/architecture.md): what a resume is about to remove from the
\* trajectory lies beyond the step of the checkpoint.
RemovesOnlyLaterFrames ==
  pc = "reconcile" =>
    \A i \in Len(checkpoint.frames) + 1 .. Len(frames) :
      frames[i].step > Len(checkpoint.run)
=============================================================================
