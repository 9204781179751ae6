--------------------------- MODULE RunLifecycle ---------------------------
(* One output directory and the runs that want it: workflow/runtime.py (the
   run lock and the identity of a run), cli/pipeline.py and
   workflow/simulation.py (the stages of a run and the two places where its
   failure is recorded), io/run_manifest.py (what run_manifest.json says).

   An actor is a thread that calls run_from_config or preflight; actors of one
   process share the registry of locked directories and die together.  What a
   step does and how the files of a step are written is the subject of KmcEngine
   and RunPersistence; here a step appends one event, and every CheckpointEvery
   steps the whole prefix becomes authoritative. *)
EXTENDS Integers, FiniteSets, ReactionIndexFile

CONSTANTS
    Actors,            \* threads that may start or probe a run
    ProcessOf,         \* the process of a thread
    Reactions,         \* reaction classes an event may belong to
    NSteps,            \* settings.n_steps
    CheckpointEvery,   \* checkpoint.every_n_steps
    MaxSegments,       \* bound: invocations recorded in the manifest
    MaxCrashes,        \* bound: processes that die
    Nobody             \* no actor

ASSUME LifecycleAssumption ==
    /\ CheckpointEvery \in Nat \ {0}
    /\ NSteps \in Nat /\ MaxSegments \in Nat /\ MaxCrashes \in Nat
    /\ Nobody \notin Actors

None == -1     \* no step, no checkpoint

VARIABLES
    pc,          \* where an actor is
    registry,    \* _ACTIVE_RUN_LOCKS: processes with a run or a start in this directory
    flock,       \* the actor that holds the file lock, or Nobody
    manifest,    \* run_manifest.json, a sequence of segments and the lifecycle of the last
    log,         \* events.jsonl: the reactions of its rows
    checkpoint,  \* the step of checkpoint.pkl, or None
    index,       \* reactions/index.jsonl and its writer
    session,     \* of an actor: how it started, its first and its last step
    lost,        \* segments whose end could not be recorded
    crashes      \* processes that died so far

vars == <<pc, registry, flock, manifest, log, checkpoint, index, session, lost, crashes>>

disk == <<manifest, log, checkpoint, index>>

NoSession == [resume |-> FALSE, start |-> 0, step |-> 0, gauge |-> None, status |-> "none"]

Processes == {ProcessOf[a] : a \in Actors}

(* Between taking the lock and giving it back. *)
Inside == {"locked", "available", "identified", "preparing", "running", "closed", "finished",
           "failing", "failed", "releasing"}

----------------------------------------------------------------------------
(* The manifest.  The lifecycle block and the last segment are written
   together and say the same; both are the last element of the sequence. *)
Active(m) == m[Len(m)]
Terminal == {"complete", "stopped", "failed", "interrupted"}

NewSegment(step) ==
    [status |-> "preparing", stage |-> "initializing", failedIn |-> "none",
     initial |-> step, durable |-> step, final |-> None]

(* _close_stale_segment: a segment without an end gets one when a resume
   appends the next. *)
Superseded(s) ==
    IF s.status \in Terminal THEN s
    ELSE [s EXCEPT !.status = "interrupted", !.final = s.durable]

(* begin_run_manifest. *)
BegunFresh(step) == <<NewSegment(step)>>
Begun(m, step) ==
    IF m = << >> THEN BegunFresh(step)
    ELSE Append([m EXCEPT ![Len(m)] = Superseded(@)], NewSegment(step))

(* update_run_manifest. *)
Staged(m, status, stage) == [m EXCEPT ![Len(m)].status = status, ![Len(m)].stage = stage]

(* finish_run_manifest: the stage the run ended in is kept when the end is
   published a second time. *)
Ended(s, status, step) ==
    [s EXCEPT !.status = status, !.stage = "finished", !.final = step, !.durable = step,
              !.failedIn = IF s.failedIn # "none" THEN s.failedIn ELSE s.stage]

Finish(m, status, step) == [m EXCEPT ![Len(m)] = Ended(@, status, step)]

(* fail_run_manifest: the last step is that of the telemetry gauge, which every
   recorded event sets; without one, the step the manifest has. *)
Failed(m, status, gauge) ==
    IF m = << >> THEN m ELSE Finish(m, status, IF gauge = None THEN Active(m).durable ELSE gauge)

----------------------------------------------------------------------------
Init ==
    /\ pc = [a \in Actors |-> "idle"]
    /\ registry = {}
    /\ flock = Nobody
    /\ manifest = << >>
    /\ log = << >>
    /\ checkpoint = None
    /\ index = NoFile
    /\ session = [a \in Actors |-> NoSession]
    /\ lost = {}
    /\ crashes = 0

Goto(a, to) == pc' = [pc EXCEPT ![a] = to]

(* configured_run_lock, the registry of the process. *)
Enter(a) ==
    /\ pc[a] = "idle"
    /\ Len(manifest) < MaxSegments
    /\ ProcessOf[a] \notin registry        \* RunLockError otherwise
    /\ registry' = registry \cup {ProcessOf[a]}
    /\ \E resume \in BOOLEAN : session' = [session EXCEPT ![a] = [NoSession EXCEPT !.resume = resume]]
    /\ Goto(a, "entered")
    /\ UNCHANGED <<flock, disk, lost, crashes>>

(* The file lock, without waiting: a busy one is a RunLockError. *)
TakeUnlocked(a) ==          \* mutant: the registry alone keeps runs apart
    /\ pc[a] = "entered"
    /\ flock' = a
    /\ Goto(a, "locked")
    /\ UNCHANGED <<registry, disk, session, lost, crashes>>

Take(a) ==
    /\ pc[a] = "entered"
    /\ IF flock = Nobody THEN flock' = a /\ Goto(a, "locked")
                         ELSE flock' = flock /\ Goto(a, "released")
    /\ UNCHANGED <<registry, disk, session, lost, crashes>>

(* active_run_lock_owner: preflight takes the lock to see whether it can. *)
Probe(a) ==
    /\ pc[a] = "idle"
    /\ ProcessOf[a] \notin registry
    /\ flock = Nobody
    /\ flock' = a
    /\ Goto(a, "probing")
    /\ UNCHANGED <<registry, disk, session, lost, crashes>>

EndProbe(a) ==
    /\ pc[a] = "probing"
    /\ flock' = Nobody
    /\ Goto(a, "idle")
    /\ UNCHANGED <<registry, disk, session, lost, crashes>>

(* ensure_run_output_available: a fresh run is refused over managed outputs. *)
CheckOutputs(a) ==
    /\ pc[a] = "locked"
    /\ IF ~session[a].resume /\ (manifest # << >> \/ checkpoint # None)
       THEN Goto(a, "releasing") ELSE Goto(a, "available")
    /\ UNCHANGED <<registry, flock, disk, session, lost, crashes>>

(* resolve_run_identity: a resume needs a checkpoint, and reconciles the event
   log with it before the manifest is touched. *)
Identify(a) ==
    /\ pc[a] = "available"
    /\ IF session[a].resume /\ checkpoint = None
       THEN /\ Goto(a, "releasing")
            /\ UNCHANGED <<log, session>>
       ELSE LET step == IF session[a].resume THEN checkpoint ELSE 0
            IN  /\ log' = SubSeq(log, 1, step)
                /\ session' = [session EXCEPT ![a].start = step, ![a].step = step]
                /\ Goto(a, "identified")
    /\ UNCHANGED <<registry, flock, manifest, checkpoint, index, lost, crashes>>

Begin(a) ==
    /\ pc[a] = "identified"
    /\ manifest' = Begun(manifest, session[a].start)
    /\ Goto(a, "preparing")
    /\ UNCHANGED <<registry, flock, log, checkpoint, index, session, lost, crashes>>

(* Stages 1 to 6, two of them for all. *)
Prepare(a) ==
    /\ pc[a] = "preparing"
    /\ \/ /\ Active(manifest).stage = "initializing"
          /\ manifest' = Staged(manifest, "preparing", "stage_1_calculator")
       \/ /\ Active(manifest).stage = "stage_1_calculator"
          /\ manifest' = Staged(manifest, "preparing", "stage_6_network")
    /\ UNCHANGED <<pc, registry, flock, log, checkpoint, index, session, lost, crashes>>

(* execute_kmc_stage up to the first step; the reaction writer opens its index
   from the folders, whose statistics were rebuilt from the event log. *)
Fired(rows) == [r \in Range(rows) |-> Cardinality({i \in DOMAIN rows : rows[i] = r})]

StartKmc(a) ==
    /\ pc[a] = "preparing"
    /\ Active(manifest).stage = "stage_6_network"
    /\ manifest' = Staged(manifest, "running", "stage_7_kmc")
    /\ index' = Opened(Fired(log))
    /\ Goto(a, "running")
    /\ UNCHANGED <<registry, flock, log, checkpoint, session, lost, crashes>>

Recorded(file, r) == Counted(Registered(file, r, IF r \in DOMAIN file.entries THEN file.entries[r] ELSE 0),
                             r, (IF r \in DOMAIN file.entries THEN file.entries[r] ELSE 0) + 1)

(* One KMC step: its event is recorded, then the gauge is set, then a
   checkpoint may be due. *)
Step(a) ==
    /\ pc[a] = "running"
    /\ session[a].step < session[a].start + NSteps
    /\ \E r \in Reactions :
         LET step == session[a].step + 1
             recorded == Recorded(index, r)
             due == step % CheckpointEvery = 0
         IN  /\ log' = Append(log, r)
             /\ session' = [session EXCEPT ![a].step = step, ![a].gauge = step]
             /\ index' = IF due THEN Synced(recorded) ELSE recorded
             /\ checkpoint' = IF due THEN step ELSE checkpoint
    /\ UNCHANGED <<pc, registry, flock, manifest, lost, crashes>>

(* The last step was taken, or no event is left: KMCOutputManager.close writes
   the checkpoint if the session has moved past the last one, then the sinks
   are closed. *)
CloseWithoutCheckpoint(a) ==     \* mutant: only the periodic checkpoints are written
    /\ pc[a] = "running"
    /\ index' = Closed(index)
    /\ Goto(a, "closed")
    /\ UNCHANGED <<registry, flock, manifest, log, checkpoint, session, lost, crashes>>

Close(a) ==
    /\ pc[a] = "running"
    /\ checkpoint' = IF session[a].step > session[a].start THEN session[a].step ELSE checkpoint
    /\ index' = Closed(index)
    /\ Goto(a, "closed")
    /\ UNCHANGED <<registry, flock, manifest, log, session, lost, crashes>>

(* The summary and the diagnostics are written, then the end is published. *)
Publish(a) ==
    /\ pc[a] = "closed"
    /\ manifest' = Finish(manifest,
            IF session[a].step = session[a].start + NSteps THEN "complete" ELSE "stopped",
            session[a].step)
    /\ Goto(a, "finished")
    /\ UNCHANGED <<registry, flock, log, checkpoint, index, session, lost, crashes>>

Return(a) ==
    /\ pc[a] = "finished"
    /\ Goto(a, "releasing")
    /\ UNCHANGED <<registry, flock, disk, session, lost, crashes>>

----------------------------------------------------------------------------
(* Failures.  Before the manifest has a segment of this run they leave it
   alone; inside execute_kmc_stage they are recorded there and once more by
   run_from_config; a signal may also arrive after the end was published. *)
RefuseLate(a) ==
    /\ pc[a] \in {"available", "identified"}
    /\ Goto(a, "releasing")
    /\ UNCHANGED <<registry, flock, disk, session, lost, crashes>>

Raise(a) ==
    /\ pc[a] \in {"preparing", "running", "closed", "finished"}
    /\ \E status \in IF pc[a] = "finished" THEN {"interrupted"} ELSE {"failed", "interrupted"} :
         session' = [session EXCEPT ![a].status = status]
    /\ \/ pc[a] # "preparing" /\ Goto(a, "failing")
       \/ pc[a] \in {"preparing", "finished"} /\ Goto(a, "failed")
    /\ UNCHANGED <<registry, flock, disk, lost, crashes>>

(* _best_effort_failure, after the sinks are closed. *)
RecordInner(a) ==
    /\ pc[a] = "failing"
    /\ index' = IF index.open THEN Closed(index) ELSE index
    /\ manifest' = Failed(manifest, session[a].status, session[a].gauge)
    /\ Goto(a, "failed")
    /\ UNCHANGED <<registry, flock, log, checkpoint, session, lost, crashes>>

(* _record_started_run_failure. *)
RecordOuterNothing(a) ==     \* mutant: only execute_kmc_stage records its failures
    /\ pc[a] = "failed"
    /\ Goto(a, "releasing")
    /\ UNCHANGED <<registry, flock, disk, session, lost, crashes>>

RecordOuter(a) ==
    /\ pc[a] = "failed"
    /\ manifest' = Failed(manifest, session[a].status, session[a].gauge)
    /\ Goto(a, "releasing")
    /\ UNCHANGED <<registry, flock, log, checkpoint, index, session, lost, crashes>>

(* Either publication may itself fail, which is swallowed. *)
RecordInVain(a) ==
    /\ pc[a] \in {"failing", "failed"}
    /\ index' = IF pc[a] = "failing" /\ index.open THEN Closed(index) ELSE index
    /\ lost' = IF pc[a] = "failed" /\ Active(manifest).status \notin Terminal
               THEN lost \cup {Len(manifest)} ELSE lost
    /\ Goto(a, IF pc[a] = "failing" THEN "failed" ELSE "releasing")
    /\ UNCHANGED <<registry, flock, manifest, log, checkpoint, session, crashes>>

(* The end of configured_run_lock: the file first, then the registry. *)
Unlock(a) ==
    /\ pc[a] = "releasing"
    /\ flock' = Nobody
    /\ Goto(a, "released")
    /\ UNCHANGED <<registry, disk, session, lost, crashes>>

Deregister(a) ==
    /\ pc[a] = "released"
    /\ registry' = registry \ {ProcessOf[a]}
    /\ session' = [session EXCEPT ![a] = NoSession]
    /\ Goto(a, "idle")
    /\ UNCHANGED <<flock, disk, lost, crashes>>

(* A process dies with all its threads.  The system frees its lock; rows of
   the event log behind the checkpoint may be missing.  A process without the
   lock leaves nothing behind: it is as if it had given up. *)
Crash(p) ==
    LET dead == {a \in Actors : ProcessOf[a] = p}
        wrote == \E a \in dead : flock = a /\ pc[a] \in {"running", "closed", "failing"}
        open == \E a \in dead : flock = a /\ pc[a] \in {"preparing", "running", "closed", "failing", "failed"}
    IN  /\ crashes < MaxCrashes
        /\ flock \in dead
        /\ crashes' = crashes + 1
        /\ pc' = [a \in Actors |-> IF a \in dead THEN "idle" ELSE pc[a]]
        /\ registry' = registry \ {p}
        /\ flock' = Nobody
        /\ session' = [a \in Actors |-> IF a \in dead THEN NoSession ELSE session[a]]
        /\ IF wrote THEN /\ index' \in (IF index.open THEN Crashes(index) ELSE {index})
                         /\ log' \in {SubSeq(log, 1, k) : k \in (IF checkpoint = None THEN 0 ELSE checkpoint)..Len(log)}
                    ELSE UNCHANGED <<index, log>>
        /\ lost' = IF open /\ Active(manifest).status \notin Terminal
                   THEN lost \cup {Len(manifest)} ELSE lost
        /\ UNCHANGED <<manifest, checkpoint>>

----------------------------------------------------------------------------
Run(a) ==
    \/ Take(a) \/ CheckOutputs(a) \/ Identify(a) \/ Begin(a) \/ Prepare(a) \/ StartKmc(a)
    \/ Step(a) \/ Close(a) \/ Publish(a) \/ Return(a)
    \/ RecordInner(a) \/ RecordOuter(a) \/ Unlock(a) \/ Deregister(a) \/ EndProbe(a)

Next ==
    \/ \E a \in Actors : Run(a) \/ Enter(a) \/ Probe(a) \/ RefuseLate(a) \/ Raise(a) \/ RecordInVain(a)
    \/ \E p \in Processes : Crash(p)

Spec == Init /\ [][Next]_vars

----------------------------------------------------------------------------
(* At most one run is between taking the lock and giving it back, whichever
   threads and processes started, probed and died, and it holds the file
   lock. *)
OneRun ==
    /\ \A a, b \in Actors : pc[a] \in Inside /\ pc[b] \in Inside => a = b
    /\ \A a \in Actors : pc[a] \in Inside => flock = a

(* docs/outputs-and-analysis.md: "one fully closed segment for each initial or
   resumed invocation".  All segments but the last are closed; the last one is
   open only while its run holds the lock, or when its end could not be
   written.  A closed segment has its last step, and names the stage the run
   ended in even after the failure was recorded twice. *)
SegmentsClosed ==
    \A k \in DOMAIN manifest :
        LET s == manifest[k]
        IN  IF s.status \in Terminal
            THEN s.final >= s.initial /\ s.failedIn # "finished"
            ELSE k = Len(manifest) /\ (k \in lost \/ flock # Nobody)

(* Segments follow each other as the checkpoints say: none begins before the
   one it continues, one that continues a completed or stopped one begins at
   its last step, and one that continues a recorded failure may begin earlier
   than that failed but never later. *)
SegmentsChain ==
    \A k \in DOMAIN manifest :
        LET s == manifest[k]
            next == IF k = Len(manifest) THEN checkpoint ELSE manifest[k + 1].initial
        IN  next # None =>
              /\ k < Len(manifest) => s.initial <= next
              /\ s.status \in {"complete", "stopped"} /\ s.final > s.initial => next = s.final
              /\ s.status \in Terminal /\ k \notin lost => next <= s.final

(* Every event behind the checkpoint names a reaction that the synced rows of
   the index define; after a session that closed its files the index counts
   exactly the events of the log. *)
EventsDefined ==
    /\ checkpoint # None => \A i \in 1..checkpoint : log[i] \in DOMAIN index.disk
    /\ (\E a \in Actors : pc[a] \in {"closed", "finished"}) => index.disk = Fired(log)

===========================================================================
