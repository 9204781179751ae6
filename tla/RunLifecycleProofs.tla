------------------------ MODULE RunLifecycleProofs ------------------------
(* Theorems of RunLifecycle for any number of processes, threads, steps,
   invocations and crashes. *)
EXTENDS RunLifecycle, FiniteSetTheorems, TLAPS

Stages == {"initializing", "stage_1_calculator", "stage_6_network", "stage_7_kmc"}

(* Where a run has begun its segment, and where it has still to close it. *)
Started == {"preparing", "running", "closed", "finished", "failing", "failed"}
Unclosed == Started \ {"finished"}

SegmentType == [status : Terminal \cup {"preparing", "running"},
                stage : Stages \cup {"finished"},
                failedIn : Stages \cup {"none", "finished"},
                initial : Nat, durable : Int, final : Int]

SessionType == [resume : BOOLEAN, start : Nat, step : Nat, gauge : Int,
                status : Terminal \cup {"none"}]

Types ==
    /\ pc \in [Actors -> Inside \cup {"idle", "entered", "probing", "released"}]
    /\ manifest \in Seq(SegmentType)
    /\ session \in [Actors -> SessionType]
    /\ checkpoint \in Nat \cup {None}

(* Who is inside, or probes, holds the file lock. *)
LockHeld == \A a \in Actors : pc[a] \in Inside \cup {"probing"} => flock = a

(* The step a failure would quote is never before the session's first one. *)
SessionSound(a) ==
    /\ session[a].step >= session[a].start
    /\ session[a].gauge = None \/ session[a].gauge >= session[a].start
    /\ pc[a] \in {"entered", "locked", "available"} => session[a].gauge = None
    /\ pc[a] \in {"failing", "failed"} => session[a].status \in Terminal
    /\ pc[a] \in Started =>
         manifest # << >> /\ Active(manifest).initial = session[a].start

(* A segment may still be closed at any time, more than once. *)
SegmentSound(s) ==
    /\ s.durable >= s.initial
    /\ s.status \in Terminal => s.final >= s.initial
    /\ s.failedIn # "finished"
    /\ s.failedIn = "none" => s.stage \in Stages

ManifestSound(m) ==
    \A k \in DOMAIN m : SegmentSound(m[k]) /\ (k # Len(m) => m[k].status \in Terminal)

(* An open last segment has an owner, unless its end was lost. *)
OpenOwned ==
    manifest # << >> /\ Active(manifest).status \notin Terminal =>
        Len(manifest) \in lost \/ \E a \in Actors : pc[a] \in Unclosed

LifecycleInv ==
    /\ Types
    /\ LockHeld
    /\ \A a \in Actors : SessionSound(a)
    /\ ManifestSound(manifest)
    /\ OpenOwned

---------------------------------------------------------------------------
(* Replacing the last segment of a manifest by a sound one keeps it sound. *)
LEMMA LastReplaced ==
    ASSUME NEW m \in Seq(SegmentType), m # << >>, ManifestSound(m),
           NEW s \in SegmentType, SegmentSound(s)
    PROVE  LET n == [m EXCEPT ![Len(m)] = s]
           IN  /\ n \in Seq(SegmentType)
               /\ Len(n) = Len(m) /\ n # << >>
               /\ Active(n) = s
               /\ ManifestSound(n)
<1> DEFINE n == [m EXCEPT ![Len(m)] = s]
<1>1. Len(m) \in DOMAIN m /\ Len(m) \in Nat \ {0}
  OBVIOUS
<1>2. n \in Seq(SegmentType) /\ Len(n) = Len(m) /\ DOMAIN n = DOMAIN m
  OBVIOUS
<1>3. n # << >> /\ n[Len(n)] = s
  BY <1>1, <1>2
<1>4. \A k \in DOMAIN m : k # Len(m) => n[k] = m[k]
  OBVIOUS
<1> QED BY <1>1, <1>2, <1>3, <1>4 DEF Active, ManifestSound

(* The last segment of a manifest is a sound segment. *)
LEMMA ActiveSound ==
    ASSUME NEW m \in Seq(SegmentType), m # << >>, ManifestSound(m)
    PROVE  Active(m) \in SegmentType /\ SegmentSound(Active(m))
<1>1. Len(m) \in DOMAIN m
  OBVIOUS
<1> QED BY <1>1 DEF Active, ManifestSound

(* update_run_manifest keeps the first step of the segment. *)
LEMMA StagedSound ==
    ASSUME NEW m \in Seq(SegmentType), m # << >>, ManifestSound(m),
           NEW status \in {"preparing", "running"}, NEW stage \in Stages
    PROVE  /\ Staged(m, status, stage) \in Seq(SegmentType)
           /\ Staged(m, status, stage) # << >>
           /\ Len(Staged(m, status, stage)) = Len(m)
           /\ ManifestSound(Staged(m, status, stage))
           /\ Active(Staged(m, status, stage)).initial = Active(m).initial
<1> DEFINE s == [Active(m) EXCEPT !.status = status, !.stage = stage]
<1>1. Active(m) \in SegmentType /\ SegmentSound(Active(m))
  BY ActiveSound
<1>2. s \in SegmentType /\ SegmentSound(s) /\ s.initial = Active(m).initial
  BY <1>1 DEF SegmentType, SegmentSound, Terminal, Stages
<1>3. Staged(m, status, stage) = [m EXCEPT ![Len(m)] = s]
  BY DEF Staged, Active
<1> QED BY <1>2, <1>3, LastReplaced

(* finish_run_manifest closes the last segment, whether for the first time or
   again. *)
LEMMA FinishSound ==
    ASSUME NEW m \in Seq(SegmentType), m # << >>, ManifestSound(m),
           NEW status \in Terminal, NEW step \in Int, step >= Active(m).initial
    PROVE  /\ Finish(m, status, step) \in Seq(SegmentType)
           /\ Finish(m, status, step) # << >>
           /\ Len(Finish(m, status, step)) = Len(m)
           /\ ManifestSound(Finish(m, status, step))
           /\ Active(Finish(m, status, step)).initial = Active(m).initial
           /\ Active(Finish(m, status, step)).status \in Terminal
<1> DEFINE s == Ended(Active(m), status, step)
<1>1. Active(m) \in SegmentType /\ SegmentSound(Active(m))
  BY ActiveSound
<1>2. s \in SegmentType /\ s.initial = Active(m).initial /\ s.status \in Terminal
  BY <1>1 DEF Ended, SegmentType, Terminal, Stages
<1>3. SegmentSound(s)
  BY <1>1 DEF Ended, SegmentType, SegmentSound, Stages
<1>4. Finish(m, status, step) = [m EXCEPT ![Len(m)] = s]
  BY DEF Finish, Active
<1> HIDE DEF s
<1> QED BY <1>2, <1>3, <1>4, LastReplaced

(* begin_run_manifest closes a segment that was left open and appends one. *)
LEMMA BegunSound ==
    ASSUME NEW m \in Seq(SegmentType), ManifestSound(m), NEW step \in Nat
    PROVE  /\ Begun(m, step) \in Seq(SegmentType)
           /\ Begun(m, step) # << >>
           /\ ManifestSound(Begun(m, step))
           /\ Active(Begun(m, step)).initial = step
<1>1. NewSegment(step) \in SegmentType /\ SegmentSound(NewSegment(step))
      /\ NewSegment(step).initial = step
  BY DEF NewSegment, SegmentType, SegmentSound, Stages, Terminal, None
<1>2. CASE m = << >>
  <2>1. Begun(m, step) = <<NewSegment(step)>>
    BY <1>2 DEF Begun, BegunFresh
  <2> QED BY <1>1, <2>1 DEF ManifestSound, Active
<1>3. CASE m # << >>
  <2> DEFINE s == Superseded(Active(m))
             n == [m EXCEPT ![Len(m)] = s]
  <2>1. Active(m) \in SegmentType /\ SegmentSound(Active(m))
    BY <1>3, ActiveSound
  <2>2. s \in SegmentType /\ SegmentSound(s) /\ s.status \in Terminal
    BY <2>1 DEF Superseded, SegmentType, SegmentSound, Terminal, Stages
  <2>3. n \in Seq(SegmentType) /\ Len(n) = Len(m) /\ Active(n) = s /\ ManifestSound(n)
    BY <1>3, <2>2, LastReplaced
  <2>4. Begun(m, step) = Append(n, NewSegment(step))
    BY <1>3 DEF Begun, Active
  <2> HIDE DEF n
  <2> DEFINE b == Append(n, NewSegment(step))
  <2>5. b \in Seq(SegmentType) /\ Len(b) = Len(n) + 1 /\ b[Len(b)] = NewSegment(step)
    BY <1>1, <2>3
  <2>6. \A k \in DOMAIN b : k # Len(b) => k \in DOMAIN n /\ b[k] = n[k]
    BY <1>1, <2>3
  <2>7. \A k \in DOMAIN n : n[k].status \in Terminal
    BY <2>2, <2>3 DEF ManifestSound, Active
  <2>8. ManifestSound(b)
    BY <1>1, <2>3, <2>5, <2>6, <2>7 DEF ManifestSound
  <2> QED BY <1>1, <2>4, <2>5, <2>8 DEF Active
<1> QED BY <1>2, <1>3

---------------------------------------------------------------------------
(* The invariant holds before anything has started. *)
LEMMA InitInv == ASSUME Init PROVE LifecycleInv
<1> USE DEF Init
<1>1. Types
  BY DEF Types, NoSession, SessionType, NoFile, None
<1>2. LockHeld
  BY DEF LockHeld, Inside
<1>3. \A a \in Actors : SessionSound(a)
  BY DEF SessionSound, NoSession, None, Started
<1>4. ManifestSound(manifest) /\ OpenOwned
  BY DEF ManifestSound, OpenOwned
<1> QED BY <1>1, <1>2, <1>3, <1>4 DEF LifecycleInv

(* Whoever is inside is alone there. *)
LEMMA Alone ==
    ASSUME LockHeld, NEW a \in Actors, pc[a] \in Inside,
           NEW b \in Actors, pc[b] \in Inside \cup {"probing"}
    PROVE  a = b
  BY DEF LockHeld

(* Steps that move one actor and leave the manifest alone. *)
LEMMA MoveInv ==
    ASSUME LifecycleInv, NEW a \in Actors,
           NEW to \in Inside \cup {"idle", "entered", "probing", "released"},
           pc' = [pc EXCEPT ![a] = to],
           UNCHANGED manifest, checkpoint' \in Nat \cup {None},
           session' \in [Actors -> SessionType],
           \A b \in Actors : b # a => session'[b] = session[b],
           SessionSound(a)',
           LockHeld',
           lost \subseteq lost',
           pc[a] \in Unclosed /\ to \notin Unclosed =>
              Active(manifest).status \in Terminal \/ Len(manifest) \in lost'
    PROVE  LifecycleInv'
<1> USE DEF LifecycleInv
<1>1. Types'
  BY DEF Types
<1>2. \A b \in Actors : b # a => pc'[b] = pc[b]
  BY DEF Types
<1>3. ASSUME NEW b \in Actors PROVE SessionSound(b)'
  BY <1>2 DEF SessionSound
<1>4. ManifestSound(manifest)'
  OBVIOUS
<1>5. OpenOwned'
  <2> SUFFICES ASSUME manifest # << >>, Active(manifest).status \notin Terminal,
                      Len(manifest) \notin lost'
               PROVE  \E b \in Actors : pc'[b] \in Unclosed
    BY DEF OpenOwned
  <2>1. PICK b \in Actors : pc[b] \in Unclosed
    BY DEF OpenOwned
  <2>2. CASE b = a
    BY <2>1, <2>2 DEF Types
  <2>3. CASE b # a
    BY <1>2, <2>1, <2>3
  <2> QED BY <2>2, <2>3
<1> QED BY <1>1, <1>3, <1>4, <1>5

(* Steps of the run that owns the manifest: it stays sound, and afterwards the
   last segment is closed or its run has still to close it. *)
LEMMA WriteInv ==
    ASSUME LifecycleInv, NEW a \in Actors, pc[a] \in Inside,
           NEW to \in Inside, pc' = [pc EXCEPT ![a] = to],
           UNCHANGED <<checkpoint, session, flock, lost>>,
           manifest' \in Seq(SegmentType), manifest' # << >>, ManifestSound(manifest'),
           Active(manifest').initial = session[a].start,
           to \in Started \cup {"releasing"},
           to \in {"failing", "failed"} => session[a].status \in Terminal,
           to \in Unclosed \/ Active(manifest').status \in Terminal
    PROVE  LifecycleInv'
<1> USE DEF LifecycleInv
<1>1. Types'
  BY DEF Types
<1>2. \A b \in Actors : b # a => pc'[b] = pc[b]
  BY DEF Types
<1>3. pc'[a] = to
  BY DEF Types
<1>4. LockHeld'
  BY <1>2, <1>3 DEF LockHeld
<1>5. ASSUME NEW b \in Actors PROVE SessionSound(b)'
  <2>1. CASE b = a
    BY <1>3, <2>1 DEF SessionSound, Started
  <2>2. CASE b # a
    <3>1. pc[b] \notin Started
      BY <2>2, Alone DEF Started, Inside
    <3> QED BY <1>2, <2>2, <3>1 DEF SessionSound
  <2> QED BY <2>1, <2>2
<1>6. OpenOwned'
  BY <1>3 DEF OpenOwned
<1> QED BY <1>1, <1>4, <1>5, <1>6

---------------------------------------------------------------------------
(* One lemma per group of actions. *)
LEMMA LockInv ==
    ASSUME LifecycleInv, NEW a \in Actors,
           Enter(a) \/ Take(a) \/ Probe(a) \/ EndProbe(a) \/ Unlock(a) \/ Deregister(a)
    PROVE  LifecycleInv'
<1> USE DEF LifecycleInv, disk
<1>1. CASE Enter(a)
  <2>1. PICK resume \in BOOLEAN :
          session' = [session EXCEPT ![a] = [NoSession EXCEPT !.resume = resume]]
    BY <1>1 DEF Enter
  <2>2. [NoSession EXCEPT !.resume = resume] \in SessionType
    BY DEF NoSession, SessionType, None
  <2>3. session' \in [Actors -> SessionType] /\ \A b \in Actors : b # a => session'[b] = session[b]
    BY <2>1, <2>2 DEF Types
  <2>4. session'[a] = [NoSession EXCEPT !.resume = resume] /\ pc'[a] = "entered"
    BY <1>1, <2>1 DEF Enter, Goto, Types
  <2>5. SessionSound(a)'
    BY <2>4 DEF SessionSound, NoSession, Started
  <2>6. LockHeld'
    BY <1>1 DEF Enter, Goto, LockHeld, Types, Inside
  <2> QED BY <1>1, <2>3, <2>5, <2>6, MoveInv DEF Enter, Goto, Types, Unclosed, Started
<1>2. CASE Take(a)
  <2>1. PICK to \in {"locked", "released"} :
          pc' = [pc EXCEPT ![a] = to] /\ (to = "locked" => flock = Nobody /\ flock' = a)
                                     /\ (to = "released" => flock' = flock)
    BY <1>2 DEF Take, Goto
  <2>2. LockHeld'
    BY <2>1, LifecycleAssumption DEF LockHeld, Types, Inside
  <2>3. SessionSound(a)'
    BY <1>2, <2>1 DEF Take, SessionSound, Types, Started
  <2>4. to \in Inside \cup {"released"}
    BY <2>1 DEF Inside
  <2> QED BY <1>2, <2>1, <2>2, <2>3, <2>4, MoveInv DEF Take, Types, Unclosed, Started
<1>3. CASE Probe(a)
  <2>1. LockHeld'
    BY <1>3, LifecycleAssumption DEF Probe, Goto, LockHeld, Types, Inside
  <2>2. SessionSound(a)'
    BY <1>3 DEF Probe, Goto, SessionSound, Types, Started
  <2> QED BY <1>3, <2>1, <2>2, MoveInv DEF Probe, Goto, Types, Unclosed, Started
<1>4. CASE EndProbe(a)
  <2>1. LockHeld'
    BY <1>4, Alone DEF EndProbe, Goto, LockHeld, Types, Inside
  <2>2. SessionSound(a)'
    BY <1>4 DEF EndProbe, Goto, SessionSound, Types, Started
  <2> QED BY <1>4, <2>1, <2>2, MoveInv DEF EndProbe, Goto, Types, Unclosed, Started
<1>5. CASE Unlock(a)
  <2>1. LockHeld'
    BY <1>5, Alone DEF Unlock, Goto, LockHeld, Types, Inside
  <2>2. SessionSound(a)'
    BY <1>5 DEF Unlock, Goto, SessionSound, Types, Started
  <2> QED BY <1>5, <2>1, <2>2, MoveInv DEF Unlock, Goto, Types, Unclosed, Started
<1>6. CASE Deregister(a)
  <2>1. NoSession \in SessionType
    BY DEF NoSession, SessionType, None
  <2>2. LockHeld'
    BY <1>6 DEF Deregister, Goto, LockHeld, Types, Inside
  <2>3. SessionSound(a)'
    BY <1>6 DEF Deregister, Goto, SessionSound, Types, Started, NoSession
  <2>4. session' \in [Actors -> SessionType] /\ \A b \in Actors : b # a => session'[b] = session[b]
    BY <1>6, <2>1 DEF Deregister, Types
  <2> QED BY <1>6, <2>2, <2>3, <2>4, MoveInv DEF Deregister, Goto, Types, Unclosed, Started
<1> QED BY <1>1, <1>2, <1>3, <1>4, <1>5, <1>6

(* A step inside the lock to another place inside it keeps the lock. *)
LEMMA StayInside ==
    ASSUME LifecycleInv, NEW a \in Actors, pc[a] \in Inside, NEW to \in Inside,
           pc' = [pc EXCEPT ![a] = to], UNCHANGED flock
    PROVE  LockHeld'
  BY DEF LifecycleInv, LockHeld, Types

LEMMA StartInv ==
    ASSUME LifecycleInv, NEW a \in Actors,
           CheckOutputs(a) \/ Identify(a) \/ Return(a) \/ RefuseLate(a)
    PROVE  LifecycleInv'
<1> USE DEF LifecycleInv, disk
<1>1. CASE CheckOutputs(a) \/ Return(a) \/ RefuseLate(a)
  <2>1. PICK to \in {"releasing", "available"} :
          pc' = [pc EXCEPT ![a] = to] /\ (to = "available" => pc[a] = "locked")
    BY <1>1 DEF CheckOutputs, Return, RefuseLate, Goto
  <2>2. to \in Inside /\ pc[a] \in Inside /\ pc[a] \notin Unclosed
    BY <1>1, <2>1 DEF CheckOutputs, Return, RefuseLate, Inside, Unclosed, Started
  <2>3. UNCHANGED <<manifest, checkpoint, session, flock, lost>>
    BY <1>1 DEF CheckOutputs, Return, RefuseLate
  <2>4. LockHeld'
    BY <2>1, <2>2, <2>3, StayInside
  <2>5. SessionSound(a)'
    BY <2>1, <2>3 DEF SessionSound, Types, Started
  <2> QED BY <2>1, <2>2, <2>3, <2>4, <2>5, MoveInv DEF Types
<1>2. CASE Identify(a)
  <2>1. pc[a] = "available" /\ pc[a] \in Inside /\ pc[a] \notin Unclosed
    BY <1>2 DEF Identify, Inside, Unclosed, Started
  <2>2. UNCHANGED <<manifest, checkpoint, flock, lost>>
    BY <1>2 DEF Identify
  <2>3. CASE session[a].resume /\ checkpoint = None
    <3>1. pc' = [pc EXCEPT ![a] = "releasing"] /\ session' = session /\ "releasing" \in Inside
      BY <1>2, <2>3 DEF Identify, Goto, Inside
    <3>2. LockHeld'
      BY <2>1, <2>2, <3>1, StayInside
    <3>3. SessionSound(a)'
      BY <3>1 DEF SessionSound, Types, Started
    <3> QED BY <2>1, <2>2, <3>1, <3>2, <3>3, MoveInv DEF Types
  <2>4. CASE ~(session[a].resume /\ checkpoint = None)
    <3> DEFINE step == IF session[a].resume THEN checkpoint ELSE 0
               s == [session[a] EXCEPT !.start = step, !.step = step]
    <3>1. step \in Nat
      BY <2>4 DEF Types
    <3>2. pc' = [pc EXCEPT ![a] = "identified"] /\ "identified" \in Inside
      BY <1>2, <2>4 DEF Identify, Goto, Inside
    <3>3. session' = [session EXCEPT ![a].start = step, ![a].step = step]
      BY <1>2, <2>4 DEF Identify
    <3> HIDE DEF step
    <3>4. s \in SessionType /\ s.start = step /\ s.step = step /\ s.gauge = session[a].gauge
      BY <3>1 DEF Types, SessionType
    <3>5. session' = [session EXCEPT ![a] = s]
      BY <3>3 DEF Types, SessionType
    <3> HIDE DEF s
    <3>6. session' \in [Actors -> SessionType] /\ session'[a] = s
          /\ \A b \in Actors : b # a => session'[b] = session[b]
      BY <3>4, <3>5 DEF Types
    <3>7. LockHeld'
      BY <2>1, <2>2, <3>2, StayInside
    <3>8. SessionSound(a)'
      BY <2>1, <3>1, <3>2, <3>4, <3>6 DEF SessionSound, Types, Started
    <3> QED BY <2>1, <2>2, <3>2, <3>6, <3>7, <3>8, MoveInv DEF Types
  <2> QED BY <2>3, <2>4
<1> QED BY <1>1, <1>2

(* A session that moves on keeps its type. *)
LEMMA SessionMoves ==
    ASSUME NEW x \in SessionType, NEW n \in Nat
    PROVE  LET y == [x EXCEPT !.step = n, !.gauge = n]
           IN  y \in SessionType /\ y.start = x.start /\ y.step = n /\ y.gauge = n
<1> DEFINE w == [x EXCEPT !.step = n]
           y == [w EXCEPT !.gauge = n]
<1>1. w \in SessionType /\ w.start = x.start /\ w.step = n
  BY DEF SessionType
<1> HIDE DEF w
<1>2. n \in Int
  OBVIOUS
<1>3. y \in SessionType /\ y.start = w.start /\ y.step = w.step /\ y.gauge = n
  BY <1>1, <1>2 DEF SessionType
<1> QED BY <1>1, <1>3 DEF w

LEMMA RunningInv ==
    ASSUME LifecycleInv, NEW a \in Actors, Step(a) \/ Close(a)
    PROVE  LifecycleInv'
<1> USE DEF LifecycleInv
<1>1. pc[a] = "running" /\ pc[a] \in Inside /\ pc[a] \in Unclosed /\ UNCHANGED <<flock, manifest, lost>>
  BY DEF Step, Close, Inside, Unclosed, Started
<1>2. CASE Step(a)
  <2> DEFINE step == session[a].step + 1
             s == [session[a] EXCEPT !.step = step, !.gauge = step]
  <2>1. session[a] \in SessionType /\ step \in Nat
    BY DEF Types, SessionType
  <2>2. session' = [session EXCEPT ![a].step = step, ![a].gauge = step]
    BY <1>2 DEF Step
  <2>3. s \in SessionType /\ s.start = session[a].start /\ s.step = step /\ s.gauge = step
    BY <2>1, SessionMoves
  <2>4. session' = [session EXCEPT ![a] = s]
    BY <2>2 DEF Types, SessionType
  <2>5. checkpoint' \in {checkpoint, step}
    BY <1>2 DEF Step
  <2>6. pc' = [pc EXCEPT ![a] = "running"]
    BY <1>1, <1>2 DEF Step, Types
  <2>7. step > session[a].start
    BY <2>1 DEF SessionSound, SessionType
  <2> HIDE DEF s, step
  <2>8. session' \in [Actors -> SessionType] /\ session'[a] = s
        /\ \A b \in Actors : b # a => session'[b] = session[b]
    BY <2>3, <2>4 DEF Types
  <2>9. SessionSound(a)'
    BY <1>1, <2>1, <2>3, <2>6, <2>7, <2>8 DEF SessionSound, Types, Started, SessionType
  <2>10. LockHeld'
    BY <1>1, <2>6, StayInside
  <2> QED BY <1>1, <2>1, <2>5, <2>6, <2>8, <2>9, <2>10, MoveInv DEF Types
<1>3. CASE Close(a)
  <2>1. pc' = [pc EXCEPT ![a] = "closed"] /\ "closed" \in Inside \cap Unclosed /\ UNCHANGED session
    BY <1>3 DEF Close, Goto, Inside, Unclosed, Started
  <2>2. checkpoint' \in {checkpoint, session[a].step}
    BY <1>3 DEF Close
  <2>3. checkpoint' \in Nat \cup {None}
    BY <2>2 DEF Types, SessionType
  <2>4. SessionSound(a)'
    BY <1>1, <2>1 DEF SessionSound, Types, Started
  <2>5. LockHeld'
    BY <1>1, <2>1, StayInside
  <2> QED BY <1>1, <2>1, <2>3, <2>4, <2>5, MoveInv DEF Types
<1> QED BY <1>2, <1>3

LEMMA RaiseInv ==
    ASSUME LifecycleInv, NEW a \in Actors, Raise(a) \/ RecordInVain(a)
    PROVE  LifecycleInv'
<1> USE DEF LifecycleInv, disk
<1>1. CASE Raise(a)
  <2>1. pc[a] \in Started /\ pc[a] \in Inside /\ UNCHANGED <<flock, manifest, checkpoint, lost>>
    BY <1>1 DEF Raise, Inside, Started
  <2>2. PICK to \in {"failing", "failed"} : pc' = [pc EXCEPT ![a] = to]
    BY <1>1 DEF Raise, Goto
  <2>3. to \in Inside \cap Unclosed /\ to \in Started
    BY DEF Inside, Unclosed, Started
  <2>4. PICK status \in {"failed", "interrupted"} : session' = [session EXCEPT ![a].status = status]
    BY <1>1 DEF Raise
  <2> DEFINE s == [session[a] EXCEPT !.status = status]
  <2>5. s \in SessionType /\ s.start = session[a].start /\ s.step = session[a].step
        /\ s.gauge = session[a].gauge /\ s.status \in Terminal
    BY DEF Types, SessionType, Terminal
  <2>6. session' = [session EXCEPT ![a] = s]
    BY <2>4 DEF Types, SessionType
  <2> HIDE DEF s
  <2>7. session' \in [Actors -> SessionType] /\ session'[a] = s
        /\ \A b \in Actors : b # a => session'[b] = session[b]
    BY <2>5, <2>6 DEF Types
  <2>8. SessionSound(a)'
    BY <2>1, <2>2, <2>5, <2>7 DEF SessionSound, Types
  <2>9. LockHeld'
    BY <2>1, <2>2, <2>3, StayInside
  <2> QED BY <2>1, <2>2, <2>3, <2>7, <2>8, <2>9, MoveInv DEF Types
<1>2. CASE RecordInVain(a)
  <2>1. pc[a] \in {"failing", "failed"} /\ pc[a] \in Inside
        /\ UNCHANGED <<flock, manifest, checkpoint, session>> /\ lost \subseteq lost'
    BY <1>2 DEF RecordInVain, Inside
  <2>2. PICK to \in {"failed", "releasing"} :
          /\ pc' = [pc EXCEPT ![a] = to]
          /\ to = "failed" <=> pc[a] = "failing"
    BY <1>2 DEF RecordInVain, Goto
  <2>3. to = "releasing" => Active(manifest).status \in Terminal \/ Len(manifest) \in lost'
    BY <1>2, <2>1, <2>2 DEF RecordInVain
  <2>4. to \in Inside /\ (to # "releasing" => to \in Unclosed)
    BY DEF Inside, Unclosed, Started
  <2>5. SessionSound(a)'
    BY <2>1, <2>2 DEF SessionSound, Types, Started
  <2>6. LockHeld'
    BY <2>1, <2>2, <2>4, StayInside
  <2> QED BY <2>1, <2>2, <2>3, <2>4, <2>5, <2>6, MoveInv DEF Types
<1> QED BY <1>1, <1>2

LEMMA ManifestInv ==
    ASSUME LifecycleInv, NEW a \in Actors,
           Begin(a) \/ Prepare(a) \/ StartKmc(a) \/ Publish(a) \/ RecordInner(a) \/ RecordOuter(a)
    PROVE  LifecycleInv'
<1> USE DEF LifecycleInv
<1>1. /\ UNCHANGED <<checkpoint, session, flock, lost>>
      /\ pc[a] \in Inside
      /\ session[a] \in SessionType /\ SessionSound(a)
      /\ manifest \in Seq(SegmentType) /\ ManifestSound(manifest)
  BY DEF Begin, Prepare, StartKmc, Publish, RecordInner, RecordOuter, Inside, Types
<1>2. CASE Begin(a)
  <2>1. pc' = [pc EXCEPT ![a] = "preparing"] /\ manifest' = Begun(manifest, session[a].start)
    BY <1>2 DEF Begin, Goto
  <2>2. session[a].start \in Nat
    BY <1>1 DEF SessionType
  <2>3. /\ manifest' \in Seq(SegmentType) /\ manifest' # << >> /\ ManifestSound(manifest')
        /\ Active(manifest').initial = session[a].start
    BY <1>1, <2>1, <2>2, BegunSound
  <2> QED BY <1>1, <2>1, <2>3, WriteInv DEF Inside, Started, Unclosed
<1>3. CASE Prepare(a) \/ StartKmc(a)
  <2>1. pc[a] = "preparing"
    BY <1>3 DEF Prepare, StartKmc
  <2>2. PICK to \in {"preparing", "running"}, status \in {"preparing", "running"}, stage \in Stages :
          pc' = [pc EXCEPT ![a] = to] /\ manifest' = Staged(manifest, status, stage)
    <3>1. CASE Prepare(a)
      <4>1. pc' = [pc EXCEPT ![a] = "preparing"]
        BY <2>1, <3>1 DEF Prepare, Types
      <4>2. \E stage \in {"stage_1_calculator", "stage_6_network"} :
              manifest' = Staged(manifest, "preparing", stage)
        BY <3>1 DEF Prepare
      <4> QED BY <4>1, <4>2 DEF Stages
    <3>2. CASE StartKmc(a)
      BY <3>2 DEF StartKmc, Goto, Stages
    <3> QED BY <1>3, <3>1, <3>2
  <2>3. manifest # << >> /\ Active(manifest).initial = session[a].start
    BY <1>1, <2>1 DEF SessionSound, Started
  <2>4. /\ manifest' \in Seq(SegmentType) /\ manifest' # << >> /\ ManifestSound(manifest')
        /\ Active(manifest').initial = session[a].start
    BY <1>1, <2>2, <2>3, StagedSound
  <2> QED BY <1>1, <2>2, <2>4, WriteInv DEF Inside, Started, Unclosed
<1>4. CASE Publish(a) \/ RecordInner(a) \/ RecordOuter(a)
  <2>1. pc[a] \in {"closed", "failing", "failed"}
    BY <1>4 DEF Publish, RecordInner, RecordOuter
  <2>2. manifest # << >> /\ Active(manifest).initial = session[a].start
    BY <1>1, <2>1 DEF SessionSound, Started
  <2>3. Active(manifest) \in SegmentType /\ SegmentSound(Active(manifest))
    BY <1>1, <2>2, ActiveSound
  <2> DEFINE quoted == IF session[a].gauge = None THEN Active(manifest).durable ELSE session[a].gauge
  <2>4. quoted \in Int /\ quoted >= Active(manifest).initial
    BY <1>1, <2>2, <2>3 DEF SessionType, SegmentType, SegmentSound, SessionSound
  <2>5. session[a].step \in Int /\ session[a].step >= Active(manifest).initial
    BY <1>1, <2>2 DEF SessionType, SessionSound
  <2>6. PICK to \in {"finished", "failed", "releasing"}, status \in Terminal, step \in Int :
          /\ pc' = [pc EXCEPT ![a] = to]
          /\ to = "failed" => session[a].status \in Terminal
          /\ step >= Active(manifest).initial
          /\ manifest' = Finish(manifest, status, step)
    <3>1. CASE Publish(a)
      <4>1. pc' = [pc EXCEPT ![a] = "finished"]
        BY <3>1 DEF Publish, Goto
      <4>2. \E status \in {"complete", "stopped"} : manifest' = Finish(manifest, status, session[a].step)
        BY <3>1 DEF Publish
      <4> QED BY <2>5, <4>1, <4>2 DEF Terminal
    <3>2. CASE RecordInner(a) \/ RecordOuter(a)
      <4>1. session[a].status \in Terminal
        BY <1>1, <3>2 DEF RecordInner, RecordOuter, SessionSound
      <4>2. \E to \in {"failed", "releasing"} : pc' = [pc EXCEPT ![a] = to]
        BY <3>2 DEF RecordInner, RecordOuter, Goto
      <4>3. manifest' = Finish(manifest, session[a].status, quoted)
        BY <2>2, <3>2 DEF RecordInner, RecordOuter, Failed
      <4> HIDE DEF quoted
      <4> QED BY <2>4, <4>1, <4>2, <4>3
    <3> QED BY <1>4, <3>1, <3>2
  <2>7. /\ manifest' \in Seq(SegmentType) /\ manifest' # << >> /\ ManifestSound(manifest')
        /\ Active(manifest').initial = session[a].start /\ Active(manifest').status \in Terminal
    BY <1>1, <2>2, <2>6, FinishSound
  <2>8. to \in Inside /\ to \in Started \cup {"releasing"}
    BY DEF Inside, Started
  <2> QED BY <1>1, <2>6, <2>7, <2>8, WriteInv
<1> QED BY <1>2, <1>3, <1>4

LEMMA CrashInv ==
    ASSUME LifecycleInv, NEW p \in Processes, Crash(p)
    PROVE  LifecycleInv'
<1> USE DEF LifecycleInv
<1> DEFINE dead == {a \in Actors : ProcessOf[a] = p}
<1>1. /\ flock \in dead /\ flock' = Nobody
      /\ pc' = [a \in Actors |-> IF a \in dead THEN "idle" ELSE pc[a]]
      /\ session' = [a \in Actors |-> IF a \in dead THEN NoSession ELSE session[a]]
      /\ UNCHANGED <<manifest, checkpoint>>
  BY DEF Crash
<1>2. (\E a \in dead : flock = a /\ pc[a] \in {"preparing", "running", "closed", "failing", "failed"})
        /\ Active(manifest).status \notin Terminal
      => Len(manifest) \in lost'
  BY DEF Crash
<1>3. lost \subseteq lost'
  BY DEF Crash
<1> HIDE DEF dead
<1>4. Types'
  <2>1. NoSession \in SessionType
    BY DEF NoSession, SessionType, None
  <2> QED BY <1>1, <2>1 DEF Types
<1>5. \A a \in Actors : pc'[a] \notin Inside \cup {"probing"}
  BY <1>1 DEF LockHeld, Inside
<1>6. LockHeld'
  BY <1>5 DEF LockHeld
<1>7. ASSUME NEW a \in Actors PROVE SessionSound(a)'
  <2>1. pc'[a] \notin {"failing", "failed", "locked", "available"} /\ pc'[a] \notin Started
    BY <1>5 DEF Inside, Started
  <2> QED BY <1>1, <2>1 DEF SessionSound, NoSession
<1>8. OpenOwned'
  <2> SUFFICES ASSUME manifest # << >>, Active(manifest).status \notin Terminal
               PROVE  Len(manifest) \in lost'
    BY <1>1 DEF OpenOwned
  <2>1. CASE Len(manifest) \in lost
    BY <1>3, <2>1
  <2>2. CASE \E a \in Actors : pc[a] \in Unclosed
    <3>1. PICK a \in Actors : pc[a] \in Unclosed
      BY <2>2
    <3>2. pc[a] \in {"preparing", "running", "closed", "failing", "failed"} /\ pc[a] \in Inside
      BY <3>1 DEF Unclosed, Started, Inside
    <3>3. flock = a
      BY <3>2 DEF LockHeld
    <3> QED BY <1>1, <1>2, <3>2, <3>3
  <2> QED BY <2>1, <2>2 DEF OpenOwned
<1> QED BY <1>1, <1>4, <1>6, <1>7, <1>8

---------------------------------------------------------------------------
(* The invariant holds in every reachable state, however many processes start,
   probe, fail and die. *)
THEOREM LifecycleInvariance == Spec => []LifecycleInv
<1>1. Init => LifecycleInv
  BY InitInv
<1>2. LifecycleInv /\ [Next]_vars => LifecycleInv'
  <2> SUFFICES ASSUME LifecycleInv, [Next]_vars PROVE LifecycleInv'
    OBVIOUS
  <2>1. ASSUME NEW a \in Actors, Run(a) \/ Enter(a) \/ Probe(a) \/ RefuseLate(a) \/ Raise(a) \/ RecordInVain(a)
        PROVE  LifecycleInv'
    BY <2>1, LockInv, StartInv, RunningInv, RaiseInv, ManifestInv DEF Run
  <2>2. ASSUME NEW p \in Processes, Crash(p) PROVE LifecycleInv'
    BY <2>2, CrashInv
  <2>3. CASE UNCHANGED vars
    BY <2>3 DEF vars, disk, LifecycleInv, Types, LockHeld, SessionSound, OpenOwned
  <2> QED BY <2>1, <2>2, <2>3 DEF Next
<1> QED BY <1>1, <1>2, PTL DEF Spec

(* One run at a time: the file lock alone keeps runs of one directory apart,
   threads of one process included. *)
THEOREM OneRunHolds == Spec => []OneRun
<1>1. LifecycleInv => OneRun
  BY Alone DEF LifecycleInv, OneRun, LockHeld
<1> QED BY <1>1, LifecycleInvariance, PTL

(* Every invocation ends up closed in the manifest, unless its end could not
   be written. *)
THEOREM SegmentsClosedHolds == Spec => []SegmentsClosed
<1>1. LifecycleInv => SegmentsClosed
  <2> SUFFICES ASSUME LifecycleInv, NEW k \in DOMAIN manifest,
                      manifest[k].status \notin Terminal
               PROVE  k = Len(manifest) /\ (k \in lost \/ flock # Nobody)
    BY DEF SegmentsClosed, LifecycleInv, ManifestSound, SegmentSound
  <2>1. k = Len(manifest)
    BY DEF LifecycleInv, ManifestSound
  <2>2. manifest # << >> /\ Active(manifest).status \notin Terminal
    BY <2>1 DEF Active, LifecycleInv, Types
  <2>3. CASE \E a \in Actors : pc[a] \in Unclosed
    <3>1. PICK a \in Actors : pc[a] \in Unclosed
      BY <2>3
    <3>2. flock = a
      BY <3>1 DEF LifecycleInv, LockHeld, Unclosed, Started, Inside
    <3> QED BY <2>1, <3>2, LifecycleAssumption
  <2> QED BY <2>1, <2>2, <2>3 DEF LifecycleInv, OpenOwned
<1> QED BY <1>1, LifecycleInvariance, PTL

---------------------------------------------------------------------------
(* The argument for SegmentsChain: what a run inside the lock knows of the
   checkpoint, and how a segment is linked to the step the next one begins
   at, or would begin at. *)
RunSound(a) ==
    /\ pc[a] \in {"available", "identified"} /\ ~session[a].resume =>
         manifest = << >> /\ checkpoint = None
    /\ pc[a] = "identified" /\ session[a].resume => session[a].start = checkpoint
    /\ pc[a] \in Started \cup {"identified"} =>
         /\ checkpoint = None \/ (session[a].start <= checkpoint /\ checkpoint <= session[a].step)
         /\ session[a].gauge = IF session[a].step = session[a].start THEN None ELSE session[a].step
    /\ pc[a] \in {"preparing", "running", "closed"} => Active(manifest).status \notin Terminal
    /\ pc[a] \in {"closed", "finished"} /\ session[a].step > session[a].start =>
         checkpoint = session[a].step
    /\ pc[a] \in {"failing", "failed"} => session[a].status \in {"failed", "interrupted"}

Linked(s, next, excused) ==
    next # None =>
        /\ s.status \in {"complete", "stopped"} /\ s.final > s.initial => next = s.final
        /\ s.status \in Terminal /\ ~excused => next <= s.final

Chain(m, next, excused) ==
    \A k \in DOMAIN m :
        IF k = Len(m) THEN Linked(m[k], next, k \in excused)
        ELSE m[k].initial <= m[k + 1].initial /\ Linked(m[k], m[k + 1].initial, k \in excused)

ChainInv ==
    /\ LifecycleInv
    /\ \A a \in Actors : RunSound(a)
    /\ Chain(manifest, checkpoint, lost)
    /\ manifest # << >> /\ checkpoint # None => Active(manifest).initial <= checkpoint

(* A segment whose end is excused stays linked, and one that is linked without
   an excuse is linked with one. *)
LEMMA ChainExcused ==
    ASSUME NEW m, NEW next, NEW excused, NEW more, excused \subseteq more, Chain(m, next, excused)
    PROVE  Chain(m, next, more)
  BY DEF Chain, Linked

(* Replacing the last segment by one with the same first step only concerns
   its own link. *)
LEMMA ChainReplaced ==
    ASSUME NEW m \in Seq(SegmentType), m # << >>, NEW next, NEW before, NEW excused,
           Chain(m, before, excused),
           NEW s \in SegmentType, s.initial = Active(m).initial,
           Linked(s, next, Len(m) \in excused)
    PROVE  Chain([m EXCEPT ![Len(m)] = s], next, excused)
<1> DEFINE n == [m EXCEPT ![Len(m)] = s]
<1>1. Len(m) \in DOMAIN m /\ Len(m) \in Nat \ {0} /\ DOMAIN m = 1..Len(m)
  OBVIOUS
<1>2. Len(n) = Len(m) /\ DOMAIN n = DOMAIN m
  OBVIOUS
<1>3. \A k \in DOMAIN m : n[k].initial = m[k].initial
  BY <1>1 DEF Active
<1>4. \A k \in DOMAIN m : k # Len(m) => n[k] = m[k] /\ k + 1 \in DOMAIN m
  BY <1>1
<1>5. n[Len(m)] = s
  BY <1>1
<1> HIDE DEF n
<1>6. Chain(n, next, excused)
  <2> SUFFICES ASSUME NEW k \in DOMAIN m
               PROVE  IF k = Len(m) THEN Linked(n[k], next, k \in excused)
                      ELSE n[k].initial <= n[k + 1].initial
                           /\ Linked(n[k], n[k + 1].initial, k \in excused)
    BY <1>2 DEF Chain
  <2>1. CASE k = Len(m)
    BY <1>5, <2>1
  <2>2. CASE k # Len(m)
    BY <1>3, <1>4, <2>2 DEF Chain
  <2> QED BY <2>1, <2>2
<1> QED BY <1>6 DEF n

(* Whoever is not the one run inside the lock has nothing to know. *)
LEMMA OthersSound ==
    ASSUME LifecycleInv', NEW a \in Actors, pc'[a] \in Inside \cup {"probing"},
           NEW b \in Actors, b # a
    PROVE  RunSound(b)'
<1>1. pc'[b] \notin Inside
  BY DEF LifecycleInv, LockHeld
<1> QED BY <1>1 DEF RunSound, Inside, Started

(* Steps that leave the manifest, the checkpoint and the session of whoever is
   inside alone. *)
LEMMA ChainFrame ==
    ASSUME ChainInv, UNCHANGED <<manifest, checkpoint>>, lost \subseteq lost',
           LifecycleInv', \A a \in Actors : RunSound(a)'
    PROVE  ChainInv'
  BY ChainExcused DEF ChainInv

LEMMA ChainLock ==
    ASSUME ChainInv, LifecycleInv', NEW a \in Actors,
           Enter(a) \/ Take(a) \/ Probe(a) \/ EndProbe(a) \/ Unlock(a) \/ Deregister(a)
    PROVE  ChainInv'
<1>1. UNCHANGED <<manifest, checkpoint, lost>>
  BY DEF Enter, Take, Probe, EndProbe, Unlock, Deregister, disk
<1>2. pc'[a] \in {"entered", "locked", "released", "probing", "idle"}
  BY DEF Enter, Take, Probe, EndProbe, Unlock, Deregister, Goto, ChainInv, LifecycleInv, Types
<1>3. \A b \in Actors : b # a => pc'[b] = pc[b] /\ session'[b] = session[b]
  BY DEF Enter, Take, Probe, EndProbe, Unlock, Deregister, Goto, ChainInv, LifecycleInv, Types
<1>4. RunSound(a)'
  BY <1>2 DEF RunSound, Started
<1>5. ASSUME NEW b \in Actors, b # a PROVE RunSound(b)'
  BY <1>1, <1>3, <1>5 DEF ChainInv, RunSound
<1> QED BY <1>1, <1>4, <1>5, ChainFrame

LEMMA ChainMove ==
    ASSUME ChainInv, LifecycleInv', NEW a \in Actors,
           CheckOutputs(a) \/ Identify(a) \/ Return(a) \/ RefuseLate(a)
             \/ Raise(a) \/ RecordInVain(a)
    PROVE  ChainInv'
<1> USE DEF ChainInv, LifecycleInv, Types, disk
<1>1. UNCHANGED <<manifest, checkpoint>> /\ lost \subseteq lost'
  BY DEF CheckOutputs, Identify, Return, RefuseLate, Raise, RecordInVain
<1>2. pc'[a] \in Inside
  BY DEF CheckOutputs, Identify, Return, RefuseLate, Raise, RecordInVain, Goto, Inside
<1>3. RunSound(a)'
  <2>1. CASE CheckOutputs(a)
    BY <2>1 DEF CheckOutputs, Goto, RunSound, Started
  <2>2. CASE Identify(a)
    <3>1. CASE session[a].resume /\ checkpoint = None
      BY <2>2, <3>1 DEF Identify, Goto, RunSound, Started
    <3>2. CASE ~(session[a].resume /\ checkpoint = None)
      <4> DEFINE step == IF session[a].resume THEN checkpoint ELSE 0
      <4>1. pc[a] = "available" /\ pc'[a] = "identified"
        BY <2>2, <3>2 DEF Identify, Goto
      <4>2. session' = [session EXCEPT ![a].start = step, ![a].step = step]
        BY <2>2, <3>2 DEF Identify
      <4>3. step \in Nat /\ (session[a].resume => checkpoint = step)
            /\ (~session[a].resume => manifest = << >> /\ checkpoint = None)
        BY <3>2, <4>1 DEF RunSound
      <4> HIDE DEF step
      <4>4. session'[a].start = step /\ session'[a].step = step
            /\ session'[a].gauge = session[a].gauge /\ session'[a].resume = session[a].resume
        BY <4>2 DEF SessionType
      <4>5. session[a].gauge = None
        BY <4>1 DEF SessionSound
      <4>6. session[a].resume => session'[a].start = checkpoint'
        BY <1>1, <4>3, <4>4
      <4>7. checkpoint' = None \/ (session'[a].start <= checkpoint' /\ checkpoint' <= session'[a].step)
        BY <1>1, <4>3, <4>4
      <4>8. session'[a].resume => session[a].resume
        BY <4>4
      <4>9. pc'[a] \notin Started /\ pc'[a] \notin {"preparing", "running", "closed", "finished"}
        BY <4>1 DEF Started
      <4>10. ~session'[a].resume => manifest' = << >> /\ checkpoint' = None
        BY <1>1, <4>3, <4>4
      <4> QED BY <4>1, <4>4, <4>5, <4>6, <4>7, <4>8, <4>9, <4>10 DEF RunSound
    <3> QED BY <3>1, <3>2
  <2>3. CASE Return(a) \/ RefuseLate(a)
    BY <2>3 DEF Return, RefuseLate, Goto, RunSound, Started
  <2>4. CASE Raise(a)
    <3>1. pc[a] \in Started /\ pc'[a] \in {"failing", "failed"}
      BY <2>4 DEF Raise, Goto, Started
    <3>2. session'[a].start = session[a].start /\ session'[a].step = session[a].step
          /\ session'[a].gauge = session[a].gauge
      BY <2>4 DEF Raise, SessionType
    <3>3. session'[a].status \in {"failed", "interrupted"}
      BY <2>4 DEF Raise, SessionType
    <3> QED BY <1>1, <3>1, <3>2, <3>3 DEF RunSound, Started
  <2>5. CASE RecordInVain(a)
    BY <1>1, <2>5 DEF RecordInVain, Goto, RunSound, Started
  <2> QED BY <2>1, <2>2, <2>3, <2>4, <2>5
<1>4. ASSUME NEW b \in Actors, b # a PROVE RunSound(b)'
  BY <1>2, <1>4, OthersSound
<1> QED BY <1>1, <1>3, <1>4, ChainFrame

LEMMA ChainRunning ==
    ASSUME ChainInv, LifecycleInv', NEW a \in Actors, Step(a) \/ Close(a)
    PROVE  ChainInv'
<1> USE DEF ChainInv, LifecycleInv, Types
<1>1. UNCHANGED <<manifest, lost>> /\ pc[a] = "running"
  BY DEF Step, Close
<1>2. manifest # << >> /\ Active(manifest).initial = session[a].start
  BY <1>1 DEF SessionSound, Started
<1>3. Active(manifest).status \notin Terminal
  BY <1>1 DEF RunSound
<1>4. session[a].start \in Nat /\ session[a].step \in Nat /\ session[a].start <= session[a].step
      /\ (checkpoint = None \/ (session[a].start <= checkpoint /\ checkpoint <= session[a].step))
  BY <1>1 DEF RunSound, SessionSound, SessionType, Started
<1>5. pc'[a] \in Inside
  BY DEF Step, Close, Goto, Inside
<1>6. /\ checkpoint' = None \/ (session[a].start <= checkpoint' /\ checkpoint' <= session'[a].step)
      /\ RunSound(a)'
  <2>1. CASE Step(a)
    <3> DEFINE step == session[a].step + 1
    <3>1. session' = [session EXCEPT ![a].step = step, ![a].gauge = step]
      BY <2>1 DEF Step
    <3>2. checkpoint' \in {checkpoint, step} /\ pc' = pc
      BY <2>1 DEF Step
    <3>3. step \in Nat /\ step > session[a].step
      BY <1>4
    <3> HIDE DEF step
    <3>4. session'[a].start = session[a].start /\ session'[a].step = step /\ session'[a].gauge = step
      BY <3>1 DEF SessionType
    <3>5. checkpoint' = None \/ (session[a].start <= checkpoint' /\ checkpoint' <= step)
      BY <1>4, <3>2, <3>3
    <3>6. step # session[a].start
      BY <1>4, <3>3
    <3>7. RunSound(a)'
      BY <1>1, <1>3, <3>2, <3>4, <3>5, <3>6 DEF RunSound
    <3> QED BY <3>4, <3>5, <3>7
  <2>2. CASE Close(a)
    <3>1. pc'[a] = "closed" /\ session' = session
          /\ checkpoint' = IF session[a].step > session[a].start THEN session[a].step ELSE checkpoint
      BY <2>2 DEF Close, Goto
    <3>2. checkpoint' = None \/ (session[a].start <= checkpoint' /\ checkpoint' <= session[a].step)
      BY <1>4, <3>1
    <3>3. session[a].gauge = IF session[a].step = session[a].start THEN None ELSE session[a].step
      BY <1>1 DEF RunSound, Started
    <3>4. RunSound(a)'
      BY <1>1, <1>3, <3>1, <3>2, <3>3 DEF RunSound
    <3> QED BY <3>1, <3>2, <3>4
  <2> QED BY <2>1, <2>2
<1>7. ASSUME NEW b \in Actors, b # a PROVE RunSound(b)'
  BY <1>5, <1>7, OthersSound
<1>8. Chain(manifest, checkpoint', lost)
  <2>1. Active(manifest).status \notin {"complete", "stopped"}
    BY <1>3 DEF Terminal
  <2> QED BY <1>3, <2>1 DEF Chain, Linked, Active
<1> QED BY <1>1, <1>2, <1>6, <1>7, <1>8

LEMMA ChainStaged ==
    ASSUME ChainInv, LifecycleInv', NEW a \in Actors, Prepare(a) \/ StartKmc(a)
    PROVE  ChainInv'
<1> USE DEF ChainInv, LifecycleInv, Types
<1>1. UNCHANGED <<checkpoint, session, lost>> /\ pc[a] = "preparing" /\ pc'[a] \in {"preparing", "running"}
  BY DEF Prepare, StartKmc, Goto
<1>2. manifest # << >>
  BY <1>1 DEF SessionSound, Started
<1>3. PICK status \in {"preparing", "running"}, stage \in Stages :
        manifest' = Staged(manifest, status, stage)
  BY DEF Prepare, StartKmc, Stages
<1> DEFINE s == [Active(manifest) EXCEPT !.status = status, !.stage = stage]
<1>4. Active(manifest) \in SegmentType
  BY <1>2, ActiveSound
<1>5. s \in SegmentType /\ s.initial = Active(manifest).initial /\ s.status = status
  BY <1>4 DEF SegmentType, Stages, Terminal
<1>6. manifest' = [manifest EXCEPT ![Len(manifest)] = s]
  BY <1>3 DEF Staged, Active
<1> HIDE DEF s
<1>7. Linked(s, checkpoint, Len(manifest) \in lost)
  BY <1>5 DEF Linked, Terminal
<1>8. Chain(manifest', checkpoint, lost)
  BY <1>2, <1>5, <1>6, <1>7, ChainReplaced
<1>9. Active(manifest') = s /\ manifest' # << >>
  BY <1>2, <1>6 DEF Active
<1>10. RunSound(a)'
  BY <1>1, <1>5, <1>9 DEF RunSound, Started, Terminal
<1>11. ASSUME NEW b \in Actors, b # a PROVE RunSound(b)'
  BY <1>1, <1>11, OthersSound DEF Inside
<1> QED BY <1>1, <1>2, <1>5, <1>8, <1>9, <1>10, <1>11

LEMMA ChainFinish ==
    ASSUME ChainInv, LifecycleInv', NEW a \in Actors,
           Publish(a) \/ RecordInner(a) \/ RecordOuter(a)
    PROVE  ChainInv'
<1> USE DEF ChainInv, LifecycleInv, Types
<1>1. UNCHANGED <<checkpoint, session, lost>> /\ pc[a] \in {"closed", "failing", "failed"}
      /\ pc'[a] \in {"finished", "failed", "releasing"} /\ (pc'[a] = "finished" => pc[a] = "closed")
      /\ (pc'[a] = "failed" => pc[a] = "failing")
  BY DEF Publish, RecordInner, RecordOuter, Goto
<1>2. manifest # << >> /\ Active(manifest).initial = session[a].start
  BY <1>1 DEF SessionSound, Started
<1>3. Active(manifest) \in SegmentType /\ SegmentSound(Active(manifest))
  BY <1>2, ActiveSound
<1>4. /\ session[a].start \in Nat /\ session[a].step \in Nat
      /\ checkpoint = None \/ (session[a].start <= checkpoint /\ checkpoint <= session[a].step)
      /\ session[a].gauge = IF session[a].step = session[a].start THEN None ELSE session[a].step
  BY <1>1 DEF RunSound, SessionType, Started
<1> DEFINE quoted == IF session[a].gauge = None THEN Active(manifest).durable ELSE session[a].gauge
<1>5. quoted \in Int /\ (checkpoint # None => checkpoint <= quoted)
  BY <1>2, <1>3, <1>4 DEF SegmentType, SegmentSound, None
<1>6. PICK status \in Terminal, step \in Int :
        /\ manifest' = Finish(manifest, status, step)
        /\ checkpoint # None => checkpoint <= step
        /\ checkpoint # None /\ status \in {"complete", "stopped"} /\ step > session[a].start
             => checkpoint = step
  <2>1. CASE Publish(a)
    <3>1. \E status \in {"complete", "stopped"} : manifest' = Finish(manifest, status, session[a].step)
      BY <2>1 DEF Publish
    <3>2. session[a].step > session[a].start => checkpoint = session[a].step
      BY <2>1 DEF Publish, RunSound
    <3> QED BY <1>4, <3>1, <3>2 DEF Terminal
  <2>2. CASE RecordInner(a) \/ RecordOuter(a)
    <3>1. session[a].status \in {"failed", "interrupted"}
      BY <2>2 DEF RecordInner, RecordOuter, RunSound
    <3>2. manifest' = Finish(manifest, session[a].status, quoted)
      BY <1>2, <2>2 DEF RecordInner, RecordOuter, Failed
    <3> HIDE DEF quoted
    <3> QED BY <1>5, <3>1, <3>2 DEF Terminal
  <2> QED BY <2>1, <2>2
<1> DEFINE s == Ended(Active(manifest), status, step)
<1>7. s \in SegmentType /\ s.initial = Active(manifest).initial /\ s.status = status /\ s.final = step
  BY <1>3 DEF Ended, SegmentType, Terminal, Stages
<1>8. manifest' = [manifest EXCEPT ![Len(manifest)] = s]
  BY <1>6 DEF Finish, Active
<1> HIDE DEF s, quoted
<1>9. Linked(s, checkpoint, Len(manifest) \in lost)
  BY <1>2, <1>6, <1>7 DEF Linked
<1>10. Chain(manifest', checkpoint, lost)
  BY <1>2, <1>7, <1>8, <1>9, ChainReplaced
<1>11. Active(manifest') = s /\ manifest' # << >>
  BY <1>2, <1>8 DEF Active
<1>12. RunSound(a)'
  BY <1>1, <1>4 DEF RunSound, Started
<1>13. ASSUME NEW b \in Actors, b # a PROVE RunSound(b)'
  BY <1>1, <1>13, OthersSound DEF Inside
<1> QED BY <1>1, <1>2, <1>7, <1>10, <1>11, <1>12, <1>13

LEMMA ChainBegin ==
    ASSUME ChainInv, LifecycleInv', NEW a \in Actors, Begin(a)
    PROVE  ChainInv'
<1> USE DEF ChainInv, LifecycleInv, Types
<1>1. UNCHANGED <<checkpoint, session, lost>> /\ pc[a] = "identified" /\ pc'[a] = "preparing"
      /\ manifest' = Begun(manifest, session[a].start)
  BY DEF Begin, Goto
<1> DEFINE start == session[a].start
           new == NewSegment(start)
<1>2. start \in Nat /\ (checkpoint = None \/ checkpoint = start) /\ (manifest # << >> => checkpoint = start)
  <2>1. start \in Nat /\ session[a].resume \in BOOLEAN
    BY DEF SessionType
  <2>2. session[a].resume => checkpoint = start
    BY <1>1 DEF RunSound
  <2>3. ~session[a].resume => manifest = << >> /\ checkpoint = None
    BY <1>1 DEF RunSound
  <2> QED BY <2>1, <2>2, <2>3
<1>3. new.initial = start /\ new.status = "preparing"
  BY DEF NewSegment
<1>4. new \in SegmentType
  BY <1>2 DEF NewSegment, SegmentType, Terminal, Stages, None
<1> HIDE DEF start, new
<1>5. Chain(manifest', checkpoint, lost) /\ manifest' # << >> /\ Active(manifest') = new
  <2>1. CASE manifest = << >>
    <3>1. manifest' = <<new>>
      BY <1>1, <2>1 DEF Begun, BegunFresh, start, new
    <3> QED BY <1>3, <3>1 DEF Chain, Linked, Active, Terminal
  <2>2. CASE manifest # << >>
    <3> DEFINE s == Superseded(Active(manifest))
               n == [manifest EXCEPT ![Len(manifest)] = s]
    <3>1. Active(manifest) \in SegmentType /\ SegmentSound(Active(manifest))
      BY <2>2, ActiveSound
    <3>2. s \in SegmentType /\ s.initial = Active(manifest).initial
      BY <3>1 DEF Superseded, SegmentType, Terminal, Stages
    <3>3. Linked(Active(manifest), checkpoint, Len(manifest) \in lost)
      BY <2>2 DEF Chain, Active
    <3>4. Linked(s, checkpoint, Len(manifest) \in lost)
      <4>1. CASE Active(manifest).status \in Terminal
        BY <3>3, <4>1 DEF Superseded
      <4>2. CASE Active(manifest).status \notin Terminal
        <5>1. \A b \in Actors : pc[b] \notin Unclosed
          BY <1>1, Alone DEF Unclosed, Started, Inside
        <5>2. Len(manifest) \in lost
          BY <2>2, <4>2, <5>1 DEF OpenOwned
        <5>3. s.status = "interrupted"
          BY <3>1, <4>2 DEF Superseded, SegmentType
        <5> QED BY <5>2, <5>3 DEF Linked
      <4> QED BY <4>1, <4>2
    <3>5. Chain(n, checkpoint, lost)
      BY <2>2, <3>2, <3>4, ChainReplaced
    <3>6. manifest' = Append(n, new)
      BY <1>1, <2>2 DEF Begun, Active, start, new
    <3>7. n \in Seq(SegmentType) /\ Len(n) = Len(manifest) /\ Len(n) \in Nat \ {0} /\ n[Len(n)] = s
      BY <2>2, <3>2
    <3> HIDE DEF s, n
    <3>8. Len(manifest') = Len(n) + 1 /\ DOMAIN n = 1..Len(n)
          /\ manifest'[Len(n) + 1] = new /\ \A k \in 1..Len(n) : manifest'[k] = n[k]
      BY <1>4, <3>6, <3>7
    <3>9. s.initial <= start
      BY <1>2, <2>2, <3>2 DEF None
    <3>10. ASSUME NEW k \in 1..(Len(n) + 1)
           PROVE  IF k = Len(n) + 1 THEN Linked(manifest'[k], checkpoint, k \in lost)
                  ELSE manifest'[k].initial <= manifest'[k + 1].initial
                       /\ Linked(manifest'[k], manifest'[k + 1].initial, k \in lost)
      <4>1. CASE k = Len(n) + 1
        BY <1>3, <3>8, <4>1 DEF Linked, Terminal
      <4>2. CASE k = Len(n)
        <5>4. Len(n) \in 1..Len(n) /\ Len(n) # Len(n) + 1
          BY <3>7
        <5>5. manifest'[Len(n)] = s
          BY <3>7, <3>8, <5>4
        <5>6. manifest'[Len(n) + 1].initial = start
          BY <1>3, <3>8
        <5>1. manifest'[k] = s /\ manifest'[k + 1].initial = start /\ k # Len(n) + 1 /\ k \in DOMAIN n
          BY ONLY <3>8, <4>2, <5>4, <5>5, <5>6
        <5>2. Linked(s, start, k \in lost)
          BY <1>2, <2>2, <3>5, <3>7, <4>2, <5>1 DEF Chain
        <5> QED BY <3>9, <5>1, <5>2
      <4>3. CASE k < Len(n)
        <5>1. k + 1 \in 1..Len(n) /\ k # Len(n) /\ k # Len(n) + 1 /\ k \in 1..Len(n)
          BY <3>7, <4>3
        <5> QED BY <3>5, <3>8, <5>1 DEF Chain
      <4> QED BY <3>7, <4>1, <4>2, <4>3
    <3>11. DOMAIN manifest' = 1..(Len(n) + 1)
      BY <1>4, <3>6, <3>7
    <3>12. Chain(manifest', checkpoint, lost)
      BY <3>8, <3>10, <3>11 DEF Chain
    <3> QED BY <3>7, <3>8, <3>12 DEF Active
  <2> QED BY <2>1, <2>2
<1>6. /\ session[a].gauge = IF session[a].step = session[a].start THEN None ELSE session[a].step
      /\ checkpoint = None \/ (session[a].start <= checkpoint /\ checkpoint <= session[a].step)
  BY <1>1 DEF RunSound
<1>7. RunSound(a)'
  BY <1>1, <1>3, <1>5, <1>6 DEF RunSound, Terminal
<1>8. ASSUME NEW b \in Actors, b # a PROVE RunSound(b)'
  BY <1>1, <1>8, OthersSound DEF Inside
<1> QED BY <1>1, <1>2, <1>3, <1>5, <1>7, <1>8

LEMMA ChainCrash ==
    ASSUME ChainInv, LifecycleInv', NEW p \in Processes, Crash(p)
    PROVE  ChainInv'
<1> USE DEF ChainInv, LifecycleInv
<1>1. UNCHANGED <<manifest, checkpoint>> /\ lost \subseteq lost' /\ flock' = Nobody
  BY DEF Crash
<1>2. \A a \in Actors : pc'[a] \notin Inside
  BY <1>1, LifecycleAssumption DEF LockHeld
<1>3. \A a \in Actors : RunSound(a)'
  BY <1>2 DEF RunSound, Started, Inside
<1> QED BY <1>1, <1>3, ChainFrame

(* The manifest, the checkpoints and what the run inside the lock knows of them
   fit together. *)
LEMMA ChainInvariance == Spec => []ChainInv
<1>1. Init => ChainInv
  <2> SUFFICES ASSUME Init PROVE ChainInv
    OBVIOUS
  <2>1. \A a \in Actors : RunSound(a)
    BY DEF Init, RunSound, NoSession, Started
  <2>2. manifest = << >> /\ Chain(manifest, checkpoint, lost)
    BY DEF Init, Chain
  <2> QED BY <2>1, <2>2, InitInv DEF ChainInv
<1>2. ChainInv /\ LifecycleInv' /\ [Next]_vars => ChainInv'
  <2> SUFFICES ASSUME ChainInv, LifecycleInv', [Next]_vars PROVE ChainInv'
    OBVIOUS
  <2>1. ASSUME NEW a \in Actors, Run(a) \/ Enter(a) \/ Probe(a) \/ RefuseLate(a) \/ Raise(a) \/ RecordInVain(a)
        PROVE  ChainInv'
    BY <2>1, ChainLock, ChainMove, ChainRunning, ChainStaged, ChainFinish, ChainBegin DEF Run
  <2>2. ASSUME NEW p \in Processes, Crash(p) PROVE ChainInv'
    BY <2>2, ChainCrash
  <2>3. CASE UNCHANGED vars
    <3>1. \A a \in Actors : RunSound(a)'
      BY <2>3 DEF vars, disk, ChainInv, RunSound
    <3> QED BY <2>3, <3>1, ChainFrame DEF vars, disk
  <2> QED BY <2>1, <2>2, <2>3 DEF Next
<1> QED BY <1>1, <1>2, LifecycleInvariance, PTL DEF Spec

(* A segment that continues another begins where the checkpoints say, whatever
   way that one ended, and a recorded failure never quotes a step before the
   checkpoint. *)
THEOREM SegmentsChainHolds == Spec => []SegmentsChain
<1>1. ChainInv => SegmentsChain
  <2> SUFFICES ASSUME ChainInv, NEW k \in DOMAIN manifest
               PROVE  LET s == manifest[k]
                          next == IF k = Len(manifest) THEN checkpoint ELSE manifest[k + 1].initial
                      IN  next # None =>
                            /\ k < Len(manifest) => s.initial <= next
                            /\ s.status \in {"complete", "stopped"} /\ s.final > s.initial => next = s.final
                            /\ s.status \in Terminal /\ k \notin lost => next <= s.final
    BY DEF SegmentsChain
  <2> QED BY DEF ChainInv, Chain, Linked
<1> QED BY <1>1, ChainInvariance, PTL
---------------------------------------------------------------------------
(* The argument for EventsDefined: the memory of the index writer counts the
   events of the log, its file and the rows not yet synced name their
   reactions, and the log is as long as the run inside the lock believes. *)
RowType == [kind : {"reaction", "stats"}, reaction : Reactions, count : Nat]

About(rows) == {rows[i].reaction : i \in DOMAIN rows}

FileFields(file) ==
    /\ file = [open |-> file.open, entries |-> file.entries, stale |-> file.stale,
               disk |-> file.disk, rows |-> file.rows]
    /\ file.open \in BOOLEAN
    /\ file.rows \in Seq(RowType)

(* What the writer of an open file knows, when events are the log's. *)
WriterSound(file, events) ==
    /\ file.entries = Fired(events)
    /\ IsFiniteSet(file.stale) /\ file.stale \subseteq Range(events)
    /\ Range(events) \subseteq DOMAIN file.disk \cup About(file.rows)

IndexInv ==
    /\ log \in Seq(Reactions)
    /\ FileFields(index)
    /\ index.open => WriterSound(index, log) /\ \E a \in Actors : pc[a] \in {"running", "failing"}
    /\ \A a \in Actors :
         /\ pc[a] = "running" => index.open
         /\ pc[a] \in {"closed", "finished"} => ~index.open /\ index.disk = Fired(log)
         /\ pc[a] \in {"identified", "preparing", "running"} => Len(log) = session[a].step
    /\ checkpoint # None =>
         /\ checkpoint <= Len(log)
         /\ \A i \in 1..checkpoint : log[i] \in DOMAIN index.disk

LEMMA FoldedDomain ==
    ASSUME NEW d, NEW rows
    PROVE  DOMAIN Folded(d, rows) = DOMAIN d \cup About(rows)
  BY DEF Folded, About

(* Counting the events of a log, ... *)
LEMMA FiredTyped ==
    ASSUME NEW events \in Seq(Reactions)
    PROVE  /\ DOMAIN Fired(events) = Range(events)
           /\ Range(events) \subseteq Reactions
           /\ \A x \in Range(events) : Fired(events)[x] \in Nat
<1>1. DOMAIN events = 1..Len(events) /\ Len(events) \in Nat
  OBVIOUS
<1>2. Range(events) \subseteq Reactions
  BY <1>1 DEF Range
<1>3. ASSUME NEW x \in Range(events) PROVE Fired(events)[x] \in Nat
  <2>1. IsFiniteSet(1..Len(events))
    BY <1>1, FS_Interval
  <2>2. IsFiniteSet({i \in DOMAIN events : events[i] = x})
    BY <1>1, <2>1, FS_Subset
  <2>3. Cardinality({i \in DOMAIN events : events[i] = x}) \in Nat
    BY <2>2, FS_CardinalityType
  <2> QED BY <2>3 DEF Fired
<1> QED BY <1>2, <1>3 DEF Fired

(* ... and one more. *)
LEMMA FiredAppended ==
    ASSUME NEW events \in Seq(Reactions), NEW r \in Reactions
    PROVE  /\ Range(Append(events, r)) = Range(events) \cup {r}
           /\ Fired(Append(events, r)) =
                Updated(Fired(events), r, (IF r \in Range(events) THEN Fired(events)[r] ELSE 0) + 1)
<1> DEFINE n == Len(events) + 1
           more == Append(events, r)
           At(x) == {i \in DOMAIN events : events[i] = x}
           Then(x) == {i \in DOMAIN more : more[i] = x}
<1>1. DOMAIN events = 1..Len(events) /\ Len(events) \in Nat
  OBVIOUS
<1>2. DOMAIN more = 1..n /\ more[n] = r /\ \A i \in 1..Len(events) : more[i] = events[i]
  OBVIOUS
<1> HIDE DEF more
<1>3. 1..n = (1..Len(events)) \cup {n} /\ n \notin 1..Len(events)
  BY <1>1
<1>4. Range(more) = Range(events) \cup {r}
  BY <1>1, <1>2, <1>3 DEF Range
<1>5. \A x : IsFiniteSet(At(x)) /\ n \notin At(x)
  <2>1. IsFiniteSet(1..Len(events))
    BY <1>1, FS_Interval
  <2> QED BY <1>1, <1>3, <2>1, FS_Subset
<1>6. \A x : Then(x) = IF x = r THEN At(x) \cup {n} ELSE At(x)
  BY <1>1, <1>2, <1>3
<1>7. \A x : Cardinality(At(x)) \in Nat /\ Cardinality(At(x) \cup {n}) = Cardinality(At(x)) + 1
  <2> TAKE x
  <2>1. IsFiniteSet(At(x)) /\ n \notin At(x)
    BY <1>5
  <2> HIDE DEF At, n
  <2> QED BY <2>1, FS_AddElement, FS_CardinalityType
<1>8. \A x : x \notin Range(events) => Cardinality(At(x)) = 0
  <2>1. \A x : x \notin Range(events) => At(x) = {}
    BY DEF Range
  <2> QED BY <2>1, FS_EmptySet
<1>9. Fired(events) = [x \in Range(events) |-> Cardinality(At(x))]
  BY DEF Fired
<1>10. Fired(more) = [x \in Range(more) |-> Cardinality(Then(x))]
  BY DEF Fired
<1> HIDE DEF At, Then
<1>11. Fired(more) = Updated(Fired(events), r, (IF r \in Range(events) THEN Fired(events)[r] ELSE 0) + 1)
  BY <1>4, <1>6, <1>7, <1>8, <1>9, <1>10 DEF Updated
<1> QED BY <1>4, <1>11 DEF more

(* Recording an event keeps the writer sound. *)
LEMMA RecordedSound ==
    ASSUME NEW file, FileFields(file), NEW events \in Seq(Reactions), WriterSound(file, events),
           NEW r \in Reactions
    PROVE  LET next == Recorded(file, r)
           IN  /\ FileFields(next) /\ next.open = file.open /\ next.disk = file.disk
               /\ WriterSound(next, Append(events, r))
<1> DEFINE n == IF r \in DOMAIN file.entries THEN file.entries[r] ELSE 0
           reg == Registered(file, r, n)
           next == Recorded(file, r)
<1>1. /\ DOMAIN file.entries = Range(events) /\ n \in Nat
      /\ Range(Append(events, r)) = Range(events) \cup {r}
      /\ Fired(Append(events, r)) = Updated(file.entries, r, n + 1)
  BY FiredTyped, FiredAppended DEF WriterSound
<1>2. /\ FileFields(reg) /\ reg.open = file.open /\ reg.disk = file.disk /\ reg.stale = file.stale
      /\ Updated(reg.entries, r, n + 1) = Updated(file.entries, r, n + 1)
      /\ Range(events) \cup {r} \subseteq DOMAIN reg.disk \cup About(reg.rows)
  <2>1. CASE r \in DOMAIN file.entries
    <3>1. reg = file
      BY <2>1 DEF Registered
    <3> QED BY <1>1, <2>1, <3>1 DEF WriterSound
  <2>2. CASE r \notin DOMAIN file.entries
    <3> DEFINE row == [kind |-> "reaction", reaction |-> r, count |-> n]
    <3>1. reg = [file EXCEPT !.entries = Updated(@, r, n), !.rows = Append(@, row)]
      BY <2>2 DEF Registered
    <3>2. row \in RowType /\ row.reaction = r
      BY <1>1 DEF RowType
    <3> HIDE DEF row, n
    <3>3. /\ reg = [open |-> file.open, entries |-> Updated(file.entries, r, n),
                    stale |-> file.stale, disk |-> file.disk, rows |-> Append(file.rows, row)]
      BY <3>1 DEF FileFields
    <3>4. Append(file.rows, row) \in Seq(RowType)
      BY <3>2 DEF FileFields
    <3>5. About(Append(file.rows, row)) = About(file.rows) \cup {r}
      <4>1. /\ DOMAIN file.rows = 1..Len(file.rows) /\ Len(file.rows) \in Nat
            /\ DOMAIN Append(file.rows, row) = 1..(Len(file.rows) + 1)
            /\ Append(file.rows, row)[Len(file.rows) + 1] = row
            /\ \A i \in 1..Len(file.rows) : Append(file.rows, row)[i] = file.rows[i]
        BY <3>2 DEF FileFields
      <4>2. 1..(Len(file.rows) + 1) = (1..Len(file.rows)) \cup {Len(file.rows) + 1}
        BY <4>1
      <4> QED BY <3>2, <4>1, <4>2 DEF About
    <3>6. Updated(Updated(file.entries, r, n), r, n + 1) = Updated(file.entries, r, n + 1)
      BY DEF Updated
    <3> HIDE DEF reg
    <3>7. FileFields(reg)
      BY <3>3, <3>4 DEF FileFields
    <3> QED BY <3>3, <3>5, <3>6, <3>7 DEF WriterSound
  <2> QED BY <2>1, <2>2
<1>3. next = [reg EXCEPT !.entries = Updated(@, r, n + 1), !.stale = @ \cup {r}]
  BY DEF Recorded, Counted
<1> HIDE DEF reg, n, next
<1>4. next = [open |-> reg.open, entries |-> Updated(file.entries, r, n + 1),
              stale |-> file.stale \cup {r}, disk |-> reg.disk, rows |-> reg.rows]
  BY <1>2, <1>3 DEF FileFields
<1>5. IsFiniteSet(file.stale \cup {r})
  BY FS_AddElement DEF WriterSound
<1>6. FileFields(next)
  BY <1>2, <1>4 DEF FileFields
<1>7. WriterSound(next, Append(events, r))
  BY <1>1, <1>2, <1>4, <1>5 DEF WriterSound
<1> QED BY <1>2, <1>4, <1>6, <1>7 DEF next
(* The rows a sync appends. *)
LEMMA StatsTyped ==
    ASSUME NEW file, NEW events \in Seq(Reactions), WriterSound(file, events)
    PROVE  StatsRows(file) \in Seq(RowType)
<1> DEFINE n == Cardinality(file.stale)
           sorted == SetToSeq(file.stale)
<1>1. IsFiniteSet(file.stale) /\ n \in Nat
  BY FS_CardinalityType DEF WriterSound
<1>2. PICK f \in Bijection(1..n, file.stale) : TRUE
  BY <1>1, FS_CardinalityType, FS_NatBijection DEF ExistsBijection
<1>3. sorted \in [1..n -> file.stale]
  BY <1>2 DEF SetToSeq, IsInjective, Bijection, Injection, Surjection
<1>4. file.stale \subseteq DOMAIN file.entries /\ file.stale \subseteq Reactions
      /\ \A r \in file.stale : file.entries[r] \in Nat
  BY FiredTyped DEF WriterSound
<1> HIDE DEF sorted, n
<1>5. StatsRows(file) = [i \in 1..n |-> [kind |-> "stats", reaction |-> sorted[i],
                                        count |-> file.entries[sorted[i]]]]
  BY <1>3 DEF StatsRows, sorted
<1> QED BY <1>1, <1>3, <1>4, <1>5 DEF RowType
(* A sync defines every reaction of the log in the file. *)
LEMMA SyncedSound ==
    ASSUME NEW file, FileFields(file), NEW events \in Seq(Reactions), WriterSound(file, events)
    PROVE  LET next == Synced(file)
           IN  /\ FileFields(next) /\ next.open = file.open
               /\ WriterSound(next, events)
               /\ Range(events) \subseteq DOMAIN next.disk
<1> DEFINE all == file.rows \o StatsRows(file)
           next == Synced(file)
<1>1. all \in Seq(RowType) /\ About(file.rows) \subseteq About(all)
  <2> DEFINE a == file.rows
             b == StatsRows(file)
  <2>1. a \in Seq(RowType) /\ b \in Seq(RowType)
    BY StatsTyped DEF FileFields
  <2> HIDE DEF a, b
  <2>2. a \o b \in Seq(RowType) /\ DOMAIN a \subseteq DOMAIN (a \o b)
        /\ \A i \in DOMAIN a : (a \o b)[i] = a[i]
    BY <2>1
  <2> QED BY <2>2 DEF About, a, b
<1>2. next = [file EXCEPT !.disk = Folded(@, all), !.rows = << >>, !.stale = {}]
  BY DEF Synced
<1> HIDE DEF all, next
<1>3. next = [open |-> file.open, entries |-> file.entries, stale |-> {},
              disk |-> Folded(file.disk, all), rows |-> << >>]
  BY <1>2 DEF FileFields
<1>4. FileFields(next)
  BY <1>3 DEF FileFields
<1>5. Range(events) \subseteq DOMAIN next.disk
  <2>1. DOMAIN next.disk = DOMAIN file.disk \cup About(all)
    <3>1. next.disk = Folded(file.disk, all)
      BY <1>3
    <3> QED BY <3>1, FoldedDomain
  <2> QED BY <1>1, <2>1 DEF WriterSound
<1>6. IsFiniteSet({})
  BY FS_EmptySet
<1> QED BY <1>3, <1>4, <1>5, <1>6 DEF next, WriterSound

(* Closing the files writes what the writer knows. *)
LEMMA ClosedSound ==
    ASSUME NEW file, FileFields(file), NEW events \in Seq(Reactions), WriterSound(file, events)
    PROVE  LET next == Closed(file)
           IN  FileFields(next) /\ ~next.open /\ next.disk = Fired(events)
<1> DEFINE next == Closed(file)
<1>1. next = [file EXCEPT !.open = FALSE, !.disk = file.entries, !.rows = << >>, !.stale = {}]
  BY DEF Closed
<1> HIDE DEF next
<1>2. next = [open |-> FALSE, entries |-> file.entries, stale |-> {},
              disk |-> file.entries, rows |-> << >>]
  BY <1>1 DEF FileFields
<1> QED BY <1>2 DEF next, FileFields, WriterSound

(* A crash loses no definition that was synced. *)
LEMMA CrashedSound ==
    ASSUME NEW file, FileFields(file), NEW next \in Crashes(file)
    PROVE  FileFields(next) /\ ~next.open /\ DOMAIN file.disk \subseteq DOMAIN next.disk
<1>1. PICK k \in 0..Len(file.rows) :
        next = [NoFile EXCEPT !.disk = Folded(file.disk, SubSeq(file.rows, 1, k))]
  BY DEF Crashes
<1> DEFINE d == Folded(file.disk, SubSeq(file.rows, 1, k))
<1>2. DOMAIN file.disk \subseteq DOMAIN d
  BY FoldedDomain
<1> HIDE DEF d
<1>3. next = [open |-> FALSE, entries |-> NoEntries, stale |-> {}, disk |-> d, rows |-> << >>]
  BY <1>1 DEF NoFile, d
<1> QED BY <1>2, <1>3 DEF FileFields

---------------------------------------------------------------------------
(* Steps that leave the log, its index and the checkpoint alone, and bring
   nobody to a place where more is known. *)
LEMMA IndexFrame ==
    ASSUME IndexInv, UNCHANGED <<log, index, checkpoint>>,
           \A a \in Actors :
             /\ pc'[a] = "running" => pc[a] = "running"
             /\ pc'[a] \in {"closed", "finished"} => pc[a] \in {"closed", "finished"}
             /\ pc'[a] \in {"identified", "preparing", "running"} =>
                  pc[a] \in {"identified", "preparing", "running"} /\ session'[a].step = session[a].step
             /\ pc[a] \in {"running", "failing"} => pc'[a] \in {"running", "failing"}
    PROVE  IndexInv'
  BY DEF IndexInv

LEMMA IndexMoves ==
    ASSUME LifecycleInv, IndexInv, NEW a \in Actors,
           \/ Enter(a) \/ Take(a) \/ Probe(a) \/ EndProbe(a) \/ CheckOutputs(a) \/ Begin(a)
           \/ Prepare(a) \/ Publish(a) \/ Return(a) \/ RefuseLate(a) \/ Raise(a)
           \/ RecordOuter(a) \/ Unlock(a) \/ Deregister(a)
    PROVE  IndexInv'
<1> USE DEF LifecycleInv, Types
<1>1. UNCHANGED <<log, index, checkpoint>>
  BY DEF Enter, Take, Probe, EndProbe, CheckOutputs, Begin, Prepare, Publish, Return, RefuseLate,
         Raise, RecordOuter, Unlock, Deregister, disk
<1>2. \A b \in Actors : b # a => pc'[b] = pc[b] /\ session'[b] = session[b]
  BY DEF Enter, Take, Probe, EndProbe, CheckOutputs, Begin, Prepare, Publish, Return, RefuseLate,
         Raise, RecordOuter, Unlock, Deregister, Goto
<1>3. /\ pc'[a] = "running" => pc[a] = "running"
      /\ pc'[a] \in {"closed", "finished"} => pc[a] \in {"closed", "finished"}
      /\ pc'[a] \in {"identified", "preparing", "running"} =>
           pc[a] \in {"identified", "preparing", "running"} /\ session'[a].step = session[a].step
      /\ pc[a] \in {"running", "failing"} => pc'[a] \in {"running", "failing"}
  BY DEF Enter, Take, Probe, EndProbe, CheckOutputs, Begin, Prepare, Publish, Return, RefuseLate,
         Raise, RecordOuter, Unlock, Deregister, Goto
<1> QED BY <1>1, <1>2, <1>3, IndexFrame

(* While one run is inside, nobody else is at a place where anything is known. *)
LEMMA OthersOut ==
    ASSUME LifecycleInv, NEW a \in Actors, pc[a] \in Inside, NEW b \in Actors, b # a
    PROVE  pc[b] \notin Inside
  BY Alone DEF LifecycleInv
(* resolve_run_identity cuts the log to the checkpoint it resumes from. *)
LEMMA IndexIdentify ==
    ASSUME ChainInv, IndexInv, NEW a \in Actors, Identify(a)
    PROVE  IndexInv'
<1> USE DEF ChainInv, LifecycleInv, Types
<1>1. /\ pc[a] = "available" /\ pc[a] \in Inside /\ UNCHANGED <<index, checkpoint>>
      /\ \A b \in Actors : b # a => pc'[b] = pc[b] /\ session'[b] = session[b]
      /\ pc'[a] \in {"releasing", "identified"}
  BY DEF Identify, Goto, Inside
<1>2. CASE session[a].resume /\ checkpoint = None
  <2>1. UNCHANGED log /\ pc'[a] = "releasing"
    BY <1>1, <1>2 DEF Identify, Goto
  <2> QED BY <1>1, <2>1, IndexFrame
<1>3. CASE ~(session[a].resume /\ checkpoint = None)
  <2> DEFINE step == IF session[a].resume THEN checkpoint ELSE 0
  <2>1. log' = SubSeq(log, 1, step) /\ session'[a].step = step /\ pc'[a] = "identified"
    BY <1>1, <1>3 DEF Identify, Goto, SessionType
  <2>2. step \in Nat /\ (checkpoint # None => step = checkpoint)
    BY <1>1, <1>3 DEF RunSound
  <2>3. step <= Len(log)
    <3>1. Len(log) \in Nat /\ (checkpoint # None => checkpoint <= Len(log))
      BY DEF IndexInv
    <3>2. checkpoint = None => step = 0
      BY <1>3
    <3> HIDE DEF step
    <3> QED BY <2>2, <3>1, <3>2
  <2> HIDE DEF step
  <2>4. /\ log' \in Seq(Reactions) /\ Len(log') = step
        /\ \A i \in 1..step : log'[i] = log[i]
    BY <2>1, <2>2, <2>3 DEF IndexInv
  <2>5. ASSUME NEW b \in Actors, b # a PROVE pc[b] \notin Inside
    BY <1>1, <2>5, OthersOut
  <2>6. ~index.open
    BY <1>1, <2>5 DEF IndexInv, Inside
  <2>7. \A b \in Actors : pc'[b] \in Inside => b = a
    BY <1>1, <2>5
  <2> QED BY <1>1, <2>1, <2>2, <2>4, <2>6, <2>7 DEF IndexInv, Inside
<1> QED BY <1>2, <1>3

(* The index is opened with the events of the log. *)
LEMMA IndexStart ==
    ASSUME ChainInv, IndexInv, NEW a \in Actors, StartKmc(a)
    PROVE  IndexInv'
<1> USE DEF ChainInv, LifecycleInv, Types
<1>1. /\ pc[a] = "preparing" /\ pc[a] \in Inside /\ UNCHANGED <<log, checkpoint, session>>
      /\ \A b \in Actors : b # a => pc'[b] = pc[b]
      /\ pc'[a] = "running" /\ index' = Opened(Fired(log))
  BY DEF StartKmc, Goto, Inside
<1>2. index' = [open |-> TRUE, entries |-> Fired(log), stale |-> {}, disk |-> Fired(log), rows |-> << >>]
  BY <1>1 DEF Opened
<1>3. DOMAIN Fired(log) = Range(log)
  BY FiredTyped DEF IndexInv
<1>4. FileFields(index') /\ WriterSound(index', log)
  <2>1. IsFiniteSet({})
    BY FS_EmptySet
  <2> QED BY <1>2, <1>3, <2>1 DEF FileFields, WriterSound
<1>5. ASSUME NEW b \in Actors, b # a PROVE pc'[b] \notin Inside
  BY <1>1, <1>5, OthersOut
<1>6. checkpoint # None => \A i \in 1..checkpoint : log[i] \in DOMAIN index'.disk
  <2>1. checkpoint # None => checkpoint \in Nat /\ checkpoint <= Len(log)
    BY DEF IndexInv
  <2> QED BY <1>2, <1>3, <2>1 DEF Range, IndexInv
<1> QED BY <1>1, <1>2, <1>4, <1>5, <1>6 DEF IndexInv, Inside

LEMMA IndexStep ==
    ASSUME ChainInv, IndexInv, NEW a \in Actors, Step(a)
    PROVE  IndexInv'
<1> USE DEF ChainInv, LifecycleInv, Types
<1> DEFINE step == session[a].step + 1
           due == step % CheckpointEvery = 0
<1>1. PICK r \in Reactions :
        /\ log' = Append(log, r)
        /\ index' = IF due THEN Synced(Recorded(index, r)) ELSE Recorded(index, r)
        /\ checkpoint' = IF due THEN step ELSE checkpoint
        /\ session' = [session EXCEPT ![a].step = step, ![a].gauge = step]
  BY DEF Step
<1>2. pc[a] = "running" /\ pc[a] \in Inside /\ pc' = pc /\ step \in Nat /\ session'[a].step = step
  BY <1>1 DEF Step, Inside, SessionType
<1> HIDE DEF due
<1>3. /\ Len(log) = session[a].step /\ log' \in Seq(Reactions) /\ Len(log') = step
      /\ Len(log) \in Nat /\ step = Len(log) + 1
      /\ \A i \in 1..Len(log) : log'[i] = log[i]
      /\ index.open /\ FileFields(index) /\ WriterSound(index, log) /\ log \in Seq(Reactions)
  BY <1>1, <1>2 DEF IndexInv
<1> HIDE DEF step
<1> DEFINE rec == Recorded(index, r)
<1>4. FileFields(rec) /\ rec.open /\ rec.disk = index.disk /\ WriterSound(rec, log')
  BY <1>1, <1>3, RecordedSound
<1> HIDE DEF rec
<1>5. /\ FileFields(Synced(rec)) /\ Synced(rec).open /\ WriterSound(Synced(rec), log')
      /\ Range(log') \subseteq DOMAIN Synced(rec).disk
  BY <1>3, <1>4, SyncedSound
<1>6. index' = IF due THEN Synced(rec) ELSE rec
  BY <1>1 DEF rec
<1>7. FileFields(index') /\ index'.open /\ WriterSound(index', log')
  BY <1>4, <1>5, <1>6
<1>8. checkpoint' # None =>
        /\ checkpoint' <= Len(log')
        /\ \A i \in 1..checkpoint' : log'[i] \in DOMAIN index'.disk
  <2>1. CASE due
    <3>1. checkpoint' = Len(log') /\ index' = Synced(rec)
      BY <1>1, <1>3, <1>6, <2>1
    <3>2. DOMAIN log' = 1..Len(log') /\ Len(log') \in Nat
      BY <1>3
    <3> QED BY <1>5, <3>1, <3>2 DEF Range
  <2>2. CASE ~due
    <3>1. checkpoint' = checkpoint /\ index'.disk = index.disk
      BY <1>1, <1>4, <1>6, <2>2
    <3>2. checkpoint # None => checkpoint \in Nat /\ checkpoint <= Len(log)
      BY DEF IndexInv
    <3>3. checkpoint # None => \A i \in 1..checkpoint : log[i] \in DOMAIN index.disk
      BY DEF IndexInv
    <3>4. checkpoint # None => checkpoint <= step /\ \A i \in 1..checkpoint : i \in 1..Len(log)
      BY <1>3, <3>2
    <3> QED BY <1>3, <3>1, <3>3, <3>4
  <2> QED BY <2>1, <2>2
<1>9. ASSUME NEW b \in Actors, b # a PROVE pc'[b] \notin Inside
  BY <1>2, <1>9, OthersOut
<1> QED BY <1>2, <1>3, <1>7, <1>8, <1>9 DEF IndexInv, Inside

(* However a session ends, the writer compacts what it knows. *)
LEMMA IndexEnds ==
    ASSUME ChainInv, IndexInv, NEW a \in Actors, Close(a) \/ RecordInner(a) \/ RecordInVain(a)
    PROVE  IndexInv'
<1> USE DEF ChainInv, LifecycleInv, Types
<1>1. /\ pc[a] \in Inside /\ UNCHANGED <<log, session>>
      /\ \A b \in Actors : b # a => pc'[b] = pc[b]
      /\ pc'[a] \in {"closed", "failed", "releasing"}
      /\ pc'[a] = "closed" <=> pc[a] = "running"
  BY DEF Close, RecordInner, RecordInVain, Goto, Inside
<1>2. ASSUME NEW b \in Actors, b # a PROVE pc'[b] \notin Inside
  BY <1>1, <1>2, OthersOut
<1>3. CASE index' = Closed(index) /\ index.open
  <2>1. FileFields(index) /\ WriterSound(index, log) /\ log \in Seq(Reactions)
    BY <1>3 DEF IndexInv
  <2>2. FileFields(index') /\ ~index'.open /\ index'.disk = Fired(log)
    BY <1>3, <2>1, ClosedSound
  <2>3. DOMAIN index'.disk = Range(log)
    BY <2>1, <2>2, FiredTyped
  <2>4. checkpoint' # None => checkpoint' \in Nat /\ checkpoint' <= Len(log)
    <3>1. CASE Close(a)
      BY <1>1, <3>1 DEF Close, IndexInv, SessionType
    <3>2. CASE RecordInner(a) \/ RecordInVain(a)
      BY <3>2 DEF RecordInner, RecordInVain, IndexInv
    <3> QED BY <3>1, <3>2
  <2>5. checkpoint' # None => \A i \in 1..checkpoint' : log[i] \in DOMAIN index'.disk
    BY <2>1, <2>3, <2>4 DEF Range
  <2> QED BY <1>1, <1>2, <2>1, <2>2, <2>4, <2>5 DEF IndexInv, Inside
<1>4. CASE ~(index' = Closed(index) /\ index.open)
  <2>1. UNCHANGED <<index, checkpoint>> /\ pc[a] # "running" /\ (pc[a] = "failing" => ~index.open)
    BY <1>4 DEF Close, RecordInner, RecordInVain, IndexInv
  <2>2. ~index.open
    <3>1. \A b \in Actors : b # a => pc[b] \notin Inside
      BY <1>1, <1>2
    <3> QED BY <2>1, <3>1 DEF IndexInv, Inside
  <2> QED BY <1>1, <1>2, <2>1, <2>2 DEF IndexInv, Inside
<1> QED BY <1>3, <1>4

(* A crash loses no row and no definition that the checkpoint counts on. *)
LEMMA IndexCrash ==
    ASSUME ChainInv, IndexInv, NEW p \in Processes, Crash(p)
    PROVE  IndexInv'
<1> USE DEF ChainInv, LifecycleInv, Types
<1> DEFINE dead == {a \in Actors : ProcessOf[a] = p}
           wrote == \E a \in dead : flock = a /\ pc[a] \in {"running", "closed", "failing"}
<1>1. /\ UNCHANGED checkpoint /\ flock \in dead
      /\ \A a \in Actors : pc'[a] \notin Inside
  <2>1. flock \in dead /\ flock \in Actors
    BY DEF Crash
  <2>2. pc' = [a \in Actors |-> IF a \in dead THEN "idle" ELSE pc[a]]
    BY DEF Crash
  <2>3. \A a \in Actors : a \notin dead => pc[a] \notin Inside
    BY <2>1 DEF LockHeld
  <2>4. \A a \in Actors : pc'[a] \notin Inside
    BY <2>2, <2>3 DEF Inside
  <2> QED BY <2>1, <2>4 DEF Crash
<1>2. checkpoint # None => checkpoint \in Nat /\ checkpoint <= Len(log)
  BY DEF IndexInv
<1>3. CASE wrote
  <2>1. index' \in (IF index.open THEN Crashes(index) ELSE {index})
    BY <1>3 DEF Crash
  <2>2. PICK k \in (IF checkpoint = None THEN 0 ELSE checkpoint)..Len(log) : log' = SubSeq(log, 1, k)
    BY <1>3 DEF Crash
  <2>3. FileFields(index') /\ ~index'.open /\ DOMAIN index.disk \subseteq DOMAIN index'.disk
    BY <2>1, CrashedSound DEF IndexInv
  <2>4. k \in Nat /\ k <= Len(log) /\ (checkpoint # None => checkpoint <= k)
    BY <1>2, <2>2 DEF IndexInv
  <2>5. log' \in Seq(Reactions) /\ Len(log') = k /\ \A i \in 1..k : log'[i] = log[i]
    BY <2>2, <2>4 DEF IndexInv
  <2>6. checkpoint # None => \A i \in 1..checkpoint : log'[i] \in DOMAIN index'.disk
    BY <1>2, <2>3, <2>4, <2>5 DEF IndexInv
  <2> QED BY <1>1, <2>3, <2>4, <2>5, <2>6 DEF IndexInv, Inside
<1>4. CASE ~wrote
  <2>1. UNCHANGED <<index, log>>
    BY <1>4 DEF Crash
  <2>2. ~index.open
    <3>1. \A a \in Actors : pc[a] \in Inside => a = flock
      BY DEF LockHeld
    <3> QED BY <1>1, <1>4, <3>1 DEF IndexInv, Inside
  <2> QED BY <1>1, <2>1, <2>2 DEF IndexInv, Inside
<1> QED BY <1>3, <1>4

(* The synced index defines the reaction of every event behind the checkpoint,
   although rows, index and checkpoint are written by different calls and a
   crash cuts each on its own; and after a session that closed its files the
   index counts exactly the events of the log. *)
THEOREM EventsDefinedHolds == Spec => []EventsDefined
<1>1. Init => IndexInv
  <2> SUFFICES ASSUME Init PROVE IndexInv
    OBVIOUS
  <2>1. FileFields(index)
    BY DEF Init, NoFile, FileFields
  <2> QED BY <2>1 DEF Init, IndexInv, NoFile
<1>2. ChainInv /\ IndexInv /\ [Next]_vars => IndexInv'
  <2> SUFFICES ASSUME ChainInv, IndexInv, [Next]_vars PROVE IndexInv'
    OBVIOUS
  <2>1. ASSUME NEW a \in Actors, Run(a) \/ Enter(a) \/ Probe(a) \/ RefuseLate(a) \/ Raise(a) \/ RecordInVain(a)
        PROVE  IndexInv'
    BY <2>1, IndexMoves, IndexIdentify, IndexStart, IndexStep, IndexEnds DEF Run, ChainInv
  <2>2. ASSUME NEW p \in Processes, Crash(p) PROVE IndexInv'
    BY <2>2, IndexCrash
  <2>3. CASE UNCHANGED vars
    BY <2>3, IndexFrame DEF vars, disk
  <2> QED BY <2>1, <2>2, <2>3 DEF Next
<1>3. IndexInv => EventsDefined
  BY DEF IndexInv, EventsDefined
<1> QED BY <1>1, <1>2, <1>3, ChainInvariance, PTL DEF Spec
===========================================================================
