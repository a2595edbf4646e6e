--------------------------- MODULE RetentionProofs ---------------------------
(***************************************************************************)
(* What backups and snapshot schedules keep, for any disks, workers,       *)
(* schedules, retention and bounds: OneRunAtATime, NoStraySnapshots and    *)
(* NewestArtifactIsWhole of Backups, CaptureSurvivesPrune of Schedules.    *)
(*                                                                         *)
(* Backups.  The running set is the lock of a plan: whoever enters it is   *)
(* the only run until its worker takes it out (OneRun), so the run under   *)
(* way has the highest id ever given (IsLatest).  Of that run the          *)
(* invariant says which streams are on disk (StreamsSoFar) and which       *)
(* snapshots are still to be destroyed (SnapshotsAreOwned).  Retention     *)
(* takes only artifacts that a newer one has replaced (ErasesOlder),       *)
(* because every plan keeps one at least (PlansKeep, RunsKeep).            *)
(*                                                                         *)
(* Schedules.  An automatic snapshot is named by the tick that took it,    *)
(* and the clock does not go back: the one just captured is the newest of  *)
(* them (ShotsArePast), so only names that requests chose sort after it.   *)
(***************************************************************************)
EXTENDS Backups, Schedules, FiniteSetTheorems, TLAPS

-----------------------------------------------------------------------------
(* Backups: the inductive invariant.                                       *)

\* The steps at which the plan of the run decides, and those with snapshots to be destroyed.
Block == {"sources", "base", "snapshot", "send", "record", "retain", "erase"}
Owning == {"base", "snapshot", "send", "record", "retain", "erase", "clean"}

\* A stored plan, and one that is handed to a worker, keeps one artifact at least.
KeepingPlans == [src : SUBSET GuestDisks, on : BOOLEAN, due : BOOLEAN, keep : Nat \ {0},
                 from : Nat]
PlanKept(p) == p = NoPlan \/ p \in KeepingPlans
EditKept == edit.op # "none" => edit.plan \in KeepingPlans
PlansKeep == PlanKept(plan) /\ PlanKept(queueing) /\ EditKept
RunsKeep == \A w \in Workers :
    work[w].pc \in Block \cup {"putplan"} => work[w].plan \in KeepingPlans

\* At most one worker runs, none while a request is to be handed over, and the plan is entered
\* in the running set for as long.
OneRun ==
    /\ \A v, w \in Workers : Active(v) /\ Active(w) => v = w
    /\ queueing # NoPlan => running /\ \A w \in Workers : ~Active(w)
    /\ \A w \in Workers : Active(w) => running

\* The run under way is the latest, and artifacts are numbered by the runs there were.
IsLatest == \A w \in Workers : Active(w) => work[w].id = runs
ArtifactsAreRuns ==
    /\ runs \in Nat /\ DOMAIN arts \subseteq 1..runs
    /\ running => runs > 0

\* The streams of the datasets that are done are whole.
StreamsSoFar == \A w \in Workers :
    /\ work[w].pc \in {"base", "snapshot", "send", "record"} =>
         \A d \in work[w].plan.src \ work[w].todo : <<work[w].id, d, "whole">> \in files
    /\ work[w].pc = "record" => work[w].todo = {}

\* What retention is about to erase has been replaced by a newer artifact.
ErasesOlder == \A w \in Workers : work[w].pc = "erase" =>
    \E i \in DOMAIN arts : work[w].todo = {i} /\ Newer(i) # {}

\* A snapshot belongs to a run that has still to destroy it, or could not be destroyed.
SnapshotsAreOwned == \A s \in bksnaps :
    s[1] \in leaked \/ \E w \in Workers : work[w].pc \in Owning /\ work[w].id = s[1]

BkInv ==
    /\ DOMAIN work = Workers
    /\ PlansKeep /\ RunsKeep /\ OneRun /\ IsLatest /\ ArtifactsAreRuns
    /\ StreamsSoFar /\ ErasesOlder /\ SnapshotsAreOwned /\ NewestArtifactIsWhole
USE BkAssumption

-----------------------------------------------------------------------------
(* Frames: what a kind of step has to show.                                *)

\* A node without a plan runs nothing and holds nothing.
LEMMA BkInitInv == BkInit => BkInv
<1> SUFFICES ASSUME BkInit PROVE BkInv
  OBVIOUS
<1>1. /\ DOMAIN work = Workers /\ \A w \in Workers : work[w].pc = "idle"
      /\ plan = NoPlan /\ queueing = NoPlan /\ edit.op = "none" /\ DOMAIN arts = {}
      /\ bksnaps = {} /\ runs = 0 /\ running = FALSE
  BY DEF BkInit, NoWork, NoEdit
<1>2. PlansKeep /\ RunsKeep /\ OneRun /\ IsLatest /\ ArtifactsAreRuns
  BY <1>1 DEF PlansKeep, PlanKept, EditKept, RunsKeep, Block, OneRun, Active, IsLatest, ArtifactsAreRuns
<1>3. StreamsSoFar /\ ErasesOlder /\ SnapshotsAreOwned /\ NewestArtifactIsWhole
  BY <1>1 DEF StreamsSoFar, ErasesOlder, SnapshotsAreOwned, NewestArtifactIsWhole
<1> QED
  BY <1>1, <1>2, <1>3 DEF BkInv

\* A step that changes the stored plan, an edit or a restore, and nothing of a run.
LEMMA PlanStep ==
    ASSUME BkInv, PlanKept(plan'), EditKept',
           UNCHANGED <<arts, files, bksnaps, running, queueing, work, leaked, runs>>
    PROVE  BkInv'
<1>1. PlansKeep' /\ RunsKeep' /\ OneRun' /\ IsLatest' /\ ArtifactsAreRuns'
  BY DEF BkInv, PlansKeep, PlanKept, EditKept, RunsKeep, OneRun, Active, IsLatest, ArtifactsAreRuns
<1>2. StreamsSoFar' /\ ErasesOlder' /\ SnapshotsAreOwned' /\ NewestArtifactIsWhole'
  BY DEF BkInv, StreamsSoFar, ErasesOlder, SnapshotsAreOwned, NewestArtifactIsWhole, Newer
<1> QED
  BY <1>1, <1>2 DEF BkInv

\* A step of the one worker that runs: the others are idle, so only what the step says of this
\* one, and of the disk, has to be shown.
LEMMA RunStep ==
    ASSUME BkInv, PlanKept(plan'), NEW w \in Workers, Active(w),
           UNCHANGED <<running, queueing, edit, runs>>,
           DOMAIN work' = Workers, \A v \in Workers : v # w => work'[v] = work[v],
           work'[w].pc # "idle", work'[w].id = work[w].id,
           work'[w].pc \in Block \cup {"putplan"} => work'[w].plan \in KeepingPlans,
           work'[w].pc \in {"base", "snapshot", "send", "record"} =>
             \A d \in work'[w].plan.src \ work'[w].todo : <<work'[w].id, d, "whole">> \in files',
           work'[w].pc = "record" => work'[w].todo = {},
           work'[w].pc = "erase" =>
             \E i \in DOMAIN arts' : work'[w].todo = {i} /\ Newer(i)' # {},
           DOMAIN arts' \subseteq 1..runs,
           SnapshotsAreOwned', NewestArtifactIsWhole'
    PROVE  BkInv'
<1>1. \A v \in Workers : v # w => work[v].pc = "idle" /\ work'[v].pc = "idle"
  BY DEF BkInv, OneRun, Active
<1>2. OneRun' /\ IsLatest' /\ ArtifactsAreRuns'
  BY <1>1 DEF BkInv, OneRun, Active, IsLatest, ArtifactsAreRuns
<1>3. PlansKeep' /\ RunsKeep'
  BY <1>1 DEF BkInv, PlansKeep, PlanKept, EditKept, RunsKeep, Block
<1>4. StreamsSoFar' /\ ErasesOlder'
  BY <1>1 DEF StreamsSoFar, ErasesOlder
<1> QED
  BY <1>2, <1>3, <1>4 DEF BkInv

\* Snapshots stay owned when the worker goes on with the run, or had none to destroy.
LEMMA SnapshotsStayOwned ==
    ASSUME BkInv, NEW w \in Workers, bksnaps' = bksnaps, leaked \subseteq leaked',
           \A v \in Workers : v # w => work'[v] = work[v],
           work'[w].id = work[w].id, work[w].pc \in Owning => work'[w].pc \in Owning
    PROVE  SnapshotsAreOwned'
BY DEF BkInv, SnapshotsAreOwned

\* The newest artifact stays whole when no record changes and no file goes.
LEMMA NewestStaysWhole ==
    ASSUME BkInv, arts' = arts, files \subseteq files'
    PROVE  NewestArtifactIsWhole' /\ (runs' = runs => DOMAIN arts' \subseteq 1..runs)
BY DEF BkInv, NewestArtifactIsWhole, Newer, ArtifactsAreRuns

-----------------------------------------------------------------------------
(* A run is requested and handed over.                                     *)

\* A run enters the running set only when no worker runs and none is to be handed over; it is
\* later than every artifact.
LEMMA EnterStep ==
    ASSUME BkInv, NEW how \in {"manual", "scheduled"}, EnterRunning(how)
    PROVE  BkInv'
<1>1. /\ ~running /\ running' = TRUE /\ queueing' = plan /\ plan # NoPlan /\ runs' = runs + 1
      /\ UNCHANGED <<plan, arts, files, bksnaps, work, edit, leaked>>
  BY DEF EnterRunning, bkdisk
<1>2. \A w \in Workers : work[w].pc = "idle"
  BY <1>1 DEF BkInv, OneRun, Active
<1>3. PlansKeep' /\ RunsKeep' /\ OneRun' /\ IsLatest'
  BY <1>1, <1>2 DEF BkInv, PlansKeep, PlanKept, EditKept, RunsKeep, OneRun, Active, IsLatest, Block
<1>4. ArtifactsAreRuns'
  BY <1>1 DEF BkInv, ArtifactsAreRuns
<1>5. StreamsSoFar' /\ ErasesOlder' /\ SnapshotsAreOwned' /\ NewestArtifactIsWhole'
  BY <1>1, <1>2 DEF BkInv, StreamsSoFar, ErasesOlder, SnapshotsAreOwned, NewestArtifactIsWhole,
                    Newer
<1> QED
  BY <1>1, <1>3, <1>4, <1>5 DEF BkInv

\* A worker takes the run that was entered.
LEMMA QueueStep ==
    ASSUME BkInv, NEW w \in Workers, Queue(w)
    PROVE  BkInv'
<1>1. /\ queueing # NoPlan /\ queueing' = NoPlan /\ running
      /\ UNCHANGED <<plan, arts, files, bksnaps, running, edit, leaked, runs>>
      /\ \A v \in Workers : work[v].pc = "idle"
  BY DEF Queue, bkdisk, bkcount, BkInv, OneRun, Active
<1>2. /\ DOMAIN work' = Workers
      /\ work'[w].pc = "sources" /\ work'[w].id = runs /\ work'[w].plan = queueing
      /\ \A v \in Workers : v # w => work'[v].pc = "idle"
  BY <1>1 DEF Queue, BkInv, NoWork
<1>3. OneRun' /\ IsLatest' /\ ArtifactsAreRuns' /\ PlansKeep'
  BY <1>1, <1>2 DEF BkInv, OneRun, Active, IsLatest, ArtifactsAreRuns, PlansKeep, PlanKept, EditKept
<1>4. RunsKeep'
  BY <1>1, <1>2 DEF BkInv, RunsKeep, PlansKeep, PlanKept, Block
<1>5. StreamsSoFar' /\ ErasesOlder' /\ NewestArtifactIsWhole'
  BY <1>1, <1>2 DEF BkInv, StreamsSoFar, ErasesOlder, NewestArtifactIsWhole, Newer
<1>6. SnapshotsAreOwned'
  BY <1>1, <1>2 DEF BkInv, SnapshotsAreOwned, Owning
<1> QED
  BY <1>2, <1>3, <1>4, <1>5, <1>6 DEF BkInv

\* A request that comes to nothing leaves the plan in the running set or takes it out.
LEMMA LostStep ==
    ASSUME BkInv, QueueFails \/ QueueLost
    PROVE  BkInv'
<1>1. /\ queueing' = NoPlan /\ \A v \in Workers : work[v].pc = "idle"
      /\ UNCHANGED <<plan, arts, files, bksnaps, work, edit, leaked, runs>> /\ (running' => running)
  BY DEF QueueFails, QueueLost, BkFault, BkFails, bkdisk, BkInv, OneRun, Active
<1>2. PlansKeep' /\ RunsKeep' /\ OneRun' /\ IsLatest' /\ ArtifactsAreRuns'
  BY <1>1 DEF BkInv, PlansKeep, PlanKept, EditKept, RunsKeep, OneRun, Active, IsLatest,
              ArtifactsAreRuns, Block
<1>3. StreamsSoFar' /\ ErasesOlder' /\ SnapshotsAreOwned' /\ NewestArtifactIsWhole'
  BY <1>1 DEF BkInv, StreamsSoFar, ErasesOlder, SnapshotsAreOwned, NewestArtifactIsWhole, Newer
<1> QED
  BY <1>1, <1>2, <1>3 DEF BkInv

-----------------------------------------------------------------------------
(* run_backup.                                                             *)

\* The sources become what is to be done.
LEMMA SourcesStep ==
    ASSUME BkInv, NEW w \in Workers, ResolveSources(w)
    PROVE  BkInv'
<1>1. /\ work[w].pc = "sources"
      /\ UNCHANGED <<plan, arts, files, bksnaps, running, queueing, edit, leaked, runs>>
  BY DEF ResolveSources, bkdisk, bkcount
<1>2. /\ DOMAIN work' = Workers /\ \A v \in Workers : v # w => work'[v] = work[v]
      /\ work'[w].pc = "base" /\ work'[w].id = work[w].id
      /\ work'[w].plan = work[w].plan /\ work'[w].todo = work[w].plan.src
  BY DEF ResolveSources, BkInv
<1>3. work[w].plan \in KeepingPlans /\ PlanKept(plan') /\ Active(w)
  BY <1>1 DEF BkInv, RunsKeep, Block, PlansKeep, PlanKept, Active
<1>4. SnapshotsAreOwned'
  BY <1>1, <1>2, SnapshotsStayOwned DEF Owning
<1> QED
  BY <1>1, <1>2, <1>3, <1>4, NewestStaysWhole, RunStep

\* A run that goes to its end, or to the destruction of its snapshots, without a change of the
\* records, the files and the snapshots.
LEMMA FallsOut ==
    ASSUME BkInv, PlanKept(plan'), NEW w \in Workers, Active(w), DOMAIN work' = Workers,
           \A v \in Workers : v # w => work'[v] = work[v], work'[w].id = work[w].id,
           work'[w].pc \in {"clean", "readplan", "putplan", "done"},
           work'[w].pc = "putplan" => work'[w].plan \in KeepingPlans,
           work[w].pc \in Owning => work'[w].pc \in Owning,
           arts' = arts, files \subseteq files',
           UNCHANGED <<bksnaps, running, queueing, edit, leaked, runs>>
    PROVE  BkInv'
<1>1. SnapshotsAreOwned'
  BY SnapshotsStayOwned
<1> QED
  BY <1>1, NewestStaysWhole, RunStep DEF Block

\* A failure before the snapshots, in the block, or when the plan is written back.
LEMMA FailureStep ==
    ASSUME BkInv, NEW w \in Workers,
           \/ ResolveFails(w) \/ BlockFails(w) \/ AdvanceFails(w)
           \/ \E d \in GuestDisks : SendFails(w, d)
    PROVE  BkInv'
<1>1. /\ UNCHANGED <<plan, arts, bksnaps, running, queueing, edit, leaked, runs>>
      /\ files \subseteq files' /\ Active(w)
  BY DEF ResolveFails, BlockFails, AdvanceFails, SendFails, BkFault, BkFails, bkdisk, Active
<1>2. /\ DOMAIN work' = Workers /\ \A v \in Workers : v # w => work'[v] = work[v]
      /\ work'[w].id = work[w].id
      /\ \/ work'[w].pc = "clean"
         \/ work'[w].pc = "done" /\ work[w].pc \notin Owning
  <2>1. CASE WorkTo(w, "clean")
    BY <2>1 DEF WorkTo, BkInv
  <2>2. CASE WorkTo(w, "done") /\ work[w].pc \notin Owning
    BY <2>2 DEF WorkTo, BkInv
  <2> QED
    BY <2>1, <2>2 DEF ResolveFails, BlockFails, AdvanceFails, SendFails, Owning
<1>3. PlanKept(plan')
  BY <1>1 DEF BkInv, PlansKeep, PlanKept
<1> QED
  BY <1>1, <1>2, <1>3, FallsOut DEF Owning

\* The bases are found and the run goes on, or it goes to its end.
LEMMA BasesStep ==
    ASSUME BkInv, NEW w \in Workers, FindBases(w)
    PROVE  BkInv'
<1>1. /\ work[w].pc = "base"
      /\ UNCHANGED <<plan, arts, files, bksnaps, running, queueing, edit, leaked, runs>>
      /\ WorkTo(w, "snapshot") \/ WorkTo(w, "clean")
  BY DEF FindBases, bkdisk, bkcount
<1>2. /\ DOMAIN work' = Workers /\ \A v \in Workers : v # w => work'[v] = work[v]
      /\ work'[w].pc \in {"snapshot", "clean"} /\ work'[w].id = work[w].id
      /\ work'[w].plan = work[w].plan /\ work'[w].todo = work[w].todo
  <2>1. CASE WorkTo(w, "snapshot")
    BY <2>1 DEF WorkTo, BkInv
  <2>2. CASE WorkTo(w, "clean")
    BY <2>2 DEF WorkTo, BkInv
  <2> QED
    BY <1>1, <2>1, <2>2
<1>3. /\ work[w].plan \in KeepingPlans /\ PlanKept(plan') /\ Active(w)
      /\ \A x \in work[w].plan.src \ work[w].todo : <<work[w].id, x, "whole">> \in files
  BY <1>1 DEF BkInv, RunsKeep, Block, PlansKeep, PlanKept, Active, StreamsSoFar
<1>4. SnapshotsAreOwned'
  BY <1>1, <1>2, SnapshotsStayOwned DEF Owning
<1> QED
  BY <1>1, <1>2, <1>3, <1>4, NewestStaysWhole, RunStep

\* A snapshot is taken by the worker that will destroy it.
LEMMA SnapshotStep ==
    ASSUME BkInv, NEW w \in Workers, NEW d \in GuestDisks, TakeSnapshot(w, d)
    PROVE  BkInv'
<1>1. /\ work[w].pc = "snapshot" /\ bksnaps' = bksnaps \cup {<<work[w].id, d>>}
      /\ UNCHANGED <<plan, arts, files, running, queueing, edit, leaked, runs>>
  BY DEF TakeSnapshot, bkcount
<1>2. /\ DOMAIN work' = Workers /\ \A v \in Workers : v # w => work'[v] = work[v]
      /\ work'[w].pc = "send" /\ work'[w].id = work[w].id
      /\ work'[w].plan = work[w].plan /\ work'[w].todo = work[w].todo
  BY DEF TakeSnapshot, BkInv
<1>3. /\ work[w].plan \in KeepingPlans /\ PlanKept(plan') /\ Active(w)
      /\ \A x \in work[w].plan.src \ work[w].todo : <<work[w].id, x, "whole">> \in files
  BY <1>1 DEF BkInv, RunsKeep, Block, PlansKeep, PlanKept, Active, StreamsSoFar
<1>4. SnapshotsAreOwned'
  BY <1>1, <1>2 DEF BkInv, SnapshotsAreOwned, Owning
<1> QED
  BY <1>1, <1>2, <1>3, <1>4, NewestStaysWhole, RunStep

\* A stream that was sent is whole, and its dataset is done.
LEMMA SendStep ==
    ASSUME BkInv, NEW w \in Workers, NEW d \in GuestDisks, SendStream(w, d)
    PROVE  BkInv'
<1>1. /\ work[w].pc = "send" /\ files' = files \cup {<<work[w].id, d, "whole">>}
      /\ UNCHANGED <<plan, arts, bksnaps, running, queueing, edit, leaked, runs>>
  BY DEF SendStream, bkcount
<1>2. /\ DOMAIN work' = Workers /\ \A v \in Workers : v # w => work'[v] = work[v]
      /\ work'[w].pc = IF work[w].todo = {d} THEN "record" ELSE "snapshot"
      /\ work'[w].id = work[w].id
      /\ work'[w].plan = work[w].plan /\ work'[w].todo = work[w].todo \ {d}
  BY DEF SendStream, BkInv
<1>3. /\ work[w].plan \in KeepingPlans /\ PlanKept(plan') /\ Active(w)
      /\ \A x \in work[w].plan.src \ work[w].todo : <<work[w].id, x, "whole">> \in files
  BY <1>1 DEF BkInv, RunsKeep, Block, PlansKeep, PlanKept, Active, StreamsSoFar
<1>4. SnapshotsAreOwned'
  BY <1>1, <1>2, SnapshotsStayOwned DEF Owning
<1>5. /\ work'[w].pc = "record" => work'[w].todo = {}
      /\ work'[w].pc \in {"record", "snapshot"}
      /\ \A x \in work'[w].plan.src \ work'[w].todo : <<work'[w].id, x, "whole">> \in files'
  BY <1>1, <1>2, <1>3
<1> QED
  BY <1>1, <1>2, <1>3, <1>4, <1>5, NewestStaysWhole, RunStep

\* The artifact that is recorded is the newest, and all its streams are whole.
LEMMA PutStep ==
    ASSUME BkInv, NEW w \in Workers, PutArtifact(w)
    PROVE  BkInv'
<1>1. /\ work[w].pc = "record"
      /\ arts' = [i \in DOMAIN arts \cup {work[w].id} |->
                     IF i = work[w].id THEN work[w].plan.src ELSE arts[i]]
      /\ UNCHANGED <<plan, files, bksnaps, running, queueing, edit, leaked, runs>>
  BY DEF PutArtifact, bkcount
<1>2. /\ DOMAIN work' = Workers /\ \A v \in Workers : v # w => work'[v] = work[v]
      /\ work'[w].pc = "retain" /\ work'[w].id = work[w].id
      /\ work'[w].plan = work[w].plan
  BY DEF PutArtifact, WorkTo, BkInv
<1>3. /\ work[w].plan \in KeepingPlans /\ PlanKept(plan') /\ Active(w)
      /\ work[w].id = runs /\ runs \in Nat \ {0} /\ DOMAIN arts \subseteq 1..runs
  BY <1>1 DEF BkInv, RunsKeep, Block, PlansKeep, PlanKept, Active, IsLatest, ArtifactsAreRuns, OneRun
<1>4. SnapshotsAreOwned'
  BY <1>1, <1>2, SnapshotsStayOwned DEF Owning
<1>5. \A d \in work[w].plan.src : <<runs, d, "whole">> \in files
  BY <1>1, <1>3 DEF BkInv, StreamsSoFar
<1>6. runs \in 1..runs
  BY <1>3
<1>7. DOMAIN arts' = DOMAIN arts \cup {runs} /\ arts'[runs] = work[w].plan.src
  BY <1>1, <1>3
<1>8. \A i \in DOMAIN arts' : Newer(i)' = {} => i = runs
  BY <1>3, <1>7 DEF Newer
<1>9. NewestArtifactIsWhole'
  BY <1>1, <1>5, <1>7, <1>8 DEF NewestArtifactIsWhole
<1> QED
  BY <1>1, <1>2, <1>3, <1>4, <1>6, <1>7, <1>9, RunStep

\* A plan that keeps one artifact at least never makes the newest one surplus.
LEMMA SurplusIsOlder ==
    ASSUME NEW n \in Nat \ {0}, NEW i \in Surplus(n)
    PROVE  i \in DOMAIN arts /\ Newer(i) # {}
<1>1. i \in DOMAIN arts /\ Cardinality(Newer(i)) >= n
  BY DEF Surplus
<1>2. Cardinality({}) = 0
  BY FS_EmptySet
<1> QED
  BY <1>1, <1>2

\* The files that go are those of an artifact that is not the newest.
LEMMA RemoveStep ==
    ASSUME BkInv, NEW w \in Workers, NEW i \in 1..MaxRuns, RemoveFiles(w, i)
    PROVE  BkInv'
<1>1. /\ work[w].pc = "retain" /\ i \in Surplus(work[w].plan.keep)
      /\ files' = {f \in files : f[1] # i}
      /\ UNCHANGED <<plan, arts, bksnaps, running, queueing, edit, leaked, runs>>
  BY DEF RemoveFiles, bkcount
<1>2. /\ DOMAIN work' = Workers /\ \A v \in Workers : v # w => work'[v] = work[v]
      /\ work'[w].pc = "erase" /\ work'[w].id = work[w].id /\ work'[w].todo = {i}
      /\ work'[w].plan = work[w].plan
  BY DEF RemoveFiles, BkInv
<1>3. /\ work[w].plan \in KeepingPlans /\ PlanKept(plan') /\ Active(w)
      /\ DOMAIN arts \subseteq 1..runs
  BY <1>1 DEF BkInv, RunsKeep, Block, PlansKeep, PlanKept, Active, ArtifactsAreRuns
<1>4. SnapshotsAreOwned'
  BY <1>1, <1>2, SnapshotsStayOwned DEF Owning
<1>5. i \in DOMAIN arts /\ Newer(i) # {}
  BY <1>1, <1>3, SurplusIsOlder DEF KeepingPlans
<1>6. \A j \in DOMAIN arts : Newer(j)' = Newer(j)
  BY <1>1 DEF Newer
<1>7. NewestArtifactIsWhole'
  <2> SUFFICES ASSUME NEW j \in DOMAIN arts, Newer(j) = {}, NEW d \in arts[j]
               PROVE  <<j, d, "whole">> \in files'
    BY <1>1, <1>6 DEF NewestArtifactIsWhole
  <2>1. <<j, d, "whole">> \in files /\ j # i
    BY <1>5 DEF BkInv, NewestArtifactIsWhole
  <2> QED
    BY <1>1, <2>1
<1> QED
  BY <1>1, <1>2, <1>3, <1>4, <1>5, <1>6, <1>7, RunStep

\* Erasing the record of an older artifact leaves the newest the newest.
LEMMA EraseStep ==
    ASSUME BkInv, NEW w \in Workers, EraseArtifact(w)
    PROVE  BkInv'
<1>1. /\ work[w].pc = "erase" /\ arts' = [i \in DOMAIN arts \ work[w].todo |-> arts[i]]
      /\ UNCHANGED <<plan, files, bksnaps, running, queueing, edit, leaked, runs>>
  BY DEF EraseArtifact, bkcount
<1>2. /\ DOMAIN work' = Workers /\ \A v \in Workers : v # w => work'[v] = work[v]
      /\ work'[w].pc = "retain" /\ work'[w].id = work[w].id
      /\ work'[w].plan = work[w].plan
  BY DEF EraseArtifact, BkInv
<1>3. /\ work[w].plan \in KeepingPlans /\ PlanKept(plan') /\ Active(w)
      /\ runs \in Nat /\ DOMAIN arts \subseteq 1..runs
  BY <1>1 DEF BkInv, RunsKeep, Block, PlansKeep, PlanKept, Active, ArtifactsAreRuns
<1>4. SnapshotsAreOwned'
  BY <1>1, <1>2, SnapshotsStayOwned DEF Owning
<1>5. PICK i \in DOMAIN arts : work[w].todo = {i} /\ Newer(i) # {}
  BY <1>1 DEF BkInv, ErasesOlder
<1>6. DOMAIN arts' = DOMAIN arts \ {i} /\ \A j \in DOMAIN arts' : arts'[j] = arts[j]
  BY <1>1, <1>5
<1>7. ASSUME NEW j \in DOMAIN arts', Newer(j)' = {}
      PROVE  Newer(j) = {}
  <2> SUFFICES ASSUME NEW k \in Newer(j) PROVE FALSE
    OBVIOUS
  <2>1. k = i /\ i > j
    BY <1>6, <1>7 DEF Newer
  <2>2. PICK m \in DOMAIN arts : m > i
    BY <1>5 DEF Newer
  <2>3. m > j /\ m # i
    BY <1>3, <1>6, <2>1, <2>2
  <2> QED
    BY <1>6, <1>7, <2>3 DEF Newer
<1>8. NewestArtifactIsWhole'
  BY <1>1, <1>6, <1>7 DEF BkInv, NewestArtifactIsWhole
<1> QED
  BY <1>1, <1>2, <1>3, <1>4, <1>6, <1>8, RunStep

\* The block ends without surplus, or the plan is read again.
LEMMA OnwardStep ==
    ASSUME BkInv, NEW w \in Workers, BlockDone(w) \/ ReadPlan(w)
    PROVE  BkInv'
<1>1. /\ UNCHANGED <<plan, arts, files, bksnaps, running, queueing, edit, leaked, runs>>
      /\ Active(w) /\ DOMAIN work = Workers /\ PlanKept(plan)
  BY DEF BlockDone, ReadPlan, bkdisk, bkcount, Active, BkInv, PlansKeep
<1>2. CASE BlockDone(w)
  <2>1. /\ DOMAIN work' = Workers /\ \A v \in Workers : v # w => work'[v] = work[v]
        /\ work'[w].pc = "clean" /\ work'[w].id = work[w].id
    BY <1>1, <1>2 DEF BlockDone
  <2> QED
    BY <1>1, <2>1, FallsOut DEF Owning
<1>3. CASE ReadPlan(w)
  <2>1. /\ DOMAIN work' = Workers /\ \A v \in Workers : v # w => work'[v] = work[v]
        /\ work[w].pc = "readplan" /\ work'[w].plan = plan /\ work'[w].id = work[w].id
        /\ work'[w].pc = IF plan = NoPlan THEN "done" ELSE "putplan"
    BY <1>1, <1>3 DEF ReadPlan
  <2>2. work'[w].pc = "putplan" => work'[w].plan \in KeepingPlans
    BY <1>1, <2>1 DEF PlanKept
  <2> QED
    BY <1>1, <2>1, <2>2, FallsOut DEF Owning
<1> QED
  BY <1>2, <1>3

\* The run's snapshots are gone, or zfs keeps them.
LEMMA DestroyStep ==
    ASSUME BkInv, NEW w \in Workers, DestroySnapshots(w) \/ DestroyFails(w)
    PROVE  BkInv'
<1>1. /\ work[w].pc = "clean" /\ Active(w) /\ PlanKept(plan')
      /\ UNCHANGED <<plan, arts, files, running, queueing, edit, runs>>
  BY DEF DestroySnapshots, DestroyFails, BkFails, bkdisk, bkcount, Active, BkInv, PlansKeep, PlanKept
<1>2. /\ DOMAIN work' = Workers /\ \A v \in Workers : v # w => work'[v] = work[v]
      /\ work'[w].pc = "readplan" /\ work'[w].id = work[w].id
  <2>1. WorkTo(w, "readplan")
    BY DEF DestroySnapshots, DestroyFails
  <2> QED
    BY <2>1 DEF WorkTo, BkInv
<1>3. ASSUME NEW s \in bksnaps'
      PROVE  s[1] \in leaked' \/ \E v \in Workers : work'[v].pc \in Owning /\ work'[v].id = s[1]
  <2>1. s \in bksnaps /\ leaked \subseteq leaked' /\ (s[1] # work[w].id \/ s[1] \in leaked')
    BY <1>3 DEF DestroySnapshots, DestroyFails, bkdisk, bkcount
  <2>2. s[1] \in leaked \/ \E v \in Workers : work[v].pc \in Owning /\ work[v].id = s[1]
    BY <2>1 DEF BkInv, SnapshotsAreOwned
  <2> QED
    BY <1>2, <2>1, <2>2
<1>4. SnapshotsAreOwned'
  BY <1>3 DEF SnapshotsAreOwned
<1> QED
  BY <1>1, <1>2, <1>4, NewestStaysWhole, RunStep DEF Block

\* The plan is written back with what was read.
LEMMA AdvanceStep ==
    ASSUME BkInv, NEW w \in Workers, AdvancePlan(w)
    PROVE  BkInv'
<1>1. /\ work[w].pc = "putplan" /\ Active(w) /\ plan' = [work[w].plan EXCEPT !.due = FALSE]
      /\ UNCHANGED <<arts, files, bksnaps, running, queueing, edit, leaked, runs>>
  BY DEF AdvancePlan, bkdisk, bkcount, Active
<1>2. work[w].plan \in KeepingPlans
  BY <1>1 DEF BkInv, RunsKeep
<1>3. PlanKept(plan')
  BY <1>1, <1>2 DEF PlanKept, KeepingPlans
<1>4. /\ DOMAIN work' = Workers /\ \A v \in Workers : v # w => work'[v] = work[v]
      /\ work'[w].pc = "done" /\ work'[w].id = work[w].id
  BY DEF AdvancePlan, BkInv
<1> QED
  BY <1>1, <1>3, <1>4, FallsOut DEF Owning

\* The worker that ends leaves the running set; it was the only one.
LEMMA DoneStep ==
    ASSUME BkInv, NEW w \in Workers, WorkerDone(w)
    PROVE  BkInv'
<1>1. /\ work[w].pc = "done" /\ Active(w) /\ running' = FALSE
      /\ UNCHANGED <<plan, arts, files, bksnaps, queueing, edit, leaked, runs>>
  BY DEF WorkerDone, bkdisk, bkcount, Active
<1>2. queueing = NoPlan /\ \A v \in Workers : v # w => work[v].pc = "idle"
  BY <1>1 DEF BkInv, OneRun, Active
<1>3. DOMAIN work' = Workers /\ \A v \in Workers : work'[v].pc = "idle"
  BY <1>2 DEF WorkerDone, BkInv, NoWork
<1>4. \A s \in bksnaps : s[1] \in leaked
  BY <1>1, <1>2 DEF BkInv, SnapshotsAreOwned, Owning
<1>5. PlansKeep' /\ RunsKeep' /\ OneRun' /\ IsLatest' /\ ArtifactsAreRuns'
  BY <1>1, <1>2, <1>3 DEF BkInv, PlansKeep, PlanKept, EditKept, RunsKeep, OneRun, Active, IsLatest,
                          ArtifactsAreRuns, Block
<1>6. StreamsSoFar' /\ ErasesOlder' /\ SnapshotsAreOwned' /\ NewestArtifactIsWhole'
  BY <1>1, <1>3, <1>4 DEF BkInv, StreamsSoFar, ErasesOlder, SnapshotsAreOwned,
                          NewestArtifactIsWhole, Newer
<1> QED
  BY <1>3, <1>5, <1>6 DEF BkInv

-----------------------------------------------------------------------------
(* The plan and the restore.                                               *)

\* A plan that is created, changed or deleted keeps one artifact at least, or is gone.
LEMMA EditStep ==
    ASSUME BkInv,
           \/ \E s \in SUBSET GuestDisks, on \in BOOLEAN, k \in 1..MaxKeep : CreatePlan(s, on, k)
           \/ \E op \in {"update", "delete"} : BeginEdit(op)
           \/ \E c \in PlanChanges : FinishUpdate(c)
           \/ FinishDelete \/ FallsDue
    PROVE  BkInv'
<1>1. UNCHANGED <<arts, files, bksnaps, running, queueing, work, leaked, runs>>
  BY DEF CreatePlan, BeginEdit, FinishUpdate, FinishDelete, FallsDue, BkOp, bkdisk, bkcount
<1>2. ASSUME NEW s \in SUBSET GuestDisks, NEW on \in BOOLEAN, NEW k \in 1..MaxKeep,
             CreatePlan(s, on, k)
      PROVE  PlanKept(plan') /\ EditKept'
  BY <1>2 DEF CreatePlan, BkInv, PlansKeep, PlanKept, EditKept, KeepingPlans
<1>3. ASSUME NEW op \in {"update", "delete"}, BeginEdit(op) PROVE PlanKept(plan') /\ EditKept'
  BY <1>3 DEF BeginEdit, BkInv, PlansKeep, PlanKept, EditKept
<1>4. ASSUME NEW c \in PlanChanges, FinishUpdate(c)
      PROVE  PlanKept(plan') /\ EditKept'
  <2> DEFINE due == edit.plan.due /\ ~c.interval
             new == [edit.plan EXCEPT !.on = c.on, !.keep = c.keep, !.from = c.from, !.due = due]
  <2>1. edit.plan \in KeepingPlans
    BY <1>4 DEF FinishUpdate, BkInv, PlansKeep, EditKept
  <2>2. c.on \in BOOLEAN /\ c.keep \in Nat \ {0} /\ c.from \in Nat /\ due \in BOOLEAN
    OBVIOUS
  <2>3. new \in KeepingPlans
    <3> HIDE DEF due
    <3> QED
      BY <2>1, <2>2 DEF KeepingPlans
  <2>4. plan' = new /\ edit'.op = "none"
    BY <1>4 DEF FinishUpdate, NoEdit
  <2> QED
    BY <2>3, <2>4 DEF PlanKept, EditKept
<1>5. ASSUME FinishDelete PROVE PlanKept(plan') /\ EditKept'
  BY <1>5 DEF FinishDelete, PlanKept, EditKept, NoEdit
<1>6. ASSUME FallsDue PROVE PlanKept(plan') /\ EditKept'
  BY <1>6 DEF FallsDue, BkInv, PlansKeep, PlanKept, EditKept, KeepingPlans
<1>7. PlanKept(plan') /\ EditKept'
  BY <1>2, <1>3, <1>4, <1>5, <1>6
<1> QED
  BY <1>1, <1>7, PlanStep

\* A restore reads artifacts and files, and changes neither.
LEMMA RestoreStep ==
    ASSUME BkInv,
           \/ \E i \in 1..MaxRuns, b \in 0..MaxRuns, f \in BOOLEAN : EnqueueRestore(i, b, f)
           \/ VerifyFile \/ CheckTarget \/ Receive \/ ReceiveDelta \/ RestoreFails
           \/ UNCHANGED bkvars
    PROVE  BkInv'
<1>1. UNCHANGED <<plan, arts, files, bksnaps, running, queueing, work, edit, leaked, runs>>
  BY DEF EnqueueRestore, VerifyFile, CheckTarget, Receive, ReceiveDelta, RestoreFails, BkOp,
         BkFault, BkFails, bkdisk, bkcount, bkvars
<1> QED
  BY <1>1, PlanStep DEF BkInv, PlansKeep, PlanKept, EditKept

\* Every step keeps the invariant.
LEMMA BkStepInv == BkInv /\ [BkNext]_bkvars => BkInv'
<1> SUFFICES ASSUME BkInv, [BkNext]_bkvars PROVE BkInv'
  OBVIOUS
<1>1. ASSUME NEW w \in Workers,
             \/ Queue(w) \/ ResolveSources(w) \/ ResolveFails(w) \/ FindBases(w)
             \/ \E d \in GuestDisks : TakeSnapshot(w, d) \/ SendStream(w, d) \/ SendFails(w, d)
             \/ BlockFails(w) \/ PutArtifact(w)
             \/ \E i \in 1..MaxRuns : RemoveFiles(w, i)
             \/ EraseArtifact(w) \/ BlockDone(w) \/ DestroySnapshots(w) \/ DestroyFails(w)
             \/ ReadPlan(w) \/ AdvancePlan(w) \/ AdvanceFails(w) \/ WorkerDone(w)
      PROVE  BkInv'
  <2>1. CASE \E d \in GuestDisks : TakeSnapshot(w, d) \/ SendStream(w, d) \/ SendFails(w, d)
    BY <2>1, SnapshotStep, SendStep, FailureStep
  <2>2. CASE \E i \in 1..MaxRuns : RemoveFiles(w, i)
    BY <2>2, RemoveStep
  <2>3. CASE ResolveFails(w) \/ BlockFails(w) \/ AdvanceFails(w)
    BY <2>3, FailureStep
  <2> QED
    BY <1>1, <2>1, <2>2, <2>3, QueueStep, SourcesStep, BasesStep, PutStep, EraseStep, OnwardStep,
       DestroyStep, AdvanceStep, DoneStep
<1> QED
  BY <1>1, EditStep, EnterStep, LostStep, RestoreStep DEF BkNext

\* The invariant holds throughout.
LEMMA BkAlways == BkSpec => []BkInv
BY BkInitInv, BkStepInv, PTL DEF BkSpec

-----------------------------------------------------------------------------
(* The results.                                                            *)

\* Two runs of a plan never overlap, and the plan is in the running set while one is under way:
\* OneRunAtATime, for any number of workers.
THEOREM RunsNeverOverlap == BkSpec => []OneRunAtATime
<1>1. ASSUME BkInv PROVE OneRunAtATime
  <2> DEFINE A == {w \in Workers : Active(w)}
  <2>1. CASE A = {}
    BY <1>1, <2>1, FS_EmptySet DEF OneRunAtATime
  <2>2. CASE A # {}
    <3>1. PICK w \in A : TRUE
      BY <2>2
    <3>2. A = {w} /\ queueing = NoPlan /\ running
      BY <1>1, <3>1 DEF BkInv, OneRun
    <3>3. Cardinality(A) = 1
      BY <3>2, FS_Singleton
    <3> QED
      BY <3>2, <3>3 DEF OneRunAtATime
  <2> QED
    BY <2>1, <2>2
<1> QED
  BY <1>1, BkAlways, PTL

\* A snapshot that a run has taken outlives the run only when zfs refused to destroy it:
\* NoStraySnapshots.
THEOREM SnapshotsAreCleaned == BkSpec => []NoStraySnapshots
<1>1. BkInv => NoStraySnapshots
  BY DEF BkInv, SnapshotsAreOwned, NoStraySnapshots
<1> QED
  BY <1>1, BkAlways, PTL

\* Retention never costs the newest backup, whatever failed before or after it:
\* NewestArtifactIsWhole, for any retention count and any number of runs.
THEOREM NewestStays == BkSpec => []NewestArtifactIsWhole
<1>1. BkInv => NewestArtifactIsWhole
  BY DEF BkInv
<1> QED
  BY <1>1, BkAlways, PTL

-----------------------------------------------------------------------------
(* Schedules: CaptureSurvivesPrune.                                        *)

SchedSet == [on : BOOLEAN, next : Int, keep : Nat]
ScanSet  == [pc : {"idle", "next", "prune", "put"}, at : Nat, todo : SUBSET Scheds,
             copy : [Scheds -> SchedSet], cur : Scheds \cup {"none"}]

\* Automatic snapshots are named by the tick they were taken in: none is from the future, and
\* none is later than the tick under way.
ShotsArePast ==
    /\ manual \subseteq ManualNames
    /\ shots \ manual \subseteq 0..now
    /\ scan.pc # "idle" => scan.at \in 0..now /\ shots \ manual \subseteq 0..scan.at

\* Between a capture and its retention the evaluator knows the schedule it is for.
CaptureIsFor == scan.pc = "prune" => scan.cur \in Scheds

SchInv ==
    /\ now \in Nat /\ scan \in ScanSet
    /\ sched \in [Scheds -> SchedSet] /\ edits \in [Scheds -> SchedSet]
    /\ ShotsArePast /\ CaptureIsFor

USE SchedAssumption

\* What CaptureSurvivesPrune says of a step.
CaptureStays ==
    LET keep == scan.copy[scan.cur].keep IN
    /\ scan.pc = "prune" /\ scan'.pc = "put" /\ scan.at \in shots
    /\ keep = 0 \/ Cardinality({m \in manual : m > scan.at}) < keep
    => scan.at \in shots'

\* The next occurrence is a time.
LEMMA NextIsTime == \A t \in Nat : NextAfter(t) \in Int
BY DEF NextAfter

\* No schedule, and no evaluation under way.
LEMMA SchInitInv == SchInit => SchInv
<1>1. NoSched \in SchedSet
  BY DEF NoSched, SchedSet
<1> QED
  BY <1>1 DEF SchInit, SchInv, NoScan, ScanSet, ShotsArePast, CaptureIsFor

\* Requests change records only.
LEMMA SchRequestStep ==
    ASSUME SchInv, NEW s \in Scheds, NEW on \in BOOLEAN, NEW cron \in BOOLEAN, NEW k \in Keeps,
           CreateSchedule(s, on, k) \/ PutUpdate(s, on, k, cron)
    PROVE  SchInv'
<1>1. UNCHANGED <<now, scan, shots, manual>>
  BY DEF CreateSchedule, PutUpdate
<1>2. k \in Nat /\ now \in Nat /\ NextAfter(now) \in Int /\ 0 \in Int
  BY NextIsTime DEF SchInv
<1>3. NoSched \in SchedSet
  BY DEF NoSched, SchedSet
<1>4. [on |-> on, next |-> IF on THEN NextAfter(now) ELSE 0, keep |-> k] \in SchedSet
  BY <1>2 DEF SchedSet
<1>5. Updated(edits[s], on, k, cron) \in SchedSet
  <2>1. edits[s].next \in Int
    BY DEF SchInv, SchedSet
  <2> QED
    BY <1>2, <2>1 DEF Updated, SchedSet
<1>6. sched' \in [Scheds -> SchedSet] /\ edits' \in [Scheds -> SchedSet]
  BY <1>3, <1>4, <1>5 DEF SchInv, CreateSchedule, PutUpdate
<1> QED
  BY <1>1, <1>6 DEF SchInv, ShotsArePast, CaptureIsFor

\* Requests add a name of their own, or take one away.
LEMMA SnapshotRequestStep ==
    ASSUME SchInv, (\E n \in ManualNames : ManualSnapshot(n)) \/ \E n \in shots : DeleteSnapshot(n)
    PROVE  SchInv' /\ scan' = scan
<1>1. UNCHANGED <<sched, now, scan, edits>>
  BY DEF ManualSnapshot, DeleteSnapshot
<1>2. manual' \subseteq ManualNames /\ shots' \ manual' \subseteq shots \ manual
  BY DEF ManualSnapshot, DeleteSnapshot, SchInv, ShotsArePast
<1> QED
  BY <1>1, <1>2 DEF SchInv, ShotsArePast, CaptureIsFor

\* Time passes.
LEMMA TimeStep ==
    ASSUME SchInv, TimePasses
    PROVE  SchInv'
<1>1. now' = now + 1 /\ UNCHANGED <<sched, scan, edits, shots, manual>>
  BY DEF TimePasses
<1> QED
  BY <1>1 DEF SchInv, ShotsArePast, CaptureIsFor

\* A tick begins: what there is was taken by now.
LEMMA ReadSchedulesStep ==
    ASSUME SchInv, ReadSchedules
    PROVE  SchInv'
<1>1. /\ scan' = [pc |-> "next", at |-> now, todo |-> {s \in Scheds : Due(s, now)}, copy |-> sched,
                  cur |-> "none"]
      /\ UNCHANGED <<sched, now, edits, shots, manual>>
  BY DEF ReadSchedules
<1>2. scan' \in ScanSet /\ scan'.pc = "next" /\ scan'.at = now
  BY <1>1 DEF SchInv, ScanSet
<1> QED
  BY <1>1, <1>2 DEF SchInv, ShotsArePast, CaptureIsFor

\* The evaluator acts, or fails to.
LEMMA FireStep ==
    ASSUME SchInv, NEW s \in Scheds, Fire(s) \/ FireFails(s)
    PROVE  SchInv'
<1>1. /\ scan' \in ScanSet /\ scan'.at = scan.at /\ scan'.cur = s /\ scan'.pc \in {"prune", "put"}
      /\ UNCHANGED <<sched, now, edits, manual>> /\ scan.pc = "next"
  BY DEF Fire, FireFails, SchInv, ScanSet
<1>2. shots' \subseteq shots \cup {scan.at}
  BY DEF Fire, FireFails
<1> QED
  BY <1>1, <1>2 DEF SchInv, ShotsArePast, CaptureIsFor

\* Only names that requests chose are later than the snapshot just taken.
LEMMA NewestIsKept ==
    ASSUME SchInv, scan.pc = "prune", scan.at \in shots,
           \/ scan.copy[scan.cur].keep = 0
           \/ Cardinality({m \in manual : m > scan.at}) < scan.copy[scan.cur].keep
    PROVE  scan.at \in Kept(scan.copy[scan.cur].keep)
<1> DEFINE later == {m \in manual : m > scan.at}
<1>1. scan.at \in Nat /\ scan.cur \in Scheds /\ scan.copy[scan.cur].keep \in Nat
  BY DEF SchInv, CaptureIsFor, ScanSet, SchedSet
<1>2. Later(scan.at) \subseteq later
  <2>1. shots \ manual \subseteq 0..scan.at
    BY DEF SchInv, ShotsArePast
  <2>2. \A u \in shots \ manual : ~(u > scan.at)
    BY <1>1, <2>1
  <2> QED
    BY <2>2 DEF Later
<1>3. IsFiniteSet(later)
  <2>1. later \subseteq ManualNames
    BY DEF SchInv, ShotsArePast
  <2> QED
    BY <2>1, FS_Subset
<1>4. /\ Cardinality(Later(scan.at)) <= Cardinality(later)
      /\ Cardinality(Later(scan.at)) \in Nat /\ Cardinality(later) \in Nat
  BY <1>2, <1>3, FS_Subset, FS_CardinalityType
<1> QED
  BY <1>1, <1>4 DEF Kept

\* The retention.
LEMMA PruneStep ==
    ASSUME SchInv, NEW failed, Prune(failed)
    PROVE  SchInv' /\ CaptureStays
<1>1. /\ scan' \in ScanSet /\ scan'.at = scan.at /\ scan'.pc = "put" /\ scan.pc = "prune"
      /\ UNCHANGED <<sched, now, edits>>
  BY DEF Prune, SchInv, ScanSet
<1>2. shots' \subseteq shots /\ manual' = manual \cap shots'
  BY DEF Prune, Kept
<1>3. CaptureStays
  BY NewestIsKept DEF Prune, CaptureStays
<1> QED
  BY <1>1, <1>2, <1>3 DEF SchInv, ShotsArePast, CaptureIsFor

\* The copy goes back, or its write fails.
LEMMA SchAdvanceStep ==
    ASSUME SchInv, NEW s \in Scheds, Advance(s) \/ PutScheduleFails(s)
    PROVE  SchInv'
<1>1. NoScan \in ScanSet /\ NoScan.pc = "idle"
  BY DEF NoScan, ScanSet, SchedSet, NoSched
<1>2. /\ scan' \in ScanSet /\ UNCHANGED <<now, edits, shots, manual>>
      /\ \/ scan'.pc = "idle"
         \/ scan'.pc = "next" /\ scan'.at = scan.at
      /\ scan.pc = "put"
  BY <1>1 DEF Advance, PutScheduleFails, SchInv, ScanSet
<1>3. sched' \in [Scheds -> SchedSet]
  <2>1. CASE Advance(s)
    <3>1. scan.copy[s] \in SchedSet /\ NextAfter(scan.at) \in Int
      BY NextIsTime DEF SchInv, ScanSet
    <3>2. [scan.copy[s] EXCEPT !.next = NextAfter(scan.at)] \in SchedSet
      BY <3>1 DEF SchedSet
    <3> QED
      BY <2>1, <3>2 DEF Advance, SchInv
  <2>2. CASE PutScheduleFails(s)
    BY <2>2 DEF PutScheduleFails, SchInv
  <2> QED
    BY <2>1, <2>2
<1> QED
  BY <1>2, <1>3 DEF SchInv, ShotsArePast, CaptureIsFor

\* SchInv is inductive, and no step takes the snapshot just captured: a prune is the only step out
\* of "prune" that goes to "put".
LEMMA SchStepInv == SchInv /\ [SchNext]_schvars => SchInv' /\ (CaptureStays \/ UNCHANGED schvars)
<1> SUFFICES ASSUME SchInv, [SchNext]_schvars
             PROVE  SchInv' /\ (CaptureStays \/ UNCHANGED schvars)
  OBVIOUS
<1>1. ASSUME NEW s \in Scheds, NEW on \in BOOLEAN, NEW cron \in BOOLEAN, NEW k \in Keeps,
             \/ CreateSchedule(s, on, k)
             \/ PutUpdate(s, on, k, cron)
      PROVE  SchInv' /\ CaptureStays
  <2>1. SchInv'
    BY <1>1, SchRequestStep
  <2>2. scan' = scan
    BY <1>1 DEF CreateSchedule, PutUpdate
  <2> QED
    BY <2>1, <2>2 DEF CaptureStays
<1>2. ASSUME NEW s \in Scheds, BeginUpdate(s) \/ DeleteSchedule(s)
      PROVE  SchInv' /\ CaptureStays
  <2>1. UNCHANGED <<now, scan, shots, manual>>
    BY <1>2 DEF BeginUpdate, DeleteSchedule
  <2>2. NoSched \in SchedSet
    BY DEF NoSched, SchedSet
  <2>3. sched' \in [Scheds -> SchedSet] /\ edits' \in [Scheds -> SchedSet]
    BY <1>2, <2>2 DEF SchInv, BeginUpdate, DeleteSchedule
  <2> QED
    BY <2>1, <2>3 DEF SchInv, ShotsArePast, CaptureIsFor, CaptureStays
<1>3. ASSUME NEW s \in Scheds,
             \/ Fire(s)
             \/ FireFails(s)
             \/ Advance(s)
             \/ PutScheduleFails(s)
      PROVE  SchInv' /\ CaptureStays
  <2>1. scan.pc \in {"next", "put"}
    BY <1>3 DEF Fire, FireFails, Advance, PutScheduleFails
  <2> QED
    BY <1>3, <2>1, FireStep, SchAdvanceStep DEF CaptureStays
<1>4. CASE TimePasses
  <2>1. scan' = scan
    BY <1>4 DEF TimePasses
  <2> QED
    BY <1>4, <2>1, TimeStep DEF CaptureStays
<1>5. CASE ReadSchedules
  BY <1>5, ReadSchedulesStep DEF CaptureStays, ReadSchedules
<1>6. ASSUME NEW f, Prune(f) PROVE SchInv' /\ CaptureStays
  BY <1>6, PruneStep DEF CaptureStays
<1>7. CASE (\E n \in ManualNames : ManualSnapshot(n)) \/ \E n \in shots : DeleteSnapshot(n)
  BY <1>7, SnapshotRequestStep DEF CaptureStays
<1>8. CASE UNCHANGED schvars
  BY <1>8 DEF schvars, SchInv, ShotsArePast, CaptureIsFor
<1> QED
  BY <1>1, <1>2, <1>3, <1>4, <1>5, <1>6, <1>7, <1>8 DEF SchNext

(* The retention that follows a capture takes the snapshot just captured only when requests   *)
(* have given names that sort after it to keep others, whatever deletions fail and however    *)
(* old the evaluator's copy of the schedule is (snapshot_schedule.rs capture_and_prune_vm).   *)
THEOREM CapturesSurvive == SchSpec => CaptureSurvivesPrune
<1>1. SchInv /\ [SchNext]_schvars => [CaptureStays]_schvars
  BY SchStepInv
<1>2. SchInv /\ [SchNext]_schvars => SchInv'
  BY SchStepInv
<1> QED
  BY <1>1, <1>2, SchInitInv, PTL DEF SchSpec, CaptureSurvivesPrune, CaptureStays
=============================================================================
