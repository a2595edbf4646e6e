------------------------------- MODULE Backups -------------------------------
(* Backup plans, runs, retention and restores (services/backup.rs). One plan *)
(* and the artifacts it makes, all of them verified; a schedule is due or    *)
(* not, and falls due again whenever an interval has passed. A plan's        *)
(* from_snapshot is 0 (full streams) or names the run whose snapshot is the  *)
(* base of incremental ones. Every file, snapshot and record a run writes is *)
(* a step of its own, and any of them may fail.                              *)
EXTENDS Integers, FiniteSets

CONSTANTS GuestDisks,     \* datasets a source may consist of
          Workers,      \* operation workers
          MaxKeep,      \* largest retention_count of a new plan
          PlanChanges,  \* what an update may ask for
          MaxRuns,      \* bound on runs, so on artifact ids
          MaxBkOps,     \* bound on requests about the plan
          MaxBkFaults   \* bound on failing host and store operations

ASSUME BkAssumption ==
  /\ MaxKeep \in Nat /\ MaxRuns \in Nat
  /\ PlanChanges \subseteq [on : BOOLEAN, keep : Nat \ {0}, from : Nat, interval : BOOLEAN]

VARIABLES
  plan,      \* the stored plan, or NoPlan
  arts,      \* artifact records: id -> the datasets of its files
  based,     \* <<id, base>> of the artifacts that hold incremental streams
  files,     \* <<id, dataset>> of the stream files on disk, whole or "part"
  bksnaps,   \* <<id, dataset>> of the snapshots a run has taken
  running,   \* the plan is in the running set
  queueing,  \* the plan a request has entered in the running set and is to hand to a worker
  work,      \* the workers
  edit,      \* an update or delete of the plan that has read it
  target,    \* the dataset a restore writes to: absent, old, base (received alone), new
  restore,   \* the restore operation
  leaked,    \* runs whose snapshots zfs could not destroy
  runs, bkops, bkfaults

bkvars  == <<leaked, plan, arts, based, files, bksnaps, running, queueing, work, edit, target, restore, runs, bkops, bkfaults>>
bkdisk  == <<arts, based, files, bksnaps>>
bkrest  == <<target, restore>>
bkcount == <<runs, bkops, bkfaults, leaked>>

NoPlan == [src |-> {}, on |-> FALSE, due |-> FALSE, keep |-> 0, from |-> 0]
NoWork == [pc |-> "idle", id |-> 0, plan |-> NoPlan, todo |-> {}, made |-> {}, ok |-> FALSE]
NoEdit == [op |-> "none", plan |-> NoPlan]
NoRestore == [pc |-> "idle", id |-> 0, base |-> 0, force |-> FALSE]

BkInit ==
  /\ plan = NoPlan /\ arts = [i \in {} |-> {}] /\ based = {} /\ files = {} /\ bksnaps = {}
  /\ running = FALSE /\ queueing = NoPlan /\ work = [w \in Workers |-> NoWork]
  /\ edit = NoEdit /\ target = "old" /\ restore = NoRestore /\ leaked = {}
  /\ runs = 0 /\ bkops = 0 /\ bkfaults = 0

BkOp    == bkops < MaxBkOps /\ bkops' = bkops + 1 /\ UNCHANGED <<runs, bkfaults, leaked>>
BkFails == bkfaults < MaxBkFaults /\ bkfaults' = bkfaults + 1 /\ UNCHANGED <<runs, bkops>>
BkFault == BkFails /\ UNCHANGED leaked
Active(w) == work[w].pc # "idle"
WorkTo(w, pc) == work' = [work EXCEPT ![w].pc = pc]

-----------------------------------------------------------------------------
(* The plan.                                                                  *)

\* A plan has an id of its own: its creation is the first request about it, and happens once.
CreatePlan(src, on, keep) ==
  /\ BkOp /\ bkops = 0 /\ src # {} /\ keep >= 1
  /\ plan' = [src |-> src, on |-> on, due |-> FALSE, keep |-> keep, from |-> 0]
  /\ UNCHANGED <<bkdisk, running, queueing, work, edit, bkrest>>

\* update_plan and delete_plan read the plan, and delete_plan the running set, before they write.
BeginEdit(op) ==
  /\ BkOp /\ plan # NoPlan /\ edit = NoEdit
  /\ op = "delete" => ~running
  /\ edit' = [op |-> op, plan |-> plan]
  /\ UNCHANGED <<plan, bkdisk, running, queueing, work, bkrest>>

\* A new interval counts from now.
FinishUpdate(c) ==
  /\ edit.op = "update" /\ c.from <= runs
  /\ plan' = [edit.plan EXCEPT !.on = c.on, !.keep = c.keep, !.from = c.from, !.due = @ /\ ~c.interval]
  /\ edit' = NoEdit
  /\ UNCHANGED <<bkdisk, running, queueing, work, bkrest, bkcount>>

FinishDelete ==
  /\ edit.op = "delete"
  /\ plan' = NoPlan /\ edit' = NoEdit
  /\ UNCHANGED <<bkdisk, running, queueing, work, bkrest, bkcount>>

FallsDue ==
  /\ plan # NoPlan /\ ~plan.due /\ plan' = [plan EXCEPT !.due = TRUE]
  /\ UNCHANGED <<bkdisk, running, queueing, work, edit, bkrest, bkcount>>

-----------------------------------------------------------------------------
(* A run is requested, by hand or by the scheduler, and handed to a worker.  *)

\* enqueue_backup_for_plan enters the plan in the running set, or refuses; the scheduler's look at
\* the plan is part of the step.
EnterRunning_Unchecked(how) ==
  /\ runs < MaxRuns /\ runs' = runs + 1 /\ UNCHANGED <<bkops, bkfaults, leaked>>
  /\ plan # NoPlan /\ (how = "scheduled" => plan.on /\ plan.due) /\ queueing = NoPlan
  /\ running' = TRUE /\ queueing' = plan
  /\ UNCHANGED <<plan, bkdisk, work, edit, bkrest>>

EnterRunning(how) ==
  /\ runs < MaxRuns /\ runs' = runs + 1 /\ UNCHANGED <<bkops, bkfaults, leaked>>
  /\ plan # NoPlan /\ (how = "scheduled" => plan.on /\ plan.due)
  /\ ~running /\ running' = TRUE /\ queueing' = plan
  /\ UNCHANGED <<plan, bkdisk, work, edit, bkrest>>

\* The operation is recorded and a worker takes it, with the plan as it was when it was entered.
Queue(w) ==
  /\ queueing # NoPlan /\ ~Active(w)
  /\ queueing' = NoPlan
  /\ work' = [work EXCEPT ![w] = [NoWork EXCEPT !.pc = "sources", !.id = runs, !.plan = queueing]]
  /\ UNCHANGED <<plan, bkdisk, running, edit, bkrest, bkcount>>

QueueFails ==
  /\ BkFault /\ queueing # NoPlan
  /\ queueing' = NoPlan /\ running' = FALSE
  /\ UNCHANGED <<plan, bkdisk, work, edit, bkrest>>

\* The request is dropped, or the worker cannot mark the operation running: the plan stays entered.
QueueLost ==
  /\ BkFault /\ queueing # NoPlan
  /\ queueing' = NoPlan
  /\ UNCHANGED <<plan, bkdisk, running, work, edit, bkrest>>

-----------------------------------------------------------------------------
(* run_backup.                                                                *)

\* The sources are resolved and the destination is made; an error here returns at once.
ResolveSources(w) ==
  /\ work[w].pc = "sources"
  /\ work' = [work EXCEPT ![w].pc = "base", ![w].todo = work[w].plan.src]
  /\ UNCHANGED <<plan, bkdisk, running, queueing, edit, bkrest, bkcount>>

ResolveFails(w) ==
  /\ BkFault /\ work[w].pc = "sources"
  /\ WorkTo(w, "done")
  /\ UNCHANGED <<plan, bkdisk, running, queueing, edit, bkrest>>

\* Every source must still carry the base snapshot of an incremental run.
FindBases(w) ==
  /\ work[w].pc = "base"
  /\ LET b == work[w].plan.from
     IN WorkTo(w, IF b = 0 \/ {<<b, d>> : d \in work[w].todo} \subseteq bksnaps THEN "snapshot" ELSE "clean")
  /\ UNCHANGED <<plan, bkdisk, running, queueing, edit, bkrest, bkcount>>

TakeSnapshot(w, d) ==
  /\ work[w].pc = "snapshot" /\ d \in work[w].todo
  /\ bksnaps' = bksnaps \cup {<<work[w].id, d>>}
  /\ work' = [work EXCEPT ![w].pc = "send", ![w].made = @ \cup {d}]
  /\ UNCHANGED <<plan, arts, based, files, running, queueing, edit, bkrest, bkcount>>

\* zfs send into the file of the dataset taken last; then its checksum, verified when asked for.
SendStream(w, d) ==
  /\ work[w].pc = "send" /\ d \in work[w].made \cap work[w].todo
  /\ files' = files \cup {<<work[w].id, d, "whole">>}
  /\ work' = [work EXCEPT ![w].todo = @ \ {d}, ![w].pc = IF work[w].todo = {d} THEN "record" ELSE "snapshot"]
  /\ UNCHANGED <<plan, arts, based, bksnaps, running, queueing, edit, bkrest, bkcount>>

SendFails(w, d) ==
  /\ BkFault /\ work[w].pc = "send" /\ d \in work[w].made \cap work[w].todo
  /\ files' = files \cup {<<work[w].id, d, "part">>}
  /\ WorkTo(w, "clean")
  /\ UNCHANGED <<plan, arts, based, bksnaps, running, queueing, edit, bkrest>>

\* A journal, host or store operation of the result block fails: the base check, the snapshot,
\* the artifact record or its removal by the retention.
BlockFails(w) ==
  /\ BkFault /\ work[w].pc \in {"base", "snapshot", "record", "retain", "erase"}
  /\ WorkTo(w, "clean")
  /\ UNCHANGED <<plan, bkdisk, running, queueing, edit, bkrest>>

PutArtifact(w) ==
  /\ work[w].pc = "record"
  /\ arts' = [i \in DOMAIN arts \cup {work[w].id} |-> IF i = work[w].id THEN work[w].plan.src ELSE arts[i]]
  /\ based' = based \cup {<<work[w].id, b>> : b \in {work[w].plan.from} \ {0}}
  /\ WorkTo(w, "retain")
  /\ UNCHANGED <<plan, files, bksnaps, running, queueing, edit, bkrest, bkcount>>

\* The artifacts of the plan beyond the newest retention_count: the files go first.
Newer(i)   == {j \in DOMAIN arts : j > i}
Surplus_Oldest(n) == {i \in DOMAIN arts : Cardinality(DOMAIN arts \ Newer(i)) > n}
Surplus(n) == {i \in DOMAIN arts : Cardinality(Newer(i)) >= n}

\* Files are removed first, the record after them; without surplus the block succeeds.
RemoveFiles(w, i) ==
  /\ work[w].pc = "retain" /\ i \in Surplus(work[w].plan.keep)
  /\ files' = {f \in files : f[1] # i}
  /\ work' = [work EXCEPT ![w].pc = "erase", ![w].todo = {i}]
  /\ UNCHANGED <<plan, arts, based, bksnaps, running, queueing, edit, bkrest, bkcount>>

EraseArtifact(w) ==
  /\ work[w].pc = "erase"
  /\ arts' = [i \in DOMAIN arts \ work[w].todo |-> arts[i]]
  /\ work' = [work EXCEPT ![w].pc = "retain", ![w].todo = {}]
  /\ UNCHANGED <<plan, based, files, bksnaps, running, queueing, edit, bkrest, bkcount>>

BlockDone(w) ==
  /\ work[w].pc = "retain" /\ Surplus(work[w].plan.keep) = {}
  /\ work' = [work EXCEPT ![w].pc = "clean", ![w].ok = TRUE]
  /\ UNCHANGED <<plan, bkdisk, running, queueing, edit, bkrest, bkcount>>

\* The run's own snapshots are destroyed whatever the outcome; a failure is ignored.
DestroySnapshots_OnSuccess(w) ==
  /\ work[w].pc = "clean"
  /\ bksnaps' = IF work[w].ok THEN {s \in bksnaps : s[1] # work[w].id} ELSE bksnaps
  /\ WorkTo(w, "readplan")
  /\ UNCHANGED <<plan, arts, based, files, running, queueing, edit, bkrest, bkcount>>

DestroySnapshots(w) ==
  /\ work[w].pc = "clean"
  /\ bksnaps' = {s \in bksnaps : s[1] # work[w].id}
  /\ WorkTo(w, "readplan")
  /\ UNCHANGED <<plan, arts, based, files, running, queueing, edit, bkrest, bkcount>>

DestroyFails(w) ==
  /\ BkFails /\ work[w].pc = "clean"
  /\ leaked' = leaked \cup {work[w].id}
  /\ WorkTo(w, "readplan")
  /\ UNCHANGED <<plan, bkdisk, running, queueing, edit, bkrest>>

\* The plan is read again and written back with the next due time.
ReadPlan(w) ==
  /\ work[w].pc = "readplan"
  /\ work' = [work EXCEPT ![w].plan = plan, ![w].pc = IF plan = NoPlan THEN "done" ELSE "putplan"]
  /\ UNCHANGED <<plan, bkdisk, running, queueing, edit, bkrest, bkcount>>

AdvancePlan(w) ==
  /\ work[w].pc = "putplan"
  /\ plan' = [work[w].plan EXCEPT !.due = FALSE]
  /\ work' = [work EXCEPT ![w].pc = "done"]
  /\ UNCHANGED <<bkdisk, running, queueing, edit, bkrest, bkcount>>

AdvanceFails(w) ==
  /\ BkFault /\ work[w].pc \in {"readplan", "putplan"}
  /\ WorkTo(w, "done")
  /\ UNCHANGED <<plan, bkdisk, running, queueing, edit, bkrest>>

\* The worker takes the plan out of the running set, notifies, and ends.
WorkerDone(w) ==
  /\ work[w].pc = "done"
  /\ running' = FALSE /\ work' = [work EXCEPT ![w] = NoWork]
  /\ UNCHANGED <<plan, bkdisk, queueing, edit, bkrest, bkcount>>

-----------------------------------------------------------------------------
(* Restore of a one-dataset artifact: a full stream, or an incremental one   *)
(* on top of the artifact that holds its base snapshot.                      *)

Incremental(i) == \E b \in 1..MaxRuns : <<i, b>> \in based
Stored(i)      == \E f \in files : f[1] = i

EnqueueRestore(i, base, force) ==
  /\ BkOp /\ restore = NoRestore /\ i \in DOMAIN arts /\ Cardinality(arts[i]) = 1
  /\ \/ base = 0 /\ ~Incremental(i)
     \/ base \in DOMAIN arts /\ <<i, base>> \in based /\ arts[i] \subseteq arts[base]
  /\ restore' = [pc |-> "verify", id |-> i, base |-> base, force |-> force]
  /\ UNCHANGED <<plan, bkdisk, running, queueing, work, edit, target>>

RestoreEnds   == restore' = NoRestore /\ UNCHANGED target
RestoreTo(pc) == restore' = [restore EXCEPT !.pc = pc]

VerifyFile ==
  /\ restore.pc = "verify"
  /\ IF \A i \in {restore.id, restore.base} \ {0} : Stored(i) THEN RestoreTo("target") /\ UNCHANGED target
                                                              ELSE RestoreEnds
  /\ UNCHANGED <<plan, bkdisk, running, queueing, work, edit, bkcount>>

\* `zfs list` of a missing target is an error, so only an existing one goes on, when forced.
CheckTarget ==
  /\ restore.pc = "target"
  /\ IF target # "absent" /\ restore.force THEN target' = "absent" /\ RestoreTo("receive") ELSE RestoreEnds
  /\ UNCHANGED <<plan, bkdisk, running, queueing, work, edit, bkcount>>

\* The full stream, which is the base of a chain: zfs takes no incremental one into a missing target.
Receive ==
  /\ restore.pc = "receive"
  /\ LET first == IF restore.base = 0 THEN restore.id ELSE restore.base
     IN IF ~Stored(first) \/ Incremental(first) THEN RestoreEnds
        ELSE IF restore.base = 0 THEN target' = "new" /\ restore' = NoRestore
        ELSE target' = "base" /\ RestoreTo("delta")
  /\ UNCHANGED <<plan, bkdisk, running, queueing, work, edit, bkcount>>

ReceiveDelta ==
  /\ restore.pc = "delta"
  /\ IF Stored(restore.id) THEN target' = "new" /\ restore' = NoRestore ELSE RestoreEnds
  /\ UNCHANGED <<plan, bkdisk, running, queueing, work, edit, bkcount>>

\* zfs refuses to destroy the target, or to receive: what an earlier step did to it stays.
RestoreFails ==
  /\ BkFault /\ restore.pc \in {"target", "receive", "delta"} /\ RestoreEnds
  /\ UNCHANGED <<plan, bkdisk, running, queueing, work, edit>>

BkNext ==
  \/ \E s \in SUBSET GuestDisks, on \in BOOLEAN, k \in 1..MaxKeep : CreatePlan(s, on, k)
  \/ \E op \in {"update", "delete"} : BeginEdit(op)
  \/ \E c \in PlanChanges : FinishUpdate(c)
  \/ FinishDelete \/ FallsDue
  \/ \E how \in {"manual", "scheduled"} : EnterRunning(how)
  \/ QueueFails \/ QueueLost
  \/ \E w \in Workers :
       \/ Queue(w) \/ ResolveSources(w) \/ ResolveFails(w) \/ FindBases(w)
       \/ \E d \in GuestDisks : TakeSnapshot(w, d) \/ SendStream(w, d) \/ SendFails(w, d)
       \/ BlockFails(w) \/ PutArtifact(w)
       \/ \E i \in 1..MaxRuns : RemoveFiles(w, i)
       \/ EraseArtifact(w) \/ BlockDone(w) \/ DestroySnapshots(w) \/ DestroyFails(w)
       \/ ReadPlan(w) \/ AdvancePlan(w) \/ AdvanceFails(w) \/ WorkerDone(w)
  \/ \E i \in 1..MaxRuns, b \in 0..MaxRuns, f \in BOOLEAN : EnqueueRestore(i, b, f)
  \/ VerifyFile \/ CheckTarget \/ Receive \/ ReceiveDelta \/ RestoreFails

BkSpec == BkInit /\ [][BkNext]_bkvars

-----------------------------------------------------------------------------

\* Two runs of one plan never overlap, however the scheduler, requests by hand, failures of the
\* journal and edits of the plan interleave.
OneRunAtATime ==
  /\ Cardinality({w \in Workers : Active(w)}) + (IF queueing = NoPlan THEN 0 ELSE 1) <= 1
  /\ (\E w \in Workers : Active(w)) => running

\* Retention never costs the newest backup: its record, and with it the stream of every dataset,
\* whole, is there, whatever failed in the runs before and after it.
NewestArtifactIsWhole ==
  \A i \in DOMAIN arts : Newer(i) = {} => \A d \in arts[i] : <<i, d, "whole">> \in files

\* Snapshots a run has taken are gone once it has ended, at whatever step it failed, unless zfs
\* itself refused to destroy them.
NoStraySnapshots ==
  \A s \in bksnaps : s[1] \in leaked \/ \E w \in Workers : work[w].id = s[1]
=============================================================================
