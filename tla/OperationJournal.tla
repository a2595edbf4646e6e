-------------------------- MODULE OperationJournal --------------------------
(***************************************************************************)
(* The durable operations journal: OperationService in                     *)
(* src/src/services/operations.rs, the startup recovery that               *)
(* AppState::new runs, and the JSON record store underneath it.            *)
(*                                                                         *)
(* A synchronous operation (OperationService::run) lives inside the HTTP   *)
(* request that asked for it and dies with it; an asynchronous one         *)
(* (enqueue) is a detached worker that outlives the request.  Both write   *)
(* their record by a read-modify-write of the whole file with no lock, so  *)
(* a read and the write that follows it are two steps here.  A record      *)
(* write is atomic (temp file, then rename) and may fail; the process may  *)
(* crash between any two steps, and on the next boot every record that is  *)
(* still Queued or Running is turned into NeedsReview before the server    *)
(* starts to serve.                                                        *)
(***************************************************************************)
EXTENDS Integers

CONSTANTS Ops,                  \* the ids that new_id() may hand out
          MaxCrashes,           \* bound on crashes of the process
          MaxFaults             \* bound on failing record reads and writes

ASSUME JournalAssumption == /\ MaxCrashes \in Nat
                            /\ MaxFaults  \in Nat

VARIABLES phase,                \* of the backend process
          store,                \* operations/<id>.json
          task,                 \* the future that carries an operation, in memory
          effect,               \* what the operation has really done to the host
          pending,              \* records recover_interrupted has yet to rewrite
          crashes, faults       \* how much of the two bounds is used

vars == <<phase, store, task, effect, pending, crashes, faults>>

-----------------------------------------------------------------------------
(* The persisted record.  Of OperationRecord the fields that the code      *)
(* reads again or reports as an outcome are kept; names, messages and      *)
(* timestamps other than finished_at are not.                              *)

Terminal == {"Succeeded", "Failed", "NeedsReview"}
Active   == {"Queued", "Running"}
Effects  == {"none", "partial", "applied"}

NoProgress == -1                \* progress_pct: None
Milestones == {10, 50}          \* what a job reports before and during its work
Progress   == {NoProgress, 0, 100} \cup Milestones

Record == [status   : Active \cup Terminal,
           progress : Progress,
           result   : BOOLEAN,     \* result_id is set
           finished : BOOLEAN]     \* finished_at is set
NoRecord == [status |-> "Absent"]  \* there is no such file

NewRecord(s) == [status |-> s, progress |-> NoProgress,
                 result |-> FALSE, finished |-> FALSE]

(* The record the service writes, given the one it has read.  Definitions  *)
(* named <D>_<mistake> are variants of the definition D that follows them, *)
(* each with a mistake that one of the properties below has to detect.     *)
MarkRunning(r) == IF r.status = "Queued"
                  THEN [r EXCEPT !.status = "Running", !.progress = 0]
                  ELSE r
UpdateProgress_Unclamped(r, pct) == [r EXCEPT !.progress = @ + pct]
UpdateProgress(r, pct) == IF r.status \in Terminal
                          THEN r
                          ELSE [r EXCEPT !.progress = pct]
SetResult(r) == [r EXCEPT !.result = TRUE]
Finish_IgnoresError(r, ok) ==
    [r EXCEPT !.status = "Succeeded", !.progress = 100, !.finished = TRUE]
Finish(r, ok) == [r EXCEPT !.status   = IF ok THEN "Succeeded" ELSE "Failed",
                           !.progress = IF ok THEN 100 ELSE @,
                           !.finished = TRUE]
Review(r) == [r EXCEPT !.status = "NeedsReview", !.finished = TRUE]

-----------------------------------------------------------------------------
(* The task.  pc names the step the future is about to take:               *)
(*   none     no future in this process (never started, or lost to a crash)*)
(*   mark     mark_running          progress  update_progress              *)
(*   work     the host workflow     result    set_result_id                *)
(*   finish   succeed or fail       over      returned                     *)
(*   lost     ended without having recorded an outcome                     *)
(* snap is the record the pending read-modify-write has read.              *)

Journalling == {"mark", "progress", "result", "finish"}
PCs == Journalling \cup {"none", "work", "over", "lost"}
Task == [pc   : PCs,
         sync : BOOLEAN,                       \* run (TRUE) or enqueue (FALSE)
         ok   : BOOLEAN,                       \* outcome that finish will record
         snap : Record \cup {NoRecord}]
NoTask == [pc |-> "none", sync |-> FALSE, ok |-> FALSE, snap |-> NoRecord]

TypeOK == /\ phase \in {"down", "recovering", "serving"}
          /\ store \in [Ops -> Record \cup {NoRecord}]
          /\ task \in [Ops -> Task]
          /\ effect \in [Ops -> Effects]
          /\ pending \subseteq Ops
          /\ crashes \in 0..MaxCrashes
          /\ faults \in 0..MaxFaults

Init == /\ phase = "down"
        /\ store = [o \in Ops |-> NoRecord]
        /\ task = [o \in Ops |-> NoTask]
        /\ effect = [o \in Ops |-> "none"]
        /\ pending = {}
        /\ crashes = 0
        /\ faults = 0

-----------------------------------------------------------------------------
(* Requests.  create_record is the first thing either entry point does; a  *)
(* failing put there fails the request before anything has happened.       *)

\* run: begin() persists a Running record, then the host workflow starts.
Begin(o) == /\ phase = "serving"
            /\ store[o] = NoRecord
            /\ store' = [store EXCEPT ![o] = NewRecord("Running")]
            /\ task' = [task EXCEPT ![o] = [NoTask EXCEPT !.pc = "work", !.sync = TRUE]]
            /\ UNCHANGED <<phase, effect, pending, crashes, faults>>

Enqueue_NeverMarksRunning(o) ==
    /\ phase = "serving"
    /\ store[o] = NoRecord
    /\ store' = [store EXCEPT ![o] = NewRecord("Queued")]
    /\ task' = [task EXCEPT ![o] = [NoTask EXCEPT !.pc = "work"]]
    /\ UNCHANGED <<phase, effect, pending, crashes, faults>>

\* enqueue: queue() persists a Queued record, then the worker is spawned.
Enqueue(o) == /\ phase = "serving"
              /\ store[o] = NoRecord
              /\ store' = [store EXCEPT ![o] = NewRecord("Queued")]
              /\ task' = [task EXCEPT ![o] = [NoTask EXCEPT !.pc = "mark"]]
              /\ UNCHANGED <<phase, effect, pending, crashes, faults>>

\* The client goes away while create_record is writing: the file is completed
\* by the blocking pool, but the request is dropped before it goes on.
AbandonSubmit(o, s) ==
    /\ phase = "serving"
    /\ store[o] = NoRecord
    /\ s \in Active
    /\ store' = [store EXCEPT ![o] = NewRecord(s)]
    /\ task' = [task EXCEPT ![o] = [NoTask EXCEPT !.pc = "lost"]]
    /\ UNCHANGED <<phase, effect, pending, crashes, faults>>

-----------------------------------------------------------------------------
(* The journal's read-modify-writes.                                       *)

ReadRecord(o) == /\ task[o].pc \in Journalling
                 /\ task[o].snap = NoRecord
                 /\ task' = [task EXCEPT ![o].snap = store[o]]
                 /\ UNCHANGED <<phase, store, effect, pending, crashes, faults>>

WriteRecord_ReusesSnapshot(o, pc, r, next) ==
    /\ task[o].pc = pc
    /\ task[o].snap # NoRecord
    /\ store' = [store EXCEPT ![o] = r]
    /\ task' = [task EXCEPT ![o].pc = next]
    /\ UNCHANGED <<phase, effect, pending, crashes, faults>>

\* What the future goes on to once its write is on disk.
WriteRecord(o, pc, r, next) ==
    /\ task[o].pc = pc
    /\ task[o].snap # NoRecord
    /\ store' = [store EXCEPT ![o] = r]
    /\ task' = [task EXCEPT ![o].pc = next, ![o].snap = NoRecord]
    /\ UNCHANGED <<phase, effect, pending, crashes, faults>>

WriteRunning(o)  == WriteRecord(o, "mark", MarkRunning(task[o].snap), "progress")
WriteProgress(o) == LET pct == IF effect[o] = "none" THEN 10 ELSE 50
                    IN  WriteRecord(o, "progress", UpdateProgress(task[o].snap, pct), "work")
WriteResult(o)   == WriteRecord(o, "result", SetResult(task[o].snap), "finish")
WriteOutcome(o)  == WriteRecord(o, "finish", Finish(task[o].snap, task[o].ok), "over")

JournalFault_FinishesAnyway(o) ==
    /\ faults < MaxFaults
    /\ task[o].pc \in Journalling
    /\ faults' = faults + 1
    /\ task' = [task EXCEPT
                  ![o].pc   = IF @ = "finish" THEN "lost" ELSE "finish",
                  ![o].ok   = FALSE,
                  ![o].snap = NoRecord]
    /\ UNCHANGED <<phase, store, effect, pending, crashes>>

\* A read or write of the record fails.  The worker gives up when it cannot
\* mark the job running; a failure inside the job's closure is an error like
\* any other and is journalled as a failure; a failing finish is only logged.
JournalFault(o) ==
    /\ faults < MaxFaults
    /\ task[o].pc \in Journalling
    /\ faults' = faults + 1
    /\ task' = [task EXCEPT
                  ![o].pc   = IF @ \in {"mark", "finish"} THEN "lost" ELSE "finish",
                  ![o].ok   = FALSE,
                  ![o].snap = NoRecord]
    /\ UNCHANGED <<phase, store, effect, pending, crashes>>

-----------------------------------------------------------------------------
(* The host workflow, opaque: it touches the host, and then succeeds or    *)
(* fails, with or without having undone what it had started.               *)

TouchHost(o) == /\ task[o].pc = "work"
                /\ effect[o] = "none"
                /\ effect' = [effect EXCEPT ![o] = "partial"]
                /\ UNCHANGED <<phase, store, task, pending, crashes, faults>>

\* Between two steps on the host an asynchronous job reports how far it is.
ReportProgress(o) ==
    /\ task[o].pc = "work"
    /\ ~task[o].sync
    /\ effect[o] = "partial"
    /\ store[o].progress < 50
    /\ task' = [task EXCEPT ![o].pc = "progress"]
    /\ UNCHANGED <<phase, store, effect, pending, crashes, faults>>

\* An asynchronous job that made something records its id (set_result_id).
WorkSucceeds(o, next) ==
    /\ task[o].pc = "work"
    /\ effect[o] = "partial"
    /\ effect' = [effect EXCEPT ![o] = "applied"]
    /\ next = "finish" \/ (next = "result" /\ ~task[o].sync)
    /\ task' = [task EXCEPT ![o].pc = next, ![o].ok = TRUE]
    /\ UNCHANGED <<phase, store, pending, crashes, faults>>

WorkFails(o, left) ==
    /\ task[o].pc = "work"
    /\ left = "none" \/ left = effect[o]
    /\ effect' = [effect EXCEPT ![o] = left]
    /\ task' = [task EXCEPT ![o].pc = "finish", ![o].ok = FALSE]
    /\ UNCHANGED <<phase, store, pending, crashes, faults>>

\* The client goes away: the HTTP server drops the request's future, and
\* with it a synchronous operation, at whatever await it has reached.
DropRequest(o) ==
    /\ task[o].sync
    /\ task[o].pc \in Journalling \cup {"work"}
    /\ task' = [task EXCEPT ![o].pc = "lost", ![o].snap = NoRecord]
    /\ UNCHANGED <<phase, store, effect, pending, crashes, faults>>

-----------------------------------------------------------------------------
(* Crash and restart.                                                      *)

Crash == /\ phase # "down"
         /\ crashes < MaxCrashes
         /\ crashes' = crashes + 1
         /\ phase' = "down"
         /\ task' = [o \in Ops |-> NoTask]
         /\ pending' = {}
         /\ UNCHANGED <<store, effect, faults>>

Boot_AllRecords ==
    /\ phase = "down"
    /\ phase' = "recovering"
    /\ pending' = {o \in Ops : store[o] # NoRecord}
    /\ UNCHANGED <<store, task, effect, crashes, faults>>

Boot_ForgetsQueued ==
    /\ phase = "down"
    /\ phase' = "recovering"
    /\ pending' = {o \in Ops : store[o].status = "Running"}
    /\ UNCHANGED <<store, task, effect, crashes, faults>>

\* recover_interrupted lists the records and picks those still active.
Boot == /\ phase = "down"
        /\ phase' = "recovering"
        /\ pending' = {o \in Ops : store[o].status \in Active}
        /\ UNCHANGED <<store, task, effect, crashes, faults>>

RecoverOne(o) == /\ phase = "recovering"
                 /\ o \in pending
                 /\ store' = [store EXCEPT ![o] = Review(store[o])]
                 /\ pending' = pending \ {o}
                 /\ UNCHANGED <<phase, task, effect, crashes, faults>>

\* A failing list or put is an error of AppState::new: main exits.
RecoverFault == /\ phase = "recovering"
                /\ faults < MaxFaults
                /\ faults' = faults + 1
                /\ phase' = "down"
                /\ pending' = {}
                /\ UNCHANGED <<store, task, effect, crashes>>

Serve_DuringRecovery ==
    /\ phase = "recovering"
    /\ phase' = "serving"
    /\ UNCHANGED <<store, task, effect, pending, crashes, faults>>

Serve == /\ phase = "recovering"
         /\ pending = {}
         /\ phase' = "serving"
         /\ UNCHANGED <<store, task, effect, pending, crashes, faults>>

-----------------------------------------------------------------------------
\* Steps the runtime takes by itself once an operation exists.
Progressing(o) == \/ ReadRecord(o)
                  \/ WriteRunning(o)
                  \/ WriteProgress(o)
                  \/ WriteResult(o)
                  \/ WriteOutcome(o)
                  \/ TouchHost(o)
                  \/ ReportProgress(o)
                  \/ \E next \in {"result", "finish"} : WorkSucceeds(o, next)
                  \/ \E left \in Effects : WorkFails(o, left)

Recovering == Boot \/ (\E o \in Ops : RecoverOne(o)) \/ Serve

Next == \/ \E o \in Ops : \/ Begin(o)
                          \/ Enqueue(o)
                          \/ \E s \in Active : AbandonSubmit(o, s)
                          \/ Progressing(o)
                          \/ JournalFault(o)
                          \/ DropRequest(o)
        \/ Recovering
        \/ RecoverFault
        \/ Crash

Spec == Init /\ [][Next]_vars

(* The runtime polls every ready future, host commands are bounded by      *)
(* COMMAND_TIMEOUT, and the service manager restarts the backend.          *)
FairSpec == /\ Spec
            /\ \A o \in Ops : WF_vars(Progressing(o))
            /\ WF_vars(Recovering)

-----------------------------------------------------------------------------
(* Properties.                                                             *)

\* "Unknown outcomes are never reported as success": a record says Succeeded
\* only when the host workflow was carried out to its end.
SuccessIsReal == \A o \in Ops : store[o].status = "Succeeded" => effect[o] = "applied"

\* "Every mutating handler records its lifecycle before touching the host":
\* nothing on the host was touched by an operation whose record does not
\* exist or still says that it is waiting in the queue.
RecordedBeforeHost ==
    \A o \in Ops : effect[o] # "none" => store[o].status \notin {"Absent", "Queued"}

\* The lock-free read-modify-writes of a record are safe because a record has
\* one writer: whatever a task has read is still what is on disk when it writes.
SnapshotsAreFresh == \A o \in Ops : task[o].snap # NoRecord => task[o].snap = store[o]

\* Once the server serves, a record that says Queued or Running belongs to a
\* future of this process; none is left over from before the restart.
NothingLeftOver ==
    phase = "serving" => \A o \in Ops : store[o].status \in Active => task[o].pc # "none"

\* Neither a finish, nor a late progress update, nor a recovery changes the
\* status of an operation whose outcome has been recorded.
TerminalIsFinal ==
    [][\A o \in Ops : store[o].status \in Terminal => store'[o].status = store[o].status]_vars

\* An operation does not stay Queued or Running for ever: its outcome is
\* recorded, or it is reviewed after a restart, unless its own future ended
\* without being able to record one and the process lives on.
OperationsResolve ==
    \A o \in Ops : store[o].status \in Active ~>
                      (store[o].status \in Terminal \/ task[o].pc = "lost")

\* The journal implements the lifecycle a polling client is promised.
Lifecycle == INSTANCE OperationLifecycle
                 WITH status <- [o \in Ops |-> store[o].status]
ImplementsLifecycle == Lifecycle!LSpec

=============================================================================
