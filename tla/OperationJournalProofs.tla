----------------------- MODULE OperationJournalProofs -----------------------
(***************************************************************************)
(* Theorems about the operations journal, for any set of operations and    *)
(* any bound on crashes and faults.                                        *)
(***************************************************************************)
EXTENDS OperationJournal, TLAPS

\* Where the future of an operation is in its code tells what its record says:
\* this ties the in-memory task to the file, and is what makes the invariants
\* of the journal inductive.
TaskMatchesRecord ==
    \A o \in Ops :
        /\ task[o].pc = "mark" => store[o].status = "Queued"
        /\ task[o].pc \in {"progress", "work", "result", "finish"}
               => store[o].status = "Running"
        /\ task[o].pc \in {"result", "finish"} /\ task[o].ok => effect[o] = "applied"
        /\ task[o].pc \in {"mark", "progress", "work"} => ~task[o].ok
        /\ task[o].pc \notin Journalling => task[o].snap = NoRecord

\* Futures exist only while the server serves; recovery has yet to rewrite
\* exactly the records that are still active.
RecoveryCoversActive ==
    /\ phase # "serving" => \A o \in Ops : task[o].pc = "none"
    /\ phase = "recovering" => pending = {o \in Ops : store[o].status \in Active}

IInv == /\ TypeOK
        /\ SuccessIsReal
        /\ RecordedBeforeHost
        /\ SnapshotsAreFresh
        /\ NothingLeftOver
        /\ TaskMatchesRecord
        /\ RecoveryCoversActive

-----------------------------------------------------------------------------
(* The records that the service writes.                                    *)

\* A record is told from a missing file by its status.
LEMMA RecordIsPresent ==
    \A r \in Record \cup {NoRecord} : (r \in Record <=> r # NoRecord)
                                    /\ (r = NoRecord <=> r.status = "Absent")
  BY DEF Record, NoRecord, Active, Terminal

\* create_record writes a well-formed record with the status it is given.
LEMMA NewRecordType ==
    \A s \in Active : NewRecord(s) \in Record /\ NewRecord(s).status = s
  BY DEF NewRecord, Record, Active, Progress, NoProgress

\* mark_running writes a record, and a queued one becomes running.
LEMMA MarkRunningType ==
    \A r \in Record : /\ MarkRunning(r) \in Record
                      /\ r.status = "Queued" => MarkRunning(r).status = "Running"
  BY DEF MarkRunning, Record, Active, Progress

\* update_progress and set_result_id keep the status.
LEMMA KeepStatus ==
    \A r \in Record : \A pct \in Milestones :
        /\ UpdateProgress(r, pct) \in Record
        /\ UpdateProgress(r, pct).status = r.status
        /\ SetResult(r) \in Record
        /\ SetResult(r).status = r.status
  BY DEF UpdateProgress, SetResult, Record, Milestones, Progress

\* finish writes the outcome, recovery writes NeedsReview.
LEMMA OutcomeType ==
    \A r \in Record : /\ \A ok \in BOOLEAN :
                           /\ Finish(r, ok) \in Record
                           /\ Finish(r, ok).status = IF ok THEN "Succeeded" ELSE "Failed"
                      /\ Review(r) \in Record
                      /\ Review(r).status = "NeedsReview"
  BY DEF Finish, Review, Record, Terminal, Progress

-----------------------------------------------------------------------------
(* The inductive invariant.                                                *)

\* The initial state satisfies the inductive invariant.
LEMMA InitIInv == Init => IInv
  BY JournalAssumption
  DEF Init, IInv, TypeOK, SuccessIsReal, RecordedBeforeHost, SnapshotsAreFresh,
      NothingLeftOver, TaskMatchesRecord, RecoveryCoversActive, NoRecord, NoTask,
      Task, PCs, Effects, Journalling

(* Facts of the invariant that concern one operation, and the lemma that   *)
(* every step of one operation's own future or request preserves them.     *)
OpInv(o) ==
    /\ store[o] \in Record \cup {NoRecord}
    /\ task[o] \in Task
    /\ effect[o] \in Effects
    /\ store[o].status = "Succeeded" => effect[o] = "applied"
    /\ effect[o] # "none" => store[o].status \notin {"Absent", "Queued"}
    /\ task[o].snap # NoRecord => task[o].snap = store[o]
    /\ task[o].pc = "mark" => store[o].status = "Queued"
    /\ task[o].pc \in {"progress", "work", "result", "finish"}
           => store[o].status = "Running"
    /\ task[o].pc \in {"result", "finish"} /\ task[o].ok => effect[o] = "applied"
    /\ task[o].pc \in {"mark", "progress", "work"} => ~task[o].ok
    /\ task[o].pc \notin Journalling => task[o].snap = NoRecord

\* A step of a serving process that changes nothing but operation o.
OnlyOp(o) == /\ phase = "serving"
             /\ phase' = phase /\ pending' = pending /\ crashes' = crashes
             /\ faults' \in 0..MaxFaults
             /\ store' = [store EXCEPT ![o] = store'[o]]
             /\ task' = [task EXCEPT ![o] = task'[o]]
             /\ effect' = [effect EXCEPT ![o] = effect'[o]]
             /\ task'[o].pc # "none"

\* The global invariant is preserved by a step that preserves it locally.
LEMMA LocalStep ==
    ASSUME IInv, NEW o \in Ops, OnlyOp(o), OpInv(o)'
    PROVE  IInv'
<1>3. TypeOK'
  BY DEF IInv, TypeOK, OnlyOp, OpInv
<1>4. \A p \in Ops \ {o} : store'[p] = store[p] /\ task'[p] = task[p] /\ effect'[p] = effect[p]
  BY DEF IInv, TypeOK, OnlyOp
<1>5. SuccessIsReal' /\ RecordedBeforeHost' /\ SnapshotsAreFresh'
  BY <1>4 DEF IInv, SuccessIsReal, RecordedBeforeHost, SnapshotsAreFresh, OpInv
<1>6. TaskMatchesRecord'
  BY <1>4 DEF IInv, TaskMatchesRecord, OpInv
<1>7. NothingLeftOver' /\ RecoveryCoversActive'
  BY <1>4 DEF IInv, NothingLeftOver, RecoveryCoversActive, OnlyOp
<1> QED
  BY <1>3, <1>5, <1>6, <1>7 DEF IInv

\* The invariant gives the facts about one operation.
LEMMA InvIsLocal == ASSUME IInv, NEW o \in Ops PROVE OpInv(o)
  BY DEF IInv, TypeOK, SuccessIsReal, RecordedBeforeHost, SnapshotsAreFresh,
         TaskMatchesRecord, OpInv

-----------------------------------------------------------------------------
(* One lemma per kind of step.                                             *)

\* A request creates a record under a fresh id.
LEMMA SubmitStep ==
    ASSUME IInv, NEW o \in Ops, NEW s \in Active, Begin(o) \/ Enqueue(o) \/ AbandonSubmit(o, s)
    PROVE  IInv'
<1> USE DEF NoTask, Task, PCs, Journalling
<1>1. OpInv(o)
  BY InvIsLocal
<1>2. effect[o] = "none"
  BY <1>1 DEF OpInv, Effects, NoRecord, Begin, Enqueue, AbandonSubmit
<1>3. CASE Begin(o)
  <2>1. NewRecord("Running") \in Record /\ NewRecord("Running").status = "Running"
    BY NewRecordType DEF Active
  <2>2. store'[o] = NewRecord("Running") /\ task'[o].pc = "work" /\ task'[o] \in Task
        /\ task'[o].snap = NoRecord /\ ~task'[o].ok /\ effect'[o] = "none"
    BY <1>2, <1>3 DEF Begin, IInv, TypeOK
  <2>3. OpInv(o)'
    BY <2>1, <2>2 DEF OpInv, Effects
  <2>4. OnlyOp(o)
    BY <1>3, <2>2 DEF Begin, OnlyOp, IInv, TypeOK
  <2> QED
    BY <2>3, <2>4, LocalStep
<1>4. CASE Enqueue(o)
  <2>1. NewRecord("Queued") \in Record /\ NewRecord("Queued").status = "Queued"
    BY NewRecordType DEF Active
  <2>2. store'[o] = NewRecord("Queued") /\ task'[o].pc = "mark" /\ task'[o] \in Task
        /\ task'[o].snap = NoRecord /\ ~task'[o].ok /\ effect'[o] = "none"
    BY <1>2, <1>4 DEF Enqueue, IInv, TypeOK
  <2>3. OpInv(o)'
    BY <2>1, <2>2 DEF OpInv, Effects
  <2>4. OnlyOp(o)
    BY <1>4, <2>2 DEF Enqueue, OnlyOp, IInv, TypeOK
  <2> QED
    BY <2>3, <2>4, LocalStep
<1>5. CASE AbandonSubmit(o, s)
  <2>1. NewRecord(s) \in Record /\ NewRecord(s).status = s
    BY NewRecordType
  <2>2. store'[o] = NewRecord(s) /\ task'[o].pc = "lost" /\ task'[o] \in Task
        /\ task'[o].snap = NoRecord /\ effect'[o] = "none"
    BY <1>2, <1>5 DEF AbandonSubmit, IInv, TypeOK
  <2>3. OpInv(o)'
    BY <2>1, <2>2 DEF OpInv, Effects, Active
  <2>4. OnlyOp(o)
    BY <1>5, <2>2 DEF AbandonSubmit, OnlyOp, IInv, TypeOK
  <2> QED
    BY <2>3, <2>4, LocalStep
<1> QED
  BY <1>3, <1>4, <1>5

\* A read leaves the record alone and remembers it.
LEMMA ReadStep ==
    ASSUME IInv, NEW o \in Ops, ReadRecord(o)
    PROVE  IInv'
<1>1. OpInv(o)
  BY InvIsLocal
<1>2. task'[o] = [task[o] EXCEPT !.snap = store[o]] /\ store'[o] = store[o] /\ effect'[o] = effect[o]
  BY DEF ReadRecord, IInv, TypeOK
<1>3. task'[o] \in Task /\ task'[o].pc = task[o].pc /\ task'[o].ok = task[o].ok
      /\ task'[o].snap = store[o]
  BY <1>1, <1>2 DEF OpInv, Task
<1>4. OpInv(o)'
  BY <1>1, <1>2, <1>3 DEF OpInv, ReadRecord
<1>5. OnlyOp(o)
  BY <1>2, <1>3 DEF ReadRecord, OnlyOp, IInv, TypeOK, RecoveryCoversActive, Journalling
<1> QED
  BY <1>4, <1>5, LocalStep

\* A write replaces the record that was read by the one computed from it.
LEMMA WriteStep ==
    ASSUME IInv, NEW o \in Ops, WriteRunning(o) \/ WriteProgress(o) \/ WriteResult(o) \/ WriteOutcome(o)
    PROVE  IInv'
<1>1. OpInv(o)
  BY InvIsLocal
<1>2. ASSUME NEW pc \in Journalling, NEW r \in Record,
             NEW next \in {"progress", "work", "finish", "over"},
             WriteRecord(o, pc, r, next),
             next # "over" => r.status = "Running",
             next = "over" => r.status \in Terminal,
             r.status = "Succeeded" => effect[o] = "applied",
             next = "finish" /\ task[o].ok => effect[o] = "applied",
             next \in {"progress", "work"} => ~task[o].ok
      PROVE  IInv'
  <2>1. task'[o] = [task[o] EXCEPT !.pc = next, !.snap = NoRecord]
        /\ store'[o] = r /\ effect'[o] = effect[o]
    BY <1>2 DEF WriteRecord, IInv, TypeOK
  <2>2. task'[o] \in Task /\ task'[o].pc = next /\ task'[o].ok = task[o].ok
        /\ task'[o].snap = NoRecord
    BY <1>1, <2>1 DEF OpInv, Task, PCs, Journalling
  <2>3. OpInv(o)'
    BY <1>1, <1>2, <2>1, <2>2 DEF OpInv, Journalling, Terminal
  <2>4. OnlyOp(o)
    BY <1>2, <2>1, <2>2 DEF WriteRecord, OnlyOp, IInv, TypeOK, RecoveryCoversActive, Journalling
  <2> QED
    BY <2>3, <2>4, LocalStep
<1>3. task[o].snap # NoRecord => task[o].snap \in Record /\ task[o].snap = store[o]
  BY <1>1, RecordIsPresent DEF OpInv
<1>4. CASE WriteRunning(o)
  <2> DEFINE r == MarkRunning(task[o].snap)
  <2>1. r \in Record /\ r.status = "Running"
    BY <1>1, <1>3, <1>4, MarkRunningType DEF WriteRunning, WriteRecord, OpInv
  <2>2. ~task[o].ok /\ WriteRecord(o, "mark", r, "progress")
    BY <1>1, <1>4 DEF WriteRunning, WriteRecord, OpInv
  <2> QED
    BY <1>2, <2>1, <2>2 DEF Journalling
<1>5. CASE WriteProgress(o)
  <2> DEFINE pct == IF effect[o] = "none" THEN 10 ELSE 50
             r   == UpdateProgress(task[o].snap, pct)
  <2>1. pct \in Milestones
    BY DEF Milestones
  <2>2. r \in Record /\ r.status = "Running"
    BY <1>1, <1>3, <1>5, <2>1, KeepStatus DEF WriteProgress, WriteRecord, OpInv
  <2>3. ~task[o].ok /\ WriteRecord(o, "progress", r, "work")
    BY <1>1, <1>5 DEF WriteProgress, WriteRecord, OpInv
  <2> QED
    BY <1>2, <2>2, <2>3 DEF Journalling
<1>6. CASE WriteResult(o)
  <2> DEFINE r == SetResult(task[o].snap)
  <2>1. r \in Record /\ r.status = "Running"
    BY <1>1, <1>3, <1>6, KeepStatus DEF WriteResult, WriteRecord, OpInv, Milestones
  <2>2. (task[o].ok => effect[o] = "applied") /\ WriteRecord(o, "result", r, "finish")
    BY <1>1, <1>6 DEF WriteResult, WriteRecord, OpInv
  <2> QED
    BY <1>2, <2>1, <2>2 DEF Journalling
<1>7. CASE WriteOutcome(o)
  <2> DEFINE r == Finish(task[o].snap, task[o].ok)
  <2>1. r \in Record /\ r.status = IF task[o].ok THEN "Succeeded" ELSE "Failed"
    BY <1>1, <1>3, <1>7, OutcomeType DEF WriteOutcome, WriteRecord, OpInv, Task
  <2>2. (task[o].ok => effect[o] = "applied") /\ WriteRecord(o, "finish", r, "over")
    BY <1>1, <1>7 DEF WriteOutcome, WriteRecord, OpInv
  <2> QED
    BY <1>2, <2>1, <2>2 DEF Journalling, Terminal
<1> QED
  BY <1>4, <1>5, <1>6, <1>7

\* The host workflow, its progress reports, the faults of the journal and a
\* dropped request move the future on and leave the record as it is.
LEMMA WorkStep ==
    ASSUME IInv, NEW o \in Ops, NEW next \in {"result", "finish"}, NEW left \in Effects,
           \/ TouchHost(o) \/ ReportProgress(o) \/ WorkSucceeds(o, next)
           \/ WorkFails(o, left) \/ JournalFault(o) \/ DropRequest(o)
    PROVE  IInv'
<1>1. OpInv(o)
  BY InvIsLocal
<1>2. task[o].pc \notin {"none"}
  BY DEF TouchHost, ReportProgress, WorkSucceeds, WorkFails, JournalFault, DropRequest,
         Journalling
<1>3. phase = "serving"
  BY <1>2 DEF IInv, RecoveryCoversActive
<1>4. CASE TouchHost(o)
  <2>1. task'[o] = task[o] /\ effect'[o] = "partial" /\ store'[o] = store[o]
    BY <1>4 DEF TouchHost, IInv, TypeOK
  <2>2. OpInv(o)'
    BY <1>1, <1>4, <2>1 DEF TouchHost, OpInv, Effects
  <2>3. OnlyOp(o)
    BY <1>2, <1>3, <1>4, <2>1 DEF TouchHost, OnlyOp, IInv, TypeOK
  <2> QED
    BY <2>2, <2>3, LocalStep
<1>5. CASE ReportProgress(o)
  <2>1. task'[o] = [task[o] EXCEPT !.pc = "progress"]
        /\ effect'[o] = effect[o] /\ store'[o] = store[o]
    BY <1>1, <1>5 DEF ReportProgress, IInv, TypeOK
  <2>2. task'[o] \in Task /\ task'[o].pc = "progress"
        /\ task'[o].ok = task[o].ok /\ task'[o].snap = task[o].snap
    <3>1. "progress" \in PCs /\ task[o] \in Task
      BY <1>1 DEF PCs, Journalling, OpInv
    <3> QED
      BY <2>1, <3>1 DEF Task
  <2>3. OpInv(o)'
    BY <1>1, <1>5, <2>1, <2>2 DEF ReportProgress, OpInv, Journalling, Effects
  <2>4. OnlyOp(o)
    BY <1>3, <1>5, <2>1, <2>2, JournalAssumption DEF ReportProgress, OnlyOp, IInv, TypeOK
  <2> QED
    BY <2>3, <2>4, LocalStep
<1>6. CASE WorkSucceeds(o, next)
  <2>1. task'[o] = [task[o] EXCEPT !.pc = next, !.ok = TRUE]
        /\ effect'[o] = "applied" /\ store'[o] = store[o]
    BY <1>1, <1>6 DEF WorkSucceeds, IInv, TypeOK
  <2>2. task'[o] \in Task /\ task'[o].pc = next
        /\ task'[o].ok = TRUE /\ task'[o].snap = task[o].snap
    <3>1. next \in PCs /\ task[o] \in Task
      BY <1>1 DEF PCs, Journalling, OpInv
    <3> QED
      BY <2>1, <3>1 DEF Task
  <2>3. OpInv(o)'
    BY <1>1, <1>6, <2>1, <2>2 DEF WorkSucceeds, OpInv, Journalling, Effects
  <2>4. OnlyOp(o)
    BY <1>3, <1>6, <2>1, <2>2, JournalAssumption DEF WorkSucceeds, OnlyOp, IInv, TypeOK
  <2> QED
    BY <2>3, <2>4, LocalStep
<1>7. CASE WorkFails(o, left)
  <2>1. task'[o] = [task[o] EXCEPT !.pc = "finish", !.ok = FALSE]
        /\ effect'[o] = left /\ store'[o] = store[o]
    BY <1>1, <1>7 DEF WorkFails, IInv, TypeOK
  <2>2. task'[o] \in Task /\ task'[o].pc = "finish"
        /\ task'[o].ok = FALSE /\ task'[o].snap = task[o].snap
    <3>1. "finish" \in PCs /\ task[o] \in Task
      BY <1>1 DEF PCs, Journalling, OpInv
    <3> QED
      BY <2>1, <3>1 DEF Task
  <2>3. OpInv(o)'
    BY <1>1, <1>7, <2>1, <2>2 DEF WorkFails, OpInv, Journalling, Effects
  <2>4. OnlyOp(o)
    BY <1>3, <1>7, <2>1, <2>2, JournalAssumption DEF WorkFails, OnlyOp, IInv, TypeOK
  <2> QED
    BY <2>3, <2>4, LocalStep
<1>8. CASE JournalFault(o)
  <2> DEFINE pc == IF task[o].pc \in {"mark", "finish"} THEN "lost" ELSE "finish"
  <2>1. task'[o] = [task[o] EXCEPT !.pc = pc, !.ok = FALSE, !.snap = NoRecord]
        /\ effect'[o] = effect[o] /\ store'[o] = store[o]
    BY <1>1, <1>8 DEF JournalFault, IInv, TypeOK
  <2>2. task'[o] \in Task /\ task'[o].pc = pc /\ task'[o].ok = FALSE /\ task'[o].snap = NoRecord
    <3>1. pc \in PCs /\ task[o] \in Task
      BY <1>1 DEF PCs, Journalling, OpInv
    <3> HIDE DEF pc
    <3> QED
      BY <2>1, <3>1 DEF Task
  <2>3. OpInv(o)'
    BY <1>1, <1>8, <2>1, <2>2 DEF JournalFault, OpInv, Journalling
  <2>4. faults' \in 0..MaxFaults
    BY <1>8, JournalAssumption DEF JournalFault, IInv, TypeOK
  <2>5. /\ DOMAIN task = Ops /\ DOMAIN task' = Ops
        /\ \A p \in Ops \ {o} : task'[p] = task[p]
        /\ task' = [p \in Ops |-> task'[p]]
    BY <1>8 DEF JournalFault, IInv, TypeOK
  <2>6. task' = [task EXCEPT ![o] = task'[o]]
    BY <2>5
  <2>7. OnlyOp(o)
    BY <1>3, <1>8, <2>2, <2>4, <2>6 DEF JournalFault, OnlyOp, IInv, TypeOK
  <2> QED
    BY <2>3, <2>7, LocalStep
<1>9. CASE DropRequest(o)
  <2>1. task'[o] = [task[o] EXCEPT !.pc = "lost", !.snap = NoRecord]
        /\ effect'[o] = effect[o] /\ store'[o] = store[o]
    BY <1>1, <1>9 DEF DropRequest, IInv, TypeOK
  <2>2. task'[o] \in Task /\ task'[o].pc = "lost"
        /\ task'[o].ok = task[o].ok /\ task'[o].snap = NoRecord
    <3>1. "lost" \in PCs /\ task[o] \in Task
      BY <1>1 DEF PCs, Journalling, OpInv
    <3> QED
      BY <2>1, <3>1 DEF Task
  <2>3. OpInv(o)'
    BY <1>1, <1>9, <2>1, <2>2 DEF DropRequest, OpInv, Journalling, Effects
  <2>4. OnlyOp(o)
    BY <1>3, <1>9, <2>1, <2>2, JournalAssumption DEF DropRequest, OnlyOp, IInv, TypeOK
  <2> QED
    BY <2>3, <2>4, LocalStep
<1> QED
  BY <1>4, <1>5, <1>6, <1>7, <1>8, <1>9

\* A crash loses every future; a restart finds the active records, and serves
\* once none is left.
LEMMA RestartStep ==
    ASSUME IInv, Crash \/ Boot \/ RecoverFault \/ Serve
    PROVE  IInv'
<1>1. CASE Crash
  <2>1. TypeOK'
    BY <1>1, JournalAssumption
    DEF Crash, IInv, TypeOK, NoTask, Task, PCs
  <2>2. \A p \in Ops : task'[p] = NoTask /\ store'[p] = store[p] /\ effect'[p] = effect[p]
    BY <1>1 DEF Crash
  <2>3. SuccessIsReal' /\ RecordedBeforeHost'
    BY <2>2 DEF IInv, SuccessIsReal, RecordedBeforeHost
  <2>4. SnapshotsAreFresh' /\ TaskMatchesRecord'
    BY <2>2 DEF SnapshotsAreFresh, TaskMatchesRecord, NoTask, Journalling
  <2>5. NothingLeftOver' /\ RecoveryCoversActive'
    BY <1>1, <2>2 DEF Crash, NothingLeftOver, RecoveryCoversActive, NoTask
  <2> QED
    BY <2>1, <2>3, <2>4, <2>5 DEF IInv
<1>2. CASE Boot \/ RecoverFault \/ Serve
  <2>1. TypeOK'
    BY <1>2, JournalAssumption DEF Boot, RecoverFault, Serve, IInv, TypeOK
  <2>2. store' = store /\ task' = task /\ effect' = effect
    BY <1>2 DEF Boot, RecoverFault, Serve
  <2>3. SuccessIsReal' /\ RecordedBeforeHost' /\ SnapshotsAreFresh' /\ TaskMatchesRecord'
    BY <2>2 DEF IInv, SuccessIsReal, RecordedBeforeHost, SnapshotsAreFresh, TaskMatchesRecord
  <2>4. NothingLeftOver' /\ RecoveryCoversActive'
    BY <1>2, <2>2 DEF Boot, RecoverFault, Serve, IInv, NothingLeftOver, RecoveryCoversActive
  <2> QED
    BY <2>1, <2>3, <2>4 DEF IInv
<1> QED
  BY <1>1, <1>2

\* Recovery turns one active record into NeedsReview.
LEMMA RecoverStep ==
    ASSUME IInv, NEW o \in Ops, RecoverOne(o)
    PROVE  IInv'
<1>1. store[o] \in Record
  BY RecordIsPresent DEF RecoverOne, IInv, TypeOK, RecoveryCoversActive, Active
<1>2. Review(store[o]) \in Record /\ Review(store[o]).status = "NeedsReview"
  BY <1>1, OutcomeType
<1>3. TypeOK'
  BY <1>2 DEF RecoverOne, IInv, TypeOK
<1>4. /\ store'[o] = Review(store[o])
      /\ \A p \in Ops \ {o} : store'[p] = store[p]
      /\ task' = task /\ effect' = effect /\ phase' = "recovering" /\ phase = "recovering"
      /\ pending' = pending \ {o}
  BY DEF RecoverOne, IInv, TypeOK
<1>5. \A p \in Ops : task[p].pc = "none" /\ task[p].snap = NoRecord
  BY <1>4 DEF IInv, RecoveryCoversActive, TaskMatchesRecord, Journalling
<1>7. SuccessIsReal' /\ RecordedBeforeHost'
  BY <1>2, <1>4 DEF IInv, SuccessIsReal, RecordedBeforeHost
<1>8. SnapshotsAreFresh' /\ TaskMatchesRecord'
  BY <1>4, <1>5 DEF SnapshotsAreFresh, TaskMatchesRecord, Journalling
<1>9. NothingLeftOver' /\ RecoveryCoversActive'
  BY <1>2, <1>4, <1>5 DEF IInv, NothingLeftOver, RecoveryCoversActive, Active
<1> QED
  BY <1>3, <1>7, <1>8, <1>9 DEF IInv

\* Every step of the journal preserves the invariant.
LEMMA NextIInv == IInv /\ [Next]_vars => IInv'
<1> SUFFICES ASSUME IInv, [Next]_vars PROVE IInv'
  OBVIOUS
<1>1. CASE UNCHANGED vars
  BY <1>1 DEF vars, IInv, TypeOK, SuccessIsReal, RecordedBeforeHost, SnapshotsAreFresh,
              NothingLeftOver, TaskMatchesRecord, RecoveryCoversActive
<1>2. ASSUME NEW o \in Ops,
             Begin(o) \/ Enqueue(o) \/ \E s \in Active : AbandonSubmit(o, s)
      PROVE  IInv'
  <2>1. PICK s \in Active : Begin(o) \/ Enqueue(o) \/ AbandonSubmit(o, s)
    BY <1>2 DEF Active
  <2> QED
    BY <2>1, SubmitStep
<1>3. ASSUME NEW o \in Ops, Progressing(o) \/ JournalFault(o) \/ DropRequest(o)
      PROVE  IInv'
  <2>1. CASE ReadRecord(o)
    BY <2>1, ReadStep
  <2>2. CASE WriteRunning(o) \/ WriteProgress(o) \/ WriteResult(o) \/ WriteOutcome(o)
    BY <2>2, WriteStep
  <2>3. CASE \/ TouchHost(o) \/ ReportProgress(o)
             \/ \E next \in {"result", "finish"} : WorkSucceeds(o, next)
             \/ \E left \in Effects : WorkFails(o, left)
             \/ JournalFault(o) \/ DropRequest(o)
    <3>1. PICK next \in {"result", "finish"}, left \in Effects :
              \/ TouchHost(o) \/ ReportProgress(o) \/ WorkSucceeds(o, next)
              \/ WorkFails(o, left) \/ JournalFault(o) \/ DropRequest(o)
      BY <2>3 DEF Effects
    <3> QED
      BY <3>1, WorkStep
  <2> QED
    BY <1>3, <2>1, <2>2, <2>3 DEF Progressing
<1>4. CASE Recovering \/ RecoverFault \/ Crash
  <2>1. CASE \E o \in Ops : RecoverOne(o)
    BY <2>1, RecoverStep
  <2>2. CASE Crash \/ Boot \/ RecoverFault \/ Serve
    BY <2>2, RestartStep
  <2> QED
    BY <1>4, <2>1, <2>2 DEF Recovering
<1> QED
  BY <1>1, <1>2, <1>3, <1>4 DEF Next

\* The invariant holds in every reachable state.
THEOREM Invariance == Spec => []IInv
  BY InitIInv, NextIInv, PTL DEF Spec

-----------------------------------------------------------------------------
(* The properties of the journal.                                          *)

\* The state of the journal, of its tasks and of its recovery always has its type.
THEOREM TypeCorrect == Spec => []TypeOK
  BY Invariance, PTL DEF IInv

\* Success is never recorded for host work that was not completed, whatever
\* crashes, faults and dropped requests occur.
THEOREM SuccessIsAlwaysReal == Spec => []SuccessIsReal
  BY Invariance, PTL DEF IInv

\* The host is never touched on behalf of an operation without a Running record.
THEOREM AlwaysRecordedBeforeHost == Spec => []RecordedBeforeHost
  BY Invariance, PTL DEF IInv

\* No update of a record is ever lost to the lock-free read-modify-writes.
THEOREM NoLostUpdate == Spec => []SnapshotsAreFresh
  BY Invariance, PTL DEF IInv

\* A restarted server never shows an active record of a previous process.
THEOREM RecoveryIsComplete == Spec => []NothingLeftOver
  BY Invariance, PTL DEF IInv

\* A step writes no record but one that is absent, queued or running.
LEMMA OnlyActiveIsWritten ==
    ASSUME IInv, [Next]_vars
    PROVE  \A o \in Ops : store[o].status \in Terminal => store'[o] = store[o]
<1>1. CASE store' = store
  BY <1>1
<1>2. ASSUME NEW p \in Ops, NEW r, store[p].status \notin Terminal,
             store' = [store EXCEPT ![p] = r]
      PROVE  \A o \in Ops : store[o].status \in Terminal => store'[o] = store[o]
  BY <1>2 DEF IInv, TypeOK
<1>3. ASSUME NEW p \in Ops, Begin(p) \/ Enqueue(p) \/ \E s \in Active : AbandonSubmit(p, s)
      PROVE  \A o \in Ops : store[o].status \in Terminal => store'[o] = store[o]
  <2>1. store[p].status \notin Terminal
    BY <1>3 DEF Begin, Enqueue, AbandonSubmit, NoRecord, Terminal
  <2>2. PICK r : store' = [store EXCEPT ![p] = r]
    BY <1>3 DEF Begin, Enqueue, AbandonSubmit
  <2> QED
    BY <1>2, <2>1, <2>2
<1>4. ASSUME NEW p \in Ops, Progressing(p) \/ JournalFault(p) \/ DropRequest(p), store' # store
      PROVE  \A o \in Ops : store[o].status \in Terminal => store'[o] = store[o]
  <2>1. WriteRunning(p) \/ WriteProgress(p) \/ WriteResult(p) \/ WriteOutcome(p)
    BY <1>4 DEF Progressing, JournalFault, DropRequest, ReadRecord, TouchHost, ReportProgress,
                WorkSucceeds, WorkFails
  <2>2. store[p].status \notin Terminal
    BY <2>1 DEF WriteRunning, WriteProgress, WriteResult, WriteOutcome, WriteRecord, IInv,
                TaskMatchesRecord, Terminal
  <2>3. PICK r : store' = [store EXCEPT ![p] = r]
    BY <2>1 DEF WriteRunning, WriteProgress, WriteResult, WriteOutcome, WriteRecord
  <2> QED
    BY <1>2, <2>2, <2>3
<1>5. ASSUME NEW p \in Ops, RecoverOne(p)
      PROVE  \A o \in Ops : store[o].status \in Terminal => store'[o] = store[o]
  <2>1. store[p].status \notin Terminal
    BY <1>5 DEF RecoverOne, IInv, RecoveryCoversActive, Active, Terminal
  <2> QED
    BY <1>2, <1>5, <2>1 DEF RecoverOne
<1>6. CASE \/ UNCHANGED vars
           \/ Boot \/ Serve \/ RecoverFault \/ Crash
  BY <1>1, <1>6 DEF vars, Boot, Serve, RecoverFault, Crash
<1> QED
  BY <1>1, <1>3, <1>4, <1>5, <1>6 DEF Next, Recovering

\* A recorded outcome is never changed again, by a late worker or by recovery.
THEOREM OutcomesAreFinal == Spec => TerminalIsFinal
<1>1. IInv /\ [Next]_vars =>
        [\A o \in Ops : store[o].status \in Terminal => store'[o].status = store[o].status]_vars
  BY OnlyActiveIsWritten
<1> QED
  BY <1>1, Invariance, PTL DEF Spec, TerminalIsFinal

-----------------------------------------------------------------------------
(* Refinement: the statuses of the records move as OperationLifecycle says. *)

StatusOf == [o \in Ops |-> store[o].status]

\* A step that writes one record, of operation p, changes one status.
LEMMA OneStatusChanges ==
    ASSUME TypeOK, NEW p \in Ops, NEW r, store' = [store EXCEPT ![p] = r]
    PROVE  StatusOf' = [StatusOf EXCEPT ![p] = r.status]
  BY DEF TypeOK, StatusOf

\* A submission is seen as a new operation, queued or running.
LEMMA SubmitRefines ==
    ASSUME IInv, NEW o \in Ops, NEW s \in Active,
           Begin(o) \/ Enqueue(o) \/ AbandonSubmit(o, s)
    PROVE  \E t \in {"Queued", "Running"} : Lifecycle!Submit(o, t)
<1>1. PICK t \in Active : store' = [store EXCEPT ![o] = NewRecord(t)]
  BY DEF Begin, Enqueue, AbandonSubmit, Active
<1>2. StatusOf' = [StatusOf EXCEPT ![o] = t]
  BY <1>1, OneStatusChanges, NewRecordType DEF IInv
<1>3. StatusOf[o] = "Absent" /\ effect' = effect
  BY DEF Begin, Enqueue, AbandonSubmit, StatusOf, NoRecord
<1> QED
  BY <1>2, <1>3 DEF Lifecycle!Submit, StatusOf, Active

\* A write of the record by its own future is seen as a start, as an outcome
\* that is real, or not at all.
LEMMA WriteRefines ==
    ASSUME IInv, NEW o \in Ops,
           WriteRunning(o) \/ WriteProgress(o) \/ WriteResult(o) \/ WriteOutcome(o)
    PROVE  \/ Lifecycle!Start(o)
           \/ \E s \in {"Succeeded", "Failed"} : Lifecycle!Conclude(o, s)
           \/ UNCHANGED <<StatusOf, effect>>
<1>1. /\ task[o].snap = store[o] /\ store[o] \in Record /\ effect' = effect
      /\ task[o].ok \in BOOLEAN
  BY RecordIsPresent
  DEF WriteRunning, WriteProgress, WriteResult, WriteOutcome, WriteRecord, IInv, TypeOK,
      SnapshotsAreFresh, Task
<1>2. CASE WriteRunning(o)
  <2>1. store[o].status = "Queued" /\ store' = [store EXCEPT ![o] = MarkRunning(store[o])]
    BY <1>1, <1>2 DEF WriteRunning, WriteRecord, IInv, TaskMatchesRecord
  <2>2. MarkRunning(store[o]).status = "Running" /\ TypeOK
    BY <1>1, <2>1, MarkRunningType DEF IInv
  <2>3. StatusOf' = [StatusOf EXCEPT ![o] = "Running"]
    BY <2>1, <2>2, OneStatusChanges
  <2> QED
    BY <1>1, <2>1, <2>3 DEF Lifecycle!Start, StatusOf
<1>3. CASE WriteProgress(o) \/ WriteResult(o)
  <2>1. PICK r : store' = [store EXCEPT ![o] = r] /\ r.status = store[o].status
    BY <1>1, <1>3, KeepStatus
    DEF WriteProgress, WriteResult, WriteRecord, Milestones
  <2>2. StatusOf' = [StatusOf EXCEPT ![o] = store[o].status]
    BY <2>1, OneStatusChanges DEF IInv
  <2> QED
    BY <1>1, <2>2 DEF StatusOf
<1>4. CASE WriteOutcome(o)
  <2>1. /\ store' = [store EXCEPT ![o] = Finish(store[o], task[o].ok)]
        /\ store[o].status = "Running"
        /\ task[o].ok => effect[o] = "applied"
    BY <1>1, <1>4 DEF WriteOutcome, WriteRecord, IInv, TaskMatchesRecord
  <2>2. PICK s \in {"Succeeded", "Failed"} :
            /\ Finish(store[o], task[o].ok).status = s
            /\ s = "Succeeded" => effect[o] = "applied"
    BY <1>1, <2>1, OutcomeType
  <2>3. StatusOf' = [StatusOf EXCEPT ![o] = s]
    BY <2>1, <2>2, OneStatusChanges DEF IInv
  <2>4. Lifecycle!Conclude(o, s)
    BY <1>1, <2>1, <2>2, <2>3 DEF Lifecycle!Conclude, StatusOf
  <2> QED
    BY <2>4
<1> QED
  BY <1>2, <1>3, <1>4

\* What the workflow does on the host is done by a running operation; reading,
\* failing and being dropped are not seen.
LEMMA WorkRefines ==
    ASSUME IInv, NEW o \in Ops, NEW next, NEW left \in Effects,
           \/ ReadRecord(o) \/ TouchHost(o) \/ ReportProgress(o) \/ WorkSucceeds(o, next)
           \/ WorkFails(o, left) \/ JournalFault(o) \/ DropRequest(o)
    PROVE  (\E e \in Effects : Lifecycle!Touch(o, e)) \/ UNCHANGED <<StatusOf, effect>>
<1>1. store' = store /\ StatusOf' = StatusOf
  BY DEF ReadRecord, TouchHost, ReportProgress, WorkSucceeds, WorkFails, JournalFault,
         DropRequest, StatusOf
<1>2. CASE effect' = effect
  BY <1>1, <1>2
<1>3. CASE effect' # effect
  <2>1. PICK e \in Effects : effect' = [effect EXCEPT ![o] = e]
    BY <1>3 DEF ReadRecord, TouchHost, ReportProgress, WorkSucceeds, WorkFails, JournalFault,
                DropRequest, Effects
  <2>2. StatusOf[o] = "Running"
    BY <1>3 DEF ReadRecord, TouchHost, ReportProgress, WorkSucceeds, WorkFails, JournalFault,
                DropRequest, IInv, TaskMatchesRecord, StatusOf
  <2> QED
    BY <1>1, <2>1, <2>2 DEF Lifecycle!Touch, StatusOf
<1> QED
  BY <1>2, <1>3

\* Recovery interrupts; crashing and restarting are not seen.
LEMMA RestartRefines ==
    ASSUME IInv, Recovering \/ RecoverFault \/ Crash
    PROVE  (\E o \in Ops : Lifecycle!Interrupt(o)) \/ UNCHANGED <<StatusOf, effect>>
<1>1. ASSUME NEW o \in Ops, RecoverOne(o)
      PROVE  Lifecycle!Interrupt(o)
  <2>1. store[o].status \in Active /\ store[o] \in Record /\ effect' = effect
    BY <1>1, RecordIsPresent DEF RecoverOne, IInv, TypeOK, RecoveryCoversActive, Active
  <2>2. Review(store[o]).status = "NeedsReview" /\ TypeOK
    BY <2>1, OutcomeType DEF IInv
  <2>3. StatusOf' = [StatusOf EXCEPT ![o] = "NeedsReview"]
    BY <1>1, <2>2, OneStatusChanges DEF RecoverOne
  <2> QED
    BY <2>1, <2>3 DEF Lifecycle!Interrupt, StatusOf, Active
<1>2. CASE Boot \/ Serve \/ RecoverFault \/ Crash
  BY <1>2 DEF Boot, Serve, RecoverFault, Crash, StatusOf
<1> QED
  BY <1>1, <1>2 DEF Recovering

\* A client that polls the journal sees the lifecycle it was promised: every
\* step of every behaviour is a step of OperationLifecycle or leaves it alone.
THEOREM JournalImplementsLifecycle == Spec => ImplementsLifecycle
<1>1. Init => Lifecycle!LInit
  BY DEF Init, Lifecycle!LInit, NoRecord
<1>2. IInv /\ [Next]_vars => [Lifecycle!LNext]_(Lifecycle!lvars)
  <2> SUFFICES ASSUME IInv, [Next]_vars
               PROVE  Lifecycle!LNext \/ UNCHANGED <<StatusOf, effect>>
    BY DEF Lifecycle!lvars, StatusOf
  <2>1. CASE UNCHANGED vars
    BY <2>1 DEF vars, StatusOf
  <2>2. ASSUME NEW o \in Ops,
               Begin(o) \/ Enqueue(o) \/ \E s \in Active : AbandonSubmit(o, s)
        PROVE  Lifecycle!LNext
    <3>1. PICK s \in Active : Begin(o) \/ Enqueue(o) \/ AbandonSubmit(o, s)
      BY <2>2 DEF Active
    <3> QED
      BY <3>1, SubmitRefines DEF Lifecycle!LNext
  <2>3. ASSUME NEW o \in Ops, Progressing(o) \/ JournalFault(o) \/ DropRequest(o)
        PROVE  Lifecycle!LNext \/ UNCHANGED <<StatusOf, effect>>
    <3>1. CASE WriteRunning(o) \/ WriteProgress(o) \/ WriteResult(o) \/ WriteOutcome(o)
      BY <3>1, WriteRefines DEF Lifecycle!LNext
    <3>2. CASE ~(WriteRunning(o) \/ WriteProgress(o) \/ WriteResult(o) \/ WriteOutcome(o))
      <4>1. PICK next \in {"result", "finish"}, left \in Effects :
                \/ ReadRecord(o) \/ TouchHost(o) \/ ReportProgress(o) \/ WorkSucceeds(o, next)
                \/ WorkFails(o, left) \/ JournalFault(o) \/ DropRequest(o)
        BY <2>3, <3>2 DEF Progressing, Effects
      <4>2. Effects = Lifecycle!Effects
        BY DEF Effects, Lifecycle!Effects
      <4> QED
        BY <4>1, <4>2, WorkRefines DEF Lifecycle!LNext
    <3> QED
      BY <3>1, <3>2
  <2>4. CASE Recovering \/ RecoverFault \/ Crash
    BY <2>4, RestartRefines DEF Lifecycle!LNext
  <2> QED
    BY <2>1, <2>2, <2>3, <2>4 DEF Next
<1> QED
  BY <1>1, <1>2, Invariance, PTL DEF Spec, ImplementsLifecycle, Lifecycle!LSpec
=============================================================================
