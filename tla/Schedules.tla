------------------------------ MODULE Schedules ------------------------------
(* Power and snapshot schedules (services/schedule.rs,                       *)
(* services/snapshot_schedule.rs): records that the API writes, and the      *)
(* evaluator that reads all of them every tick, fires the due ones one after *)
(* the other and writes each back. The two services are the same code over   *)
(* stores of their own: a behaviour is about one of them. A schedule fires   *)
(* every Period ticks of the clock; a snapshot schedule captures an          *)
(* automatic snapshot of the one guest and prunes those beyond its keep.     *)
(* A snapshot stands for its name: a number that the names sort by, which is *)
(* the time for an automatic one.  A request may choose such a name as well, *)
(* ensure_safe_snapshot does not reserve the prefix auto-; snapshots with    *)
(* other names play no part.                                                 *)
EXTENDS Integers, FiniteSets

CONSTANTS Scheds,        \* schedule ids
          Keeps,         \* values of keep; 0 prunes nothing
          ManualNames,   \* names with the prefix auto- that requests choose
          Period,        \* occurrences are the multiples of Period
          MaxTime,       \* bound on the clock
          MaxSchOps,     \* bound on API requests
          MaxSchFaults   \* bound on failing actions and writes

ASSUME SchedAssumption ==
    Keeps \subseteq Nat /\ Period \in Nat \ {0} /\ ManualNames \subseteq Nat /\ IsFiniteSet(ManualNames)

VARIABLES
  kind,     \* which of the two services: power or snapshot
  sched,    \* stored records: [on, next, keep] or NoSched; next is 0 for none
  now,      \* the clock
  scan,     \* the evaluator: the copies it read and has not dealt with, at what time
  edits,    \* updates in flight: the copy an update has read
  shots,    \* snapshots of the guest whose names start with auto-
  manual,   \* history: those of them that a request has made
  made,     \* ids given out: a new schedule gets a fresh one
  schops, schfaults

schvars == <<kind, sched, now, scan, edits, shots, manual, made, schops, schfaults>>

NoSched == [on |-> FALSE, next |-> 0, keep |-> 0]
NoScan  == [pc |-> "idle", at |-> 0, todo |-> {}, copy |-> [s \in Scheds |-> NoSched], cur |-> "none"]
NextAfter(t) == Period * (t \div Period + 1)

SchInit ==
  /\ kind \in {"power", "snapshot"}
  /\ sched = [s \in Scheds |-> NoSched] /\ now = 1 /\ scan = NoScan
  /\ edits = [s \in Scheds |-> NoSched] /\ shots = {} /\ manual = {} /\ made = {}
  /\ schops = 0 /\ schfaults = 0

SchOp    == schops < MaxSchOps /\ schops' = schops + 1 /\ UNCHANGED schfaults
SchFault == schfaults < MaxSchFaults /\ schfaults' = schfaults + 1 /\ UNCHANGED schops
schcount == <<schops, schfaults>>

-----------------------------------------------------------------------------
(* The API.                                                                   *)

CreateSchedule(s, on, keep) ==
  /\ SchOp /\ s \notin made /\ made' = made \cup {s}
  /\ sched' = [sched EXCEPT ![s] = [on |-> on, next |-> IF on THEN NextAfter(now) ELSE 0, keep |-> keep]]
  /\ UNCHANGED <<now, scan, edits, shots, manual>>

BeginUpdate(s) ==
  /\ SchOp /\ sched[s] # NoSched /\ edits[s] = NoSched
  /\ edits' = [edits EXCEPT ![s] = sched[s]]
  /\ UNCHANGED <<sched, now, scan, shots, manual, made>>

\* The next firing is kept while the schedule stays on with its timetable, worked out otherwise.
Updated(c, on, keep, cron) ==
  [on |-> on, keep |-> keep,
   next |-> IF ~on THEN 0 ELSE IF cron \/ c.next = 0 THEN NextAfter(now) ELSE c.next]

PutUpdate(s, on, keep, cron) ==
  /\ edits[s] # NoSched
  /\ sched' = [sched EXCEPT ![s] = Updated(edits[s], on, keep, cron)]
  /\ edits' = [edits EXCEPT ![s] = NoSched]
  /\ UNCHANGED <<now, scan, shots, manual, made, schcount>>

DeleteSchedule(s) ==
  /\ SchOp /\ sched[s] # NoSched
  /\ sched' = [sched EXCEPT ![s] = NoSched]
  /\ UNCHANGED <<now, scan, edits, shots, manual, made>>

\* POST and DELETE of a snapshot by its name; one that is there already is refused.
ManualSnapshot(n) ==
  /\ SchOp /\ kind = "snapshot" /\ n \notin shots
  /\ shots' = shots \cup {n} /\ manual' = manual \cup {n}
  /\ UNCHANGED <<sched, now, scan, edits, made>>

DeleteSnapshot(n) ==
  /\ SchOp /\ n \in shots
  /\ shots' = shots \ {n} /\ manual' = manual \ {n}
  /\ UNCHANGED <<sched, now, scan, edits, made>>

TimePasses ==
  /\ now < MaxTime /\ now' = now + 1
  /\ UNCHANGED <<sched, scan, edits, shots, manual, made, schcount>>

-----------------------------------------------------------------------------
(* The evaluator.                                                             *)

\* A tick lists the records once, and keeps those that are on and due by then.
Due(s, t) == sched[s].on /\ sched[s].next > 0 /\ sched[s].next <= t

ReadSchedules ==
  /\ scan.pc = "idle" /\ \E s \in Scheds : Due(s, now)
  /\ scan' = [pc |-> "next", at |-> now, todo |-> {s \in Scheds : Due(s, now)}, copy |-> sched, cur |-> "none"]
  /\ UNCHANGED <<sched, now, edits, shots, manual, made, schcount>>

\* Act on one of them: a power action on the guest, or a capture, which fails when the name, the
\* second of the tick, is taken.
Fire(s) ==
  /\ scan.pc = "next" /\ s \in scan.todo
  /\ scan' = [scan EXCEPT !.cur = s, !.todo = @ \ {s}, !.pc = IF kind = "snapshot" THEN "prune" ELSE "put"]
  /\ shots' = IF kind = "snapshot" THEN shots \cup {scan.at} ELSE shots
  /\ kind = "snapshot" => scan.at \notin shots
  /\ UNCHANGED <<sched, now, edits, manual, made, schcount>>

\* The action fails, which is notified and recorded; the schedule is advanced all the same.
FireFails_Stops(s) ==
  /\ scan.pc = "next" /\ s \in scan.todo
  /\ SchFault \/ (kind = "snapshot" /\ scan.at \in shots /\ UNCHANGED schcount)
  /\ scan' = NoScan
  /\ UNCHANGED <<sched, now, edits, shots, manual, made>>

FireFails(s) ==
  /\ scan.pc = "next" /\ s \in scan.todo
  /\ SchFault \/ (kind = "snapshot" /\ scan.at \in shots /\ UNCHANGED schcount)
  /\ scan' = [scan EXCEPT !.cur = s, !.todo = @ \ {s}, !.pc = "put"]
  /\ UNCHANGED <<sched, now, edits, shots, manual, made>>

\* Of the names that start with auto- the last keep in their order stay, or all when keep is 0; a
\* failed delete is passed over.
Later(t) == {u \in shots : u > t}
Kept_Fewer(k) == {t \in shots : k = 0 \/ Cardinality(Later(t)) < k - 1}
Kept(k) == {t \in shots : k = 0 \/ Cardinality(Later(t)) < k}

Prune(failed) ==
  /\ scan.pc = "prune" /\ failed \subseteq shots
  /\ failed # {} => schfaults < MaxSchFaults
  /\ schfaults' = IF failed = {} THEN schfaults ELSE schfaults + 1
  /\ shots' = Kept(scan.copy[scan.cur].keep) \cup failed
  /\ manual' = manual \cap shots'
  /\ scan' = [scan EXCEPT !.pc = "put"]
  /\ UNCHANGED <<sched, now, edits, made, schops>>

\* The copy goes back with the occurrence after the tick.
Advance(s) ==
  /\ scan.pc = "put" /\ scan.cur = s
  /\ sched' = [sched EXCEPT ![s] = [scan.copy[s] EXCEPT !.next = NextAfter(scan.at)]]
  /\ scan' = IF scan.todo = {} THEN NoScan ELSE [scan EXCEPT !.pc = "next", !.cur = "none"]
  /\ UNCHANGED <<now, edits, shots, manual, made, schcount>>

\* A write that fails ends the tick: the others wait for the next one.
PutScheduleFails(s) ==
  /\ SchFault /\ scan.pc = "put" /\ scan.cur = s
  /\ scan' = NoScan
  /\ UNCHANGED <<sched, now, edits, shots, manual, made>>

EvaluatorStep ==
  \/ ReadSchedules \/ Prune({})
  \/ \E s \in Scheds : Fire(s) \/ FireFails(s) \/ Advance(s)

SchNext ==
  /\ UNCHANGED kind
  /\ \/ \E s \in Scheds :
          \/ \E on \in BOOLEAN, k \in Keeps : CreateSchedule(s, on, k)
          \/ BeginUpdate(s) \/ DeleteSchedule(s)
          \/ \E on, cron \in BOOLEAN, k \in Keeps : PutUpdate(s, on, k, cron)
          \/ Fire(s) \/ FireFails(s) \/ Advance(s) \/ PutScheduleFails(s)
     \/ TimePasses \/ ReadSchedules
     \/ \E n \in ManualNames : ManualSnapshot(n)
     \/ \E n \in shots : DeleteSnapshot(n)
     \/ \E f \in SUBSET shots : Prune(f)

\* The evaluator's task and the clock go on; requests and failures need not come.
SchSpec == SchInit /\ [][SchNext]_schvars /\ WF_schvars(UNCHANGED kind /\ EvaluatorStep) /\ WF_schvars(UNCHANGED kind /\ TimePasses)

-----------------------------------------------------------------------------

\* No schedule stays due: one that is on and whose occurrence has come is fired, moved on, switched
\* off or deleted, whichever schedules listed before it fail.
DueIsNotStuck ==
  \A s \in Scheds : LET due == sched[s].on /\ sched[s].next \in 1..now IN due ~> ~due

\* The retention that follows a capture takes the snapshot just captured only when requests have
\* given names that sort after it to keep others, whatever deletions fail and however old the
\* keep is that the evaluator read (snapshot_schedule.rs capture_and_prune_vm).  That "manual
\* snapshots are never touched" (its module comment) is not so: the names decide.
CaptureSurvivesPrune ==
  [][LET keep == scan.copy[scan.cur].keep IN
     /\ scan.pc = "prune" /\ scan'.pc = "put" /\ scan.at \in shots
     /\ keep = 0 \/ Cardinality({m \in manual : m > scan.at}) < keep
     => scan.at \in shots']_schvars
=============================================================================
