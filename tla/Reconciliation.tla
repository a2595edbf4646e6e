--------------------------- MODULE Reconciliation ---------------------------
(***************************************************************************)
(* Host reconciliation: enqueue_reconciliation, detect_drift,              *)
(* repair_findings, consume_approval, quarantine and decide_quarantine of  *)
(* src/src/services/operations.rs, with the reconcile_with_host and repair *)
(* functions of kvm.rs, lxc.rs and network.rs that they call.              *)
(*                                                                         *)
(* A dry run compares the persisted records with what is on the host and   *)
(* keeps its findings; a repair run needs the id of a dry run that         *)
(* succeeded, applies its findings and quarantines what is unmanaged; an   *)
(* operator decides on each quarantine record.  None of this takes a lock: *)
(* every read and write of a store or of the host is a step of its own,    *)
(* and runs, decisions and ordinary create and delete requests interleave. *)
(* How a run is journalled is the subject of OperationJournal.             *)
(***************************************************************************)
EXTENDS Integers, FiniteSets

CONSTANTS Vms, Cts, Bridges,    \* names that VMs, containers and bridges may have
          Passes,               \* reconciliation operations
          Reqs,                 \* repair requests in progress at once
          Deciders,             \* quarantine decisions in progress at once
          Workers,              \* create and delete requests in progress at once
          QIds,                 \* quarantine records
          MaxDrift,             \* bound on changes of the host behind DaygleVE's back
          MaxFaults, MaxCrashes

ASSUME ReconcileAssumption ==
    /\ MaxDrift \in Nat /\ MaxFaults \in Nat /\ MaxCrashes \in Nat
    /\ Vms \cap Cts = {} /\ Vms \cap Bridges = {} /\ Cts \cap Bridges = {}

VARIABLES rec,                  \* names with a persisted record
          host,                 \* names that exist on the host
          recAware, hostAware,  \* bridges recorded as, and being, VLAN aware
          pass,                 \* the reconciliation operations
          consumed,             \* consumed-approvals/<id>.json
          req, dec, work,       \* requests in progress
          quar,                 \* quarantine/<id>.json
          drift, faults, crashes

rvars == <<rec, host, recAware, hostAware, pass, consumed, req, dec, work, quar,
           drift, faults, crashes>>
world == <<rec, host, recAware, hostAware>>
bounds == <<drift, faults, crashes>>

Res == Vms \cup Cts \cup Bridges
OfKind(k) == CASE k = "vm" -> Vms [] k = "ct" -> Cts [] k = "bridge" -> Bridges
NextKind(k) == CASE k = "vm" -> "ct" [] k = "ct" -> "bridge" [] k = "bridge" -> "done"

Missing(rs)   == [res : rs, why : {"missing"}]
Unmanaged(rs) == [res : rs, why : {"unmanaged"}]
Finding == [res : Res, why : {"missing", "unmanaged"}]

\* repairable and not destructive: containers are only reported.
Repairable(f) == f.why = "missing" /\ f.res \in Vms \cup Bridges

-----------------------------------------------------------------------------
(* A reconciliation operation.  pc names the step its worker takes next:   *)
(*   records, host   read the records, then the host, of one kind          *)
(*   loop            take the next finding (stage says of which loop)      *)
(*   putq            write the quarantine record that the list lacked      *)
(*   define          recreate the resource whose record was read           *)

Outcomes == {"succeeded", "failed", "lost"}
PassRecord == [pc    : {"none", "records", "host", "loop", "putq", "define"} \cup Outcomes,
               mode  : {"dry", "repair"},
               from  : Passes \cup {"none"},       \* the approval of a repair
               kind  : {"vm", "ct", "bridge", "done"},
               snap  : SUBSET Res,                 \* records it has read
               found : SUBSET Finding,
               stage : {"persist", "repair"},
               todo  : SUBSET Finding,
               cur   : Res \cup {"none"},
               fixed : SUBSET Res]                 \* what it has defined on the host
NewPass == [pc |-> "none", mode |-> "dry", from |-> "none", kind |-> "vm", snap |-> {},
            found |-> {}, stage |-> "persist", todo |-> {}, cur |-> "none", fixed |-> {}]

NoQuar == [res |-> "none", status |-> "free"]
IdleReq == [pc |-> "idle", from |-> "none"]
IdleDec == [pc |-> "idle", id |-> "none", as |-> "none", aware |-> FALSE]
IdleWork == [pc |-> "idle", res |-> "none", aware |-> FALSE]

\* The backend starts on a host that agrees with the records it has.
RInit ==
    /\ rec \in SUBSET Res /\ host = rec
    /\ recAware \in SUBSET (rec \cap Bridges) /\ hostAware = recAware
    /\ pass = [p \in Passes |-> NewPass]
    /\ consumed = {}
    /\ req = [q \in Reqs |-> IdleReq]
    /\ dec = [d \in Deciders |-> IdleDec]
    /\ work = [w \in Workers |-> IdleWork]
    /\ quar = [i \in QIds |-> NoQuar]
    /\ drift = 0 /\ faults = 0 /\ crashes = 0

-----------------------------------------------------------------------------
(* enqueue_reconciliation.                                                 *)

DryRun(p) ==
    /\ pass[p].pc = "none"
    /\ pass' = [pass EXCEPT ![p].pc = "records"]
    /\ UNCHANGED <<world, consumed, req, dec, work, quar, bounds>>

\* The approval is a dry run that succeeded, and consume_approval finds no
\* file for it.  (Anything else is refused and changes nothing.)
CheckApproval(q, a) ==
    /\ req[q].pc = "idle"
    /\ pass[a].mode = "dry" /\ pass[a].pc = "succeeded"
    /\ a \notin consumed
    /\ req' = [req EXCEPT ![q] = [pc |-> "spend", from |-> a]]
    /\ UNCHANGED <<world, pass, consumed, dec, work, quar, bounds>>

\* The file is written; a request without quarantine_unmanaged ends here.
SpendApproval(q, quarantine) ==
    /\ req[q].pc = "spend"
    /\ consumed' = consumed \cup {req[q].from}
    /\ req' = [req EXCEPT ![q] = IF quarantine THEN [@ EXCEPT !.pc = "enqueue"] ELSE IdleReq]
    /\ UNCHANGED <<world, pass, dec, work, quar, bounds>>

\* The repair run starts with the findings of its approval.
EnqueueRepair(q, p) ==
    /\ req[q].pc = "enqueue"
    /\ pass[p].pc = "none"
    /\ LET found == pass[req[q].from].found
       IN  pass' = [pass EXCEPT ![p] = [NewPass EXCEPT !.pc = "loop", !.mode = "repair",
                                          !.kind = "done", !.from = req[q].from, !.found = found,
                                          !.todo = {f \in found : f.why = "unmanaged"}]]
    /\ req' = [req EXCEPT ![q] = IdleReq]
    /\ UNCHANGED <<world, consumed, dec, work, quar, bounds>>

-----------------------------------------------------------------------------
(* detect_drift: per kind the records first, then the host.                *)

ReadRecords(p) ==
    /\ pass[p].pc = "records"
    /\ pass' = [pass EXCEPT ![p].pc = "host", ![p].snap = rec \cap OfKind(pass[p].kind)]
    /\ UNCHANGED <<world, consumed, req, dec, work, quar, bounds>>

ReadHost(p) ==
    LET live  == host \cap OfKind(pass[p].kind)
        found == pass[p].found \cup Missing(pass[p].snap \ live)
                               \cup Unmanaged(live \ pass[p].snap)
        next  == NextKind(pass[p].kind)
    IN  /\ pass[p].pc = "host"
        /\ pass' = [pass EXCEPT ![p].pc = IF next = "done" THEN "loop" ELSE "records",
                               ![p].kind = next, ![p].found = found,
                               ![p].todo = {f \in found : f.why = "unmanaged"}]
        /\ UNCHANGED <<world, consumed, req, dec, work, quar, bounds>>

-----------------------------------------------------------------------------
(* persist_unmanaged_findings goes through the unmanaged findings, then a  *)
(* repair goes through all of them.  They are taken in any order here.     *)

PendingFor(r) == \E i \in QIds : quar[i].status = "Pending" /\ quar[i].res = r

\* quarantine: a pending record for the resource is reused.
CheckQuarantine(p, f) ==
    /\ pass[p].pc = "loop" /\ f \in pass[p].todo /\ f.why = "unmanaged"
    /\ pass' = [pass EXCEPT ![p].todo = @ \ {f},
                           ![p].pc = IF PendingFor(f.res) THEN "loop" ELSE "putq",
                           ![p].cur = f.res]
    /\ UNCHANGED <<world, consumed, req, dec, work, quar, bounds>>

\* new_id(): which of the unused ids it is makes no difference.
FreshId == CHOOSE i \in QIds : quar[i] = NoQuar

PutQuarantine(p) ==
    /\ pass[p].pc = "putq"
    /\ \E i \in QIds : quar[i] = NoQuar
    /\ quar' = [quar EXCEPT ![FreshId] = [res |-> pass[p].cur, status |-> "Pending"]]
    /\ pass' = [pass EXCEPT ![p].pc = "loop"]
    /\ UNCHANGED <<world, consumed, req, dec, work, bounds>>

\* repair_findings passes over what is not repairable.
SkipFinding(p, f) ==
    /\ pass[p].pc = "loop" /\ f \in pass[p].todo
    /\ f.why = "missing" /\ ~Repairable(f)
    /\ pass' = [pass EXCEPT ![p].todo = @ \ {f}]
    /\ UNCHANGED <<world, consumed, req, dec, work, quar, bounds>>

\* repair_missing_from_host reads the record; without one the run fails, and
\* also if the VM is back on the host and running.
BeginRepair(p, f, running) ==
    /\ pass[p].pc = "loop" /\ f \in pass[p].todo /\ Repairable(f)
    /\ running => f.res \in Vms \cap host
    /\ pass' = [pass EXCEPT ![p].todo = @ \ {f}, ![p].cur = f.res,
                           ![p].pc = IF f.res \in rec /\ ~running THEN "define" ELSE "failed"]
    /\ UNCHANGED <<world, consumed, req, dec, work, quar, bounds>>

\* virsh define replaces a definition; ip link add refuses an existing name,
\* and makes a bridge that is not VLAN aware, whatever the record says.
Define(p) ==
    LET r == pass[p].cur
        refused == r \in Bridges /\ r \in host
    IN  /\ pass[p].pc = "define"
        /\ host' = host \cup {r}
        /\ pass' = [pass EXCEPT ![p].pc = IF refused THEN "failed" ELSE "loop",
                               ![p].fixed = IF refused THEN @ ELSE @ \cup {r}]
        /\ UNCHANGED <<rec, recAware, hostAware, consumed, req, dec, work, quar, bounds>>

LoopDone_QuarantineEnds(p) ==
    /\ pass[p].pc = "loop" /\ pass[p].todo = {}
    /\ pass' = [pass EXCEPT ![p].pc = "succeeded"]
    /\ UNCHANGED <<world, consumed, req, dec, work, quar, bounds>>

\* A dry run is over once its findings are persisted; a repair starts on them.
LoopDone(p) ==
    /\ pass[p].pc = "loop" /\ pass[p].todo = {}
    /\ pass' = [pass EXCEPT ![p] =
                   IF @.mode = "repair" /\ @.stage = "persist"
                   THEN [@ EXCEPT !.stage = "repair", !.todo = pass[p].found]
                   ELSE [@ EXCEPT !.pc = "succeeded"]]
    /\ UNCHANGED <<world, consumed, req, dec, work, quar, bounds>>

\* A command or a store fails: the run's closure returns the error.
PassFails(p) ==
    /\ faults < MaxFaults
    /\ faults' = faults + 1
    /\ pass[p].pc \in {"records", "host", "loop", "putq", "define"}
    /\ pass' = [pass EXCEPT ![p].pc = "failed"]
    /\ UNCHANGED <<world, consumed, req, dec, work, quar, drift, crashes>>

-----------------------------------------------------------------------------
(* decide_quarantine.                                                      *)

BeginDecision_MarksFirst(d, i, as) ==
    /\ dec[d].pc = "idle"
    /\ quar[i].status = "Pending"
    /\ as = "Adopted" => quar[i].res \in Bridges
    /\ quar' = [quar EXCEPT ![i].status = as]
    /\ dec' = [dec EXCEPT ![d] = [pc |-> IF as = "Adopted" THEN "look" ELSE "mark",
                                  id |-> i, as |-> as, aware |-> FALSE]]
    /\ UNCHANGED <<world, pass, consumed, req, work, bounds>>

\* The record is pending, and only a bridge can be adopted.
BeginDecision(d, i, as) ==
    /\ dec[d].pc = "idle"
    /\ quar[i].status = "Pending"
    /\ as = "Adopted" => quar[i].res \in Bridges
    /\ dec' = [dec EXCEPT ![d] = [pc |-> IF as = "Adopted" THEN "look" ELSE "mark",
                                  id |-> i, as |-> as, aware |-> FALSE]]
    /\ UNCHANGED <<world, pass, consumed, req, work, quar, bounds>>

\* adopt_bridge looks for the bridge on the host; if it is gone the decision
\* is refused and the record stays pending.
FindBridge(d) ==
    LET b == quar[dec[d].id].res
    IN  /\ dec[d].pc = "look"
        /\ dec' = [dec EXCEPT ![d] = IF b \in host
                                     THEN [@ EXCEPT !.pc = "adopt", !.aware = b \in hostAware]
                                     ELSE IdleDec]
        /\ UNCHANGED <<world, pass, consumed, req, work, quar, bounds>>

\* It records what it saw there, over a record that may exist by now.
RecordBridge(d) ==
    LET b == quar[dec[d].id].res
    IN  /\ dec[d].pc = "adopt"
        /\ rec' = rec \cup {b}
        /\ recAware' = IF dec[d].aware THEN recAware \cup {b} ELSE recAware \ {b}
        /\ dec' = [dec EXCEPT ![d].pc = "mark"]
        /\ UNCHANGED <<host, hostAware, pass, consumed, req, work, quar, bounds>>

MarkDecision(d) ==
    /\ dec[d].pc = "mark"
    /\ quar' = [quar EXCEPT ![dec[d].id].status = dec[d].as]
    /\ dec' = [dec EXCEPT ![d] = IdleDec]
    /\ UNCHANGED <<world, pass, consumed, req, work, bounds>>

-----------------------------------------------------------------------------
(* Ordinary requests and the world outside.                                *)

\* A VM, a container or a bridge is made on the host first and recorded then.
\* The ids of VMs and containers are new; a bridge is its name, and the name of
\* one that is recorded and missing from the host may be taken again.
BeginCreate(w, r, aware) ==
    /\ work[w].pc = "idle"
    /\ r \notin host
    /\ r \in rec => r \in Bridges
    /\ aware => r \in Bridges
    /\ host' = host \cup {r}
    /\ hostAware' = IF aware THEN hostAware \cup {r} ELSE hostAware
    /\ work' = [work EXCEPT ![w] = [pc |-> "put", res |-> r, aware |-> aware]]
    /\ UNCHANGED <<rec, recAware, pass, consumed, req, dec, quar, bounds>>

FinishCreate(w) ==
    /\ work[w].pc = "put"
    /\ rec' = rec \cup {work[w].res}
    /\ recAware' = IF work[w].aware THEN recAware \cup {work[w].res}
                                    ELSE recAware \ {work[w].res}
    /\ work' = [work EXCEPT ![w] = IdleWork]
    /\ UNCHANGED <<host, hostAware, pass, consumed, req, dec, quar, bounds>>

\* The record cannot be written: a VM or a bridge is taken off the host again,
\* a container is left there.
FailCreate(w) ==
    /\ faults < MaxFaults /\ faults' = faults + 1
    /\ work[w].pc = "put"
    /\ host' = host \ ({work[w].res} \ Cts)
    /\ hostAware' = hostAware \ {work[w].res}
    /\ work' = [work EXCEPT ![w] = IdleWork]
    /\ UNCHANGED <<rec, recAware, pass, consumed, req, dec, quar, drift, crashes>>

\* kvm.delete, lxc.delete: first the host, where a failure is ignored, then
\* the record.  There is no operation that deletes a bridge.
BeginDelete(w, r) ==
    /\ work[w].pc = "idle"
    /\ r \in rec \ Bridges
    /\ \/ host' = host \ {r} /\ UNCHANGED faults
       \/ faults < MaxFaults /\ faults' = faults + 1 /\ UNCHANGED host
    /\ work' = [work EXCEPT ![w] = [pc |-> "erase", res |-> r, aware |-> FALSE]]
    /\ UNCHANGED <<rec, recAware, hostAware, pass, consumed, req, dec, quar,
                   drift, crashes>>

FinishDelete(w) ==
    /\ work[w].pc = "erase"
    /\ rec' = rec \ {work[w].res}
    /\ work' = [work EXCEPT ![w] = IdleWork]
    /\ UNCHANGED <<host, recAware, hostAware, pass, consumed, req, dec, quar, bounds>>

\* Something disappears from the host, or is made there by hand.
HostLoses(r) ==
    /\ drift < MaxDrift /\ drift' = drift + 1
    /\ r \in host
    /\ host' = host \ {r}
    /\ hostAware' = hostAware \ {r}
    /\ UNCHANGED <<rec, recAware, pass, consumed, req, dec, work, quar, faults, crashes>>

HostGains(r) ==
    /\ drift < MaxDrift /\ drift' = drift + 1
    /\ r \notin host
    /\ host' = host \cup {r}
    /\ UNCHANGED <<rec, recAware, hostAware, pass, consumed, req, dec, work, quar,
                   faults, crashes>>

\* The client goes away and its request is dropped where it stands.
DropRequest(q) ==
    /\ req[q].pc # "idle"
    /\ req' = [req EXCEPT ![q] = IdleReq]
    /\ UNCHANGED <<world, pass, consumed, dec, work, quar, bounds>>

DropDecision(d) ==
    /\ dec[d].pc # "idle"
    /\ dec' = [dec EXCEPT ![d] = IdleDec]
    /\ UNCHANGED <<world, pass, consumed, req, work, quar, bounds>>

\* Runs that were active become NeedsReview; requests are forgotten.
Crash ==
    /\ crashes < MaxCrashes /\ crashes' = crashes + 1
    /\ pass' = [p \in Passes |->
                  IF pass[p].pc \in {"none"} \cup Outcomes THEN pass[p]
                                                           ELSE [pass[p] EXCEPT !.pc = "lost"]]
    /\ req' = [q \in Reqs |-> IdleReq]
    /\ dec' = [d \in Deciders |-> IdleDec]
    /\ work' = [w \in Workers |-> IdleWork]
    /\ UNCHANGED <<world, consumed, quar, drift, faults>>

-----------------------------------------------------------------------------
PassStep(p) == \/ ReadRecords(p)
               \/ ReadHost(p)
               \/ \E f \in pass[p].todo : \/ CheckQuarantine(p, f)
                                          \/ SkipFinding(p, f)
                                          \/ \E running \in BOOLEAN : BeginRepair(p, f, running)
               \/ PutQuarantine(p)
               \/ Define(p)
               \/ LoopDone(p)

RNext == \/ \E p \in Passes : DryRun(p) \/ PassStep(p) \/ PassFails(p)
         \/ \E q \in Reqs : \/ \E a \in Passes : CheckApproval(q, a)
                            \/ \E quarantine \in BOOLEAN : SpendApproval(q, quarantine)
                            \/ \E p \in Passes : EnqueueRepair(q, p)
                            \/ DropRequest(q)
         \/ \E d \in Deciders : \/ \E i \in QIds, as \in {"Adopted", "Released"} :
                                      BeginDecision(d, i, as)
                                \/ FindBridge(d)
                                \/ RecordBridge(d)
                                \/ MarkDecision(d)
                                \/ DropDecision(d)
         \/ \E w \in Workers : \/ \E r \in Res, aware \in BOOLEAN :
                                     BeginCreate(w, r, aware)
                               \/ FinishCreate(w)
                               \/ FailCreate(w)
                               \/ \E r \in Res : BeginDelete(w, r)
                               \/ FinishDelete(w)
         \/ \E r \in Res : HostLoses(r) \/ HostGains(r)
         \/ Crash

RSpec == RInit /\ [][RNext]_rvars

-----------------------------------------------------------------------------
(* Properties.                                                             *)

Repairs(a) == {p \in Passes : pass[p].mode = "repair" /\ pass[p].from = a}

\* "A dry-run approval is single-use ... so it cannot be replayed to drive
\* repeated repairs", restarts included: one repair run per dry run.
SingleUse == \A a \in Passes : Cardinality(Repairs(a)) <= 1

\* "approved non-destructive repairs applied and unmanaged resources
\* quarantined": a repair run that succeeded has defined everything repairable
\* that its approval lists and left a quarantine record for the rest.
SuccessMeansRepaired ==
    \A p \in Passes : (pass[p].mode = "repair" /\ pass[p].pc = "succeeded") =>
        \A f \in pass[p].found :
            /\ Repairable(f) => f.res \in pass[p].fixed
            /\ f.why = "unmanaged" => \E i \in QIds : quar[i].res = f.res

\* A quarantine record that says Adopted stands for a bridge that DaygleVE
\* does manage, even if the bridge vanished or the process died on the way.
AdoptedIsManaged == \A i \in QIds : quar[i].status = "Adopted" => quar[i].res \in rec
=============================================================================
