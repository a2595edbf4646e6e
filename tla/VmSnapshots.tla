----------------------------- MODULE VmSnapshots -----------------------------
(***************************************************************************)
(* Snapshots and clones of virtual machines: create_snapshot (disk and     *)
(* ram), restore_ram_snapshot, rollback_snapshot, delete_snapshot, clone   *)
(* and cleanup_clone of src/src/services/kvm.rs.                           *)
(*                                                                         *)
(* A disk snapshot is one ZFS snapshot per disk under a common tag; a ram  *)
(* snapshot is a file named after its tag.  Each zfs and virsh command is  *)
(* a step; requests on a VM interleave.                                    *)
(***************************************************************************)
EXTENDS Integers, FiniteSets, Sequences, Functions

CONSTANTS SnapVms,              \* virtual machines with a record
          DisksOf,              \* the datasets of each VM
          PoolOf,               \* the pool of each of them
          CopyOf,               \* the dataset a clone makes of a dataset
          Tags,                 \* names a user may give
          SnapReqs, MaxSnapOps, MaxSnapFaults

ASSUME SnapAssumption ==
    /\ MaxSnapOps \in Nat /\ MaxSnapFaults \in Nat
    /\ "base" \notin Tags /\ "none" \notin SnapVms \cup DOMAIN CopyOf \cup Range(CopyOf)
    /\ \A v \in SnapVms : DisksOf[v] # {} /\ DisksOf[v] \subseteq DOMAIN CopyOf
    /\ DOMAIN PoolOf = DOMAIN CopyOf
    /\ IsInjective(CopyOf) /\ Range(CopyOf) \cap DOMAIN CopyOf = {}

VARIABLES snaps,                \* ZFS snapshots: dataset, tag, the moment it was taken
          origin,               \* of each dataset that exists, the snapshot it is a clone of
          ram,                  \* ram-snapshots/<tag>.save: whose memory it is
          run,                  \* what each domain does
          frozen,               \* whether a guest's filesystems are frozen, and if nobody is
                                \* left to thaw them
          sreq,                 \* requests in progress
          taken,                \* zfs snapshot commands so far: the moments
          snapops, snapfaults

snapvars == <<snaps, origin, ram, run, frozen, sreq, taken, snapops, snapfaults>>

Sources  == DOMAIN CopyOf
Copies   == Range(CopyOf)
NoOrigin == <<"none", "none">>
NoSnapReq == [op |-> "none", v |-> "none", tag |-> "none", pc |-> "idle", todo |-> {}, done |-> {},
              full |-> FALSE, ok |-> TRUE, froze |-> FALSE, lossy |-> FALSE]

\* Every VM is there with its disks; a dataset that a clone would make may be
\* there from before.
SnapInit ==
    /\ snaps = {} /\ taken = 0
    /\ \E S \in SUBSET Copies : /\ Cardinality(S) <= 1
                                /\ origin = [d \in Sources \cup S |-> NoOrigin]
    /\ ram = [t \in Tags |-> "none"]
    /\ run \in [SnapVms -> {"off", "running"}]
    /\ frozen = [v \in SnapVms |-> "no"] /\ snapops = 0 /\ snapfaults = 0
    /\ sreq = [r \in SnapReqs |-> NoSnapReq]

-----------------------------------------------------------------------------

zfs  == <<snaps, origin, taken>>
hyp  == <<ram, run, frozen>>
hist == <<snapops, snapfaults>>

\* Disks are taken in the order of the record.
IsNext(d, todo) == d \in todo /\ d = CHOOSE e \in todo : TRUE
SnapTo(r, pc) == sreq' = [sreq EXCEPT ![r].pc = pc]
SnapEnd(r)    == sreq' = [sreq EXCEPT ![r] = NoSnapReq]
SnapFault     == snapfaults < MaxSnapFaults /\ snapfaults' = snapfaults + 1
Has(d, t)     == \E s \in snaps : s.ds = d /\ s.tag = t
Moment(d, t)  == (CHOOSE s \in snaps : s.ds = d /\ s.tag = t).at
IsOrigin(d, t) == \E e \in DOMAIN origin : origin[e] = <<d, t>>
Without(d, t) == {s \in snaps : ~(s.ds = d /\ s.tag = t)}
Drop(f, d)    == [e \in DOMAIN f \ {d} |-> f[e]]
\* zfs refuses to destroy a snapshot that is an origin.
CanDestroySnap(d, t) == Has(d, t) /\ ~IsOrigin(d, t)
CanDestroy(d) == d \in DOMAIN origin /\ ~\E e \in DOMAIN origin \ {d} : origin[e][1] = d

\* The bases of clones have tags of their own; "base" stands for all of them, so
\* a VM is cloned once.
MayClone(v) == /\ \A r \in SnapReqs : sreq[r].op = "clone" => sreq[r].v # v
               /\ \A d \in DisksOf[v] : /\ ~Has(d, "base") /\ origin[d] = NoOrigin
                                        /\ CopyOf[d] \in DOMAIN origin => origin[CopyOf[d]] = NoOrigin

\* The checks and lookups that a request begins with.
Start(r, op, v, t, full) ==
    /\ sreq[r] = NoSnapReq /\ snapops < MaxSnapOps /\ (op = "clone" => MayClone(v))
    /\ snapops' = snapops + 1
    /\ sreq' = [sreq EXCEPT ![r] =
                  [NoSnapReq EXCEPT !.op = op, !.v = v, !.tag = t, !.full = full, !.todo = DisksOf[v],
                                    !.pc = CASE op = "ram" -> "running"
                                             [] op = "restore" -> "restore"
                                             [] op = "delete" -> "file"
                                             [] op = "rollback" -> "stopped"
                                             [] op = "disk" -> "list"
                                             [] op = "clone" -> "capture"]]
    /\ UNCHANGED <<zfs, hyp, snapfaults>>

\* create_ram_snapshot wants the VM running, rollback_snapshot wants it stopped.
CheckPower(r) ==
    LET q == sreq[r]
    IN  /\ q.pc \in {"running", "stopped"}
        /\ IF q.pc = "running" /\ run[q.v] = "running" THEN SnapTo(r, "list")
           ELSE IF q.pc = "stopped" /\ run[q.v] = "off" THEN SnapTo(r, "check")
           ELSE SnapEnd(r)
        /\ UNCHANGED <<zfs, hyp, hist>>

\* list_snapshots, disk by disk: a name that one disk lacks is not listed, a ram
\* file is listed whoever it belongs to.  A name that is taken is refused.
ListDisk(r, d) ==
    LET q == sreq[r]
    IN  /\ q.pc = "list" /\ IsNext(d, q.todo)
        /\ sreq' = [sreq EXCEPT ![r].todo = @ \ {d}, ![r].ok = @ /\ Has(d, q.tag)]
        /\ UNCHANGED <<zfs, hyp, hist>>

ListRam(r) ==
    LET q == sreq[r]
    IN  /\ q.pc = "list" /\ q.todo = {}
        /\ IF q.ok \/ ram[q.tag] # "none" THEN SnapEnd(r)
           ELSE SnapTo(r, IF q.op = "ram" THEN "save" ELSE "freeze")
        /\ UNCHANGED <<zfs, hyp, hist>>

-----------------------------------------------------------------------------
(* create_disk_snapshot.                                                   *)

Thawed(v) == [frozen EXCEPT ![v] = "no"]
\* Frozen, with the one who would have thawed it gone.
LeftFrozen(v) == [frozen EXCEPT ![v] = IF @ = "no" THEN "no" ELSE "left"]

\* Best effort, for a running guest with its agent; the thaw will be tried even if
\* the freeze failed.
FreezeGuest(r, ok) ==
    LET q == sreq[r] live == run[q.v] = "running"
    IN  /\ q.pc = "freeze"
        /\ IF ok THEN frozen' = (IF live THEN [frozen EXCEPT ![q.v] = "frozen"] ELSE frozen) /\ UNCHANGED hist
           ELSE live /\ frozen' = frozen /\ SnapFault /\ UNCHANGED snapops
        /\ sreq' = [sreq EXCEPT ![r].pc = "capture", ![r].froze = live, ![r].todo = DisksOf[q.v]]
        /\ UNCHANGED <<zfs, ram, run>>

ThawGuest_OnSuccess(r, ok) ==
    LET q == sreq[r]
    IN  /\ q.pc = "thaw" /\ ok
        /\ frozen' = IF q.froze /\ q.ok THEN Thawed(q.v) ELSE frozen
        /\ sreq' = [sreq EXCEPT ![r].pc = IF q.ok THEN "end" ELSE "cleanup", ![r].todo = DisksOf[q.v]]
        /\ UNCHANGED <<zfs, ram, run, hist>>

\* A thaw that fails is logged.
ThawGuest(r, ok) ==
    LET q == sreq[r]
    IN  /\ q.pc = "thaw"
        /\ IF ok THEN frozen' = (IF q.froze THEN Thawed(q.v) ELSE frozen) /\ UNCHANGED hist
           ELSE q.froze /\ frozen' = LeftFrozen(q.v) /\ SnapFault /\ UNCHANGED snapops
        /\ sreq' = [sreq EXCEPT ![r].pc = IF q.ok THEN "end" ELSE "cleanup", ![r].todo = DisksOf[q.v]]
        /\ UNCHANGED <<zfs, ram, run>>

SamePool(v, d) == {e \in DisksOf[v] : PoolOf[e] = PoolOf[d]}
AfterCapture(q) == IF q.op = "clone" THEN "copy" ELSE "thaw"

Capture_Each(r, d) ==
    LET q == sreq[r] t == IF q.op = "clone" THEN "base" ELSE q.tag
        part == SamePool(q.v, d) missing == {e \in part : ~Has(e, t)}
    IN  /\ q.pc = "capture" /\ IsNext(d, q.todo)
        /\ taken' = taken + 1
        /\ snaps' = snaps \cup [ds : missing, tag : {t}, at : {taken'}]
        /\ sreq' = [sreq EXCEPT ![r].ok = TRUE,
                                ![r].todo = IF q.todo \subseteq part THEN DisksOf[q.v] ELSE @ \ part,
                                ![r].pc = IF q.todo \subseteq part THEN AfterCapture(q) ELSE "capture"]
        /\ UNCHANGED <<origin, hyp, hist>>

\* One zfs snapshot command over all disks: pool by pool, and in each pool all of
\* them or none.  When it fails the request goes on to the thaw; a clone returns.
Capture(r, d) ==
    LET q == sreq[r] t == IF q.op = "clone" THEN "base" ELSE q.tag
        part == SamePool(q.v, d) last == q.todo \subseteq part
        ok == \A e \in part : ~Has(e, t)
    IN  /\ q.pc = "capture" /\ IsNext(d, q.todo)
        /\ taken' = IF ok THEN taken + 1 ELSE taken
        /\ snaps' = IF ok THEN snaps \cup [ds : part, tag : {t}, at : {taken'}] ELSE snaps
        /\ IF q.op = "clone" /\ ~ok THEN SnapEnd(r)
           ELSE sreq' = [sreq EXCEPT ![r].ok = ok,
                                     ![r].todo = IF last \/ ~ok THEN DisksOf[q.v] ELSE @ \ part,
                                     ![r].pc = IF last \/ ~ok THEN AfterCapture(q) ELSE "capture"]
        /\ UNCHANGED <<origin, hyp, hist>>

CaptureFails(r) ==
    /\ sreq[r].pc = "capture"
    /\ SnapFault
    /\ IF sreq[r].op = "clone" THEN SnapEnd(r)
       ELSE sreq' = [sreq EXCEPT ![r].ok = FALSE, ![r].pc = "thaw"]
    /\ UNCHANGED <<zfs, hyp, snapops>>

\* After a failed capture every dataset@tag is destroyed, whoever made it.
CleanUpTag(r, d) ==
    LET q == sreq[r]
    IN  /\ q.pc = "cleanup" /\ IsNext(d, q.todo)
        /\ snaps' = IF CanDestroySnap(d, q.tag) THEN Without(d, q.tag) ELSE snaps
        /\ IF q.todo = {d} THEN SnapEnd(r) ELSE sreq' = [sreq EXCEPT ![r].todo = @ \ {d}]
        /\ UNCHANGED <<origin, taken, hyp, hist>>

\* The description is set and the snapshot read back; nothing changes.
ReadBack(r) ==
    /\ sreq[r].pc = "end"
    /\ SnapEnd(r)
    /\ UNCHANGED <<zfs, hyp, hist>>

-----------------------------------------------------------------------------
(* Ram snapshots.  virsh save leaves the domain off; virsh restore reads   *)
(* in the file which domain to resume.                                     *)

SaveRam(r) ==
    LET q == sreq[r]
    IN  /\ q.pc = "save"
        /\ IF run[q.v] # "off"
           THEN /\ ram' = [ram EXCEPT ![q.tag] = q.v]
                /\ run' = [run EXCEPT ![q.v] = "off"] /\ frozen' = Thawed(q.v)
           ELSE ram' = [ram EXCEPT ![q.tag] = "none"] /\ UNCHANGED <<run, frozen>>
        /\ SnapEnd(r)
        /\ UNCHANGED <<zfs, hist>>

RestoreRam(r) ==
    LET q == sreq[r] w == ram[q.tag]
    IN  /\ q.pc = "restore"
        /\ run' = IF w # "none" /\ run[w] = "off" THEN [run EXCEPT ![w] = "running"] ELSE run
        /\ SnapEnd(r)
        /\ UNCHANGED <<zfs, ram, frozen, hist>>

\* delete_snapshot removes the ram file of that name and returns, or goes on to
\* the disks.
DeleteRam(r) ==
    LET q == sreq[r]
    IN  /\ q.pc = "file"
        /\ ram' = [ram EXCEPT ![q.tag] = "none"]
        /\ IF ram[q.tag] # "none" THEN SnapEnd(r) ELSE SnapTo(r, "check")
        /\ UNCHANGED <<zfs, run, frozen, hist>>

-----------------------------------------------------------------------------
(* rollback_snapshot and delete_snapshot.                                  *)

\* snapshot_on_all_disks: one command per disk.
CheckDisk(r, d) ==
    LET q == sreq[r]
    IN  /\ q.pc = "check" /\ IsNext(d, q.todo)
        /\ IF ~Has(d, q.tag) THEN SnapEnd(r)
           ELSE IF q.todo = {d}
           THEN sreq' = [sreq EXCEPT ![r].pc = q.op, ![r].todo = DisksOf[q.v]]
           ELSE sreq' = [sreq EXCEPT ![r].todo = @ \ {d}]
        /\ UNCHANGED <<zfs, hyp, hist>>

Onward(r, d) == IF sreq[r].todo = {d} THEN SnapEnd(r) ELSE sreq' = [sreq EXCEPT ![r].todo = @ \ {d}]

\* zfs rollback -r destroys the newer snapshots of the disk; it fails on one
\* that a clone hangs on, and on a zvol in use.
RollbackDisk(r, d) ==
    LET q     == sreq[r]
        newer == {s \in snaps : s.ds = d /\ s.at > Moment(d, q.tag)}
    IN  /\ q.pc = "rollback" /\ IsNext(d, q.todo)
        /\ IF Has(d, q.tag) /\ run[q.v] = "off" /\ ~\E s \in newer : IsOrigin(d, s.tag)
           THEN snaps' = snaps \ newer /\ Onward(r, d)
           ELSE snaps' = snaps /\ SnapEnd(r)
        /\ UNCHANGED <<origin, taken, hyp, hist>>

DestroyTag(r, d) ==
    LET q == sreq[r]
    IN  /\ q.pc = "delete" /\ IsNext(d, q.todo)
        /\ IF CanDestroySnap(d, q.tag)
           THEN snaps' = Without(d, q.tag) /\ Onward(r, d)
           ELSE snaps' = snaps /\ SnapEnd(r)
        /\ UNCHANGED <<origin, taken, hyp, hist>>

-----------------------------------------------------------------------------
(* clone: base snapshots, then a clone of each disk, promoted when the     *)
(* clone is full.                                                          *)

Undo(r, q) == sreq' = [sreq EXCEPT ![r] = [q EXCEPT !.pc = "undoCopies", !.todo = q.done]]

CloneDisk(r, d, ok) ==
    LET q == sreq[r] c == CopyOf[d]
    IN  /\ q.pc = "copy" /\ IsNext(d, q.todo)
        /\ IF ok THEN c \notin DOMAIN origin /\ Has(d, "base") /\ UNCHANGED hist
           ELSE \/ (c \in DOMAIN origin \/ ~Has(d, "base")) /\ UNCHANGED hist
                \/ SnapFault /\ UNCHANGED snapops
        /\ IF ok
           THEN /\ origin' = [e \in DOMAIN origin \cup {c} |->
                                 IF e = c THEN <<d, "base">> ELSE origin[e]]
                /\ sreq' = [sreq EXCEPT ![r].todo = @ \ {d}, ![r].done = @ \cup {d},
                              ![r].pc = IF q.full THEN "promote"
                                        ELSE IF q.todo = {d} THEN "define" ELSE "copy"]
           ELSE origin' = origin /\ Undo(r, q)
        /\ UNCHANGED <<snaps, taken, hyp>>

\* zfs promote: the base and every older snapshot of the source move to the
\* clone, and the source becomes a clone of it.
Promote(r, d) ==
    LET q == sreq[r] c == CopyOf[d] base == Moment(d, "base")
    IN  /\ q.pc = "promote" /\ d \in q.done /\ origin[c] = <<d, "base">>
        /\ snaps' = {IF s.ds = d /\ s.at <= base THEN [s EXCEPT !.ds = c] ELSE s : s \in snaps}
        /\ origin' = [e \in DOMAIN origin |->
                        IF e = d THEN <<c, "base">> ELSE IF e = c THEN origin[d]
                        ELSE IF origin[e][1] = d /\ Moment(d, origin[e][2]) <= base
                             THEN <<c, origin[e][2]>> ELSE origin[e]]
        /\ SnapTo(r, IF q.todo = {} THEN "define" ELSE "copy")
        /\ UNCHANGED <<taken, hyp, hist>>

PromoteFails(r) ==
    /\ sreq[r].pc = "promote"
    /\ SnapFault
    /\ Undo(r, sreq[r])
    /\ UNCHANGED <<zfs, hyp, snapops>>

\* The base of a promoted clone is destroyed, best effort; then the domain is
\* defined.
DefineClone(r, ok) ==
    LET q == sreq[r]
        gone == {s \in snaps : q.full /\ s.tag = "base" /\ ~IsOrigin(s.ds, "base")
                               /\ \E d \in q.done : s.ds = CopyOf[d]}
    IN  /\ q.pc = "define"
        /\ snaps' = snaps \ gone
        /\ IF ok THEN SnapTo(r, "record") /\ UNCHANGED hist
           ELSE Undo(r, q) /\ SnapFault /\ UNCHANGED snapops
        /\ UNCHANGED <<origin, taken, hyp>>

\* store.put; when it fails the error is returned and nothing is torn down.
RecordClone(r, ok) ==
    /\ sreq[r].pc = "record"
    /\ IF ok THEN UNCHANGED hist ELSE SnapFault /\ UNCHANGED snapops
    /\ SnapEnd(r)
    /\ UNCHANGED <<zfs, hyp>>

Doomed(d)    == {s \in snaps : s.ds = d}
DestroyCopy_Skip(r, d, ok) ==
    LET q == sreq[r]
    IN  /\ q.pc = "undoCopies" /\ IsNext(d, q.todo) /\ ok
        /\ sreq' = [sreq EXCEPT ![r].todo = @ \ {d}]
        /\ UNCHANGED <<zfs, hyp, hist>>

\* cleanup_clone: the clones made so far, then the bases on the source disks;
\* failures are ignored.
DestroyCopy(r, d, ok) ==
    LET q == sreq[r] c == CopyOf[d]
    IN  /\ q.pc = "undoCopies" /\ IsNext(d, q.todo)
        /\ IF ok THEN UNCHANGED hist ELSE SnapFault /\ UNCHANGED snapops
        /\ LET did == ok /\ CanDestroy(c)
           IN  /\ origin' = IF did THEN Drop(origin, c) ELSE origin
               /\ snaps' = IF did THEN snaps \ Doomed(c) ELSE snaps
               /\ sreq' = [sreq EXCEPT ![r].todo = @ \ {d}, ![r].lossy = @ \/ ~ok]
        /\ UNCHANGED <<taken, hyp>>

CopiesGone(r) ==
    /\ sreq[r].pc = "undoCopies" /\ sreq[r].todo = {}
    /\ sreq' = [sreq EXCEPT ![r].pc = "undoBases", ![r].todo = DisksOf[sreq[r].v]]
    /\ UNCHANGED <<zfs, hyp, hist>>

DestroyBase(r, d, ok) ==
    LET q == sreq[r]
    IN  /\ q.pc = "undoBases" /\ IsNext(d, q.todo)
        /\ IF ok THEN UNCHANGED hist ELSE SnapFault /\ UNCHANGED snapops
        /\ snaps' = IF ok /\ CanDestroySnap(d, "base") THEN Without(d, "base") ELSE snaps
        /\ sreq' = [sreq EXCEPT ![r].todo = @ \ {d}, ![r].lossy = @ \/ ~ok]
        /\ UNCHANGED <<origin, taken, hyp>>

CloneFailed(r) ==
    /\ sreq[r].pc = "undoBases" /\ sreq[r].todo = {}
    /\ SnapEnd(r)
    /\ UNCHANGED <<zfs, hyp, hist>>

-----------------------------------------------------------------------------

\* The client of a handler hangs up, or a destroy or rollback fails midway: the
\* request ends here.  clone runs in a task of its own.
Abandon(r) ==
    LET q == sreq[r]
    IN  /\ q # NoSnapReq /\ q.op # "clone"
        /\ SnapFault
        /\ frozen' = IF q.pc \in {"capture", "thaw"} /\ q.froze THEN LeftFrozen(q.v) ELSE frozen
        /\ SnapEnd(r)
        /\ UNCHANGED <<zfs, ram, run, snapops>>

\* The guest is powered on or off by others; a frozen guest that stops thaws.
PowerTurns(v) ==
    /\ \E r \in SnapReqs : sreq[r].v = v
    /\ run' = [run EXCEPT ![v] = IF @ = "off" THEN "running" ELSE "off"]
    /\ frozen' = Thawed(v)
    /\ UNCHANGED <<zfs, ram, sreq, hist>>

SnapStep(r) ==
    \/ CheckPower(r) \/ ListRam(r) \/ \E ok \in BOOLEAN : FreezeGuest(r, ok) \/ ThawGuest(r, ok)
    \/ CaptureFails(r) \/ ReadBack(r)
    \/ SaveRam(r) \/ RestoreRam(r) \/ DeleteRam(r)
    \/ \E d \in Sources : \/ ListDisk(r, d) \/ Capture(r, d) \/ CleanUpTag(r, d) \/ CheckDisk(r, d)
                          \/ RollbackDisk(r, d) \/ DestroyTag(r, d) \/ Promote(r, d)
                          \/ \E ok \in BOOLEAN : \/ CloneDisk(r, d, ok) \/ DestroyCopy(r, d, ok)
                                                 \/ DestroyBase(r, d, ok)
    \/ PromoteFails(r) \/ \E ok \in BOOLEAN : DefineClone(r, ok) \/ RecordClone(r, ok)
    \/ CopiesGone(r) \/ CloneFailed(r)

SnapNext ==
    \/ \E r \in SnapReqs :
          \/ \E v \in SnapVms, t \in Tags, op \in {"disk", "ram", "restore", "rollback", "delete"} :
                Start(r, op, v, t, FALSE)
          \/ \E v \in SnapVms, f \in BOOLEAN : Start(r, "clone", v, "base", f)
          \/ SnapStep(r) \/ Abandon(r)
    \/ \E v \in SnapVms : PowerTurns(v)

\* A request that is not abandoned runs to its end.
SnapSpec == SnapInit /\ [][SnapNext]_snapvars /\ \A r \in SnapReqs : WF_snapvars(SnapStep(r))

-----------------------------------------------------------------------------

Listed(v, t) == \A d \in DisksOf[v] : Has(d, t)

\* A snapshot that is listed was taken of all disks of a pool at the same moment,
\* however creations, deletions and rollbacks of its name interleave and wherever
\* they are cut off: leftovers of an old one are never completed by a new one.
ListedIsOneMoment ==
    \A v \in SnapVms, t \in Tags : Listed(v, t) =>
        \A d, e \in DisksOf[v] : PoolOf[d] = PoolOf[e] => Moment(d, t) = Moment(e, t)

\* A guest whose filesystems were frozen for a snapshot is thawed on every path of
\* create_disk_snapshot, a capture that fails included: it stays frozen only if the
\* thaw itself fails, which the code logs and does not retry, or if the client hangs
\* up between the two.
GuestThaws ==
    \A v \in SnapVms : frozen[v] = "frozen" ~> frozen[v] # "frozen"

\* "Best-effort teardown of a partially-created clone": when a clone that failed
\* before its record is through with cleanup_clone and none of the destroys failed
\* for a reason of its own, no base is left on a source disk, and a copy is left only
\* where the promote of a full clone had already made the source disk a clone of the
\* copy, so that zfs refuses to destroy it.
FailedCloneLeavesNothing ==
    \A r \in SnapReqs :
        LET q == sreq[r]
        IN  q.pc = "undoBases" /\ q.todo = {} /\ ~q.lossy =>
              /\ \A d \in DisksOf[q.v] : ~Has(d, "base")
              /\ \A d \in q.done : CopyOf[d] \in DOMAIN origin =>
                                     q.full /\ origin[d] = <<CopyOf[d], "base">>

\* "The pre-check above narrows the window, but a concurrent request can still
\* win the race; surface that as a 409": a complete snapshot goes only because
\* somebody deletes it, rolls back past it or makes a full clone.
WinnerKeepsSnapshot ==
    [][\A v \in SnapVms, t \in Tags : Listed(v, t) /\ ~Listed(v, t)' =>
          \E q \in SnapReqs : sreq[q].pc \in {"delete", "rollback", "promote"}]_snapvars
=============================================================================
