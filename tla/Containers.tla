----------------------------- MODULE Containers -----------------------------
(***************************************************************************)
(* LXC containers: create, update, delete, power, migrate_rootfs and the   *)
(* snapshots of src/src/services/lxc.rs, as the handlers of                *)
(* src/src/api/containers.rs run them.                                     *)
(*                                                                         *)
(* A container is a record, known by an id, and what LXC keeps under the   *)
(* container's name: a configuration, a ZFS dataset for its rootfs, and a  *)
(* running state.  Every lxc or zfs command and every access to the store  *)
(* is a step.                                                              *)
(***************************************************************************)
EXTENDS Integers, FiniteSets

CONSTANTS CtIds, CtNames, CtTags,
          CtLimits,             \* memory and CPU limits
          CtReqs, MaxCtOps, MaxCtFaults

ASSUME CtAssumption ==
    /\ MaxCtOps \in Nat /\ MaxCtFaults \in Nat
    /\ "none" \notin CtNames \cup CtLimits
    /\ CtIds # {} /\ CtNames # {} /\ CtLimits # {}

VARIABLES crec,                 \* containers/<id>.json
          lxc,                  \* what LXC has under each name
          roots,                \* rootfs datasets that exist
          ctsnaps,              \* snapshots of them
          creq, ctmixed, ctops, ctfaults

ctvars == <<crec, lxc, roots, ctsnaps, creq, ctmixed, ctops, ctfaults>>

NoCt  == [name |-> "none", limit |-> "none"]
NoLxc == [power |-> "absent", conf |-> "none", cgroup |-> "none"]
NoCtReq == [op |-> "none", pc |-> "idle", id |-> "none", ct |-> NoCt, arg |-> "none",
            start |-> FALSE, lossy |-> FALSE, left |-> FALSE]

CtInit ==
    /\ LET i == CHOOSE i \in CtIds : TRUE n == CHOOSE n \in CtNames : TRUE
           l == CHOOSE l \in CtLimits : TRUE
       IN  /\ crec = [j \in CtIds |-> IF j = i THEN [name |-> n, limit |-> l] ELSE NoCt]
           /\ lxc = [m \in CtNames |-> IF m = n THEN [power |-> "stopped", conf |-> l, cgroup |-> "none"]
                                      ELSE NoLxc]
           /\ roots = {n}
    /\ ctsnaps = {} /\ ctmixed = FALSE /\ ctops = 0 /\ ctfaults = 0
    /\ creq = [r \in CtReqs |-> NoCtReq]

-----------------------------------------------------------------------------

cthost == <<lxc, roots, ctsnaps>>
cthist == <<ctmixed, ctops, ctfaults>>

CtAt(r, op, pc) == creq[r].op = op /\ creq[r].pc = pc
CtTo(r, pc)     == creq' = [creq EXCEPT ![r].pc = pc]
CtEnd(r)        == creq' = [creq EXCEPT ![r] = NoCtReq]
CtFault         == ctfaults < MaxCtFaults /\ ctfaults' = ctfaults + 1 /\ UNCHANGED <<ctmixed, ctops>>
CtExists(n)       == lxc[n].power # "absent"

CtRequest(r, op, i, ct, arg, start) ==
    /\ creq[r] = NoCtReq /\ ctops < MaxCtOps
    /\ ctops' = ctops + 1
    /\ ctmixed' = (ctmixed \/ \E q \in CtReqs : creq[q] # NoCtReq)
    /\ creq' = [creq EXCEPT ![r] = [op |-> op, pc |-> IF op = "create" THEN "lxcCreate" ELSE "read",
                                    id |-> i, ct |-> ct, arg |-> arg, start |-> start,
                                    lossy |-> FALSE, left |-> FALSE]]
    /\ UNCHANGED <<crec, cthost, ctfaults>>

\* The request's own checks have passed; new_id returns an id that is not in use.
CreateCt(r, i, n, l, start) ==
    /\ crec[i] = NoCt /\ \A q \in CtReqs : creq[q].id # i
    /\ CtRequest(r, "create", i, [name |-> n, limit |-> l], "none", start)

\* The next step of an operation that has read its record.
CtFirst(op) ==
    CASE op = "update" -> "cgroup" [] op = "delete" -> "kill" [] op = "power" -> "power"
      [] op = "migrate" -> "state" [] op = "snapshot" -> "list" [] op = "rollback" -> "state"
      [] op = "unsnap" -> "exists"

\* get_stored; update applies the change to its copy, and refuses to rename.
ReadCt(r) ==
    LET q == creq[r]
    IN  /\ q.pc = "read"
        /\ IF crec[q.id] = NoCt THEN CtEnd(r)
           ELSE creq' = [creq EXCEPT ![r].pc = CtFirst(q.op),
                           ![r].ct = IF q.op = "update" THEN [crec[q.id] EXCEPT !.limit = q.arg]
                                     ELSE crec[q.id]]
        /\ UNCHANGED <<crec, cthost, cthist>>

-----------------------------------------------------------------------------
(* create: lxc-create, quota, configuration, start, record.                *)

LxcCreate(r) ==
    LET n == creq[r].ct.name
    IN  /\ creq[r].pc = "lxcCreate"
        /\ IF CtExists(n) \/ n \in roots THEN UNCHANGED <<lxc, roots>> /\ CtEnd(r)
           ELSE /\ lxc' = [lxc EXCEPT ![n] = [power |-> "stopped", conf |-> "none", cgroup |-> "none"]]
                /\ roots' = roots \cup {n}
                /\ CtTo(r, "quota")
        /\ UNCHANGED <<crec, ctsnaps, cthist>>

\* zfs set quota, then write_config appends the limits.  When either fails the
\* container is torn down.
SetQuota(r) ==
    /\ creq[r].pc = "quota"
    /\ CtTo(r, IF creq[r].ct.name \in roots THEN "config" ELSE "undo")
    /\ UNCHANGED <<crec, cthost, cthist>>

WriteConfig(r) ==
    LET q == creq[r]
    IN  /\ q.pc = "config"
        /\ IF CtExists(q.ct.name)
           THEN /\ lxc' = [lxc EXCEPT ![q.ct.name].conf = q.ct.limit]
                /\ CtTo(r, IF q.start THEN "start" ELSE "put")
           ELSE lxc' = lxc /\ CtTo(r, "undo")
        /\ UNCHANGED <<crec, roots, ctsnaps, cthist>>

CreateFails(r) ==
    /\ creq[r].pc \in {"quota", "config"}
    /\ CtFault
    /\ CtTo(r, "undo")
    /\ UNCHANGED <<crec, cthost>>

Gone(n) == /\ lxc' = [lxc EXCEPT ![n] = NoLxc]
           /\ roots' = roots \ {n} /\ ctsnaps' = {s \in ctsnaps : s[1] # n}

\* lxc-destroy -f removes the rootfs too; zfs destroy -r follows for what is left.
\* Both are best effort: lossy and left say that the first or the second failed.
LxcDestroy(r, ok) ==
    /\ creq[r].pc = "undo"
    /\ IF ok THEN Gone(creq[r].ct.name) /\ UNCHANGED cthist ELSE UNCHANGED cthost /\ CtFault
    /\ creq' = [creq EXCEPT ![r].pc = "remnant", ![r].lossy = ~ok]
    /\ UNCHANGED crec

DestroyRemnant_Keep(r, ok) ==
    /\ creq[r].pc = "remnant"
    /\ IF ok THEN UNCHANGED <<cthost, cthist>> ELSE UNCHANGED cthost /\ CtFault
    /\ creq' = [creq EXCEPT ![r].pc = IF creq[r].op = "delete" THEN "erase" ELSE "failed",
                            ![r].left = ~ok]
    /\ UNCHANGED crec

DestroyRemnant(r, ok) ==
    LET n == creq[r].ct.name
    IN  /\ creq[r].pc = "remnant"
        /\ IF ok THEN /\ roots' = (IF lxc[n].power \in {"running", "frozen"} THEN roots ELSE roots \ {n})
                      /\ ctsnaps' = {s \in ctsnaps : s[1] \in roots'}
                      /\ UNCHANGED <<lxc, cthist>>
           ELSE UNCHANGED cthost /\ CtFault
        /\ creq' = [creq EXCEPT ![r].pc = IF creq[r].op = "delete" THEN "erase" ELSE "failed",
                                ![r].left = ~ok]
        /\ UNCHANGED crec

CreateFailed(r) ==
    /\ creq[r].pc = "failed"
    /\ CtEnd(r)
    /\ UNCHANGED <<crec, cthost, cthist>>

\* A start that fails returns at once: container and rootfs stay, without a record.
StartCreated(r) ==
    LET n == creq[r].ct.name
    IN  /\ creq[r].pc = "start"
        /\ IF lxc[n].power = "stopped" /\ n \in roots
           THEN lxc' = [lxc EXCEPT ![n].power = "running", ![n].cgroup = lxc[n].conf] /\ CtTo(r, "put")
           ELSE lxc' = lxc /\ CtEnd(r)
        /\ UNCHANGED <<crec, roots, ctsnaps, cthist>>

\* The whole record as it was built or read.
PutCt(r) ==
    /\ creq[r].pc = "put"
    /\ crec' = [crec EXCEPT ![creq[r].id] = creq[r].ct]
    /\ CtEnd(r)
    /\ UNCHANGED <<cthost, cthist>>

-----------------------------------------------------------------------------
(* update, delete, power, migrate_rootfs.                                  *)

\* lxc-cgroup changes what runs; the configuration keeps the limits of create.
SetCgroup(r) ==
    LET q == creq[r] n == q.ct.name
    IN  /\ q.pc = "cgroup"
        /\ lxc' = IF lxc[n].power = "running" THEN [lxc EXCEPT ![n].cgroup = q.ct.limit] ELSE lxc
        /\ CtTo(r, "put")
        /\ UNCHANGED <<crec, roots, ctsnaps, cthist>>

KillCt_NoDestroy(r) ==
    LET n == creq[r].ct.name
    IN  /\ creq[r].pc = "kill"
        /\ lxc' = IF CtExists(n) THEN [lxc EXCEPT ![n].power = "stopped", ![n].cgroup = "none"] ELSE lxc
        /\ CtTo(r, "erase")
        /\ UNCHANGED <<crec, roots, ctsnaps, cthist>>

\* lxc-stop -k, best effort.
KillCt(r) ==
    LET n == creq[r].ct.name
    IN  /\ creq[r].pc = "kill"
        /\ lxc' = IF CtExists(n) THEN [lxc EXCEPT ![n].power = "stopped", ![n].cgroup = "none"] ELSE lxc
        /\ CtTo(r, "undo")
        /\ UNCHANGED <<crec, roots, ctsnaps, cthist>>

EraseCt(r) ==
    /\ creq[r].pc = "erase"
    /\ crec' = [crec EXCEPT ![creq[r].id] = NoCt]
    /\ CtEnd(r)
    /\ UNCHANGED <<cthost, cthist>>

CtPowerOk(n, a) ==
    CASE a = "start"    -> lxc[n].power = "stopped" /\ n \in roots
      [] a = "restart"  -> CtExists(n) /\ n \in roots
      [] a = "stop"     -> lxc[n].power \in {"running", "frozen"}
      [] a = "freeze"   -> lxc[n].power = "running"
      [] a = "unfreeze" -> lxc[n].power = "frozen"
CtPowered(c, a) ==
    CASE a \in {"start", "restart"} -> [c EXCEPT !.power = "running", !.cgroup = c.conf]
      [] a = "stop"     -> [c EXCEPT !.power = "stopped", !.cgroup = "none"]
      [] a = "freeze"   -> [c EXCEPT !.power = "frozen"]
      [] a = "unfreeze" -> [c EXCEPT !.power = "running"]

PowerCt(r) ==
    LET q == creq[r] n == q.ct.name
    IN  /\ q.pc = "power"
        /\ IF CtPowerOk(n, q.arg) THEN lxc' = [lxc EXCEPT ![n] = CtPowered(@, q.arg)] /\ CtTo(r, "put")
           ELSE lxc' = lxc /\ CtEnd(r)
        /\ UNCHANGED <<crec, roots, ctsnaps, cthist>>

\* require_stopped, and live_state in migrate_rootfs, which lets a frozen container
\* pass.  Its zfs list then fails for a dataset that is not there and the
\* error is returned; for one that is, the request is refused.
CheckState(r) ==
    LET q == creq[r] n == q.ct.name
    IN  /\ q.pc = "state"
        /\ IF q.op = "rollback" /\ lxc[n].power \in {"stopped", "absent"} THEN CtTo(r, "exists")
           ELSE CtEnd(r)
        /\ UNCHANGED <<crec, cthost, cthist>>

-----------------------------------------------------------------------------
(* Snapshots of the rootfs.                                                *)

\* The loser of a race gets the error of zfs and leaves the snapshot alone.
ListCt(r) ==
    LET q == creq[r]
    IN  /\ q.pc = "list"
        /\ IF <<q.ct.name, q.arg>> \in ctsnaps THEN CtEnd(r) ELSE CtTo(r, "capture")
        /\ UNCHANGED <<crec, cthost, cthist>>

CaptureCt(r) ==
    LET q == creq[r]
    IN  /\ q.pc = "capture"
        /\ ctsnaps' = IF q.ct.name \in roots THEN ctsnaps \cup {<<q.ct.name, q.arg>>} ELSE ctsnaps
        /\ CtEnd(r)
        /\ UNCHANGED <<crec, lxc, roots, cthist>>

\* snapshot_exists
LookForSnapshot(r) ==
    LET q == creq[r]
    IN  /\ q.pc = "exists"
        /\ IF <<q.ct.name, q.arg>> \in ctsnaps THEN CtTo(r, q.op) ELSE CtEnd(r)
        /\ UNCHANGED <<crec, cthost, cthist>>

\* zfs rollback -r; what it does to newer snapshots and to the contents is not modelled.
RollbackCt(r) ==
    /\ creq[r].pc = "rollback"
    /\ CtEnd(r)
    /\ UNCHANGED <<crec, cthost, cthist>>

DestroySnapshot(r) ==
    /\ creq[r].pc = "unsnap"
    /\ ctsnaps' = ctsnaps \ {<<creq[r].ct.name, creq[r].arg>>}
    /\ CtEnd(r)
    /\ UNCHANGED <<crec, lxc, roots, cthist>>

-----------------------------------------------------------------------------

\* Any other command or write fails, or the client of a handler hangs up.
CtEnds(r) ==
    /\ creq[r] # NoCtReq /\ creq[r].pc \notin {"quota", "config", "undo", "remnant", "failed"}
    /\ CtFault
    /\ CtEnd(r)
    /\ UNCHANGED <<crec, cthost>>

CtNext ==
    \E r \in CtReqs :
       \/ \E i \in CtIds :
            \/ \E n \in CtNames, l \in CtLimits, s \in BOOLEAN : CreateCt(r, i, n, l, s)
            \/ \E l \in CtLimits : CtRequest(r, "update", i, NoCt, l, FALSE)
            \/ \E op \in {"delete", "migrate"} : CtRequest(r, op, i, NoCt, "none", FALSE)
            \/ \E a \in {"start", "stop", "restart", "freeze", "unfreeze"} :
                  CtRequest(r, "power", i, NoCt, a, FALSE)
            \/ \E t \in CtTags, op \in {"snapshot", "rollback", "unsnap"} :
                  CtRequest(r, op, i, NoCt, t, FALSE)
       \/ ReadCt(r) \/ LxcCreate(r) \/ SetQuota(r) \/ WriteConfig(r) \/ CreateFails(r)
       \/ \E ok \in BOOLEAN : LxcDestroy(r, ok) \/ DestroyRemnant(r, ok)
       \/ CreateFailed(r) \/ StartCreated(r) \/ PutCt(r)
       \/ SetCgroup(r) \/ KillCt(r) \/ EraseCt(r) \/ PowerCt(r) \/ CheckState(r)
       \/ ListCt(r) \/ CaptureCt(r) \/ LookForSnapshot(r) \/ RollbackCt(r) \/ DestroySnapshot(r)
       \/ CtEnds(r)

CtSpec == CtInit /\ [][CtNext]_ctvars

-----------------------------------------------------------------------------

\* "tear them down so we don't leave an orphan the record never tracks", said where
\* the quota and the configuration are set: when one of these fails, the container
\* is left only if lxc-destroy failed too, and its dataset only if both lxc-destroy
\* and the zfs destroy after it failed.  (A start or a store.put that fails later
\* returns without a teardown and leaves the container without a record.)
FailedCtLeavesNothing ==
    ~ctmixed => \A r \in CtReqs : CtAt(r, "create", "failed") =>
        LET q == creq[r]
        IN  /\ CtExists(q.ct.name) => q.lossy
            /\ q.ct.name \in roots => q.lossy /\ q.left

\* As long as requests come one at a time and none is cut off, every record has
\* its container and rootfs, every container its record, and no two records
\* name the same one.
CtAgreeWhenSerial ==
    ~ctmixed /\ ctfaults = 0 /\ (\A r \in CtReqs : creq[r] = NoCtReq) =>
        \A n \in CtNames :
           /\ CtExists(n) <=> n \in roots
           /\ CtExists(n) <=> Cardinality({i \in CtIds : crec[i].name = n}) = 1
           /\ ~CtExists(n) <=> \A i \in CtIds : crec[i].name # n
=============================================================================
