----------------------------- MODULE VmLifecycle -----------------------------
(***************************************************************************)
(* The life of virtual machines: create, update, delete, power and         *)
(* start_autostart_vms of src/src/services/kvm.rs, as the handlers of      *)
(* src/src/api/vms.rs run them.                                            *)
(*                                                                         *)
(* A VM is a record in the store, a libvirt domain, zvols, a cloud-init    *)
(* seed ISO and nftables rules.  No lock covers them: every virsh, zfs or  *)
(* nft command and every access to the store is a step of its own, and     *)
(* requests on one VM interleave.  create runs in a spawned task; update,  *)
(* delete and power run in the handler and end with its connection.        *)
(* Devices and disk moves are the subject of VmDevices, snapshots and      *)
(* clones that of VmSnapshots.                                             *)
(***************************************************************************)
EXTENDS Integers, FiniteSets, Sequences, SequencesExt

CONSTANTS VmIds,                \* ids that new_id may return
          VmNames,              \* names of VMs; a zvol and a seed ISO are known by one too
          VmPolicies,           \* firewall rule sets
          VmCreates,            \* what create is asked for: the record and how it is to go on
          VmChanges,            \* what update is asked for
          VmReqs,               \* requests in progress at once
          MaxVmOps,             \* bound on requests
          MaxVmFaults, MaxVmCrashes

VmRecord == [name : VmNames, disks : SUBSET VmNames, seed : VmNames \cup {"none"},
             fw : VmPolicies \cup {"off"}, tpl : BOOLEAN, auto : BOOLEAN]

\* What an update asks for, all at once; "keep", {} and FALSE stand for a field that is not given.
VmChange == [name : VmNames \cup {"keep"}, disks : SUBSET VmNames, fw : VmPolicies \cup {"off", "keep"},
             seed : BOOLEAN, tpl : {"yes", "no", "keep"}, auto : {"yes", "no", "keep"}]

ASSUME VmAssumption ==
    /\ IsFiniteSet(VmIds) /\ VmNames # {}
    /\ MaxVmOps \in Nat /\ MaxVmFaults \in Nat /\ MaxVmCrashes \in Nat
    /\ "none" \notin VmNames /\ "off" \notin VmPolicies
    /\ "keep" \notin VmNames \cup VmPolicies
    /\ \A c \in VmCreates : c[1] \in VmRecord /\ c[1].seed \in {c[1].name, "none"}
    /\ VmChanges \subseteq VmChange

VARIABLES vrec,                 \* vms/<id>.json
          dom,                  \* libvirt domains
          zvols,                \* ZFS datasets that exist
          seeds,                \* cloud-init/<name>-seed.iso files that exist
          chain,                \* rule sets in the VM's nftables chain, in order
          vreq,                 \* requests in progress
          boot,                 \* the start_autostart_vms task
          mixed,                \* VMs on which steps overlapped, failed or were cut off
          vops, vfaults, vcrashes

vmvars == <<vrec, dom, zvols, seeds, chain, vreq, boot, mixed, vops, vfaults, vcrashes>>

NoVm == [name |-> "none", disks |-> {}, seed |-> "none", fw |-> "off", tpl |-> FALSE,
         auto |-> FALSE]

\* A domain: its definition, whether it is persistent, and what it does.
Domain == [name : VmNames, disks : SUBSET VmNames, seed : VmNames \cup {"none"},
           defined : BOOLEAN, power : {"off", "running", "paused"}]
NoDomain == [name |-> "none", disks |-> {}, seed |-> "none", defined |-> FALSE, power |-> "off"]

\* A request: pc is the step it takes next, arg what was asked, vm the record it builds or has
\* read, was the record as an update has read it, had the zvols that are there since before it
\* began, made those it created and has not destroyed, todo the disks not yet looked at, cur the
\* one being created, undo what its rollback has still to run, cause the step that failed, and
\* lossy whether a command of the rollback failed too.
NoReq == [pc |-> "idle", op |-> "none", v |-> "none", arg |-> <<>>, vm |-> NoVm, was |-> NoVm, had |-> {},
          made |-> {}, todo |-> {}, cur |-> "none", undo |-> <<>>, cause |-> "none",
          lossy |-> FALSE]

Exists(v)  == vrec[v] # NoVm
Busy(v)    == v \in {vreq[r].v : r \in VmReqs}
InUse(d)   == \E v \in VmIds : dom[v].power # "off" /\ d \in dom[v].disks

\* A node that has been set up, before the backend starts: it has a VM,
\* stopped and as recorded.
VmInit ==
    /\ \E a \in BOOLEAN :
          LET first == CHOOSE v \in VmIds : TRUE
              n     == CHOOSE n \in VmNames : TRUE
              vm    == [NoVm EXCEPT !.name = n, !.disks = {n}, !.auto = a]
          IN  /\ vrec = [v \in VmIds |-> IF v = first THEN vm ELSE NoVm]
              /\ dom = [v \in VmIds |->
                          IF v = first
                          THEN [name |-> vm.name, disks |-> vm.disks, seed |-> "none",
                                defined |-> TRUE, power |-> "off"]
                          ELSE NoDomain]
              /\ zvols = vm.disks
    /\ seeds = {} /\ chain = [v \in VmIds |-> <<>>]
    /\ vreq = [r \in VmReqs |-> NoReq]
    /\ boot = [pc |-> "down", queue |-> {}]
    /\ mixed = {} /\ vops = 0 /\ vfaults = 0 /\ vcrashes = 0

-----------------------------------------------------------------------------
(* Steps of a request.                                                     *)

host == <<dom, zvols, seeds, chain>>
bounds == <<mixed, vfaults>>
vmhist == <<boot, vops, vcrashes>>

To(r, pc) == vreq' = [vreq EXCEPT ![r].pc = pc]
End(r)    == vreq' = [vreq EXCEPT ![r] = NoReq]
At(r, op, pc) == vreq[r].op = op /\ vreq[r].pc = pc

\* A command that fails for reasons outside the model.
Fault(v) ==
    /\ vfaults < MaxVmFaults
    /\ vfaults' = vfaults + 1
    /\ mixed' = mixed \cup {v}

Begin(r, op, v, arg, vm) ==
    /\ vreq[r].pc = "idle" /\ boot.pc = "run"
    /\ vops < MaxVmOps
    /\ vops' = vops + 1
    /\ vreq' = [vreq EXCEPT ![r] = [NoReq EXCEPT !.op = op, !.v = v, !.arg = arg, !.vm = vm,
                                      !.pc = IF op = "create" THEN "zvol" ELSE "read",
                                      !.todo = vm.disks, !.had = zvols]]
    /\ mixed' = IF Busy(v) \/ v \in boot.queue THEN mixed \cup {v} ELSE mixed
    /\ UNCHANGED <<vrec, host, boot, vfaults, vcrashes>>

\* The last checks and commands of an update, once its media are there.
Rename(vm, was) == IF vm.name # was.name THEN "rename" ELSE "define"
Rest(vm, was)   == IF vm.tpl /\ ~was.tpl THEN "tpl" ELSE Rename(vm, was)

After_NoRedefine(q, pc) ==
    CASE pc = "zvol"   -> IF q.op = "update" THEN "put" ELSE IF q.vm.seed # "none" THEN "seed" ELSE "define"
      [] pc = "seed"   -> IF q.op = "update" THEN "oldseed" ELSE "define"
      [] pc = "define" -> IF q.arg = <<"start">> THEN "start" ELSE "put"
      [] pc = "rules"  -> IF q.op = "delete" THEN "destroy" ELSE "put"
      [] pc = "start"  -> "put"

\* The step that follows pc when nothing fails.
After(q, pc) ==
    CASE pc = "zvol"   -> IF q.op = "update" THEN (IF q.arg[2].seed THEN "seed" ELSE Rest(q.vm, q.was))
                          ELSE IF q.vm.seed # "none" THEN "seed" ELSE "define"
      [] pc = "seed"   -> IF q.op = "update" THEN "oldseed" ELSE "define"
      [] pc = "define" -> IF q.op = "update" \/ q.vm.fw # "off" THEN "rules"
                          ELSE IF q.arg = <<"start">> THEN "start" ELSE "put"
      [] pc = "rules"  -> IF q.op = "delete" THEN "destroy"
                          ELSE IF q.arg = <<"start">> THEN "start" ELSE "put"
      [] pc = "start"  -> "put"

Rollback_KeepsDomain(q, pc) ==
    LET disks == SetToSeq({<<"zvol", d>> : d \in q.made})
    IN  CASE pc \in {"mkzvol", "tags"} -> <<>>
          [] pc \in {"seed", "define", "start"} -> disks
          [] pc \in {"rules", "put"} -> <<<<"destroy">>, <<"undefine">>>> \o disks

\* What create runs when the step pc fails.  The seed ISO is removed only when
\* the definition or the firewall fails.
Rollback(q, pc) ==
    LET disks == SetToSeq({<<"zvol", d>> : d \in q.made})
        seed  == IF q.vm.seed = "none" THEN <<>> ELSE <<<<"seed", q.vm.seed>>>>
    IN  CASE pc \in {"mkzvol", "tags"} -> <<>>
          [] pc = "seed"   -> disks
          [] pc = "define" -> disks \o seed
          [] pc = "rules"  -> <<<<"undefine">>>> \o disks \o seed
          [] pc = "start"  -> <<<<"undefine">>>> \o disks
          [] pc = "put"    -> <<<<"destroy">>, <<"undefine">>>> \o disks

\* An error: create rolls back, update, delete and power return.
Failed(r, pc) ==
    LET q == vreq[r]
    IN  vreq' = [vreq EXCEPT ![r] = IF q.op # "create" THEN NoReq
                                    ELSE [q EXCEPT !.pc = "undo", !.cause = pc,
                                                   !.undo = Rollback(q, pc)]]

-----------------------------------------------------------------------------
(* libvirt and nftables.  A domain's uuid is the VM's id; two domains      *)
(* cannot share a name, and a domain keeps its name when it is defined     *)
(* again.                                                                  *)

CanDefine(v, vm) ==
    /\ dom[v] # NoDomain => dom[v].name = vm.name
    /\ \A w \in VmIds \ {v} : dom[w].name # vm.name
Defined(v, vm) == [dom EXCEPT ![v] = [name |-> vm.name, disks |-> vm.disks, seed |-> vm.seed,
                                       defined |-> TRUE, power |-> @.power]]
\* A domain starts when it is off and its media are there.
CanStart(v) == /\ dom[v].defined /\ dom[v].power = "off"
               /\ dom[v].disks \subseteq zvols /\ dom[v].seed \in seeds \cup {"none"}
PowerOff(d) == IF d.defined THEN [d EXCEPT !.power = "off"] ELSE NoDomain
Undefine(d) == IF d.power = "off" THEN NoDomain ELSE [d EXCEPT !.defined = FALSE]

\* The batch for an enabled firewall flushes and fills the forward chain of the
\* table inet daygleve_vm_<id> and adds the rules to the VM's own chain, after
\* those it has; rules that are there already never decide a second time.  The
\* batch for a disabled one names no family: it flushes a table of family ip.
NftBatch(v, p) == IF p = "off" \/ p \in ToSet(chain[v]) THEN chain
                  ELSE [chain EXCEPT ![v] = Append(@, p)]

-----------------------------------------------------------------------------
(* The steps that create and update share.                                 *)

\* ensure_zvol looks for the dataset; disks are taken in any order.
MoreDisks(q, todo) == IF todo = {} THEN After(q, "zvol") ELSE "zvol"

LookForZvol(r, d) ==
    /\ vreq[r].pc = "zvol" /\ d \in vreq[r].todo
    /\ vreq' = [vreq EXCEPT ![r].todo = @ \ {d}, ![r].cur = d,
                            ![r].pc = IF d \in zvols THEN MoreDisks(vreq[r], vreq[r].todo \ {d})
                                      ELSE "mkzvol"]
    /\ UNCHANGED <<vrec, host, bounds, vmhist>>

\* zfs create -V
CreateZvol(r) ==
    /\ vreq[r].pc = "mkzvol" /\ vreq[r].cur \notin zvols
    /\ zvols' = zvols \cup {vreq[r].cur}
    /\ vreq' = [vreq EXCEPT ![r].pc = MoreDisks(vreq[r], vreq[r].todo),
                            ![r].made = @ \cup {vreq[r].cur}]
    /\ UNCHANGED <<vrec, dom, seeds, chain, bounds, vmhist>>

\* It fails when the dataset has appeared in the meantime.
ZvolAppeared(r) ==
    /\ vreq[r].pc = "mkzvol" /\ vreq[r].cur \in zvols
    /\ Failed(r, "mkzvol")
    /\ UNCHANGED <<vrec, host, bounds, vmhist>>

\* create_cloud_init_iso: the file is named after the VM.
WriteSeed(r) ==
    /\ vreq[r].pc = "seed"
    /\ seeds' = seeds \cup {vreq[r].vm.name}
    /\ vreq' = [vreq EXCEPT ![r].pc = After(vreq[r], "seed"),
                            ![r].cur = vreq[r].vm.seed, ![r].vm.seed = vreq[r].vm.name]
    /\ UNCHANGED <<vrec, dom, zvols, chain, bounds, vmhist>>

\* update then removes the file that the record named before.
RemoveOldSeed(r) ==
    /\ vreq[r].pc = "oldseed"
    /\ seeds' = seeds \ {vreq[r].cur}
    /\ To(r, Rest(vreq[r].vm, vreq[r].was))
    /\ UNCHANGED <<vrec, dom, zvols, chain, bounds, vmhist>>

\* virsh define of the XML rendered from the record.
DefineDomain(r) ==
    LET q == vreq[r]
    IN  /\ q.pc = "define" /\ q.arg # <<"badtags">>
        /\ IF CanDefine(q.v, q.vm)
           THEN dom' = Defined(q.v, q.vm) /\ To(r, After(q, "define"))
           ELSE dom' = dom /\ Failed(r, "define")
        /\ UNCHANGED <<vrec, zvols, seeds, chain, bounds, vmhist>>

\* validate_tags is called while the record is built, after provisioning.
RejectTags(r) ==
    /\ vreq[r].pc = "define" /\ vreq[r].arg = <<"badtags">>
    /\ Failed(r, "tags")
    /\ UNCHANGED <<vrec, host, bounds, vmhist>>

ApplyFirewall(r) ==
    LET q == vreq[r]
    IN  /\ q.pc = "rules"
        /\ chain' = NftBatch(q.v, IF q.op = "delete" THEN "off" ELSE q.vm.fw)
        /\ To(r, After(q, "rules"))
        /\ UNCHANGED <<vrec, dom, zvols, seeds, bounds, vmhist>>

\* create with start: virsh start.
StartNew(r) ==
    LET q == vreq[r]
    IN  /\ q.pc = "start"
        /\ IF CanStart(q.v)
           THEN dom' = [dom EXCEPT ![q.v].power = "running"] /\ To(r, "put")
           ELSE dom' = dom /\ Failed(r, "start")
        /\ UNCHANGED <<vrec, zvols, seeds, chain, bounds, vmhist>>

\* The whole record as it was read or built, changes included.
PutVm(r) ==
    /\ vreq[r].pc = "put"
    /\ vrec' = [vrec EXCEPT ![vreq[r].v] = vreq[r].vm]
    /\ End(r)
    /\ UNCHANGED <<host, bounds, vmhist>>

\* The command or the write of the step fails.  delete ignores the failures of
\* its commands, and goes on.
StepFails(r) ==
    LET q == vreq[r]
    IN  /\ q.pc \in {"mkzvol", "seed", "define", "rules", "start", "put", "rename", "virsh", "erase"}
        /\ Fault(q.v)
        /\ IF At(r, "delete", "rules") THEN To(r, "destroy") ELSE Failed(r, q.pc)
        /\ UNCHANGED <<vrec, host, vmhist>>

-----------------------------------------------------------------------------
(* create.                                                                 *)

\* What validation lets through: a template is not to be started.
ValidCreate(vm, how) == vm.name # "none" /\ ~(vm.tpl /\ how = "start")

Create(r, v, vm, how) ==
    /\ ValidCreate(vm, how)
    /\ vrec[v] = NoVm /\ dom[v] = NoDomain /\ ~Busy(v) /\ v \notin boot.queue   \* new_id
    /\ Begin(r, "create", v, <<how>>, [vm EXCEPT !.auto = @ /\ ~vm.tpl])

\* A dataset that is made again after a rollback destroyed it is another one.
Outlived == [s \in VmReqs |-> [vreq[s] EXCEPT !.had = @ \cap zvols']]

RunUndo_AllDisks(r) ==
    LET q == vreq[r] c == Head(q.undo)
    IN  /\ q.pc = "undo" /\ q.undo # <<>>
        /\ dom'   = IF c[1] = "destroy"  THEN [dom EXCEPT ![q.v] = PowerOff(@)]
                    ELSE IF c[1] = "undefine" THEN [dom EXCEPT ![q.v] = Undefine(@)] ELSE dom
        /\ zvols' = IF c[1] = "zvol" THEN zvols \ q.vm.disks ELSE zvols
        /\ seeds' = IF c[1] = "seed" THEN seeds \ {c[2]} ELSE seeds
        /\ vreq' = [Outlived EXCEPT ![r].undo = Tail(@), ![r].made = @ \ (zvols \ zvols')]
        /\ UNCHANGED <<vrec, chain, bounds, vmhist>>

\* The next command of the rollback; what a running domain uses is not destroyed.
RunUndo(r) ==
    LET q == vreq[r] c == Head(q.undo) busy == c[1] = "zvol" /\ InUse(c[2])
    IN  /\ q.pc = "undo" /\ q.undo # <<>>
        /\ dom'   = IF c[1] = "destroy"  THEN [dom EXCEPT ![q.v] = PowerOff(@)]
                    ELSE IF c[1] = "undefine" THEN [dom EXCEPT ![q.v] = Undefine(@)] ELSE dom
        /\ zvols' = IF c[1] = "zvol" /\ ~busy THEN zvols \ {c[2]} ELSE zvols
        /\ seeds' = IF c[1] = "seed" THEN seeds \ {c[2]} ELSE seeds
        /\ vreq' = [Outlived EXCEPT ![r].undo = Tail(@), ![r].lossy = @ \/ busy,
                                    ![r].made = @ \ (zvols \ zvols')]
        /\ UNCHANGED <<vrec, chain, bounds, vmhist>>

\* A failure of one of them is ignored.
UndoFails(r) ==
    /\ vreq[r].pc = "undo" /\ vreq[r].undo # <<>>
    /\ Fault(vreq[r].v)
    /\ vreq' = [vreq EXCEPT ![r].undo = Tail(@), ![r].lossy = TRUE]
    /\ UNCHANGED <<vrec, host, vmhist>>

ReturnError(r) ==
    /\ vreq[r].pc = "undo" /\ vreq[r].undo = <<>>
    /\ End(r)
    /\ UNCHANGED <<vrec, host, bounds, vmhist>>

-----------------------------------------------------------------------------
(* update, delete and power begin with get_stored.                         *)

PowerActions == {<<"start">>, <<"destroy">>, <<"suspend">>, <<"resume">>, <<"shutdown">>,
                 <<"reboot">>, <<"reset">>}

Request(r, op, v, arg) ==
    /\ Exists(v)
    /\ Begin(r, op, v, arg, NoVm)

ReadMissing(r) ==
    /\ vreq[r].pc = "read" /\ ~Exists(vreq[r].v)
    /\ End(r)
    /\ UNCHANGED <<vrec, host, bounds, vmhist>>

Changed(vm, c) ==
    [vm EXCEPT !.name  = IF c.name = "keep" THEN @ ELSE c.name,
               !.disks = IF c.disks = {} THEN @ ELSE c.disks,
               !.fw    = IF c.fw = "keep" THEN @ ELSE c.fw,
               !.tpl   = IF c.tpl = "keep" THEN @ ELSE c.tpl = "yes",
               !.auto  = IF c.tpl = "yes" THEN FALSE ELSE IF c.auto = "keep" THEN @ ELSE c.auto = "yes"]

\* A name that another record has is refused; disks and cloud-init want the VM stopped, before
\* anything is provisioned, and a conversion to a template wants it stopped after that.
ReadForUpdate(r) ==
    LET q == vreq[r] vm == vrec[q.v] c == q.arg[2] new == Changed(vm, c)
    IN  /\ At(r, "update", "read") /\ Exists(q.v)
        /\ \/ /\ \E w \in VmIds \ {q.v} : new.name # vm.name /\ vrec[w].name = new.name
              /\ End(r)
           \/ /\ \A w \in VmIds \ {q.v} : new.name = vm.name \/ vrec[w].name # new.name
              /\ vreq' = [vreq EXCEPT ![r].vm = new, ![r].was = vm,
                            ![r].pc = IF c.disks # {} \/ c.seed THEN "stopped"
                                      ELSE Rest(new, vm)]
        /\ UNCHANGED <<vrec, host, bounds, vmhist>>

\* require_stopped
RequireStopped(r) ==
    LET q == vreq[r] first == q.pc = "stopped"
    IN  /\ q.pc \in {"stopped", "tpl"}
        /\ IF dom[q.v].power = "off"
           THEN vreq' = [vreq EXCEPT ![r].pc = IF ~first THEN Rename(q.vm, q.was)
                                               ELSE IF q.arg[2].disks # {} THEN "zvol" ELSE "seed",
                                     ![r].todo = IF first THEN q.arg[2].disks ELSE {}]
           ELSE End(r)
        /\ UNCHANGED <<vrec, host, bounds, vmhist>>

\* virsh domrename wants an inactive domain and a free name.
RenameDomain(r) ==
    LET q == vreq[r]
    IN  /\ q.pc = "rename"
        /\ IF /\ dom[q.v].defined /\ dom[q.v].power = "off"
              /\ \A w \in VmIds : dom[w].name # q.vm.name
           THEN dom' = [dom EXCEPT ![q.v].name = q.vm.name] /\ To(r, "define")
           ELSE dom' = dom /\ End(r)
        /\ UNCHANGED <<vrec, zvols, seeds, chain, bounds, vmhist>>

ReadForDelete(r) ==
    /\ At(r, "delete", "read") /\ Exists(vreq[r].v)
    /\ vreq' = [vreq EXCEPT ![r].vm = vrec[vreq[r].v],
                            ![r].pc = IF vrec[vreq[r].v].fw # "off" THEN "rules" ELSE "destroy"]
    /\ UNCHANGED <<vrec, host, bounds, vmhist>>

\* virsh destroy and undefine --nvram are best effort.
DestroyDomain(r) ==
    LET v == vreq[r].v
    IN  /\ vreq[r].pc = "destroy"
        /\ \/ dom' = [dom EXCEPT ![v] = PowerOff(@)] /\ UNCHANGED bounds
           \/ dom' = dom /\ Fault(v)
        /\ To(r, "undefine")
        /\ UNCHANGED <<vrec, zvols, seeds, chain, vmhist>>

UndefineDomain(r) ==
    LET v == vreq[r].v
    IN  /\ vreq[r].pc = "undefine"
        /\ \/ dom' = [dom EXCEPT ![v] = Undefine(@)] /\ UNCHANGED bounds
           \/ dom' = dom /\ Fault(v)
        /\ To(r, "erase")
        /\ UNCHANGED <<vrec, zvols, seeds, chain, vmhist>>

EraseRecord(r) ==
    /\ vreq[r].pc = "erase"
    /\ vrec' = [vrec EXCEPT ![vreq[r].v] = NoVm]
    /\ End(r)
    /\ UNCHANGED <<host, bounds, vmhist>>

\* A template is neither started nor resumed nor rebooted.
ReadForPower(r) ==
    LET q == vreq[r] vm == vrec[q.v]
    IN  /\ At(r, "power", "read") /\ Exists(q.v)
        /\ IF vm.tpl /\ q.arg \in {<<"start">>, <<"resume">>, <<"reboot">>} THEN End(r)
           ELSE vreq' = [vreq EXCEPT ![r].pc = "virsh", ![r].vm = vm]
        /\ UNCHANGED <<vrec, host, bounds, vmhist>>

CanPower(v, a) == CASE a = <<"start">>    -> CanStart(v)
                    [] a = <<"resume">>   -> dom[v].power = "paused"
                    [] a = <<"suspend">>  -> dom[v].power = "running"
                    [] a \in {<<"shutdown">>, <<"reboot">>, <<"reset">>} -> dom[v].power = "running"
                    [] a = <<"destroy">>  -> dom[v].power # "off"
Powered(d, a) == CASE a \in {<<"start">>, <<"resume">>} -> [d EXCEPT !.power = "running"]
                   [] a = <<"suspend">>  -> [d EXCEPT !.power = "paused"]
                   [] a = <<"shutdown">> -> d                   \* GuestHalts may follow
                   [] a \in {<<"reboot">>, <<"reset">>} -> d
                   [] a = <<"destroy">>  -> PowerOff(d)

PowerCommand(r) ==
    LET q == vreq[r]
    IN  /\ q.pc = "virsh"
        /\ IF CanPower(q.v, q.arg)
           THEN dom' = [dom EXCEPT ![q.v] = Powered(@, q.arg)] /\ To(r, "put")
           ELSE dom' = dom /\ End(r)
        /\ UNCHANGED <<vrec, zvols, seeds, chain, bounds, vmhist>>

-----------------------------------------------------------------------------
(* The environment: guests that halt, clients that hang up, the backend    *)
(* and the host going down and coming back.                                *)

GuestHalts(v) ==
    /\ dom[v].power = "running"
    /\ dom' = [dom EXCEPT ![v] = PowerOff(@)]
    /\ UNCHANGED <<vrec, zvols, seeds, chain, vreq, bounds, vmhist>>

\* A handler is dropped with its connection; create runs in a task of its own.
HangUp(r) ==
    /\ vreq[r].op \in {"update", "delete", "power"}
    /\ Fault(vreq[r].v)
    /\ End(r)
    /\ UNCHANGED <<vrec, host, vmhist>>

Down(rebooted) ==
    /\ boot.pc = "run" /\ vcrashes < MaxVmCrashes
    /\ vcrashes' = vcrashes + 1
    /\ mixed' = mixed \cup {v \in VmIds : Busy(v)}
    /\ vreq' = [r \in VmReqs |-> NoReq]
    /\ boot' = [pc |-> "down", queue |-> {}]
    /\ UNCHANGED <<vrec, zvols, seeds, vops, vfaults>>

BackendCrash == Down(FALSE) /\ UNCHANGED <<dom, chain>>
\* What libvirt and nftables hold in memory is gone.
HostReboot ==
    /\ Down(TRUE)
    /\ dom' = [v \in VmIds |-> PowerOff(dom[v])]
    /\ chain' = [v \in VmIds |-> <<>>]

\* start_autostart_vms reads the records once.
BackendStart ==
    /\ boot.pc = "down"
    /\ boot' = [pc |-> "run",
                queue |-> {v \in VmIds : vrec[v].auto /\ ~vrec[v].tpl}]
    /\ UNCHANGED <<vrec, host, vreq, bounds, vops, vcrashes>>

\* The next VM in startup order, which is left open: skipped when it runs; a
\* failure is logged and the sequence goes on.
Autostart(v, ok) ==
    /\ v \in boot.queue
    /\ LET up == dom[v].power = "running" IN
       /\ ok => ~up /\ CanStart(v)
       /\ dom' = IF ok THEN [dom EXCEPT ![v].power = "running"] ELSE dom
       /\ boot' = [boot EXCEPT !.queue = @ \ {v}]
       /\ IF ~ok /\ ~up /\ CanStart(v) THEN Fault(v)
          ELSE vfaults' = vfaults /\ mixed' = IF Busy(v) THEN mixed \cup {v} ELSE mixed
    /\ UNCHANGED <<vrec, zvols, seeds, chain, vreq, vops, vcrashes>>

RequestStep(r) ==
    \/ \E v \in VmIds : \/ \E c \in VmCreates : Create(r, v, c[1], c[2])
                        \/ \E c \in VmChanges : Request(r, "update", v, <<"set", c>>)
                        \/ \E a \in PowerActions : Request(r, "power", v, a)
                        \/ Request(r, "delete", v, <<>>)
    \/ \E d \in VmNames : LookForZvol(r, d)
    \/ CreateZvol(r) \/ ZvolAppeared(r) \/ WriteSeed(r) \/ RemoveOldSeed(r)
    \/ DefineDomain(r) \/ RejectTags(r) \/ ApplyFirewall(r) \/ StartNew(r) \/ PutVm(r)
    \/ StepFails(r) \/ RunUndo(r) \/ UndoFails(r) \/ ReturnError(r)
    \/ ReadMissing(r) \/ ReadForUpdate(r) \/ RequireStopped(r) \/ RenameDomain(r)
    \/ ReadForDelete(r) \/ DestroyDomain(r) \/ UndefineDomain(r) \/ EraseRecord(r)
    \/ ReadForPower(r) \/ PowerCommand(r) \/ HangUp(r)

VmNext ==
    \/ \E r \in VmReqs : RequestStep(r)
    \/ \E v \in VmIds, ok \in BOOLEAN : Autostart(v, ok)
    \/ \E v \in VmIds : GuestHalts(v)
    \/ BackendCrash \/ HostReboot \/ BackendStart

VmSpec == VmInit /\ [][VmNext]_vmvars

-----------------------------------------------------------------------------

\* A create that failed, and whose rollback ran through, has left neither a
\* domain nor a record; and no zvol of its own either when the step that failed
\* is the seed ISO, the definition, the firewall, the start or the write.
\* (CreateIsUndone is about the other steps, and the seed ISO.)
FailedCreateLeavesNothing ==
    \A r \in VmReqs :
        LET q == vreq[r]
        IN  q.pc = "undo" /\ q.undo = <<>> /\ ~q.lossy =>
              /\ dom[q.v] = NoDomain /\ vrec[q.v] = NoVm
              /\ q.cause \notin {"mkzvol", "tags"} => q.made = {}

\* create: "newly created zvols are tracked so later failures can be rolled back", and the seed ISO
\* is "tracked for rollback alongside the zvols".  Whichever step fails, a rollback that ran through
\* has left no zvol of its own, nor the seed ISO when that had been written.
CreateIsUndone ==
    \A r \in VmReqs :
        LET q == vreq[r]
        IN  q.pc = "undo" /\ q.undo = <<>> /\ ~q.lossy =>
              /\ q.made = {}
              /\ q.cause \notin {"mkzvol", "seed"} => q.vm.seed \notin seeds

\* Nothing but the rollback of a create destroys a zvol, and only one that this
\* create made: never a disk that was there before it began.
OnlyOwnZvolsDestroyed ==
    [][\A d \in zvols \ zvols' : \E r \in VmReqs :
          /\ vreq[r].op = "create" /\ vreq[r].pc = "undo"
          /\ d \in vreq[r].made /\ d \notin vreq[r].had]_vmvars

\* As long as requests on a VM come one at a time and run to their end without
\* a failing command, the record and the domain agree between them: same name,
\* disks and seed ISO, no domain without a record or the reverse, and a
\* template that does not run.
AgreeWhenSerial ==
    \A v \in VmIds : v \notin mixed /\ ~Busy(v) =>
        /\ vrec[v] = NoVm <=> dom[v] = NoDomain
        /\ vrec[v] # NoVm => /\ dom[v].name = vrec[v].name /\ dom[v].disks = vrec[v].disks
                             /\ dom[v].seed = vrec[v].seed /\ dom[v].defined
                             /\ vrec[v].tpl => dom[v].power = "off"
=============================================================================
