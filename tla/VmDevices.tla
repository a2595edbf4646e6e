------------------------------ MODULE VmDevices ------------------------------
(***************************************************************************)
(* The disks and passthrough devices of one virtual machine:               *)
(* resize_disk, attach_disk, detach_disk, migrate_disk, attach_usb,        *)
(* detach_usb, attach_pci and detach_pci of src/src/services/kvm.rs, with  *)
(* power, which moves the VM between stopped, running and paused.          *)
(*                                                                         *)
(* Each handler reads the record, runs its commands one by one and writes  *)
(* the whole record back.  A disk is known to libvirt by a target name     *)
(* (vda, vdb, ...) that the code derives from the disk's position in the   *)
(* record.                                                                 *)
(***************************************************************************)
EXTENDS Integers, Sequences, SequencesExt, FiniteSets

CONSTANTS Datasets,             \* ZFS datasets
          UsbDevs, PciDevs,     \* host devices
          MaxDisks,             \* 26 data disks
          MaxUsb,               \* 10 USB devices
          MaxGib,               \* bound on sizes
          DevReqs,              \* requests in progress at once
          MaxDevOps, MaxDevFaults

ASSUME DevAssumption ==
    /\ MaxDisks \in Nat \ {0} /\ MaxUsb \in Nat /\ MaxGib \in Nat \ {0}
    /\ MaxDevOps \in Nat /\ MaxDevFaults \in Nat
    /\ Datasets # {} /\ "none" \notin Datasets /\ UsbDevs \cap PciDevs = {}

VARIABLES rec,                  \* vms/<id>.json: disks and devices
          conf,                 \* the persistent definition: dataset of each target, devices
          live,                 \* the domain as it runs
          zvol,                 \* the size of each dataset that exists
          devreq,               \* requests in progress
          drift,                \* what was changed on the running guest since the last define
          overlap,              \* whether requests have overlapped
          devops, devfaults

devvars == <<rec, conf, live, zvol, devreq, drift, overlap, devops, devfaults>>

Gib     == 1..MaxGib
Targets == 1..MaxDisks
NoDisks == [t \in Targets |-> "none"]
NoDevReq == [op |-> "none", pc |-> "idle", arg |-> <<>>, rec |-> [disks |-> <<>>, devs |-> {}],
             running |-> FALSE]

DevInit ==
    /\ LET d == CHOOSE d \in Datasets : TRUE s == MaxGib IN
          /\ rec = [disks |-> <<[ds |-> d, size |-> s]>>, devs |-> {}]
          /\ zvol = [e \in {d} |-> s]
          /\ conf = [disks |-> [NoDisks EXCEPT ![1] = d], devs |-> {}]
    /\ live \in {[disks |-> NoDisks, devs |-> {}, power |-> "off"],
                [disks |-> conf.disks, devs |-> {}, power |-> "running"]}
    /\ devreq = [r \in DevReqs |-> NoDevReq]
    /\ drift = {} /\ overlap = FALSE /\ devops = 0 /\ devfaults = 0

-----------------------------------------------------------------------------

devhost == <<conf, live, zvol, drift>>
devhist == <<overlap, devops, devfaults>>

DevTo(r, pc) == devreq' = [devreq EXCEPT ![r].pc = pc]
DevEnd(r)    == devreq' = [devreq EXCEPT ![r] = NoDevReq]
DevAt(r, pc) == devreq[r].pc = pc
Rendered(x)  == [disks |-> [t \in Targets |-> IF t <= Len(x.disks) THEN x.disks[t].ds ELSE "none"],
                 devs |-> x.devs]

\* A request on the VM; arg is what it asks for.
DevRequest(r, op, arg) ==
    /\ devreq[r] = NoDevReq /\ devops < MaxDevOps
    /\ devops' = devops + 1
    /\ devreq' = [devreq EXCEPT ![r] = [NoDevReq EXCEPT !.op = op, !.arg = arg, !.pc = "read"]]
    /\ overlap' = (overlap \/ \E q \in DevReqs : devreq[q] # NoDevReq)
    /\ UNCHANGED <<rec, devhost, devfaults>>

\* What the checks on the record refuse.
Rejected(op, a) ==
    CASE op = "resize"     -> a[1] > Len(rec.disks) \/ a[2] <= rec.disks[a[1]].size
      [] op = "attachDisk" -> Len(rec.disks) >= MaxDisks
      [] op = "detachDisk" -> a[1] > Len(rec.disks)
      [] op = "migrate"    -> a[1] > Len(rec.disks) \/ a[2] = rec.disks[a[1]].ds
      [] op = "attachDev"  -> a[1] \in rec.devs
                              \/ (a[1] \in UsbDevs /\ Cardinality(rec.devs \cap UsbDevs) >= MaxUsb)
      [] op = "detachDev"  -> a[1] \notin rec.devs
      [] op = "power"      -> FALSE

\* get_stored, and the checks.
ReadRecord(r) ==
    LET q == devreq[r]
    IN  /\ DevAt(r, "read")
        /\ IF Rejected(q.op, q.arg) THEN DevEnd(r)
           ELSE devreq' = [devreq EXCEPT ![r].rec = rec,
                             ![r].pc = CASE q.op = "resize" -> "volsize"
                                         [] q.op = "attachDisk" -> "look"
                                         [] q.op = "power" -> "virsh"
                                         [] OTHER -> "state"]
        /\ UNCHANGED <<rec, devhost, devhist>>

\* live_state: only "running" counts as running; a paused guest, and a state
\* that cannot be read, are taken for a stopped one.
ReadState(r, known) ==
    LET q == devreq[r] run == known /\ live.power = "running"
    IN  /\ DevAt(r, "state")
        /\ IF known THEN UNCHANGED devfaults
           ELSE devfaults < MaxDevFaults /\ devfaults' = devfaults + 1
        /\ IF q.op = "migrate"
           THEN IF run THEN DevEnd(r) ELSE DevTo(r, "look")
           ELSE devreq' = [devreq EXCEPT ![r].running = run,
                                         ![r].pc = IF run /\ q.op # "resize" THEN "virsh" ELSE "put"]
        /\ UNCHANGED <<rec, devhost, overlap, devops>>

\* zfs list exits with an error for a dataset that is not there.  attach_disk
\* takes a dataset that is there as it is and makes one that is not;
\* migrate_disk refuses the first and returns the error of the second, so that
\* the copy that would follow is never reached.
LookForDataset(r) ==
    LET q == devreq[r]
    IN  /\ DevAt(r, "look")
        /\ IF q.op = "migrate" THEN DevEnd(r)
           ELSE DevTo(r, IF q.arg[1] \in DOMAIN zvol THEN "state" ELSE "mkzvol")
        /\ UNCHANGED <<rec, devhost, devhist>>

\* zfs create -V; it fails when the dataset is there by now.
MakeZvol(r) ==
    LET q == devreq[r] d == q.arg[1]
    IN  /\ DevAt(r, "mkzvol")
        /\ IF d \in DOMAIN zvol THEN zvol' = zvol /\ DevEnd(r)
           ELSE /\ zvol' = [e \in DOMAIN zvol \cup {d} |->
                               IF e = d THEN q.arg[2] ELSE zvol[e]]
                /\ DevTo(r, "state")
        /\ UNCHANGED <<rec, conf, live, drift, devhist>>

\* resize_disk: zfs set volsize; blockresize, which follows for a running
\* guest, may fail and changes nothing that is modelled here.
SetVolsize(r) ==
    LET q == devreq[r] d == q.rec.disks[q.arg[1]].ds
    IN  /\ DevAt(r, "volsize")
        /\ IF d \in DOMAIN zvol
           THEN zvol' = [zvol EXCEPT ![d] = q.arg[2]] /\ DevTo(r, "state")
           ELSE zvol' = zvol /\ DevEnd(r)
        /\ UNCHANGED <<rec, conf, live, drift, devhist>>

\* What virsh is asked to do, when it agrees to, and what it does.  attach-disk
\* and detach-disk name a target and change the definition too (--persistent);
\* attach-device and detach-device change the running domain alone.
Next1(q)    == Len(q.rec.disks) + 1
VirshCmd(q) == IF q.op = "power" THEN q.arg[1] ELSE q.op
VirshOk(q) ==
    LET c == VirshCmd(q)
    IN  CASE c = "attachDisk" -> /\ live.power # "off" /\ q.arg[1] \in DOMAIN zvol
                                 /\ live.disks[Next1(q)] = "none" /\ conf.disks[Next1(q)] = "none"
          [] c = "detachDisk" -> /\ live.power # "off" /\ live.disks[q.arg[1]] # "none"
                                 /\ conf.disks[q.arg[1]] # "none"
          [] c = "attachDev"  -> live.power # "off" /\ q.arg[1] \notin live.devs
          [] c = "detachDev"  -> live.power # "off" /\ q.arg[1] \in live.devs
          [] c = "start"      -> live.power = "off" /\ Range(conf.disks) \ {"none"} \subseteq DOMAIN zvol
          [] c = "destroy"    -> live.power # "off"
          [] c = "suspend"    -> live.power = "running"
          [] c = "resume"     -> live.power = "paused"
Virsh(q) ==
    LET c  == VirshCmd(q)
        t  == IF c = "attachDisk" THEN Next1(q) ELSE q.arg[1]
        ds == IF c = "attachDisk" THEN q.arg[1] ELSE "none"
    IN  CASE c \in {"attachDisk", "detachDisk"} ->
               live' = [live EXCEPT !.disks[t] = ds] /\ conf' = [conf EXCEPT !.disks[t] = ds]
          [] c = "attachDev" -> live' = [live EXCEPT !.devs = @ \cup {q.arg[1]}] /\ conf' = conf
          [] c = "detachDev" -> live' = [live EXCEPT !.devs = @ \ {q.arg[1]}] /\ conf' = conf
          [] c = "start" ->
               live' = [disks |-> conf.disks, devs |-> conf.devs, power |-> "running"] /\ conf' = conf
          [] c = "destroy" ->
               live' = [disks |-> NoDisks, devs |-> {}, power |-> "off"] /\ conf' = conf
          [] c = "suspend" -> live' = [live EXCEPT !.power = "paused"] /\ conf' = conf
          [] c = "resume"  -> live' = [live EXCEPT !.power = "running"] /\ conf' = conf

\* Positions, and with them the target names, shift when a disk before the last goes.
Drifts(q) == CASE q.op \in {"attachDev", "detachDev"} -> {"devs"}
               [] q.op = "detachDisk" /\ q.arg[1] # Len(q.rec.disks) -> {"disks"}
               [] OTHER -> {}

RunVirsh(r) ==
    /\ DevAt(r, "virsh")
    /\ IF VirshOk(devreq[r])
       THEN Virsh(devreq[r]) /\ DevTo(r, "put") /\ drift' = drift \cup Drifts(devreq[r])
       ELSE UNCHANGED <<conf, live, drift>> /\ DevEnd(r)
    /\ UNCHANGED <<rec, zvol, devhist>>

\* The record as it was read, with the change.
Edited(q) ==
    CASE q.op = "resize"     -> [q.rec EXCEPT !.disks[q.arg[1]].size = q.arg[2]]
      [] q.op = "attachDisk" -> [q.rec EXCEPT !.disks =
            Append(@, [ds |-> q.arg[1], size |-> q.arg[2]])]
      [] q.op = "detachDisk" -> [q.rec EXCEPT !.disks = RemoveAt(@, q.arg[1])]
      [] q.op = "attachDev"  -> [q.rec EXCEPT !.devs = @ \cup {q.arg[1]}]
      [] q.op = "detachDev"  -> [q.rec EXCEPT !.devs = @ \ {q.arg[1]}]
      [] q.op = "power"      -> q.rec

PutRecord_NoDefine(r) ==
    /\ DevAt(r, "put")
    /\ rec' = Edited(devreq[r])
    /\ DevEnd(r)
    /\ UNCHANGED <<devhost, devhist>>

PutRecord(r) ==
    LET q == devreq[r]
    IN  /\ DevAt(r, "put")
        /\ rec' = Edited(q)
        /\ IF q.running \/ q.op \in {"resize", "power"} THEN DevEnd(r) ELSE DevTo(r, "define")
        /\ UNCHANGED <<devhost, devhist>>

\* virsh define of the record the request wrote.
DefineAgain(r) ==
    LET q == devreq[r]
    IN  /\ DevAt(r, "define")
        /\ conf' = Rendered(Edited(q)) /\ drift' = {}
        /\ DevEnd(r)
        /\ UNCHANGED <<rec, live, zvol, devhist>>

-----------------------------------------------------------------------------

\* A command or the write fails, or the client hangs up: the request ends here.
RequestEnds(r) ==
    /\ devreq[r] # NoDevReq /\ devfaults < MaxDevFaults
    /\ devfaults' = devfaults + 1
    /\ DevEnd(r)
    /\ UNCHANGED <<rec, devhost, overlap, devops>>

DevStep(r) ==
    \/ ReadRecord(r) \/ \E known \in BOOLEAN : ReadState(r, known)
    \/ LookForDataset(r) \/ MakeZvol(r) \/ SetVolsize(r) \/ RunVirsh(r)
    \/ PutRecord(r) \/ DefineAgain(r)

DevNext ==
    \E r \in DevReqs :
       \/ \E t \in Targets, s \in Gib : DevRequest(r, "resize", <<t, s>>)
       \/ \E d \in Datasets, s \in Gib : DevRequest(r, "attachDisk", <<d, s>>)
       \/ \E t \in Targets : DevRequest(r, "detachDisk", <<t>>)
       \/ \E t \in Targets, d \in Datasets : DevRequest(r, "migrate", <<t, d>>)
       \/ \E u \in UsbDevs \cup PciDevs, op \in {"attachDev", "detachDev"} : DevRequest(r, op, <<u>>)
       \/ \E a \in {"start", "destroy", "suspend", "resume"} : DevRequest(r, "power", <<a>>)
       \/ DevStep(r) \/ RequestEnds(r)

DevSpec == DevInit /\ [][DevNext]_devvars

-----------------------------------------------------------------------------

\* The definition's disks, unless one before the last was taken from the running guest, and its
\* devices, unless the running guest was given or lost one, are those of the record x.
InSync(x) == /\ "disks" \in drift \/ conf.disks = Rendered(x).disks
             /\ "devs" \in drift \/ conf.devs = x.devs

\* However requests overlap, fail or are cut off, no domain is defined with a disk that was never
\* provisioned (ensure_zvol).  While they come one at a time and none is cut off, the definition has
\* the record's disks in the record's order, through live and stopped attaches, resizes and power
\* changes, until a disk before the last is detached live, and its devices, until one is attached
\* or detached live; the next change to the stopped guest brings both back.  (StartsFromRecord says
\* what the code's comment claims of the live changes.)
DefinitionFollows ==
    /\ Range(conf.disks) \subseteq DOMAIN zvol \cup {"none"}
    /\ ~overlap /\ devfaults = 0 /\ (\A r \in DevReqs : devreq[r] = NoDevReq) => InSync(rec)

\* attach_device: "Not --persistent: the stored record is the source of truth and is re-defined on
\* the next stop/start".  A guest that starts has the devices of its record.
StartsFromRecord ==
    [][live.power = "off" /\ live'.power = "running" /\ ~overlap /\ devfaults = 0
          => live'.devs = rec.devs]_devvars
=============================================================================
