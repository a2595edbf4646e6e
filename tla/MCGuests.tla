------------------------------ MODULE MCGuests ------------------------------
(***************************************************************************)
(* Virtual machines, their devices, snapshots and clones, containers and    *)
(* consoles, safety.  `focus` names the module a behaviour is about, the    *)
(* others stay where they start (see MCHostServices).                       *)
(***************************************************************************)
EXTENDS TLC, MCVmLifecycle, VmDevices, MCVmSnapshots, Containers, Consoles

VARIABLE focus

\* Requests are only names, so that two of them may be exchanged.
MCSymmetry == Permutations(VmReqs) \cup Permutations(DevReqs)

\* Only the module in focus starts in more than one way.
MCInit ==
    /\ focus \in {"lifecycle", "devices", "snapshots", "containers", "consoles"}
    /\ VmInit /\ DevInit /\ SnapInit /\ CtInit /\ ConInit
    /\ focus # "snapshots" => DOMAIN origin = Sources /\ \A v \in SnapVms : run[v] = "off"
    /\ focus # "lifecycle" => \A v \in VmIds : ~vrec[v].auto
    /\ focus # "devices" => live.power = "off"

\* One module moves and the others do not.
MCNext ==
    /\ UNCHANGED focus
    /\ IF focus = "lifecycle"  THEN VmNext   ELSE UNCHANGED vmvars
    /\ IF focus = "devices"    THEN DevNext  ELSE UNCHANGED devvars
    /\ IF focus = "snapshots"  THEN SnapNext ELSE UNCHANGED snapvars
    /\ IF focus = "containers" THEN CtNext   ELSE UNCHANGED ctvars
    /\ IF focus = "consoles"   THEN ConNext  ELSE UNCHANGED convars

MCSpec == MCInit /\ [][MCNext]_<<focus, vmvars, devvars, snapvars, ctvars, convars>>
=============================================================================
