--------------------------- MODULE MCHostServices ---------------------------
(***************************************************************************)
(* Accounts and the services around the guests, safety.  They share no      *)
(* state: `focus` names the one a behaviour is about, the others stay where *)
(* they start.  A behaviour of this module is a behaviour of the component  *)
(* in focus, and every one of them is one of this module.                   *)
(***************************************************************************)
EXTENDS AuthSessions, LoginThrottle, Backups, AccessControl, AcmeCertificates, Alerts,
        HostFirewall, ImageLibrary

VARIABLE focus

\* A grant on every VM: it covers vm1.
MCGrantPaths == {<<"vms">>}

\* Switching a plan off and on, another retention, a new interval, a base.
MCChanges ==
    {[on |-> on, keep |-> k, from |-> 0, interval |-> on] : on \in BOOLEAN, k \in 1..2}
    \cup {[on |-> TRUE, keep |-> 2, from |-> 1, interval |-> FALSE]}

\* Users, names, workers and disks are only names: u1, with the name n1, is seeded, w1 is the
\* first to work, and a plan of one disk is of d1.
InOrder ==
    /\ work["w1"] = NoWork /\ work["w2"] = NoWork => work'["w2"] = NoWork
    /\ plan'.src # {"d2"}

MCInit ==
    /\ focus \in {"accounts", "throttle", "backups", "access", "acme", "alerts", "firewall", "library"}
    /\ AInit /\ TInit /\ BkInit /\ AcInit /\ AcmeInit /\ AlInit /\ FwInit /\ LibInit
    /\ disk = Seed("u1", "n1")

\* One component moves and the others do not.
MCNext ==
    /\ UNCHANGED focus
    /\ IF focus = "accounts" THEN ANext    ELSE UNCHANGED avars
    /\ IF focus = "throttle" THEN TNext    ELSE UNCHANGED tvars
    /\ IF focus = "backups"  THEN BkNext /\ InOrder ELSE UNCHANGED bkvars
    /\ IF focus = "access"   THEN AcNext   ELSE UNCHANGED acvars
    /\ IF focus = "acme"     THEN AcmeNext ELSE UNCHANGED acmevars
    /\ IF focus = "alerts"   THEN AlNext   ELSE UNCHANGED alvars
    /\ IF focus = "firewall" THEN FwNext   ELSE UNCHANGED fwvars
    /\ IF focus = "library"  THEN LibNext  ELSE UNCHANGED libvars

MCSpec ==
    MCInit /\ [][MCNext]_<<focus, avars, tvars, bkvars, acvars, acmevars, alvars, fwvars, libvars>>
=============================================================================
