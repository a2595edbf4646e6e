----------------------------- MODULE MCProgress -----------------------------
(***************************************************************************)
(* The components with a liveness property, in one run.  They share no      *)
(* state: `focus` names the one a behaviour is about, the others stay where *)
(* they start.  Fairness is that of each component, for the one in focus.   *)
(***************************************************************************)
EXTENDS OperationJournal, AuthSessions, BrokerSession, Schedules, ImageLibrary, MCVmSnapshots

VARIABLE focus

\* The guest runs when its snapshots begin: a stopped one is never frozen.
MCInit ==
    /\ focus \in {"journal", "auth", "broker", "schedules", "library", "snapshots"}
    /\ Init /\ AInit /\ BrInit /\ SchInit /\ LibInit /\ SnapInit
    /\ focus # "schedules" => kind = "power"
    /\ DOMAIN origin = Sources /\ \A v \in SnapVms : run[v] = "running"

\* One component moves and the others do not.
MCNext ==
    /\ UNCHANGED focus
    /\ IF focus = "journal"   THEN Next     ELSE UNCHANGED vars
    /\ IF focus = "auth"      THEN ANext    ELSE UNCHANGED avars
    /\ IF focus = "broker"    THEN BrNext   ELSE UNCHANGED brvars
    /\ IF focus = "schedules" THEN SchNext  ELSE UNCHANGED schvars
    /\ IF focus = "library"   THEN LibNext  ELSE UNCHANGED libvars
    /\ IF focus = "snapshots" THEN SnapNext ELSE UNCHANGED snapvars

Br(A) == focus = "broker" /\ A
Sch(A) == focus = "schedules" /\ A

MCFairness ==
    /\ \A o \in Ops : WF_vars(focus = "journal" /\ Progressing(o))
    /\ WF_vars(focus = "journal" /\ Recovering)
    /\ \A r \in Reqs : WF_avars(focus = "auth" /\ Stepping(r))
    /\ WF_brvars(Br(Validate \/ Spawn)) /\ WF_brvars(Br(FeedEnds))
    /\ WF_brvars(Br(ReadStdout \/ Finished(AfterLoop)))
    /\ WF_brvars(Br(TimeOut(AfterLoop))) /\ WF_brvars(Br(JoinFeeder))
    /\ WF_brvars(Br(ReadFrame \/ ReadLost)) /\ WF_brvars(Br(Closed))
    /\ WF_schvars(Sch(UNCHANGED kind /\ EvaluatorStep)) /\ WF_schvars(Sch(UNCHANGED kind /\ TimePasses))
    /\ \A j \in Downloads : WF_libvars(focus = "library" /\ JobStep(j))
    /\ \A r \in SnapReqs : WF_snapvars(focus = "snapshots" /\ SnapStep(r))

MCSpec == /\ MCInit
          /\ [][MCNext]_<<focus, vars, avars, brvars, schvars, libvars, snapvars>>
          /\ MCFairness
=============================================================================
