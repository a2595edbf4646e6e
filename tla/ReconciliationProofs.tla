------------------------ MODULE ReconciliationProofs ------------------------
(***************************************************************************)
(* AdoptedIsManaged and SuccessMeansRepaired, for any resources, runs,     *)
(* requests, decisions, faults and crashes.                                *)
(*                                                                         *)
(* Adoption: a decision under way names a quarantine record that is not    *)
(* free, so that nobody writes over it (DecisionStands); the one that will *)
(* be marked Adopted stands for a bridge whose record is written, and only *)
(* VMs and containers lose their records (ErasesNoBridge).                 *)
(*                                                                         *)
(* Repair: of every finding of a repair run it is known where it is: still *)
(* to do, in hand, or done (Covered).  A run that succeeds has nothing to  *)
(* do and nothing in hand.                                                 *)
(***************************************************************************)
EXTENDS Reconciliation, TLAPS

-----------------------------------------------------------------------------
(* The inductive invariant.                                                *)

QuarSet == [res : Res \cup {"none"}, status : {"free", "Pending", "Adopted", "Released"}]
DecSet  == [pc : {"idle", "look", "adopt", "mark"}, id : QIds \cup {"none"},
            as : {"none", "Adopted", "Released"}, aware : BOOLEAN]
WorkSet == [pc : {"idle", "put", "erase"}, res : Res \cup {"none"}, aware : BOOLEAN]
ReqSet  == [pc : {"idle", "spend", "enqueue"}, from : Passes \cup {"none"}]

RTyped ==
    /\ quar \in [QIds -> QuarSet] /\ dec \in [Deciders -> DecSet]
    /\ work \in [Workers -> WorkSet] /\ pass \in [Passes -> PassRecord]
    /\ req \in [Reqs -> ReqSet] /\ \A q \in Reqs : req[q].pc # "idle" => req[q].from \in Passes

DecisionStands(d) ==
    dec[d].pc # "idle" =>
      /\ dec[d].id \in QIds /\ quar[dec[d].id].status # "free"
      /\ dec[d].as \in {"Adopted", "Released"}
      /\ dec[d].as = "Adopted" => quar[dec[d].id].res \in Bridges
      /\ dec[d].pc \in {"look", "adopt"} => dec[d].as = "Adopted"
      /\ dec[d].pc = "mark" /\ dec[d].as = "Adopted" => quar[dec[d].id].res \in rec

Managed(i) == quar[i].status = "Adopted" => quar[i].res \in rec \cap Bridges

ErasesNoBridge(w) == work[w].pc = "erase" => work[w].res \notin Bridges

\* The repair run x has a quarantine record for r, and has r on the host.
Kept(r) == \E i \in QIds : quar[i].status # "free" /\ quar[i].res = r
Quarantines(x) ==
    \A f \in x.found : f.why = "unmanaged" =>
      \/ Kept(f.res)
      \/ x.stage = "persist" /\ f \in x.todo
      \/ x.stage = "persist" /\ x.pc = "putq" /\ x.cur = f.res
Restores(x) ==
    x.stage = "repair" => \A f \in x.found : Repairable(f) =>
      \/ f.res \in x.fixed
      \/ f \in x.todo
      \/ x.pc = "define" /\ x.cur = f.res
Covered(x) ==
    /\ x.pc = "none" => x.mode = "dry"
    /\ x.pc \in {"none", "records", "host"} => x.kind # "done"
    /\ x.pc = "define" => x.cur \in Res
    /\ x.mode = "repair" =>
         /\ x.pc \notin {"records", "host"}
         /\ x.pc \in {"loop", "putq", "define", "succeeded"} => Quarantines(x) /\ Restores(x)
         /\ x.pc = "succeeded" => x.stage = "repair" /\ x.todo = {}

RInv ==
    /\ RTyped
    /\ \A d \in Deciders : DecisionStands(d)
    /\ \A i \in QIds : Managed(i)
    /\ \A w \in Workers : ErasesNoBridge(w)
    /\ \A p \in Passes : Covered(pass[p])

\* At the start nothing is under way.
LEMMA RInitInv == RInit => RInv
<1> SUFFICES ASSUME RInit PROVE RInv
  OBVIOUS
<1>1. /\ NoQuar \in QuarSet /\ NoQuar.status = "free"
      /\ IdleDec \in DecSet /\ IdleDec.pc = "idle"
      /\ IdleWork \in WorkSet /\ IdleWork.pc = "idle"
      /\ IdleReq \in ReqSet /\ IdleReq.pc = "idle"
  BY DEF NoQuar, QuarSet, IdleDec, DecSet, IdleWork, WorkSet, IdleReq, ReqSet
<1>2. NewPass \in PassRecord /\ NewPass.pc = "none" /\ NewPass.mode = "dry" /\ NewPass.kind = "vm"
  BY DEF NewPass, PassRecord
<1>3. RTyped
  BY <1>1, <1>2 DEF RInit, RTyped
<1>4. \A p \in Passes : Covered(pass[p])
  BY <1>2 DEF RInit, Covered
<1> QED
  BY <1>1, <1>3, <1>4 DEF RInit, RInv, DecisionStands, Managed, ErasesNoBridge

-----------------------------------------------------------------------------
(* What a step may leave alone.                                            *)

\* Decisions are safe as long as records are kept and bridges stay recorded.
LEMMA DecisionFrame ==
    ASSUME RInv, \A b \in Bridges : b \in rec => b \in rec',
           \A i \in QIds : quar[i].status # "free" =>
              quar'[i].status # "free" /\ quar'[i].res = quar[i].res,
           NEW d \in Deciders, dec'[d] = dec[d]
    PROVE  DecisionStands(d)'
BY DEF RInv, DecisionStands

\* Runs are safe as long as quarantine records are kept.
LEMMA CoveredFrame ==
    ASSUME RInv, \A i \in QIds : quar[i].status # "free" =>
                    quar'[i].status # "free" /\ quar'[i].res = quar[i].res,
           NEW p \in Passes, pass'[p] = pass[p]
    PROVE  Covered(pass[p])'
<1>1. \A r : Kept(r) => Kept(r)'
  BY DEF Kept
<1>2. Covered(pass[p])
  BY DEF RInv
<1>3. Quarantines(pass[p]) => Quarantines(pass[p])'
  BY <1>1 DEF Quarantines
<1>4. Restores(pass[p]) => Restores(pass[p])'
  BY DEF Restores, Repairable
<1> QED
  BY <1>2, <1>3, <1>4 DEF Covered

\* A step of the run p.
LEMMA PassFrame ==
    ASSUME RInv, NEW p \in Passes, NEW x \in PassRecord, pass' = [pass EXCEPT ![p] = x],
           Covered(x), UNCHANGED <<rec, quar, dec, work>>, req' \in [Reqs -> ReqSet],
           \A q \in Reqs : req'[q].pc # "idle" => req'[q].from \in Passes
    PROVE  RInv'
<1>1. pass' \in [Passes -> PassRecord] /\ pass'[p] = x /\ \A o \in Passes : o # p => pass'[o] = pass[o]
  BY DEF RInv, RTyped
<1>2. RTyped'
  BY <1>1 DEF RInv, RTyped
<1>3. Covered(x)'
  BY DEF Covered, Quarantines, Restores, Kept, Repairable
<1>4. \A o \in Passes : Covered(pass[o])'
  <2>1. \A o \in Passes : o # p => Covered(pass[o])'
    BY <1>1, CoveredFrame
  <2>2. Covered(pass[p])'
    BY <1>1, <1>3 DEF Covered, Quarantines, Restores, Kept, Repairable
  <2> QED
    BY <2>1, <2>2
<1>5. \A d \in Deciders : DecisionStands(d)'
  BY DecisionFrame
<1>6. (\A i \in QIds : Managed(i)') /\ \A w \in Workers : ErasesNoBridge(w)'
  BY DEF RInv, Managed, ErasesNoBridge
<1> QED
  BY <1>2, <1>4, <1>5, <1>6 DEF RInv

\* The same for a step that leaves the requests alone.
LEMMA PassMoves ==
    ASSUME RInv, NEW p \in Passes, NEW x \in PassRecord, pass' = [pass EXCEPT ![p] = x],
           Covered(x), UNCHANGED <<rec, quar, dec, work, req>>
    PROVE  RInv'
<1>1. req' \in [Reqs -> ReqSet] /\ \A q \in Reqs : req'[q].pc # "idle" => req'[q].from \in Passes
  BY DEF RInv, RTyped
<1> QED
  BY <1>1, PassFrame

-----------------------------------------------------------------------------
(* The steps of a run.                                                     *)

\* A dry run: none of its steps is one of a repair.
LEMMA DryStep ==
    ASSUME RInv, NEW p \in Passes, DryRun(p) \/ ReadRecords(p) \/ ReadHost(p)
    PROVE  RInv'
<1> DEFINE o == pass[p]
           x == pass'[p]
<1>1. o \in PassRecord /\ Covered(o)
  BY DEF RInv, RTyped
<1>2. UNCHANGED <<rec, quar, dec, work, req>>
  BY DEF DryRun, ReadRecords, ReadHost, world
<1>3. o.mode = "dry"
  BY <1>1 DEF DryRun, ReadRecords, ReadHost, Covered, PassRecord
<1>4. /\ x \in PassRecord /\ pass' = [pass EXCEPT ![p] = x]
      /\ x.mode = "dry" /\ x.pc \notin {"none", "define"} /\ (x.pc = "records" \/ x.pc = "host" => x.kind # "done")
  <2>0. o.kind # "done"
    BY <1>1 DEF DryRun, ReadRecords, ReadHost, Covered
  <2>1. CASE DryRun(p)
    <3>1. x = [o EXCEPT !.pc = "records"] /\ pass' = [pass EXCEPT ![p] = x]
      BY <2>1 DEF DryRun, RInv, RTyped
    <3> HIDE DEF x, o
    <3>2. x \in PassRecord /\ x.pc = "records" /\ x.mode = o.mode /\ x.kind = o.kind
      BY <1>1, <3>1 DEF PassRecord, Outcomes
    <3> QED
      BY <1>3, <2>0, <3>1, <3>2
  <2>2. CASE ReadRecords(p)
    <3> DEFINE sn == rec \cap OfKind(o.kind)
    <3>1. x = [o EXCEPT !.pc = "host", !.snap = sn] /\ pass' = [pass EXCEPT ![p] = x]
      BY <2>2 DEF ReadRecords, RInv, RTyped
    <3>2. sn \in SUBSET Res
      BY <1>1, <2>0 DEF OfKind, Res, PassRecord
    <3> HIDE DEF sn, x, o
    <3>3. x \in PassRecord /\ x.pc = "host" /\ x.mode = o.mode /\ x.kind = o.kind
      BY <1>1, <3>1, <3>2 DEF PassRecord, Outcomes
    <3> QED
      BY <1>3, <2>0, <3>1, <3>3
  <2>3. CASE ReadHost(p)
    <3> DEFINE lv == host \cap OfKind(o.kind)
               fd == o.found \cup Missing(o.snap \ lv) \cup Unmanaged(lv \ o.snap)
               nx == NextKind(o.kind)
               pc == IF nx = "done" THEN "loop" ELSE "records"
               td == {f \in fd : f.why = "unmanaged"}
    <3>1. /\ x = [o EXCEPT !.pc = pc, !.kind = nx, !.found = fd, !.todo = td]
          /\ pass' = [pass EXCEPT ![p] = x]
      BY <2>3 DEF ReadHost, RInv, RTyped
    <3>2. lv \in SUBSET Res
      BY <1>1, <2>0 DEF OfKind, Res, PassRecord
    <3>3. fd \in SUBSET Finding /\ td \in SUBSET Finding
      <4>1. o.snap \in SUBSET Res /\ o.found \in SUBSET Finding
        BY <1>1 DEF PassRecord, Outcomes
      <4> HIDE DEF lv
      <4> QED
        BY <3>2, <4>1 DEF Finding, Missing, Unmanaged
    <3>4. nx \in {"ct", "bridge", "done"} /\ (pc = "loop" \/ (pc = "records" /\ nx # "done"))
      BY <1>1, <2>0 DEF NextKind, PassRecord
    <3> HIDE DEF fd, td, nx, pc, x, o
    <3>5. x \in PassRecord /\ x.pc = pc /\ x.mode = o.mode /\ x.kind = nx
      BY <1>1, <3>1, <3>3, <3>4 DEF PassRecord, Outcomes
    <3> QED
      BY <1>3, <3>1, <3>4, <3>5
  <2> QED
    BY <2>1, <2>2, <2>3
<1>5. Covered(x)
  BY <1>4 DEF Covered
<1> QED
  BY <1>2, <1>4, <1>5, PassMoves

\* Where a finding is when the run takes another one up.
LEMMA LoopStep ==
    ASSUME RInv, NEW p \in Passes, NEW f \in pass[p].todo,
           \/ CheckQuarantine(p, f) \/ SkipFinding(p, f)
           \/ \E running \in BOOLEAN : BeginRepair(p, f, running)
    PROVE  RInv'
<1> DEFINE o == pass[p]
           x == pass'[p]
<1>1. o \in PassRecord /\ Covered(o) /\ o.pc = "loop" /\ f \in Finding
  BY DEF RInv, RTyped, CheckQuarantine, SkipFinding, BeginRepair, PassRecord
<1>2. UNCHANGED <<rec, quar, dec, work, req>>
  BY DEF CheckQuarantine, SkipFinding, BeginRepair, world
<1>3. CASE CheckQuarantine(p, f)
  <2> DEFINE pc == IF PendingFor(f.res) THEN "loop" ELSE "putq"
  <2>1. /\ pass' = [pass EXCEPT ![p] = x]
        /\ x = [o EXCEPT !.todo = @ \ {f}, !.pc = pc, !.cur = f.res] /\ f.why = "unmanaged"
    BY <1>3 DEF CheckQuarantine, RInv, RTyped
  <2>2. pc = "putq" \/ (pc = "loop" /\ Kept(f.res))
    BY DEF PendingFor, Kept
  <2> HIDE DEF pc
  <2>3. f.res \in Res
    BY <1>1 DEF Finding
  <2>4. /\ x \in PassRecord /\ x.pc = pc /\ x.mode = o.mode /\ x.stage = o.stage /\ x.found = o.found
        /\ x.todo = o.todo \ {f} /\ x.cur = f.res /\ x.fixed = o.fixed /\ x.kind = o.kind
    <3> HIDE DEF x, o
    <3>1. x = [o EXCEPT !.todo = @ \ {f}, !.pc = pc, !.cur = f.res]
      BY <2>1
    <3> QED
      BY <1>1, <2>2, <2>3, <3>1 DEF PassRecord, Outcomes
  <2>5. ASSUME o.mode = "repair" PROVE Quarantines(x) /\ Restores(x)
    <3>1. Quarantines(o) /\ Restores(o)
      BY <1>1, <2>5 DEF Covered
    <3>2. Quarantines(x)
      BY <1>1, <2>2, <2>4, <3>1 DEF Quarantines
    <3>3. Restores(x)
      BY <1>1, <2>1, <2>4, <3>1 DEF Restores, Repairable
    <3> QED
      BY <3>2, <3>3
  <2>6. Covered(x)
    BY <1>1, <2>2, <2>4, <2>5 DEF Covered
  <2> QED
    BY <1>2, <2>1, <2>4, <2>6, PassMoves
<1>4. CASE SkipFinding(p, f)
  <2>1. /\ pass' = [pass EXCEPT ![p] = x] /\ f.why = "missing"
        /\ x = [o EXCEPT !.todo = @ \ {f}] /\ ~Repairable(f)
    BY <1>4 DEF SkipFinding, RInv, RTyped
  <2>2. /\ x \in PassRecord /\ x.pc = "loop" /\ x.mode = o.mode /\ x.stage = o.stage /\ x.found = o.found
        /\ x.todo = o.todo \ {f} /\ x.cur = o.cur /\ x.fixed = o.fixed /\ x.kind = o.kind
    <3> HIDE DEF x, o
    <3>1. x = [o EXCEPT !.todo = @ \ {f}]
      BY <2>1
    <3> QED
      BY <1>1, <3>1 DEF PassRecord, Outcomes
  <2>3. ASSUME o.mode = "repair" PROVE Quarantines(x) /\ Restores(x)
    <3>1. Quarantines(o) /\ Restores(o)
      BY <1>1, <2>3 DEF Covered
    <3>2. Quarantines(x)
      BY <1>1, <2>1, <2>2, <3>1 DEF Quarantines
    <3>3. Restores(x)
      BY <1>1, <2>1, <2>2, <3>1 DEF Restores
    <3> QED
      BY <3>2, <3>3
  <2>4. Covered(x)
    BY <1>1, <2>2, <2>3 DEF Covered
  <2> QED
    BY <1>2, <2>1, <2>2, <2>4, PassMoves
<1>5. CASE \E running \in BOOLEAN : BeginRepair(p, f, running)
  <2>1. PICK pc \in {"define", "failed"} :
          /\ pass' = [pass EXCEPT ![p] = x]
          /\ x = [o EXCEPT !.todo = @ \ {f}, !.cur = f.res, !.pc = pc] /\ Repairable(f)
    BY <1>5 DEF BeginRepair, RInv, RTyped
  <2>2. f.res \in Res /\ f.why = "missing"
    BY <1>1, <2>1 DEF Finding, Repairable
  <2>3. /\ x \in PassRecord /\ x.pc = pc /\ x.mode = o.mode /\ x.stage = o.stage /\ x.found = o.found
        /\ x.todo = o.todo \ {f} /\ x.cur = f.res /\ x.fixed = o.fixed /\ x.kind = o.kind
    <3> HIDE DEF x, o
    <3>1. x = [o EXCEPT !.todo = @ \ {f}, !.cur = f.res, !.pc = pc]
      BY <2>1
    <3> QED
      BY <1>1, <2>1, <2>2, <3>1 DEF PassRecord, Outcomes
  <2>4. ASSUME o.mode = "repair", pc = "define" PROVE Quarantines(x) /\ Restores(x)
    <3>1. Quarantines(o) /\ Restores(o)
      BY <1>1, <2>4 DEF Covered
    <3>2. Quarantines(x)
      BY <1>1, <2>2, <2>3, <3>1 DEF Quarantines
    <3>3. Restores(x)
      BY <1>1, <2>3, <2>4, <3>1 DEF Restores
    <3> QED
      BY <3>2, <3>3
  <2>5. Covered(x)
    BY <1>1, <2>2, <2>3, <2>4 DEF Covered
  <2> QED
    BY <1>2, <2>1, <2>3, <2>5, PassMoves
<1> QED
  BY <1>3, <1>4, <1>5

\* quarantine writes a record under an id that no decision names.
LEMMA PutQuarantineStep ==
    ASSUME RInv, NEW p \in Passes, PutQuarantine(p)
    PROVE  RInv'
<1> DEFINE o == pass[p]
           x == pass'[p]
           y == [res |-> o.cur, status |-> "Pending"]
<1>1. o \in PassRecord /\ Covered(o) /\ o.pc = "putq" /\ quar \in [QIds -> QuarSet]
  BY DEF RInv, RTyped, PutQuarantine
<1>2. FreshId \in QIds /\ quar[FreshId] = NoQuar
  BY DEF PutQuarantine, FreshId
<1>3. /\ quar' = [quar EXCEPT ![FreshId] = y] /\ UNCHANGED <<rec, dec, work, req>>
      /\ x = [o EXCEPT !.pc = "loop"] /\ pass' = [pass EXCEPT ![p] = x]
  BY DEF PutQuarantine, world, RInv, RTyped
<1>4. PICK i \in QIds : quar[i] = NoQuar /\ quar' = [quar EXCEPT ![i] = y]
  BY <1>2, <1>3
<1>5. y \in QuarSet /\ y.res = o.cur /\ y.status = "Pending" /\ NoQuar.status = "free"
  BY <1>1 DEF QuarSet, PassRecord, NoQuar
<1> HIDE DEF x, o, y
<1>6. quar' \in [QIds -> QuarSet] /\ quar'[i] = y /\ \A j \in QIds : j # i => quar'[j] = quar[j]
  BY <1>1, <1>4, <1>5
<1>7. \A j \in QIds : quar[j].status # "free" => quar'[j].status # "free" /\ quar'[j].res = quar[j].res
  BY <1>4, <1>5, <1>6
<1>8. /\ x \in PassRecord /\ x.pc = "loop" /\ x.mode = o.mode /\ x.stage = o.stage /\ x.found = o.found
      /\ x.todo = o.todo /\ x.cur = o.cur /\ x.fixed = o.fixed
  BY <1>1, <1>3 DEF PassRecord
<1>9. pass' \in [Passes -> PassRecord] /\ pass'[p] = x /\ \A r \in Passes : r # p => pass'[r] = pass[r]
  BY <1>3, <1>8 DEF RInv, RTyped
<1>10. Covered(pass[p])'
  <2>1. ASSUME x.mode = "repair"
        PROVE  /\ Restores(x)
               /\ \A f \in x.found : f.why = "unmanaged" =>
                     Kept(f.res)' \/ (x.stage = "persist" /\ f \in x.todo)
    <3>1. Quarantines(o) /\ Restores(o)
      BY <1>1, <1>8, <2>1 DEF Covered
    <3>2. \A r : Kept(r) => Kept(r)'
      BY <1>7 DEF Kept
    <3>3. ASSUME NEW f \in x.found, f.why = "unmanaged"
          PROVE  Kept(f.res)' \/ (x.stage = "persist" /\ f \in x.todo)
      <4>1. CASE f.res = o.cur
        BY <1>5, <1>6, <4>1 DEF Kept
      <4>2. CASE f.res # o.cur
        BY <1>8, <3>1, <3>2, <3>3, <4>2 DEF Quarantines
      <4> QED
        BY <4>1, <4>2
    <3>4. Restores(x)
      BY <1>1, <1>8, <3>1 DEF Restores
    <3> QED
      BY <3>3, <3>4
  <2> QED
    BY <1>8, <1>9, <2>1 DEF Covered, Quarantines, Restores, Repairable, Kept
<1>11. \A r \in Passes : Covered(pass[r])'
  BY <1>7, <1>9, <1>10, CoveredFrame
<1>12. \A d \in Deciders : DecisionStands(d)'
  BY <1>3, <1>7, DecisionFrame
<1>13. (\A j \in QIds : Managed(j)') /\ \A w \in Workers : ErasesNoBridge(w)'
  BY <1>3, <1>5, <1>6 DEF RInv, Managed, ErasesNoBridge
<1>14. RTyped'
  BY <1>3, <1>6, <1>9 DEF RInv, RTyped
<1> QED
  BY <1>11, <1>12, <1>13, <1>14 DEF RInv

\* The resource is defined, the loop ends, or the run fails.
LEMMA EndingStep ==
    ASSUME RInv, NEW p \in Passes, Define(p) \/ LoopDone(p) \/ PassFails(p)
    PROVE  RInv'
<1> DEFINE o == pass[p]
           x == pass'[p]
<1>1. o \in PassRecord /\ Covered(o)
  BY DEF RInv, RTyped
<1>2. UNCHANGED <<rec, quar, dec, work, req>>
  BY DEF Define, LoopDone, PassFails, world
<1>3. CASE Define(p)
  <2> DEFINE bad == o.cur \in Bridges /\ o.cur \in host
             pc == IF bad THEN "failed" ELSE "loop"
             fx == IF bad THEN o.fixed ELSE o.fixed \cup {o.cur}
  <2>1. /\ x = [o EXCEPT !.pc = pc, !.fixed = fx] /\ pass' = [pass EXCEPT ![p] = x] /\ o.pc = "define"
    BY <1>3 DEF Define, RInv, RTyped
  <2>2. pc = "failed" \/ (pc = "loop" /\ fx = o.fixed \cup {o.cur})
    OBVIOUS
  <2>3. o.cur \in Res
    BY <1>1, <2>1 DEF Covered
  <2>4. /\ x \in PassRecord /\ x.pc = pc /\ x.mode = o.mode /\ x.stage = o.stage /\ x.found = o.found
        /\ x.todo = o.todo /\ x.fixed = fx
    <3> HIDE DEF x, o, pc, fx
    <3>1. x = [o EXCEPT !.pc = pc, !.fixed = fx] /\ fx \in SUBSET Res
      BY <1>1, <2>1, <2>3 DEF PassRecord, fx
    <3> QED
      BY <1>1, <2>2, <3>1 DEF PassRecord, Outcomes
  <2>5. ASSUME o.mode = "repair", pc = "loop" PROVE Quarantines(x) /\ Restores(x)
    <3>1. Quarantines(o) /\ Restores(o)
      BY <1>1, <2>1, <2>5 DEF Covered
    <3> HIDE DEF x, o, pc, fx
    <3>2. fx = o.fixed \cup {o.cur} /\ x.pc = "loop"
      BY <2>2, <2>4, <2>5
    <3>3. Quarantines(x)
      BY <2>1, <2>4, <3>1, <3>2 DEF Quarantines
    <3>4. Restores(x)
      BY <2>1, <2>4, <3>1, <3>2 DEF Restores
    <3> QED
      BY <3>3, <3>4
  <2> HIDE DEF x, o, pc, fx
  <2>6. Covered(x)
    BY <2>2, <2>4, <2>5 DEF Covered
  <2> QED
    BY <1>2, <2>1, <2>4, <2>6, PassMoves
<1>4. CASE LoopDone(p)
  <2>1. /\ o.pc = "loop" /\ o.todo = {} /\ pass' = [pass EXCEPT ![p] = x]
        /\ x = (IF o.mode = "repair" /\ o.stage = "persist"
                THEN [o EXCEPT !.stage = "repair", !.todo = o.found] ELSE [o EXCEPT !.pc = "succeeded"])
    BY <1>4 DEF LoopDone, RInv, RTyped
  <2>2. o.mode = "repair" => Quarantines(o) /\ Restores(o)
    BY <1>1, <2>1 DEF Covered
  <2> HIDE DEF x, o
  <2>3. CASE o.mode = "repair" /\ o.stage = "persist"
    <3>1. x = [o EXCEPT !.stage = "repair", !.todo = o.found]
      BY <2>1, <2>3
    <3>2. /\ x \in PassRecord /\ x.pc = "loop" /\ x.stage = "repair" /\ x.found = o.found
          /\ x.todo = o.found /\ x.fixed = o.fixed
      BY <1>1, <2>1, <3>1 DEF PassRecord
    <3>3. Quarantines(x)
      BY <2>1, <2>2, <2>3, <3>2 DEF Quarantines
    <3>4. Restores(x)
      BY <3>2 DEF Restores
    <3>5. Covered(x)
      BY <3>2, <3>3, <3>4 DEF Covered
    <3> QED
      BY <1>2, <2>1, <3>2, <3>5, PassMoves
  <2>4. CASE ~(o.mode = "repair" /\ o.stage = "persist")
    <3>1. x = [o EXCEPT !.pc = "succeeded"]
      BY <2>1, <2>4
    <3>2. /\ x \in PassRecord /\ x.pc = "succeeded" /\ x.stage = o.stage /\ x.found = o.found
          /\ x.todo = {} /\ x.fixed = o.fixed /\ x.mode = o.mode
      BY <1>1, <2>1, <3>1 DEF PassRecord, Outcomes
    <3>3. x.mode = "repair" => Quarantines(x) /\ Restores(x) /\ x.stage = "repair"
      BY <1>1, <2>1, <2>2, <2>4, <3>2 DEF Quarantines, Restores, PassRecord
    <3>4. Covered(x)
      BY <3>2, <3>3 DEF Covered
    <3> QED
      BY <1>2, <2>1, <3>2, <3>4, PassMoves
  <2> QED
    BY <2>3, <2>4
<1>5. CASE PassFails(p)
  <2>1. x = [o EXCEPT !.pc = "failed"] /\ pass' = [pass EXCEPT ![p] = x]
    BY <1>5 DEF PassFails, RInv, RTyped
  <2> HIDE DEF x, o
  <2>2. x \in PassRecord /\ x.pc = "failed"
    BY <1>1, <2>1 DEF PassRecord, Outcomes
  <2>3. Covered(x)
    BY <2>2 DEF Covered
  <2> QED
    BY <1>2, <2>1, <2>2, <2>3, PassMoves
<1> QED
  BY <1>3, <1>4, <1>5

-----------------------------------------------------------------------------
(* Requests, decisions, ordinary work and the world outside.               *)

\* Everything is as before but for what the invariant does not mention.
LEMMA RIdle ==
    ASSUME RInv, UNCHANGED <<rec, pass, quar, dec, work>>, req' \in [Reqs -> ReqSet],
           \A q \in Reqs : req'[q].pc # "idle" => req'[q].from \in Passes
    PROVE  RInv'
<1>1. RTyped'
  BY DEF RInv, RTyped
<1>2. \A p \in Passes : Covered(pass[p])'
  BY CoveredFrame
<1>3. \A d \in Deciders : DecisionStands(d)'
  BY DecisionFrame
<1>4. (\A i \in QIds : Managed(i)') /\ \A w \in Workers : ErasesNoBridge(w)'
  BY DEF RInv, Managed, ErasesNoBridge
<1> QED
  BY <1>1, <1>2, <1>3, <1>4 DEF RInv

\* A request for a repair, up to the run it starts.
LEMMA RepairRequestStep ==
    ASSUME RInv, NEW q \in Reqs,
           \/ \E a \in Passes : CheckApproval(q, a)
           \/ \E quarantine \in BOOLEAN : SpendApproval(q, quarantine)
           \/ \E p \in Passes : EnqueueRepair(q, p)
           \/ DropRequest(q)
    PROVE  RInv'
<1>1. IdleReq \in ReqSet /\ IdleReq.pc = "idle"
  BY DEF IdleReq, ReqSet
<1>2. /\ req \in [Reqs -> ReqSet] /\ UNCHANGED <<rec, quar, dec, work>>
      /\ \A r \in Reqs : req[r].pc # "idle" => req[r].from \in Passes
  BY DEF RInv, RTyped, CheckApproval, SpendApproval, EnqueueRepair, DropRequest, world
<1>3. PICK y \in ReqSet : req' = [req EXCEPT ![q] = y] /\ (y.pc # "idle" => y.from \in Passes)
  <2>1. ASSUME NEW a \in Passes, CheckApproval(q, a)
        PROVE  \E y \in ReqSet : req' = [req EXCEPT ![q] = y] /\ (y.pc # "idle" => y.from \in Passes)
    <3>1. [pc |-> "spend", from |-> a] \in ReqSet
      BY DEF ReqSet
    <3> QED
      BY <2>1, <3>1 DEF CheckApproval
  <2>2. ASSUME NEW z \in BOOLEAN, SpendApproval(q, z)
        PROVE  \E y \in ReqSet : req' = [req EXCEPT ![q] = y] /\ (y.pc # "idle" => y.from \in Passes)
    <3>1. /\ [req[q] EXCEPT !.pc = "enqueue"] \in ReqSet /\ req[q].from \in Passes
          /\ [req[q] EXCEPT !.pc = "enqueue"].from = req[q].from
      BY <1>2, <2>2 DEF ReqSet, SpendApproval
    <3>2. req' = [req EXCEPT ![q] = IF z THEN [req[q] EXCEPT !.pc = "enqueue"] ELSE IdleReq]
      BY <2>2 DEF SpendApproval
    <3>3. CASE z = TRUE
      BY <3>1, <3>2, <3>3
    <3>4. CASE z = FALSE
      BY <1>1, <3>2, <3>4
    <3> QED
      BY <3>3, <3>4
  <2>3. ASSUME req' = [req EXCEPT ![q] = IdleReq]
        PROVE  \E y \in ReqSet : req' = [req EXCEPT ![q] = y] /\ (y.pc # "idle" => y.from \in Passes)
    BY <1>1, <2>3
  <2> QED
    BY <2>1, <2>2, <2>3 DEF EnqueueRepair, DropRequest
<1>4. req' \in [Reqs -> ReqSet] /\ \A r \in Reqs : req'[r].pc # "idle" => req'[r].from \in Passes
  <2>1. req' \in [Reqs -> ReqSet] /\ req'[q] = y /\ \A r \in Reqs : r # q => req'[r] = req[r]
    BY <1>2, <1>3
  <2> QED
    BY <1>2, <1>3, <2>1
<1>5. ASSUME NEW p \in Passes, EnqueueRepair(q, p) PROVE RInv'
  <2> DEFINE fd == pass[req[q].from].found
             td == {f \in fd : f.why = "unmanaged"}
             x == [NewPass EXCEPT !.pc = "loop", !.mode = "repair", !.kind = "done",
                                  !.from = req[q].from, !.found = fd, !.todo = td]
  <2>1. pass' = [pass EXCEPT ![p] = x] /\ req[q].pc = "enqueue"
    BY <1>5 DEF EnqueueRepair
  <2>2. req[q].from \in Passes
    BY <1>2, <2>1
  <2>3. fd \in SUBSET Finding /\ td \in SUBSET Finding
    BY <2>2 DEF RInv, RTyped, PassRecord
  <2>4. \A f \in fd : f.why = "unmanaged" => f \in td
    OBVIOUS
  <2> HIDE DEF fd, td
  <2>5. /\ x \in PassRecord /\ x.pc = "loop" /\ x.mode = "repair" /\ x.stage = "persist"
        /\ x.found = fd /\ x.todo = td
    BY <2>2, <2>3 DEF NewPass, PassRecord
  <2> HIDE DEF x
  <2>6. Quarantines(x) /\ Restores(x)
    BY <2>4, <2>5 DEF Quarantines, Restores
  <2>7. Covered(x)
    BY <2>5, <2>6 DEF Covered
  <2> QED
    BY <1>2, <1>4, <2>1, <2>5, <2>7, PassFrame
<1>6. CASE UNCHANGED pass
  BY <1>2, <1>4, <1>6, RIdle
<1> QED
  BY <1>5, <1>6 DEF CheckApproval, SpendApproval, DropRequest

\* A step of the decision d.
LEMMA DecFrame ==
    ASSUME RInv, NEW d \in Deciders, NEW y \in DecSet, dec' = [dec EXCEPT ![d] = y],
           UNCHANGED <<pass, work, req>>, quar' \in [QIds -> QuarSet],
           \A r \in rec : r \in rec',
           \A i \in QIds : quar[i].status # "free" =>
              quar'[i].status # "free" /\ quar'[i].res = quar[i].res,
           \A i \in QIds : Managed(i)',
           dec'[d] = y => DecisionStands(d)'
    PROVE  RInv'
<1>1. dec' \in [Deciders -> DecSet] /\ dec'[d] = y /\ \A e \in Deciders : e # d => dec'[e] = dec[e]
  BY DEF RInv, RTyped
<1>2. RTyped'
  BY <1>1 DEF RInv, RTyped
<1>3. \A e \in Deciders : DecisionStands(e)'
  <2>1. \A e \in Deciders : e # d => DecisionStands(e)'
    BY <1>1, DecisionFrame
  <2> QED
    BY <1>1, <2>1
<1>4. \A p \in Passes : Covered(pass[p])'
  BY CoveredFrame
<1>5. \A w \in Workers : ErasesNoBridge(w)'
  BY DEF RInv, ErasesNoBridge
<1> QED
  BY <1>2, <1>3, <1>4, <1>5 DEF RInv

\* decide_quarantine and adopt_bridge.
LEMMA DecideStep ==
    ASSUME RInv, NEW d \in Deciders,
           \/ \E i \in QIds, as \in {"Adopted", "Released"} : BeginDecision(d, i, as)
           \/ FindBridge(d) \/ RecordBridge(d) \/ MarkDecision(d) \/ DropDecision(d)
    PROVE  RInv'
<1> DEFINE e == dec[d]
<1>1. /\ e \in DecSet /\ DecisionStands(d) /\ quar \in [QIds -> QuarSet] /\ UNCHANGED <<pass, work, req>>
      /\ \A i \in QIds : Managed(i)
  BY DEF RInv, RTyped, BeginDecision, FindBridge, RecordBridge, MarkDecision, DropDecision
<1>2. IdleDec \in DecSet /\ IdleDec.pc = "idle"
  BY DEF IdleDec, DecSet
<1>3. ASSUME UNCHANGED <<rec, quar>>, dec' = [dec EXCEPT ![d] = IdleDec] PROVE RInv'
  <2>1. dec'[d] = IdleDec => DecisionStands(d)'
    BY <1>2 DEF DecisionStands
  <2>2. \A i \in QIds : Managed(i)'
    BY <1>1, <1>3 DEF Managed
  <2> QED
    BY <1>1, <1>2, <1>3, <2>1, <2>2, DecFrame
<1>4. ASSUME NEW i \in QIds, NEW as \in {"Adopted", "Released"}, BeginDecision(d, i, as) PROVE RInv'
  <2> DEFINE y == [pc |-> IF as = "Adopted" THEN "look" ELSE "mark", id |-> i, as |-> as, aware |-> FALSE]
  <2>1. /\ dec' = [dec EXCEPT ![d] = y] /\ UNCHANGED <<rec, quar>> /\ quar[i].status = "Pending"
        /\ as = "Adopted" => quar[i].res \in Bridges
    BY <1>4 DEF BeginDecision, world
  <2>2. /\ y \in DecSet /\ y.id = i /\ y.as = as /\ y.pc = (IF as = "Adopted" THEN "look" ELSE "mark")
    BY DEF DecSet
  <2> HIDE DEF y
  <2>3. dec'[d] = y => DecisionStands(d)'
    BY <2>1, <2>2 DEF DecisionStands
  <2>4. \A j \in QIds : Managed(j)'
    BY <1>1, <2>1 DEF Managed
  <2> QED
    BY <1>1, <2>1, <2>2, <2>3, <2>4, DecFrame
<1>5. CASE FindBridge(d)
  <2> DEFINE b == quar[e.id].res
             aw == b \in hostAware
             y == [e EXCEPT !.pc = "adopt", !.aware = aw]
  <2>1. /\ e.pc = "look" /\ UNCHANGED <<rec, quar>>
        /\ dec' = [dec EXCEPT ![d] = IF b \in host THEN y ELSE IdleDec]
    BY <1>5 DEF FindBridge, world
  <2>2. CASE b \notin host
    <3>1. dec' = [dec EXCEPT ![d] = IdleDec]
      BY <2>1, <2>2
    <3> QED
      BY <1>3, <2>1, <3>1
  <2>3. CASE b \in host
    <3>1. dec' = [dec EXCEPT ![d] = y]
      BY <2>1, <2>3
    <3>2. aw \in BOOLEAN
      OBVIOUS
    <3> HIDE DEF aw
    <3>3. y \in DecSet /\ y.pc = "adopt" /\ y.id = e.id /\ y.as = e.as
      BY <1>1, <3>2 DEF DecSet
    <3> HIDE DEF y
    <3>4. dec'[d] = y => DecisionStands(d)'
      BY <1>1, <2>1, <3>3 DEF DecisionStands
    <3>5. \A j \in QIds : Managed(j)'
      BY <1>1, <2>1 DEF Managed
    <3> QED
      BY <1>1, <2>1, <3>1, <3>3, <3>4, <3>5, DecFrame
  <2> QED
    BY <2>2, <2>3
<1>6. CASE RecordBridge(d)
  <2> DEFINE y == [e EXCEPT !.pc = "mark"]
  <2>1. /\ e.pc = "adopt" /\ quar' = quar /\ rec' = rec \cup {quar[e.id].res}
        /\ dec' = [dec EXCEPT ![d] = y]
    BY <1>6 DEF RecordBridge
  <2>2. y \in DecSet /\ y.pc = "mark" /\ y.id = e.id /\ y.as = e.as
    BY <1>1 DEF DecSet
  <2> HIDE DEF y
  <2>3. dec'[d] = y => DecisionStands(d)'
    BY <1>1, <2>1, <2>2 DEF DecisionStands
  <2>4. \A j \in QIds : Managed(j)'
    BY <1>1, <2>1 DEF Managed
  <2> QED
    BY <1>1, <2>1, <2>2, <2>3, <2>4, DecFrame
<1>7. CASE MarkDecision(d)
  <2>1. /\ e.pc = "mark" /\ rec' = rec /\ dec' = [dec EXCEPT ![d] = IdleDec]
        /\ quar' = [quar EXCEPT ![e.id].status = e.as]
    BY <1>7 DEF MarkDecision, world
  <2>2. PICK i \in QIds : i = e.id
    BY <1>1, <2>1 DEF DecisionStands
  <2>3. /\ e.as \in {"Adopted", "Released"} /\ quar[i].status # "free"
        /\ e.as = "Adopted" => quar[i].res \in rec \cap Bridges
    BY <1>1, <2>1, <2>2 DEF DecisionStands
  <2> DEFINE z == [quar[i] EXCEPT !.status = e.as]
  <2>4. z \in QuarSet /\ z.status = e.as /\ z.res = quar[i].res
    BY <1>1, <2>3 DEF QuarSet
  <2>5. quar' = [quar EXCEPT ![i] = z]
    BY <2>1, <2>2
  <2> HIDE DEF z
  <2>6. quar' \in [QIds -> QuarSet] /\ quar'[i] = z /\ \A j \in QIds : j # i => quar'[j] = quar[j]
    BY <1>1, <2>4, <2>5
  <2>7. \A j \in QIds : Managed(j)'
    BY <1>1, <2>1, <2>3, <2>4, <2>6 DEF Managed
  <2>8. \A j \in QIds : quar[j].status # "free" => quar'[j].status # "free" /\ quar'[j].res = quar[j].res
    BY <2>3, <2>4, <2>6
  <2>9. dec'[d] = IdleDec => DecisionStands(d)'
    BY <1>2 DEF DecisionStands
  <2> QED
    BY <1>1, <1>2, <2>1, <2>6, <2>7, <2>8, <2>9, DecFrame
<1>8. CASE DropDecision(d)
  BY <1>3, <1>8 DEF DropDecision, world
<1> QED
  BY <1>4, <1>5, <1>6, <1>7, <1>8

\* Create and delete requests: bridges are recorded and never erased.
LEMMA WorkStep ==
    ASSUME RInv, NEW w \in Workers,
           \/ \E r \in Res, aware \in BOOLEAN : BeginCreate(w, r, aware)
           \/ FinishCreate(w) \/ FailCreate(w)
           \/ \E r \in Res : BeginDelete(w, r)
           \/ FinishDelete(w)
    PROVE  RInv'
<1>1. /\ UNCHANGED <<pass, req, dec, quar>> /\ work \in [Workers -> WorkSet]
      /\ \A v \in Workers : ErasesNoBridge(v)
  BY DEF RInv, RTyped, BeginCreate, FinishCreate, FailCreate, BeginDelete, FinishDelete
<1>2. PICK y \in WorkSet : work' = [work EXCEPT ![w] = y] /\ (y.pc = "erase" => y.res \notin Bridges)
  <2>1. ASSUME NEW r \in Res, NEW aware \in BOOLEAN, BeginCreate(w, r, aware)
        PROVE  \E y \in WorkSet : work' = [work EXCEPT ![w] = y] /\ (y.pc = "erase" => y.res \notin Bridges)
    <3>1. [pc |-> "put", res |-> r, aware |-> aware] \in WorkSet
      BY DEF WorkSet
    <3> QED
      BY <2>1, <3>1 DEF BeginCreate
  <2>2. ASSUME NEW r \in Res, BeginDelete(w, r)
        PROVE  \E y \in WorkSet : work' = [work EXCEPT ![w] = y] /\ (y.pc = "erase" => y.res \notin Bridges)
    <3>1. [pc |-> "erase", res |-> r, aware |-> FALSE] \in WorkSet
      BY DEF WorkSet
    <3> QED
      BY <2>2, <3>1 DEF BeginDelete
  <2>3. ASSUME work' = [work EXCEPT ![w] = IdleWork]
        PROVE  \E y \in WorkSet : work' = [work EXCEPT ![w] = y] /\ (y.pc = "erase" => y.res \notin Bridges)
    <3>1. IdleWork \in WorkSet /\ IdleWork.pc = "idle"
      BY DEF WorkSet, IdleWork
    <3> QED
      BY <2>3, <3>1
  <2> QED
    BY <2>1, <2>2, <2>3 DEF FinishCreate, FailCreate, FinishDelete
<1>3. work' \in [Workers -> WorkSet] /\ work'[w] = y /\ \A v \in Workers : v # w => work'[v] = work[v]
  BY <1>1, <1>2
<1>4. \A v \in Workers : ErasesNoBridge(v)'
  BY <1>1, <1>2, <1>3 DEF ErasesNoBridge
<1>5. \A b \in Bridges : b \in rec => b \in rec'
  BY <1>1 DEF BeginCreate, FinishCreate, FailCreate, BeginDelete, FinishDelete, ErasesNoBridge
<1>6. RTyped'
  BY <1>1, <1>3 DEF RInv, RTyped
<1>7. \A p \in Passes : Covered(pass[p])'
  BY <1>1, CoveredFrame
<1>8. \A d \in Deciders : DecisionStands(d)'
  BY <1>1, <1>5, DecisionFrame
<1>9. \A i \in QIds : Managed(i)'
  BY <1>1, <1>5 DEF RInv, Managed
<1> QED
  BY <1>4, <1>6, <1>7, <1>8, <1>9 DEF RInv

\* A crash: what was under way is lost, the stores are not.
LEMMA CrashStep ==
    ASSUME RInv, Crash
    PROVE  RInv'
<1>1. /\ UNCHANGED <<rec, quar>> /\ req' = [q \in Reqs |-> IdleReq] /\ dec' = [d \in Deciders |-> IdleDec]
      /\ work' = [w \in Workers |-> IdleWork]
  BY DEF Crash, world
<1>2. /\ IdleDec \in DecSet /\ IdleDec.pc = "idle"
      /\ IdleWork \in WorkSet /\ IdleWork.pc = "idle"
      /\ IdleReq \in ReqSet /\ IdleReq.pc = "idle"
  BY DEF IdleDec, DecSet, IdleWork, WorkSet, IdleReq, ReqSet
<1>3. ASSUME NEW p \in Passes PROVE pass'[p] \in PassRecord /\ Covered(pass[p])'
  <2>1. pass[p] \in PassRecord /\ Covered(pass[p])
    BY DEF RInv, RTyped
  <2>2. CASE pass'[p] = pass[p]
    <3>1. Covered(pass[p])'
      BY <1>1, <2>2, CoveredFrame
    <3> QED
      BY <2>1, <2>2, <3>1
  <2>3. CASE pass'[p] = [pass[p] EXCEPT !.pc = "lost"]
    <3>1. pass'[p] \in PassRecord /\ pass'[p].pc = "lost"
      BY <2>1, <2>3 DEF PassRecord, Outcomes
    <3> QED
      BY <3>1 DEF Covered
  <2> QED
    BY <2>2, <2>3 DEF Crash
<1>4. RTyped'
  <2>1. pass' \in [Passes -> PassRecord]
    BY <1>3 DEF Crash
  <2> QED
    BY <1>1, <1>2, <2>1 DEF RInv, RTyped
<1>5. /\ \A d \in Deciders : DecisionStands(d)'
      /\ \A i \in QIds : Managed(i)'
      /\ \A w \in Workers : ErasesNoBridge(w)'
  BY <1>1, <1>2 DEF RInv, DecisionStands, Managed, ErasesNoBridge
<1> QED
  BY <1>3, <1>4, <1>5 DEF RInv

LEMMA RStepInv == RInv /\ [RNext]_rvars => RInv'
<1> SUFFICES ASSUME RInv, [RNext]_rvars PROVE RInv'
  OBVIOUS
<1>1. req \in [Reqs -> ReqSet] /\ \A q \in Reqs : req[q].pc # "idle" => req[q].from \in Passes
  BY DEF RInv, RTyped
<1>2. ASSUME UNCHANGED <<rec, pass, quar, dec, work, req>> PROVE RInv'
  BY <1>1, <1>2, RIdle
<1>3. CASE UNCHANGED rvars
  BY <1>2, <1>3 DEF rvars
<1>4. ASSUME NEW r \in Res, HostLoses(r) \/ HostGains(r) PROVE RInv'
  BY <1>2, <1>4 DEF HostLoses, HostGains
<1>5. ASSUME NEW p \in Passes, DryRun(p) \/ PassStep(p) \/ PassFails(p) PROVE RInv'
  BY <1>5, DryStep, LoopStep, PutQuarantineStep, EndingStep DEF PassStep
<1> QED
  BY <1>3, <1>4, <1>5, RepairRequestStep, DecideStep, WorkStep, CrashStep DEF RNext

-----------------------------------------------------------------------------

\* decide_quarantine of src/src/services/operations.rs: whatever is created, deleted, decided or cut
\* off beside it, a quarantine record is marked Adopted only once the bridge it names is recorded,
\* and the bridge stays recorded.
THEOREM AdoptedStaysManaged == RSpec => []AdoptedIsManaged
<1>1. RInv => AdoptedIsManaged
  BY DEF RInv, Managed, AdoptedIsManaged
<1> QED
  BY <1>1, RInitInv, RStepInv, PTL DEF RSpec

\* repair_findings of src/src/services/operations.rs: a repair run that succeeded has left none of
\* its approval's findings out, for any number of findings and of runs beside it.
THEOREM RepairsAreComplete == RSpec => []SuccessMeansRepaired
<1>1. RInv => SuccessMeansRepaired
  <2> SUFFICES ASSUME RInv, NEW p \in Passes, pass[p].mode = "repair", pass[p].pc = "succeeded",
                      NEW f \in pass[p].found
               PROVE  /\ Repairable(f) => f.res \in pass[p].fixed
                      /\ f.why = "unmanaged" => \E i \in QIds : quar[i].res = f.res
    BY DEF SuccessMeansRepaired
  <2>1. /\ Quarantines(pass[p]) /\ Restores(pass[p])
        /\ pass[p].stage = "repair" /\ pass[p].todo = {}
    BY DEF RInv, Covered
  <2> QED
    BY <2>1 DEF Quarantines, Restores, Kept
<1> QED
  BY <1>1, RInitInv, RStepInv, PTL DEF RSpec

=============================================================================
