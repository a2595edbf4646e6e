-------------------------- MODULE HostServicesProofs --------------------------
(***************************************************************************)
(* The services of the host, for any rules, requests, tasks, names and     *)
(* bounds: the firewall (FilterIsTheAcceptedOne), the certificate and key  *)
(* of TLS (PairFromOneIssuance), the images of the library                 *)
(* (ListedFilesAreWhole), the alerts (AlertIsSustained) and the streams of *)
(* the privileged broker (StreamOkIsWhole).                                *)
(*                                                                         *)
(* Firewall.  The property speaks of the save; what carries it is what is  *)
(* true before.  apply_lock makes the batch file that of the one update    *)
(* under way until nft has loaded it (UpdateOwnsBatch), so what nft loads  *)
(* is what the update then saves (LoadedIsSaved).  What is saved was       *)
(* accepted once, so a restart can load it again (SavedIsGood).            *)
(*                                                                         *)
(* Certificates.  The mutex makes the one task that is past try_lock the   *)
(* only writer of the files (OneIssuance).  While it installs, its number  *)
(* is newer than the one meta.json has, so meta.json describes neither of  *)
(* the files it has touched; when it records success both are its own      *)
(* (TaskOk, Vouches).                                                      *)
(*                                                                         *)
(* Images.  The library locks nothing.  What makes a listed file whole     *)
(* is in each job alone: what it has written, at each step (WrittenSoFar). *)
(*                                                                         *)
(* Alerts.  A streak counts values that were seen (StreakIsSeen), the      *)
(* breach state remembers the latest alert (LastIsLatest), and both are    *)
(* kept by rule id, so the copy of the rules that an evaluation walks may  *)
(* be old without harm (LeftHasRule).                                      *)
(*                                                                         *)
(* Broker.  The backend believes the terminal frame.  That frame is the    *)
(* last one on the wire (OnlyLastEnds), and it reports success for a child *)
(* that exited with 0 and whose pipe was read to the end (OkIsEarned).     *)
(* What the child wrote is accounted for as long as the backend reads: in  *)
(* the sink, on the wire or in the pipe (AllAccounted).  So when the last  *)
(* frame is read and says success, all of it is in the sink.               *)
(***************************************************************************)
EXTENDS HostFirewall, AcmeCertificates, ImageLibrary, Alerts, BrokerSession, TLAPS

-----------------------------------------------------------------------------
(* The host firewall: FilterIsTheAcceptedOne.                              *)

\* An update that is under way holds apply_lock, in a process that serves.
OneUpdate ==
    \A q \in FwReqs : fwReq[q].pc # "idle" => fwLock = q /\ fwUp = "serving"

\* When nft is called the batch file holds the rules of the calling update.
UpdateOwnsBatch ==
    \A q \in FwReqs : fwReq[q].pc = "nft" => fwBatch = Rendered(fwReq[q].cfg)

\* An update about to be saved was accepted by nft, and is what the host filters by unless a
\* late nft came in between.
LoadedIsSaved ==
    \A q \in FwReqs : fwReq[q].pc = "save" =>
        /\ NftAccepts(Rendered(fwReq[q].cfg))
        /\ fwRaced \/ fwHost = Rendered(fwReq[q].cfg)

\* nft accepts the record.
SavedIsGood == NftAccepts(Rendered(fwSaved))

FwInv ==
    /\ DOMAIN fwReq = FwReqs
    /\ fwRaced \in BOOLEAN
    /\ OneUpdate /\ UpdateOwnsBatch /\ LoadedIsSaved /\ SavedIsGood

USE FwAssumption

-----------------------------------------------------------------------------

\* A node without a record starts with the disabled filter, which nft accepts.
LEMMA FwInitInv == FwInit => FwInv
<1>1. Rendered(Default) = <<>>
  BY DEF Rendered, Default
<1>2. NftAccepts(Rendered(Default))
  BY <1>1 DEF NftAccepts
<1> SUFFICES ASSUME FwInit PROVE FwInv
  OBVIOUS
<1>3. DOMAIN fwReq = FwReqs /\ \A q \in FwReqs : fwReq[q].pc = "idle"
  BY DEF FwInit, IdleFw
<1>4. OneUpdate /\ UpdateOwnsBatch /\ LoadedIsSaved
  BY <1>3 DEF OneUpdate, UpdateOwnsBatch, LoadedIsSaved
<1>5. SavedIsGood
  BY <1>1, <1>2 DEF FwInit, SavedIsGood
<1> QED
  BY <1>3, <1>4, <1>5 DEF FwInit, FwInv

\* The other requests are idle while one is not.
LEMMA Alone ==
    ASSUME FwInv, NEW q \in FwReqs, fwReq[q].pc # "idle", NEW p \in FwReqs, p # q
    PROVE  fwReq[p].pc = "idle"
BY DEF FwInv, OneUpdate

\* An update that ends leaves every request idle and the lock free.
LEMMA EndFrees ==
    ASSUME FwInv, NEW q \in FwReqs, fwReq[q].pc # "idle", FwEnd(q)
    PROVE  /\ DOMAIN fwReq' = FwReqs /\ \A p \in FwReqs : fwReq'[p].pc = "idle"
           /\ fwLock' = NoHolder
BY Alone DEF FwInv, FwEnd, IdleFw

\* A state in which no update is under way only has to have a good record.
LEMMA Rest ==
    ASSUME DOMAIN fwReq' = FwReqs, \A p \in FwReqs : fwReq'[p].pc = "idle",
           fwRaced' \in BOOLEAN, SavedIsGood'
    PROVE  FwInv'
BY DEF FwInv, OneUpdate, UpdateOwnsBatch, LoadedIsSaved

\* An update that ends with the record as it was.
LEMMA EndAtRest ==
    ASSUME FwInv, NEW q \in FwReqs, fwReq[q].pc # "idle", FwEnd(q), UNCHANGED <<fwSaved, fwRaced>>
    PROVE  FwInv'
<1>1. SavedIsGood'
  BY DEF FwInv, SavedIsGood, NftAccepts, Rendered
<1> QED
  BY <1>1, EndFrees, Rest DEF FwInv

\* validate and apply_lock: an update begins only when none is under way.
LEMMA UpdateStep ==
    ASSUME FwInv, NEW q \in FwReqs, NEW c \in Configs, UpdateFirewall(q, c)
    PROVE  FwInv'
<1>1. \A p \in FwReqs : fwReq[p].pc = "idle"
  BY DEF UpdateFirewall, FwInv, OneUpdate
<1>2. /\ DOMAIN fwReq' = FwReqs /\ fwReq'[q].pc = "batch"
      /\ \A p \in FwReqs : p # q => fwReq'[p].pc = "idle"
  BY <1>1 DEF UpdateFirewall, FwInv
<1> QED
  BY <1>2 DEF UpdateFirewall, FwAt, FwInv, OneUpdate, UpdateOwnsBatch, LoadedIsSaved, SavedIsGood

\* The batch file becomes that of the update that holds the lock.
LEMMA WriteStep ==
    ASSUME FwInv, NEW q \in FwReqs, WriteBatch(q)
    PROVE  FwInv'
<1>1. fwReq[q].pc = "batch" /\ fwLock = q /\ fwLock # NoHolder
  BY DEF WriteBatch, FwAt, FwInv, OneUpdate
<1>2. /\ DOMAIN fwReq' = FwReqs /\ fwReq'[q].pc = "nft" /\ fwReq'[q].cfg = fwReq[q].cfg
      /\ \A p \in FwReqs : p # q => fwReq'[p].pc = "idle"
  BY <1>1, Alone DEF WriteBatch, FwTo, FwInv
<1> QED
  BY <1>1, <1>2 DEF WriteBatch, FwAt, FwInv, OneUpdate, UpdateOwnsBatch, LoadedIsSaved,
                    SavedIsGood

\* nft: the update's own rules are on the host, or nothing has changed.
LEMMA LoadStep ==
    ASSUME FwInv, NEW q \in FwReqs, LoadBatch(q)
    PROVE  FwInv'
<1>1. /\ fwReq[q].pc = "nft" /\ fwLock = q /\ fwLock # NoHolder
      /\ fwBatch = Rendered(fwReq[q].cfg)
  BY DEF LoadBatch, FwAt, FwInv, OneUpdate, UpdateOwnsBatch
<1>2. CASE NftAccepts(fwBatch)
  <2>1. /\ DOMAIN fwReq' = FwReqs /\ fwReq'[q].pc = "save" /\ fwReq'[q].cfg = fwReq[q].cfg
        /\ \A p \in FwReqs : p # q => fwReq'[p].pc = "idle"
    <3>1. FwTo(q, "save")
      BY <1>2 DEF LoadBatch
    <3> QED
      BY <1>1, <3>1, Alone DEF FwTo, FwInv
  <2>2. /\ fwHost' = fwBatch /\ fwRaced' = FALSE
        /\ UNCHANGED <<fwSaved, fwBatch, fwLock, fwUp>> /\ fwUp = "serving"
    BY <1>2 DEF LoadBatch, FwAt
  <2>3. OneUpdate' /\ UpdateOwnsBatch'
    BY <1>1, <2>1, <2>2 DEF OneUpdate, UpdateOwnsBatch
  <2>4. LoadedIsSaved' /\ SavedIsGood'
    BY <1>1, <1>2, <2>1, <2>2 DEF FwInv, LoadedIsSaved, SavedIsGood, NftAccepts, Rendered
  <2> QED
    BY <2>1, <2>2, <2>3, <2>4 DEF FwInv
<1>3. CASE ~NftAccepts(fwBatch)
  <2>1. UNCHANGED <<fwSaved, fwRaced>> /\ FwEnd(q)
    BY <1>3 DEF LoadBatch
  <2> QED
    BY <1>1, <2>1, EndAtRest
<1> QED
  BY <1>2, <1>3

\* An update that ends before nft, or whose client leaves while nft runs, or whose record cannot
\* be written.
LEMMA EarlyEndStep ==
    ASSUME FwInv, NEW q \in FwReqs, WriteBatchFails(q) \/ ClientLeaves(q) \/ SaveFails(q)
    PROVE  FwInv'
<1>1. fwReq[q].pc # "idle" /\ FwEnd(q) /\ UNCHANGED <<fwSaved, fwRaced>>
  BY DEF WriteBatchFails, ClientLeaves, SaveFails, FwAt
<1> QED
  BY <1>1, EndAtRest

\* What an update saves nft has accepted, whether or not the client has left.
LEMMA SavedStep ==
    ASSUME FwInv, NEW q \in FwReqs, SaveRules(q) \/ ClientLeavesSaving(q)
    PROVE  FwInv'
<1>1. /\ fwReq[q].pc = "save" /\ FwEnd(q) /\ fwRaced' = fwRaced
      /\ fwSaved' \in {fwSaved, fwReq[q].cfg}
  BY DEF SaveRules, ClientLeavesSaving, FwAt
<1>2. NftAccepts(Rendered(fwReq[q].cfg)) /\ NftAccepts(Rendered(fwSaved))
  BY <1>1 DEF FwInv, LoadedIsSaved, SavedIsGood
<1>3. SavedIsGood'
  BY <1>1, <1>2 DEF SavedIsGood, NftAccepts, Rendered
<1> QED
  BY <1>1, <1>3, EndFrees, Rest DEF FwInv

\* An nft on its own changes the host under whatever update is under way.
LEMMA LateStep ==
    ASSUME FwInv, NEW b, LateNft(b)
    PROVE  FwInv'
<1>1. CASE NftAccepts(b)
  BY <1>1 DEF LateNft, FwInv, OneUpdate, UpdateOwnsBatch, LoadedIsSaved, SavedIsGood,
              NftAccepts, Rendered
<1>2. CASE ~NftAccepts(b)
  BY <1>2 DEF LateNft, FwInv, OneUpdate, UpdateOwnsBatch, LoadedIsSaved, SavedIsGood,
              NftAccepts, Rendered
<1> QED
  BY <1>1, <1>2

\* A process that dies takes its updates with it; the record stays.
LEMMA DownStep ==
    ASSUME FwInv, NEW h \in BOOLEAN, FwDown(h)
    PROVE  FwInv'
<1>1. DOMAIN fwReq' = FwReqs /\ \A p \in FwReqs : fwReq'[p].pc = "idle"
  BY DEF FwDown, IdleFw
<1>2. SavedIsGood'
  BY DEF FwDown, FwInv, SavedIsGood, NftAccepts, Rendered
<1> QED
  BY <1>1, <1>2, Rest DEF FwDown, FwInv

\* Before the first request no update is under way.
LEMMA Starting ==
    ASSUME FwInv, fwUp = "starting"
    PROVE  \A p \in FwReqs : fwReq[p].pc = "idle"
BY DEF FwInv, OneUpdate

\* apply_persisted, or its failure, leaves the record alone.
LEMMA ApplyStep ==
    ASSUME FwInv, ApplyPersisted \/ ApplyPersistedFails
    PROVE  FwInv'
<1>1. DOMAIN fwReq' = FwReqs /\ \A p \in FwReqs : fwReq'[p].pc = "idle"
  BY Starting DEF ApplyPersisted, ApplyPersistedFails, FwInv
<1>2. SavedIsGood' /\ fwRaced' \in BOOLEAN
  BY DEF ApplyPersisted, ApplyPersistedFails, FwInv, SavedIsGood, NftAccepts, Rendered
<1> QED
  BY <1>1, <1>2, Rest

LEMMA StutterStep ==
    ASSUME FwInv, UNCHANGED fwvars
    PROVE  FwInv'
BY DEF fwvars, FwInv, OneUpdate, UpdateOwnsBatch, LoadedIsSaved, SavedIsGood,
       NftAccepts, Rendered

\* Every step of an update, of a late nft, of a restart, keeps the invariant.
LEMMA FwStep == FwInv /\ [FwNext]_fwvars => FwInv'
<1> SUFFICES ASSUME FwInv, [FwNext]_fwvars PROVE FwInv'
  OBVIOUS
<1>1. ASSUME NEW q \in FwReqs, NEW c \in Configs, UpdateFirewall(q, c) PROVE FwInv'
  BY <1>1, UpdateStep
<1>2. ASSUME NEW q \in FwReqs, WriteBatch(q) PROVE FwInv'
  BY <1>2, WriteStep
<1>3. ASSUME NEW q \in FwReqs, WriteBatchFails(q) \/ ClientLeaves(q) \/ SaveFails(q) PROVE FwInv'
  BY <1>3, EarlyEndStep
<1>4. ASSUME NEW q \in FwReqs, LoadBatch(q) PROVE FwInv'
  BY <1>4, LoadStep
<1>5. ASSUME NEW q \in FwReqs, SaveRules(q) \/ ClientLeavesSaving(q) PROVE FwInv'
  BY <1>5, SavedStep
<1>6. ASSUME NEW b \in {fwLate, fwBatch}, LateNft(b) PROVE FwInv'
  BY <1>6, LateStep
<1>7. ASSUME NEW h \in BOOLEAN, FwDown(h) PROVE FwInv'
  BY <1>7, DownStep
<1> QED
  BY <1>1, <1>2, <1>3, <1>4, <1>5, <1>6, <1>7, ApplyStep, StutterStep DEF FwNext

-----------------------------------------------------------------------------

\* The inductive invariant of the firewall holds in every reachable state.
THEOREM FwInvariance == FwSpec => []FwInv
<1>1. FwInit => FwInv
  BY FwInitInv
<1>2. FwInv /\ [FwNext]_fwvars => FwInv'
  BY FwStep
<1> QED
  BY <1>1, <1>2, PTL DEF FwSpec

\* A start whose nft runs puts the host on the saved configuration, and an update that is reported
\* as done has its rules on the host unless a late nft came after it, for any number of updates,
\* dropped requests, failed writes and crashes (firewall.rs update, apply_persisted).
THEOREM FilterAlwaysAccepted == FwSpec => FilterIsTheAcceptedOne
<1> DEFINE P == /\ ApplyPersisted => fwHost' = Rendered(fwSaved)
                /\ \A q \in FwReqs : SaveRules(q) /\ ~fwRaced => fwHost = Rendered(fwSaved')
<1>1. FwInv /\ [FwNext]_fwvars => P \/ UNCHANGED fwvars
  <2> SUFFICES ASSUME FwInv PROVE P
    OBVIOUS
  <2>1. ApplyPersisted => fwHost' = Rendered(fwSaved)
    BY DEF ApplyPersisted, FwInv, SavedIsGood
  <2>2. ASSUME NEW q \in FwReqs, SaveRules(q), ~fwRaced PROVE fwHost = Rendered(fwSaved')
    BY <2>2 DEF SaveRules, FwAt, FwInv, LoadedIsSaved
  <2> QED
    BY <2>1, <2>2
<1>2. FwSpec => []FwInv /\ [][FwNext]_fwvars
  BY FwInvariance, PTL DEF FwSpec
<1> HIDE DEF P
<1>3. FwSpec => [][P]_fwvars
  BY <1>1, <1>2, PTL
<1> QED
  BY <1>3 DEF P, FilterIsTheAcceptedOne

-----------------------------------------------------------------------------
(* The certificate and the key: the inductive invariant.                   *)

IsMeta(m) == m = [num |-> m.num, due |-> m.due, error |-> m.error] /\ m.num \in Nat
IsTask(x) == /\ x = [pc |-> x.pc, left |-> x.left, tokens |-> x.tokens, num |-> x.num,
                     ok |-> x.ok, meta |-> x.meta]
             /\ x.ok \in BOOLEAN

\* A task past try_lock holds the mutex; a node that is down runs no task.
OneIssuance ==
    /\ \A i \in Issuers : issuer[i].pc \notin {"idle", "lock"} => issuing = i
    /\ stage = "down" => \A i \in Issuers : issuer[i].pc = "idle"

\* m does not describe a certificate that is on disk without its key.
Vouches(m) == m.num # NoPem /\ certFile = m.num => keyFile = certFile

\* How far a task is tells its number, newer than the one meta.json has until it is recorded,
\* and what it has put on disk.
Installing == {"cert", "fillcert", "key", "fillkey", "reload"}
TaskOk(x) ==
    /\ IsTask(x)
    /\ x.pc \in {"idle", "lock", "account", "authz"} => x.num = 0
    /\ x.num # 0 => x.num = issuedCount
    /\ x.pc \in Installing => x.num # 0 /\ meta.num < x.num
    /\ x.pc = "clear" /\ x.num # 0 => meta.num < x.num
    /\ x.ok => x.pc \in {"record", "fillmeta"} /\ x.num # 0
    /\ x.pc \in {"key", "fillkey"} => certFile = x.num
    /\ x.pc = "reload" \/ (x.pc = "record" /\ x.ok) => certFile = x.num /\ keyFile = x.num
    /\ x.pc = "fillmeta" => IsMeta(x.meta) /\ x.meta.num <= issuedCount /\ Vouches(x.meta)

AcmeInv ==
    /\ DOMAIN issuer = Issuers
    /\ issuedCount \in Nat /\ IsMeta(meta) /\ meta.num <= issuedCount
    /\ OneIssuance /\ \A i \in Issuers : TaskOk(issuer[i])
    /\ Vouches(meta)

HIDE FwAssumption
USE AcmeAssumption

-----------------------------------------------------------------------------

LEMMA Idle ==
    /\ IsTask(IdleIssuer) /\ IdleIssuer.pc = "idle" /\ IdleIssuer.num = 0 /\ IdleIssuer.ok = FALSE
    /\ IsMeta(NoMeta) /\ NoMeta.num = 0
BY DEF IdleIssuer, NoMeta, IsTask, IsMeta, NoPem

LEMMA IdleOk == ASSUME NEW x, x = IdleIssuer PROVE TaskOk(x)
BY Idle DEF TaskOk, Installing

\* A new node has no files and runs no task.
LEMMA AcmeInitInv == AcmeInit => AcmeInv
<1> SUFFICES ASSUME AcmeInit PROVE AcmeInv
  OBVIOUS
<1>1. DOMAIN issuer = Issuers /\ \A i \in Issuers : issuer[i] = IdleIssuer
  BY DEF AcmeInit
<1>2. meta = NoMeta /\ issuedCount = 0
  BY DEF AcmeInit
<1> QED
  BY <1>1, <1>2, Idle, IdleOk DEF AcmeInv, OneIssuance, Vouches, NoPem

\* While a task is past try_lock the others are not, and hold no number.
LEMMA OthersWait ==
    ASSUME AcmeInv, NEW i \in Issuers, issuer[i].pc \notin {"idle", "lock"},
           NEW j \in Issuers, j # i
    PROVE  issuer[j].pc \in {"idle", "lock"} /\ issuer[j].num = 0 /\ ~issuer[j].ok /\ IsTask(issuer[j])
BY DEF AcmeInv, OneIssuance, TaskOk, IsTask

\* A step of the one task that holds the mutex, which leaves the task in x.
LEMMA HolderStep ==
    ASSUME AcmeInv, stage # "down", stage' = stage, NEW i \in Issuers, NEW x,
           issuer[i].pc \notin {"idle", "lock"},
           issuer' = [issuer EXCEPT ![i] = x],
           x.pc = "idle" \/ issuing' = issuing,
           issuedCount' \in Nat, IsMeta(meta'), meta'.num <= issuedCount',
           TaskOk(x)', Vouches(meta)'
    PROVE  AcmeInv'
<1>1. /\ DOMAIN issuer' = Issuers /\ issuer'[i] = x /\ issuing = i
      /\ \A j \in Issuers : j # i => issuer'[j] = issuer[j]
  BY DEF AcmeInv, OneIssuance
<1>2. ASSUME NEW j \in Issuers, j # i PROVE TaskOk(issuer[j])' /\ issuer'[j].pc \in {"idle", "lock"}
  <2>1. issuer[j].pc \in {"idle", "lock"} /\ issuer[j].num = 0 /\ ~issuer[j].ok /\ IsTask(issuer[j])
    BY <1>2, OthersWait
  <2> QED
    BY <1>1, <1>2, <2>1 DEF TaskOk, IsTask, Installing
<1>3. TaskOk(issuer[i])'
  BY <1>1
<1>4. OneIssuance'
  BY <1>1, <1>2 DEF OneIssuance
<1> QED
  BY <1>1, <1>2, <1>3, <1>4 DEF AcmeInv

\* A task that has not taken the mutex yet: it is scheduled or triggered, and tries the mutex.
LEMMA StartStep ==
    ASSUME AcmeInv, NEW i \in Issuers, SchedulerTick(i) \/ TriggerIssue(i) \/ TryLock(i)
    PROVE  AcmeInv'
<1> DEFINE q == issuer[i]
<1>1. /\ stage # "down" /\ q.pc \in {"idle", "lock"}
      /\ UNCHANGED <<certFile, keyFile, meta, issuedCount, stage>>
  BY DEF SchedulerTick, TriggerIssue, TryLock, AcmeAt, pems, serving, counters
<1>2. \E pc \in {"lock", "idle", "account"} :
         /\ AcmeTo(i, pc)
         /\ \/ pc # "account" /\ issuing' = issuing
            \/ pc = "account" /\ issuing = NoIssuer /\ issuing' = i
  BY DEF SchedulerTick, TriggerIssue, TryLock
<1>3. PICK pc \in {"lock", "idle", "account"} :
         /\ AcmeTo(i, pc)
         /\ \/ pc # "account" /\ issuing' = issuing
            \/ pc = "account" /\ issuing = NoIssuer /\ issuing' = i
  BY <1>2
<1>4. /\ DOMAIN issuer' = Issuers /\ issuer'[i] = [q EXCEPT !.pc = pc]
      /\ \A j \in Issuers : j # i => issuer'[j] = issuer[j]
  BY <1>3 DEF AcmeInv, AcmeTo
<1>5. IsTask(q) /\ q.num = 0 /\ q.ok = FALSE
  BY <1>1 DEF AcmeInv, TaskOk, IsTask
<1>6. ASSUME NEW x, x = [q EXCEPT !.pc = pc] PROVE IsTask(x) /\ x.pc = pc /\ x.num = 0 /\ x.ok = FALSE
  <2> HIDE DEF q
  <2> QED
    BY <1>5, <1>6 DEF IsTask
<1>7. IsTask(issuer'[i]) /\ issuer'[i].pc = pc /\ issuer'[i].num = 0 /\ issuer'[i].ok = FALSE
  BY <1>4, <1>6
<1>8. TaskOk(issuer[i])'
  BY <1>7 DEF TaskOk, Installing, IsTask
<1>9. ASSUME NEW j \in Issuers, j # i PROVE TaskOk(issuer[j])'
  BY <1>1, <1>4, <1>9 DEF AcmeInv, TaskOk, IsTask, IsMeta, Vouches
<1>10. OneIssuance'
  BY <1>1, <1>3, <1>4, <1>7 DEF AcmeInv, OneIssuance
<1>11. IsMeta(meta)' /\ Vouches(meta)'
  BY <1>1 DEF AcmeInv, IsMeta, Vouches
<1> QED
  BY <1>1, <1>4, <1>8, <1>9, <1>10, <1>11 DEF AcmeInv

\* A task that holds the mutex moves on, with the files and meta.json as they are.
LEMMA MoveStep ==
    ASSUME AcmeInv, stage # "down", NEW i \in Issuers, NEW pc, AcmeTo(i, pc),
           issuer[i].pc \notin {"idle", "lock"}, pc \notin {"idle", "lock"},
           UNCHANGED <<certFile, keyFile, meta, issuedCount, stage, issuing>>,
           \A x : IsTask(x) /\ x.pc = pc /\ x.num = issuer[i].num /\ x.ok = issuer[i].ok => TaskOk(x)
    PROVE  AcmeInv'
<1> DEFINE q == issuer[i]
           x == [q EXCEPT !.pc = pc]
<1>1. IsTask(q)
  BY DEF AcmeInv, TaskOk
<1>2. ASSUME NEW y, y = x PROVE IsTask(y) /\ y.pc = pc /\ y.num = q.num /\ y.ok = q.ok
  <2> HIDE DEF q
  <2> QED
    BY <1>1, <1>2 DEF IsTask
<1>3. PICK y : y = x
  OBVIOUS
<1>4. issuer' = [issuer EXCEPT ![i] = y] /\ TaskOk(y) /\ y.pc = pc
  BY <1>2, <1>3 DEF AcmeTo, AcmeInv
<1> HIDE DEF x
<1>5. TaskOk(y)'
  BY <1>4 DEF TaskOk, IsTask, IsMeta, Vouches
<1>6. issuedCount' \in Nat /\ IsMeta(meta') /\ meta'.num <= issuedCount' /\ Vouches(meta)'
  BY DEF AcmeInv, IsMeta, Vouches
<1> QED
  BY <1>4, <1>5, <1>6, HolderStep

\* A task that holds the mutex and does not install.
LEMMA OrderStep ==
    ASSUME AcmeInv, NEW i \in Issuers,
           \/ PlaceOrder(i) \/ OrderFails(i)
           \/ \E d \in Domains : AuthorizationValid(i, d) \/ AnswerChallenge(i, d)
           \/ AuthorizationUnexpected(i) \/ Finalize(i) \/ FinalizeFails(i) \/ ClearTokens(i)
    PROVE  AcmeInv'
<1> DEFINE q == issuer[i]
<1>1. /\ stage # "down" /\ q.pc \in {"account", "authz", "clear"}
      /\ UNCHANGED <<certFile, keyFile, meta, stage, issuing>>
  BY DEF PlaceOrder, OrderFails, AuthorizationValid, AnswerChallenge, AuthorizationUnexpected,
         Finalize, FinalizeFails, ClearTokens, AcmeAt, pems, serving
<1>2. /\ TaskOk(q) /\ DOMAIN issuer = Issuers /\ issuedCount \in Nat /\ IsMeta(meta)
      /\ meta.num <= issuedCount /\ Vouches(meta)
  BY DEF AcmeInv
<1>3. q.ok = FALSE /\ IsTask(q)
  BY <1>1, <1>2 DEF TaskOk, IsTask
<1>4. CASE OrderFails(i) \/ AuthorizationUnexpected(i) \/ FinalizeFails(i)
  <2>1. PICK pc \in {"record", "clear"} : AcmeTo(i, pc) /\ (pc = "clear" => q.pc = "authz")
    BY <1>4 DEF OrderFails, AuthorizationUnexpected, FinalizeFails, AcmeAt
  <2>2. issuedCount' = issuedCount
    BY <1>4 DEF OrderFails, AuthorizationUnexpected, FinalizeFails, counters
  <2>3. ASSUME NEW x, IsTask(x), x.pc = pc, x.num = q.num, x.ok = q.ok PROVE TaskOk(x)
    BY <1>1, <1>2, <1>3, <2>1, <2>3 DEF TaskOk, Installing
  <2> QED
    BY <1>1, <2>1, <2>2, <2>3, MoveStep
<1>5. CASE ClearTokens(i)
  <2> DEFINE pc == IF q.num = 0 THEN "record" ELSE "cert"
  <2>1. AcmeTo(i, pc) /\ issuedCount' = issuedCount /\ q.pc = "clear"
    BY <1>5 DEF ClearTokens, counters, AcmeAt
  <2>2. ASSUME NEW x, IsTask(x), x.pc = pc, x.num = q.num, x.ok = q.ok PROVE TaskOk(x)
    BY <1>2, <1>3, <2>1, <2>2 DEF TaskOk, Installing
  <2>3. pc \notin {"idle", "lock"}
    OBVIOUS
  <2> HIDE DEF pc
  <2> QED
    BY <1>1, <2>1, <2>2, <2>3, MoveStep
<1>6. ASSUME NEW x, issuer' = [issuer EXCEPT ![i] = x], IsTask(x), x.pc = "authz", x.num = 0,
             x.ok = FALSE, issuedCount' = issuedCount
      PROVE  AcmeInv'
  <2>1. TaskOk(x)'
    BY <1>6 DEF TaskOk, Installing, IsTask
  <2>2. IsMeta(meta') /\ Vouches(meta)'
    BY <1>1, <1>2 DEF IsMeta, Vouches
  <2> QED
    BY <1>1, <1>2, <1>6, <2>1, <2>2, HolderStep
<1>7. CASE PlaceOrder(i) \/ \E d \in Domains : AuthorizationValid(i, d) \/ AnswerChallenge(i, d)
  <2>1. q.num = 0 /\ issuedCount' = issuedCount
    BY <1>1, <1>2, <1>7 DEF TaskOk, PlaceOrder, AuthorizationValid, AnswerChallenge, AcmeAt, counters
  <2>2. \E left, tokens : issuer' = [issuer EXCEPT ![i] = [q EXCEPT !.pc = "authz", !.left = left, !.tokens = tokens]]
    <3>1. ASSUME NEW left, NEW x, x = [q EXCEPT !.pc = "authz", !.left = left]
          PROVE  x = [q EXCEPT !.pc = "authz", !.left = left, !.tokens = q.tokens]
      <4> HIDE DEF q
      <4> QED
        BY <1>3, <3>1 DEF IsTask
    <3>2. ASSUME NEW left, NEW tokens, NEW x, x = [q EXCEPT !.left = left, !.tokens = tokens], q.pc = "authz"
          PROVE  x = [q EXCEPT !.pc = "authz", !.left = left, !.tokens = tokens]
      <4> HIDE DEF q
      <4> QED
        BY <1>3, <3>2 DEF IsTask
    <3>3. ASSUME NEW left, NEW x, x = [q EXCEPT !.left = left], q.pc = "authz"
          PROVE  x = [q EXCEPT !.pc = "authz", !.left = left, !.tokens = q.tokens]
      <4> HIDE DEF q
      <4> QED
        BY <1>3, <3>3 DEF IsTask
    <3>4. CASE PlaceOrder(i)
      <4>1. issuer' = [issuer EXCEPT ![i] = [q EXCEPT !.pc = "authz", !.left = Domains]]
        BY <1>2, <3>4 DEF PlaceOrder
      <4> QED
        <5>1. issuer' = [issuer EXCEPT ![i] = [q EXCEPT !.pc = "authz", !.left = Domains, !.tokens = q.tokens]]
          BY <3>1, <4>1
        <5> QED
          BY <5>1
    <3>5. ASSUME NEW d \in Domains, AuthorizationValid(i, d)
          PROVE  \E left, tokens : issuer' = [issuer EXCEPT ![i] = [q EXCEPT !.pc = "authz", !.left = left, !.tokens = tokens]]
      <4> DEFINE left == q.left \ {d}
      <4>1. issuer' = [issuer EXCEPT ![i] = [q EXCEPT !.left = left]] /\ q.pc = "authz"
        BY <1>2, <3>5 DEF AuthorizationValid, AcmeAt
      <4> HIDE DEF left
      <4> QED
        <5>1. issuer' = [issuer EXCEPT ![i] = [q EXCEPT !.pc = "authz", !.left = left, !.tokens = q.tokens]]
          BY <3>3, <4>1
        <5> QED
          BY <5>1
    <3>6. ASSUME NEW d \in Domains, AnswerChallenge(i, d)
          PROVE  \E left, tokens : issuer' = [issuer EXCEPT ![i] = [q EXCEPT !.pc = "authz", !.left = left, !.tokens = tokens]]
      <4> DEFINE left == q.left \ {d}
                 tokens == q.tokens \cup {<<i, d>>}
      <4>1. issuer' = [issuer EXCEPT ![i] = [q EXCEPT !.left = left, !.tokens = tokens]] /\ q.pc = "authz"
        BY <1>2, <3>6 DEF AnswerChallenge, AcmeAt
      <4> HIDE DEF left, tokens
      <4> QED
        BY <3>2, <4>1
    <3> QED
      BY <1>7, <3>4, <3>5, <3>6
  <2>3. PICK left, tokens : issuer' = [issuer EXCEPT ![i] = [q EXCEPT !.pc = "authz", !.left = left, !.tokens = tokens]]
    BY <2>2
  <2> DEFINE x == [q EXCEPT !.pc = "authz", !.left = left, !.tokens = tokens]
  <2>4. IsTask(x) /\ x.pc = "authz" /\ x.num = 0 /\ x.ok = FALSE
    <3>1. ASSUME NEW y, y = x PROVE IsTask(y) /\ y.pc = "authz" /\ y.num = 0 /\ y.ok = FALSE
      <4> HIDE DEF q
      <4> QED
        BY <1>3, <2>1, <3>1 DEF IsTask
    <3> QED
      BY <3>1
  <2> HIDE DEF x
  <2> QED
    BY <1>6, <2>1, <2>3, <2>4 DEF x
<1>8. CASE Finalize(i)
  <2> DEFINE n == issuedCount + 1
             x == [q EXCEPT !.pc = "clear", !.num = n]
  <2>1. issuedCount' = n /\ issuer' = [issuer EXCEPT ![i] = x]
    BY <1>2, <1>8 DEF Finalize
  <2>2. n \in Nat /\ n # 0 /\ meta.num < n /\ meta.num <= n
    BY <1>2 DEF IsMeta
  <2> HIDE DEF n
  <2>0. PICK y : y = x
    OBVIOUS
  <2>3. IsTask(y) /\ y.pc = "clear" /\ y.num = n /\ y.ok = FALSE /\ issuer' = [issuer EXCEPT ![i] = y]
    <3>1. issuer' = [issuer EXCEPT ![i] = y]
      BY <2>0, <2>1
    <3> HIDE DEF q
    <3> QED
      BY <1>3, <2>0, <3>1 DEF IsTask
  <2> HIDE DEF x
  <2>4. TaskOk(y)'
    BY <1>1, <2>1, <2>2, <2>3 DEF TaskOk, Installing, IsTask
  <2>5. IsMeta(meta') /\ Vouches(meta)'
    BY <1>1, <1>2 DEF IsMeta, Vouches
  <2> QED
    BY <1>1, <2>1, <2>2, <2>3, <2>4, <2>5, HolderStep
<1> QED
  BY <1>4, <1>5, <1>7, <1>8

\* The four writes of an installation: the certificate is newer than the one meta.json has.
LEMMA InstallStep ==
    ASSUME AcmeInv, NEW i \in Issuers, EmptyCert(i) \/ FillCert(i) \/ EmptyKey(i) \/ FillKey(i)
    PROVE  AcmeInv'
<1> DEFINE q == issuer[i]
<1>1. /\ stage # "down" /\ q.pc \in {"cert", "fillcert", "key", "fillkey"}
      /\ UNCHANGED <<meta, issuedCount, stage, issuing>>
  BY DEF EmptyCert, FillCert, EmptyKey, FillKey, AcmeAt, serving, counters
<1>2. /\ TaskOk(q) /\ DOMAIN issuer = Issuers /\ issuedCount \in Nat /\ IsMeta(meta)
      /\ meta.num <= issuedCount /\ Vouches(meta)
  BY DEF AcmeInv
<1>3. q.ok = FALSE /\ IsTask(q) /\ q.num = issuedCount /\ q.num # 0 /\ meta.num < q.num /\ meta.num \in Nat
  BY <1>1, <1>2 DEF TaskOk, IsTask, IsMeta, Installing
<1>4. ASSUME NEW pc \in {"fillcert", "key", "fillkey", "reload"}, AcmeTo(i, pc),
             pc \in {"key", "fillkey", "reload"} => certFile' = q.num,
             pc = "reload" => keyFile' = q.num, certFile' # meta.num
      PROVE  AcmeInv'
  <2> DEFINE x == [q EXCEPT !.pc = pc]
  <2>0. PICK y : y = x
    OBVIOUS
  <2>1. IsTask(y) /\ y.pc = pc /\ y.num = q.num /\ y.ok = FALSE
    <3> HIDE DEF q
    <3> QED
      BY <1>3, <2>0 DEF IsTask
  <2>2. issuer' = [issuer EXCEPT ![i] = y]
    BY <1>2, <1>4, <2>0 DEF AcmeTo
  <2> HIDE DEF x
  <2>3. TaskOk(y)'
    BY <1>1, <1>3, <1>4, <2>1 DEF TaskOk, Installing, IsTask
  <2>4. IsMeta(meta') /\ Vouches(meta)'
    BY <1>1, <1>2, <1>4 DEF IsMeta, Vouches
  <2> QED
    BY <1>1, <1>2, <2>1, <2>2, <2>3, <2>4, HolderStep
<1>5. CASE EmptyCert(i)
  BY <1>3, <1>4, <1>5 DEF EmptyCert, Partial
<1>6. CASE FillCert(i)
  BY <1>3, <1>4, <1>6 DEF FillCert
<1>7. CASE EmptyKey(i)
  <2>1. certFile = q.num
    BY <1>2, <1>7 DEF EmptyKey, AcmeAt, TaskOk
  <2> QED
    BY <1>3, <1>4, <1>7, <2>1 DEF EmptyKey
<1>8. CASE FillKey(i)
  <2>1. certFile = q.num
    BY <1>2, <1>8 DEF FillKey, AcmeAt, TaskOk
  <2> QED
    BY <1>3, <1>4, <1>8, <2>1 DEF FillKey
<1> QED
  BY <1>5, <1>6, <1>7, <1>8

\* An installation that fails leaves the files as they are; meta.json does not describe them.
LEMMA InstallFailsStep ==
    ASSUME AcmeInv, NEW i \in Issuers, InstallFails(i)
    PROVE  AcmeInv'
<1>1. /\ stage # "down" /\ issuer[i].pc \in {"cert", "fillcert", "key", "fillkey"} /\ AcmeTo(i, "record")
      /\ UNCHANGED <<certFile, keyFile, meta, issuedCount, stage, issuing>>
  BY DEF InstallFails, pems, serving, counters
<1>2. TaskOk(issuer[i]) /\ issuer[i].ok = FALSE
  BY <1>1 DEF AcmeInv, TaskOk, IsTask
<1>3. ASSUME NEW x, IsTask(x), x.pc = "record", x.num = issuer[i].num, x.ok = issuer[i].ok PROVE TaskOk(x)
  BY <1>2, <1>3 DEF TaskOk, Installing
<1> QED
  BY <1>1, <1>3, MoveStep

\* The pair is on disk; whatever becomes of the reload, the issuance has succeeded.
LEMMA ReloadStep ==
    ASSUME AcmeInv, NEW i \in Issuers, ReloadListener(i)
    PROVE  AcmeInv'
<1> DEFINE q == issuer[i]
           x == [q EXCEPT !.pc = "record", !.ok = TRUE]
<1>1. /\ stage # "down" /\ q.pc = "reload" /\ issuer' = [issuer EXCEPT ![i] = x]
      /\ UNCHANGED <<certFile, keyFile, meta, issuedCount, stage, issuing>>
  BY DEF ReloadListener, AcmeAt, pems, counters, AcmeInv
<1>2. /\ TaskOk(q) /\ issuedCount \in Nat /\ IsMeta(meta) /\ meta.num <= issuedCount /\ Vouches(meta)
  BY DEF AcmeInv
<1>3. IsTask(q) /\ q.num = issuedCount /\ q.num # 0 /\ certFile = q.num /\ keyFile = q.num
  BY <1>1, <1>2 DEF TaskOk, Installing
<1>0. PICK y : y = x
  OBVIOUS
<1>4. IsTask(y) /\ y.pc = "record" /\ y.num = q.num /\ y.ok = TRUE
  <2> HIDE DEF q
  <2> QED
    BY <1>0, <1>3 DEF IsTask
<1>7. issuer' = [issuer EXCEPT ![i] = y]
  BY <1>0, <1>1
<1> HIDE DEF x
<1>5. TaskOk(y)'
  BY <1>1, <1>3, <1>4 DEF TaskOk, Installing, IsTask
<1>6. IsMeta(meta') /\ Vouches(meta)'
  BY <1>1, <1>2 DEF IsMeta, Vouches
<1> QED
  BY <1>1, <1>2, <1>4, <1>5, <1>6, <1>7, HolderStep

\* The outcome is taken down, and meta.json emptied.
LEMMA RecordStep ==
    ASSUME AcmeInv, NEW i \in Issuers, RecordOutcome(i)
    PROVE  AcmeInv'
<1> DEFINE q == issuer[i]
           m == IF q.ok THEN [num |-> q.num, due |-> acmeNow + LifeTime, error |-> FALSE]
                ELSE [meta EXCEPT !.error = TRUE]
           x == [q EXCEPT !.pc = "fillmeta", !.meta = m]
<1>1. /\ stage # "down" /\ q.pc = "record" /\ meta' = NoMeta
      /\ UNCHANGED <<certFile, keyFile, issuedCount, stage, issuing>>
  BY DEF RecordOutcome, AcmeAt, serving, counters
<1>2. issuer' = [issuer EXCEPT ![i] = x]
  BY DEF RecordOutcome, AcmeInv
<1>3. /\ TaskOk(q) /\ issuedCount \in Nat /\ IsMeta(meta) /\ meta.num <= issuedCount /\ Vouches(meta)
  BY DEF AcmeInv
<1>4. IsTask(q) /\ (q.ok => q.num # 0 /\ certFile = q.num /\ keyFile = q.num) /\ (q.num # 0 => q.num = issuedCount)
  BY <1>1, <1>3 DEF TaskOk
<1>5. IsMeta(m) /\ m.num <= issuedCount /\ Vouches(m)
  <2>1. CASE q.ok
    BY <1>3, <1>4, <2>1 DEF IsMeta, Vouches
  <2>2. CASE ~q.ok
    BY <1>3, <2>2 DEF IsMeta, Vouches
  <2> QED
    BY <2>1, <2>2
<1> HIDE DEF m
<1>0. PICK y, n, o, k : y = x /\ n = q.num /\ o = q.ok /\ k = m
  OBVIOUS
<1>6. IsTask(y) /\ y.pc = "fillmeta" /\ y.num = n /\ y.ok = o /\ y.meta = k
  <2> HIDE DEF q
  <2> QED
    BY <1>0, <1>4 DEF IsTask
<1>9. issuer' = [issuer EXCEPT ![i] = y]
  BY <1>0, <1>2
<1>10. (o => n # 0) /\ (n # 0 => n = issuedCount) /\ IsMeta(k) /\ k.num <= issuedCount /\ Vouches(k)
  BY <1>0, <1>4, <1>5
<1> HIDE DEF x
<1>7. TaskOk(y)'
  <2>1. IsMeta(y.meta) /\ y.meta.num <= issuedCount' /\ Vouches(y.meta)'
    BY <1>1, <1>6, <1>10 DEF Vouches
  <2> QED
    BY <1>1, <1>6, <1>10, <2>1 DEF TaskOk, Installing, IsTask
<1>8. IsMeta(meta') /\ meta'.num <= issuedCount' /\ issuedCount' \in Nat /\ Vouches(meta)'
  <2>1. IsMeta(meta') /\ meta'.num = 0
    BY <1>1, Idle
  <2> QED
    BY <1>1, <1>3, <2>1 DEF Vouches, NoPem
<1> QED
  BY <1>1, <1>3, <1>6, <1>7, <1>8, <1>9, HolderStep

\* The rest of meta.json is written, or is not, and the mutex is free again.
LEMMA ReleaseStep ==
    ASSUME AcmeInv, NEW i \in Issuers, WriteMeta(i) \/ RecordFails(i)
    PROVE  AcmeInv'
<1> DEFINE q == issuer[i]
<1>1. /\ stage # "down" /\ q.pc \in {"account", "record", "fillmeta"} /\ Release(i)
      /\ UNCHANGED <<certFile, keyFile, issuedCount, stage>>
  BY DEF WriteMeta, RecordFails, AcmeAt, pems, serving, counters
<1>2. issuer' = [issuer EXCEPT ![i] = IdleIssuer] /\ IdleIssuer.pc = "idle"
  BY <1>1, Idle DEF Release
<1>3. /\ TaskOk(q) /\ issuedCount \in Nat /\ IsMeta(meta) /\ meta.num <= issuedCount /\ Vouches(meta)
  BY DEF AcmeInv
<1>4. IsMeta(meta') /\ meta'.num <= issuedCount /\ Vouches(meta)'
  <2>1. CASE WriteMeta(i)
    <3>1. meta' = q.meta /\ q.pc = "fillmeta"
      BY <2>1 DEF WriteMeta, AcmeAt
    <3>2. IsMeta(q.meta) /\ q.meta.num <= issuedCount /\ Vouches(q.meta)
      BY <1>3, <3>1 DEF TaskOk
    <3> QED
      BY <1>1, <3>1, <3>2 DEF Vouches
  <2>2. CASE RecordFails(i)
    BY <1>1, <1>3, <2>2 DEF RecordFails, pems, Vouches
  <2> QED
    BY <2>1, <2>2
<1>5. TaskOk(IdleIssuer)'
  <2>1. IdleIssuer' = IdleIssuer
    BY DEF IdleIssuer, NoMeta, NoPem
  <2> QED
    BY <1>1, <2>1, Idle DEF TaskOk, Installing, IsTask
<1> QED
  BY <1>1, <1>2, <1>3, <1>4, <1>5, HolderStep

\* The process ends, by a crash or because the pair does not load: the files stay.
LEMMA AcmeCrashStep ==
    ASSUME AcmeInv, AcmeCrash \/ BootFails
    PROVE  AcmeInv'
<1>1. /\ DOMAIN issuer' = Issuers /\ \A i \in Issuers : issuer'[i] = IdleIssuer
      /\ UNCHANGED <<certFile, keyFile, meta, issuedCount>> /\ stage' = "down"
  BY DEF AcmeCrash, BootFails, ProcessEnds, pems
<1>2. \A i \in Issuers : TaskOk(issuer[i])' /\ issuer'[i].pc = "idle"
  BY <1>1, Idle DEF TaskOk, Installing, IsTask
<1>3. IsMeta(meta)' /\ Vouches(meta)'
  BY <1>1 DEF AcmeInv, IsMeta, Vouches
<1> QED
  BY <1>1, <1>2, <1>3 DEF AcmeInv, OneIssuance

\* A step of main that does not end it, of the configuration, or of the clock.
LEMMA AcmeOtherStep ==
    ASSUME AcmeInv,
           UNCHANGED <<certFile, keyFile, meta, issuing, issuer, issuedCount>>,
           stage' # "down" \/ stage' = stage
    PROVE  AcmeInv'
<1>1. \A i \in Issuers : TaskOk(issuer[i])'
  BY DEF AcmeInv, TaskOk, IsTask, IsMeta, Vouches
<1> QED
  BY <1>1 DEF AcmeInv, OneIssuance, IsMeta, Vouches

\* Every step keeps the invariant.
LEMMA AcmeStepInv == AcmeInv /\ [AcmeNext]_acmevars => AcmeInv'
<1> SUFFICES ASSUME AcmeInv, [AcmeNext]_acmevars PROVE AcmeInv'
  OBVIOUS
<1>1. ASSUME NEW on \in BOOLEAN, UpdateConfig(on) PROVE AcmeInv'
  BY <1>1, AcmeOtherStep DEF UpdateConfig, pems, serving
<1>2. ASSUME AcmeTick \/ UNCHANGED acmevars PROVE AcmeInv'
  BY <1>2, AcmeOtherStep DEF AcmeTick, acmevars, pems, serving
<1>3. ASSUME NEW i \in Issuers, IssuerStep(i) PROVE AcmeInv'
  BY <1>3, StartStep, OrderStep, InstallStep, InstallFailsStep, ReloadStep, RecordStep, ReleaseStep
     DEF IssuerStep
<1>4. ASSUME NEW i \in Issuers, SchedulerTick(i) \/ TriggerIssue(i) PROVE AcmeInv'
  BY <1>4, StartStep
<1>5. ASSUME AcmeBoot \/ ChoosePair \/ ReadBootCert \/ ReadBootKey \/ SetReloadHandle PROVE AcmeInv'
  BY <1>5, AcmeOtherStep
     DEF AcmeBoot, ChoosePair, ReadBootCert, ReadBootKey, SetReloadHandle, Boot, pems, counters
<1> QED
  BY <1>1, <1>2, <1>3, <1>4, <1>5, AcmeCrashStep DEF AcmeNext, BootStep

\* The certificate that meta.json describes is on disk with its own key, or is no longer on disk,
\* through overlapping issuances, failed and half-written files, crashes and restarts:
\* PairFromOneIssuance, for any number of triggers beside the scheduler.
THEOREM PairsAreFromOneIssuance == AcmeSpec => []PairFromOneIssuance
<1>1. AcmeInv => PairFromOneIssuance
  BY DEF AcmeInv, Vouches, PairFromOneIssuance
<1> QED
  BY <1>1, AcmeInitInv, AcmeStepInv, PTL DEF AcmeSpec

-----------------------------------------------------------------------------
(* The image library: ListedFilesAreWhole.                                 *)

\* What a job has written, by how far it is: nothing before its file is open, no more than the
\* maximum while the body streams in, and the whole body when it is about to be renamed.
WrittenSoFar(q) ==
    CASE q.pc \in {"new", "request", "open"} -> q.written = 0
      [] q.pc = "stream" -> q.written \in 0..MaxUpload
      [] q.pc = "rename" -> q.written \in 1..MaxUpload /\ q.written = q.body
      [] OTHER -> TRUE

LibInv ==
    /\ DOMAIN jobs = Jobs
    /\ DOMAIN libFiles = LibNames
    /\ \A j \in Jobs : WrittenSoFar(jobs[j])
    /\ ListedFilesAreWhole

HIDE AcmeAssumption
USE LibAssumption

\* An empty library, and no job that has begun.
LEMMA LibInitInv == LibInit => LibInv
BY DEF LibInit, LibInv, WrittenSoFar, NewJob, NoFile, ListedFilesAreWhole

\* A job that has ended, one way or the other, has no file to rename.
LEMMA EndedJob ==
    ASSUME DOMAIN jobs = Jobs, NEW j \in Jobs, NEW out, Ended(j, out)
    PROVE  /\ DOMAIN jobs' = Jobs
           /\ jobs'[j].pc \in {"finish", "over"}
           /\ \A k \in Jobs : k # j => jobs'[k] = jobs[k]
BY DEF Ended, OverJob, NewJob

\* A step of one job that leaves the files alone.
LEMMA JobOnly ==
    ASSUME LibInv, NEW j \in Jobs, libFiles' = libFiles, DOMAIN jobs' = Jobs,
           \A k \in Jobs : k # j => jobs'[k] = jobs[k], WrittenSoFar(jobs'[j])
    PROVE  LibInv'
<1>1. \A k \in Jobs : WrittenSoFar(jobs'[k])
  BY DEF LibInv
<1> QED
  BY <1>1 DEF LibInv, ListedFilesAreWhole, WrittenSoFar

\* A job begins, asks, or moves on to opening its file.
LEMMA AskStep ==
    ASSUME LibInv, NEW j \in Jobs, NEW n, NEW b,
           \/ StartFetch(j, n, b)
           \/ BeginUpload(j, n, b)
           \/ Redirected(j)
    PROVE  LibInv'
<1>1. /\ DOMAIN jobs' = Jobs
      /\ jobs'[j].pc \in {"request", "open"} /\ jobs'[j].written = 0
      /\ \A k \in Jobs : k # j => jobs'[k] = jobs[k]
  <2>1. CASE StartFetch(j, n, b)
    BY <2>1 DEF LibInv, StartFetch, NewJob
  <2>2. CASE BeginUpload(j, n, b)
    BY <2>2 DEF LibInv, BeginUpload, NewJob
  <2>3. CASE Redirected(j)
    <3>1. jobs[j].pc = "request" /\ jobs[j].written = 0
      BY <2>3 DEF LibInv, WrittenSoFar, Redirected, LibAt
    <3> QED
      BY <2>3, <3>1 DEF LibInv, Redirected
  <2> QED
    BY <2>1, <2>2, <2>3
<1>2. libFiles' = libFiles
  BY DEF StartFetch, BeginUpload, Redirected
<1> QED
  BY <1>1, <1>2, JobOnly DEF WrittenSoFar

\* A job ends without a file.
LEMMA FailStep ==
    ASSUME LibInv, NEW j \in Jobs,
           \/ FetchFails(j)
           \/ OpenFails(j)
           \/ StreamFails(j)
           \/ RenameFails(j)
           \/ FinishFetch(j)
           \/ LibHangUp(j)
    PROVE  LibInv'
<1>1. libFiles' = libFiles
  BY DEF FetchFails, OpenFails, StreamFails, RenameFails, FinishFetch, LibHangUp
<1>2. CASE Ended(j, "failed")
  BY <1>1, <1>2, EndedJob, JobOnly DEF LibInv, WrittenSoFar
<1>3. CASE jobs' = [jobs EXCEPT ![j] = OverJob]
  <2>1. /\ DOMAIN jobs' = Jobs
        /\ jobs'[j].pc = "over"
        /\ \A k \in Jobs : k # j => jobs'[k] = jobs[k]
    BY <1>3 DEF LibInv, OverJob, NewJob
  <2> QED
    BY <1>1, <2>1, JobOnly DEF WrittenSoFar
<1> QED
  BY <1>2, <1>3 DEF FetchFails, OpenFails, StreamFails, RenameFails, FinishFetch, LibHangUp

\* A success response: the job opens its file, or is refused.
LEMMA RespondStep ==
    ASSUME LibInv, NEW j \in Jobs, Responded(j)
    PROVE  LibInv'
<1>1. libFiles' = libFiles
  BY DEF Responded
<1>2. CASE LibTo(j, "open")
  <2>1. /\ DOMAIN jobs' = Jobs
        /\ jobs'[j].pc = "open" /\ jobs'[j].written = 0
        /\ \A k \in Jobs : k # j => jobs'[k] = jobs[k]
    BY <1>2 DEF LibInv, LibTo, WrittenSoFar, Responded, LibAt
  <2> QED
    BY <1>1, <2>1, JobOnly DEF WrittenSoFar
<1>3. CASE Ended(j, "failed")
  BY <1>1, <1>3, EndedJob, JobOnly DEF LibInv, WrittenSoFar
<1> QED
  BY <1>2, <1>3 DEF Responded

\* The body streams in, up to the maximum, and is whole when its end is reached.
LEMMA StreamStep ==
    ASSUME LibInv, NEW j \in Jobs, OpenPartial(j) \/ WriteChunk(j) \/ StreamEnds(j)
    PROVE  LibInv'
<1>1. libFiles' = libFiles
  BY DEF OpenPartial, WriteChunk, StreamEnds
<1>2. DOMAIN jobs' = Jobs /\ \A k \in Jobs : k # j => jobs'[k] = jobs[k]
  BY DEF LibInv, OpenPartial, WriteChunk, StreamEnds, LibTo
<1>3. WrittenSoFar(jobs[j])
  BY DEF LibInv
<1>4. CASE OpenPartial(j)
  <2>1. jobs'[j].pc = "stream" /\ jobs'[j].written = 0
    BY <1>3, <1>4 DEF LibInv, OpenPartial, LibTo, LibAt, WrittenSoFar
  <2> QED
    BY <1>1, <1>2, <2>1, JobOnly DEF WrittenSoFar
<1>5. CASE WriteChunk(j)
  <2>1. jobs[j].written \in 0..MaxUpload /\ jobs[j].written < MaxUpload
    BY <1>3, <1>5 DEF WriteChunk, LibAt, WrittenSoFar
  <2>2. jobs'[j].pc = "stream" /\ jobs'[j].written = jobs[j].written + 1
    BY <1>5 DEF LibInv, WriteChunk, LibAt
  <2>3. WrittenSoFar(jobs'[j])
    BY <2>1, <2>2 DEF WrittenSoFar
  <2> QED
    BY <1>1, <1>2, <2>3, JobOnly
<1>6. CASE StreamEnds(j)
  <2>1. /\ jobs[j].written \in 0..MaxUpload /\ jobs[j].written > 0
        /\ jobs[j].written = jobs[j].body
    BY <1>3, <1>6 DEF StreamEnds, LibAt, WrittenSoFar
  <2>2. /\ jobs'[j].pc = "rename" /\ jobs'[j].written = jobs[j].written
        /\ jobs'[j].body = jobs[j].body
    BY <1>6 DEF LibInv, StreamEnds, LibTo
  <2>3. WrittenSoFar(jobs'[j])
    BY <2>1, <2>2 DEF WrittenSoFar
  <2> QED
    BY <1>1, <1>2, <2>3, JobOnly
<1> QED
  BY <1>4, <1>5, <1>6

\* The rename puts a whole body under its name, whatever was there.
LEMMA RenameStep ==
    ASSUME LibInv, NEW j \in Jobs, RenamePartial(j)
    PROVE  LibInv'
<1>1. jobs[j].written \in 1..MaxUpload /\ jobs[j].written = jobs[j].body
  BY DEF LibInv, WrittenSoFar, RenamePartial, LibAt
<1>2. /\ DOMAIN jobs' = Jobs
      /\ jobs'[j].pc \in {"finish", "over"}
      /\ \A k \in Jobs : k # j => jobs'[k] = jobs[k]
  BY EndedJob DEF RenamePartial, LibInv
<1>3. \A k \in Jobs : WrittenSoFar(jobs'[k])
  BY <1>2 DEF LibInv, WrittenSoFar
<1>4. DOMAIN libFiles' = LibNames
  BY DEF RenamePartial, LibInv
<1>5. \A n \in LibNames :
        \/ libFiles'[n] = libFiles[n]
        \/ libFiles'[n] = [chunks |-> jobs[j].written, of |-> jobs[j].body]
  BY DEF RenamePartial, LibInv
<1>6. ListedFilesAreWhole'
  BY <1>1, <1>5 DEF LibInv, ListedFilesAreWhole, NoFile
<1> QED
  BY <1>2, <1>3, <1>4, <1>6 DEF LibInv, WrittenSoFar

\* A deletion leaves the other names as they are.
LEMMA RemoveStep ==
    ASSUME LibInv, RemoveFile
    PROVE  LibInv'
<1>1. /\ DOMAIN libFiles' = LibNames
      /\ \A n \in LibNames : libFiles'[n] = libFiles[n] \/ libFiles'[n] = NoFile
  BY DEF RemoveFile, LibInv
<1>2. jobs' = jobs
  BY DEF RemoveFile
<1> QED
  BY <1>1, <1>2 DEF LibInv, ListedFilesAreWhole, WrittenSoFar

\* After a crash no job goes on.
LEMMA LibCrashStep ==
    ASSUME LibInv, LibCrash
    PROVE  LibInv'
<1>1. /\ DOMAIN jobs' = Jobs
      /\ \A j \in Jobs : jobs'[j].pc = "lost" \/ jobs'[j] = NewJob
  BY DEF LibCrash, NewJob
<1>2. \A j \in Jobs : WrittenSoFar(jobs'[j])
  BY <1>1 DEF WrittenSoFar, NewJob
<1>3. libFiles' = libFiles
  BY DEF LibCrash
<1> QED
  BY <1>1, <1>2, <1>3 DEF LibInv, ListedFilesAreWhole, WrittenSoFar

\* Steps that touch neither a job nor a file.
LEMMA LibOtherStep ==
    ASSUME LibInv, UNCHANGED <<jobs, libFiles>>
    PROVE  LibInv'
BY DEF LibInv, ListedFilesAreWhole, WrittenSoFar

\* LibInv is inductive.
LEMMA LibStepInv == LibInv /\ [LibNext]_libvars => LibInv'
<1> SUFFICES ASSUME LibInv, [LibNext]_libvars PROVE LibInv'
  OBVIOUS
<1>1. ASSUME NEW j \in Jobs, NEW n \in LibNames, NEW b \in 0..MaxBody,
             StartFetch(j, n, b) \/ BeginUpload(j, n, b)
      PROVE  LibInv'
  BY <1>1, AskStep
<1>2. ASSUME NEW j \in Jobs, JobStep(j) PROVE LibInv'
  BY <1>2, FailStep, RespondStep, StreamStep, RenameStep DEF JobStep
<1>3. ASSUME NEW j \in Jobs, Redirected(j) PROVE LibInv'
  BY <1>3, AskStep
<1>4. ASSUME NEW j \in Jobs, LibHangUp(j) PROVE LibInv'
  BY <1>4, FailStep
<1>5. ASSUME NEW n \in LibNames, FindFile(n) PROVE LibInv'
  BY <1>5, LibOtherStep DEF FindFile
<1>6. CASE LibBoot
  BY <1>6, LibOtherStep DEF LibBoot
<1>7. CASE UNCHANGED libvars
  BY <1>7, LibOtherStep DEF libvars
<1> QED
  BY <1>1, <1>2, <1>3, <1>4, <1>5, <1>6, <1>7, RemoveStep, LibCrashStep DEF LibNext

(* Every file the library lists is the whole body of one upload or download, no larger than   *)
(* the maximum, whatever uploads, downloads, deletions and crashes of one name overlap        *)
(* (library.rs upload, run_fetch, delete).                                 *)
THEOREM ListedIsWhole == LibSpec => []ListedFilesAreWhole
<1>1. LibInv => ListedFilesAreWhole
  BY DEF LibInv
<1> QED
  BY <1>1, LibInitInv, LibStepInv, PTL DEF LibSpec

-----------------------------------------------------------------------------
(* Alerts: AlertIsSustained.                                               *)

RuleOrNone == Rule \cup {NoRule}
EvalSet == [pc : {"idle", "walk", "notify"}, left : SUBSET Watched, copy : [RuleIds -> RuleOrNone],
            sample : [Subjects -> Values \cup {NoSample}]]
BreachSet == [ticks : Nat, last : Int]
Observed == [value : Values, threshold : Thresholds]

\* What an evaluation still has to look at is there with an enabled rule.
LeftHasRule == \A p \in eval.left : eval.copy[p[1]] \in Rule

\* A streak of n is n values, the latest ones, each at or above the threshold of its time.
StreakIsSeen ==
    \A p \in Watched :
       /\ breach[p].ticks <= Len(seen[p])
       /\ \A i \in 1..breach[p].ticks : seen[p][i].value >= seen[p][i].threshold

\* The breach state remembers the latest of the alerts.
LastIsLatest ==
    \A p \in Watched : breach[p].last <= tick /\ \A k \in firedAt[p] : k <= breach[p].last

AlTyped ==
    /\ tick \in Nat /\ rules \in [RuleIds -> RuleOrNone] /\ eval \in EvalSet
    /\ breach \in [Watched -> BreachSet] /\ seen \in [Watched -> Seq(Observed)]
    /\ firedAt \in [Watched -> SUBSET Nat]

AlInv == AlTyped /\ LeftHasRule /\ StreakIsSeen /\ LastIsLatest

HIDE LibAssumption
USE AlertAssumption

\* No rule, and nothing observed.
LEMMA AlInitInv == AlInit => AlInv
<1> SUFFICES ASSUME AlInit PROVE AlInv
  OBVIOUS
<1>1. IdleEval \in EvalSet /\ IdleEval.left = {} /\ NoBreach \in BreachSet
  BY DEF IdleEval, EvalSet, RuleOrNone, NoBreach, BreachSet
<1>2. AlTyped
  BY <1>1 DEF AlInit, AlTyped, RuleOrNone
<1>3. LeftHasRule /\ StreakIsSeen /\ LastIsLatest
  BY <1>1 DEF AlInit, LeftHasRule, StreakIsSeen, LastIsLatest, NoBreach
<1> QED
  BY <1>2, <1>3 DEF AlInv

\* What AlertIsSustained says of a step.
Sustained ==
    \A p \in Watched : tick \in firedAt'[p] \ firedAt[p] =>
         LET rule == eval.copy[p[1]] IN
         /\ Len(seen'[p]) >= Needed(rule)
         /\ \A i \in 1..Needed(rule) : seen'[p][i].value >= seen'[p][i].threshold
         /\ seen'[p][1].threshold = rule.threshold
         /\ \A k \in firedAt[p] : tick - k >= rule.cooldown

\* Requests change records; the channels are no concern of the streaks.
LEMMA RecordsStep ==
    ASSUME AlInv, UNCHANGED <<breach, eval, seen, firedAt, tick>>, rules' \in [RuleIds -> RuleOrNone]
    PROVE  AlInv' /\ Sustained
BY DEF AlInv, AlTyped, LeftHasRule, StreakIsSeen, LastIsLatest, Sustained

\* The streak and the last alert of a deleted rule are forgotten.
LEMMA ForgetStep ==
    ASSUME AlInv, NEW r \in RuleIds, ForgetBreach(r)
    PROVE  AlInv' /\ Sustained
<1>1. /\ breach' \in [Watched -> BreachSet] /\ firedAt' \in [Watched -> SUBSET Nat]
      /\ UNCHANGED <<rules, eval, seen, tick>>
  BY DEF ForgetBreach, AlInv, AlTyped, NoBreach, BreachSet
<1>2. \A p \in Watched : \/ breach'[p] = breach[p] /\ firedAt'[p] = firedAt[p]
                         \/ breach'[p] = NoBreach /\ firedAt'[p] = {}
  BY DEF ForgetBreach
<1>3. NoBreach.ticks = 0 /\ NoBreach.last = -1
  BY DEF NoBreach
<1>4. AlTyped' /\ LeftHasRule'
  BY <1>1 DEF AlInv, AlTyped, LeftHasRule
<1>5. StreakIsSeen'
  <2>1. \A p \in Watched : Len(seen[p]) \in Nat
    BY DEF AlInv, AlTyped
  <2> QED
    BY <1>1, <1>2, <1>3, <2>1 DEF AlInv, StreakIsSeen
<1>6. LastIsLatest'
  <2>1. -1 <= tick
    BY DEF AlInv, AlTyped
  <2> QED
    BY <1>1, <1>2, <1>3, <2>1 DEF AlInv, LastIsLatest
<1>7. Sustained
  BY <1>2 DEF Sustained
<1> QED
  BY <1>4, <1>5, <1>6, <1>7 DEF AlInv

\* An evaluation begins with the rules as they are.
LEMMA BeginStep ==
    ASSUME AlInv, NEW sample \in [Subjects -> Values \cup {NoSample}], BeginEvaluate(sample)
    PROVE  AlInv' /\ Sustained
<1>1. /\ tick' = tick + 1 /\ UNCHANGED <<rules, breach, seen, firedAt>>
      /\ eval' = [pc |-> "walk", sample |-> sample, copy |-> rules,
                  left |-> {p \in Watched : rules[p[1]].enabled /\ p[2] \in rules[p[1]].pin}]
  BY DEF BeginEvaluate
<1>2. eval' \in EvalSet
  BY <1>1 DEF AlInv, AlTyped, EvalSet
<1>3. AlTyped'
  BY <1>1, <1>2 DEF AlInv, AlTyped
<1>4. LeftHasRule'
  <2>1. SUFFICES ASSUME NEW p \in Watched, rules[p[1]].enabled PROVE rules[p[1]] \in Rule
    BY <1>1 DEF LeftHasRule
  <2>2. p[1] \in RuleIds
    BY DEF Watched
  <2> QED
    BY <2>1, <2>2 DEF AlInv, AlTyped, RuleOrNone, NoRule
<1>5. StreakIsSeen' /\ Sustained
  BY <1>1 DEF AlInv, StreakIsSeen, Sustained
<1>6. LastIsLatest'
  <2>1. tick \in Nat /\ \A p \in Watched : breach[p].last \in Int
    BY DEF AlInv, AlTyped, BreachSet
  <2> QED
    BY <1>1, <2>1 DEF AlInv, LastIsLatest
<1> QED
  BY <1>3, <1>4, <1>5, <1>6 DEF AlInv

\* The evaluation moves on without an observation.
LEMMA WalkStep ==
    ASSUME AlInv, UNCHANGED <<rules, breach, seen, firedAt, tick>>, eval' \in EvalSet,
           eval'.left \subseteq eval.left, eval'.copy = eval.copy \/ eval'.left = {}
    PROVE  AlInv' /\ Sustained
BY DEF AlInv, AlTyped, LeftHasRule, StreakIsSeen, LastIsLatest, Sustained

\* A value put before those seen so far.
LEMMA OneMoreSeen ==
    ASSUME NEW s \in Seq(Observed), NEW v \in Observed
    PROVE  /\ <<v>> \o s \in Seq(Observed) /\ Len(<<v>> \o s) = Len(s) + 1 /\ Len(s) \in Nat
           /\ (<<v>> \o s)[1] = v
           /\ \A i \in 1..Len(s) : (<<v>> \o s)[i + 1] = s[i]
OBVIOUS

\* record_and_maybe_fire.
LEMMA ObserveStep ==
    ASSUME AlInv, NEW p \in Watched, Record(p)
    PROVE  AlInv' /\ Sustained
<1> DEFINE rule == eval.copy[p[1]]
           value == eval.sample[p[2]]
           now == [value |-> value, threshold |-> rule.threshold]
           breached == value >= rule.threshold
           ticks == Streak(breach[p], breached)
           fires == breached /\ ticks >= Needed(rule) /\ CooledDown(breach[p], rule)
<1>1. /\ breach' = [breach EXCEPT ![p].ticks = ticks, ![p].last = IF fires THEN tick ELSE @]
      /\ seen' = [seen EXCEPT ![p] = <<now>> \o @]
      /\ firedAt' = [firedAt EXCEPT ![p] = IF fires THEN @ \cup {tick} ELSE @]
      /\ eval' = [eval EXCEPT !.left = @ \ {p}, !.pc = IF fires THEN "notify" ELSE "walk"]
      /\ UNCHANGED <<rules, tick>> /\ p \in eval.left /\ value # NoSample
  BY DEF Record
<1>2. /\ rule \in Rule /\ rule.threshold \in Thresholds /\ rule.sustain \in Nat /\ rule.cooldown \in Nat
  BY <1>1 DEF AlInv, LeftHasRule, Rule
<1>3. value \in Values
  <2>1. p[2] \in Subjects /\ eval.sample \in [Subjects -> Values \cup {NoSample}]
    BY DEF Watched, AlInv, AlTyped, EvalSet
  <2> QED
    BY <1>1, <2>1
<1>4. /\ breach[p] \in BreachSet /\ breach[p].ticks \in Nat /\ breach[p].last \in Int
      /\ tick \in Nat /\ seen[p] \in Seq(Observed) /\ firedAt[p] \in SUBSET Nat
  BY DEF AlInv, AlTyped, BreachSet
<1>5. /\ now \in Observed /\ now.threshold = rule.threshold
      /\ breached <=> now.value >= now.threshold
  BY <1>2, <1>3 DEF Observed
<1>6. ticks \in Nat /\ (ticks = 0 \/ (now.value >= now.threshold /\ ticks = breach[p].ticks + 1))
  BY <1>4, <1>5 DEF Streak
<1>7. fires \in BOOLEAN /\ (fires => now.value >= now.threshold /\ ticks >= Needed(rule) /\ CooledDown(breach[p], rule))
  BY <1>5
<1>8. /\ breach'[p].ticks = ticks /\ breach'[p].last = IF fires THEN tick ELSE breach[p].last
      /\ seen'[p] = <<now>> \o seen[p]
      /\ firedAt'[p] = IF fires THEN firedAt[p] \cup {tick} ELSE firedAt[p]
      /\ breach'[p] \in BreachSet
      /\ \A q \in Watched : q # p => /\ breach'[q] = breach[q] /\ seen'[q] = seen[q]
                                     /\ firedAt'[q] = firedAt[q]
      /\ DOMAIN breach' = Watched /\ DOMAIN seen' = Watched /\ DOMAIN firedAt' = Watched
  <2> HIDE DEF value, ticks, fires, now
  <2>1. /\ seen'[p] = <<now>> \o seen[p]
        /\ firedAt'[p] = IF fires THEN firedAt[p] \cup {tick} ELSE firedAt[p]
        /\ \A q \in Watched : q # p => seen'[q] = seen[q] /\ firedAt'[q] = firedAt[q]
        /\ DOMAIN seen' = Watched /\ DOMAIN firedAt' = Watched
    BY <1>1 DEF AlInv, AlTyped
  <2>2. /\ breach'[p].ticks = ticks /\ breach'[p].last = IF fires THEN tick ELSE breach[p].last
        /\ breach'[p] \in BreachSet
        /\ \A q \in Watched : q # p => breach'[q] = breach[q]
        /\ DOMAIN breach' = Watched
    <3>1. /\ breach'[p] = [breach[p] EXCEPT !.ticks = ticks,
                                            !.last = IF fires THEN tick ELSE breach[p].last]
          /\ \A q \in Watched : q # p => breach'[q] = breach[q]
          /\ DOMAIN breach' = Watched
      BY <1>1 DEF AlInv, AlTyped
    <3>2. (IF fires THEN tick ELSE breach[p].last) \in Int
      BY <1>4
    <3> QED
      BY <1>4, <1>6, <3>1, <3>2 DEF BreachSet
  <2> QED
    BY <2>1, <2>2
<1>9. eval' \in EvalSet /\ eval'.left \subseteq eval.left /\ eval'.copy = eval.copy
  <2> HIDE DEF fires
  <2> QED
    BY <1>1 DEF AlInv, AlTyped, EvalSet
<1> HIDE DEF ticks, fires, value, rule, breached, now
<1>10. /\ seen'[p] \in Seq(Observed) /\ Len(seen'[p]) = Len(seen[p]) + 1 /\ Len(seen[p]) \in Nat
       /\ seen'[p][1] = now /\ \A i \in 1..Len(seen[p]) : seen'[p][i + 1] = seen[p][i]
  BY <1>4, <1>5, <1>8, OneMoreSeen
<1>11. AlTyped'
  <2>1. breach' \in [Watched -> BreachSet] /\ firedAt' \in [Watched -> SUBSET Nat]
    <3>1. breach' = [q \in Watched |-> breach'[q]] /\ firedAt' = [q \in Watched |-> firedAt'[q]]
      BY <1>1 DEF AlInv, AlTyped
    <3>2. \A q \in Watched : breach'[q] \in BreachSet /\ firedAt'[q] \in SUBSET Nat
      BY <1>4, <1>8 DEF AlInv, AlTyped
    <3> QED
      BY <3>1, <3>2
  <2>2. seen' \in [Watched -> Seq(Observed)]
    <3>1. seen' = [q \in Watched |-> seen'[q]]
      BY <1>1 DEF AlInv, AlTyped
    <3>2. \A q \in Watched : seen'[q] \in Seq(Observed)
      BY <1>8, <1>10 DEF AlInv, AlTyped
    <3> QED
      BY <3>1, <3>2
  <2> QED
    BY <1>1, <1>9, <2>1, <2>2 DEF AlInv, AlTyped
<1>12. LeftHasRule'
  BY <1>9 DEF AlInv, LeftHasRule
<1>13. /\ ticks <= Len(seen'[p])
       /\ \A i \in 1..ticks : seen'[p][i].value >= seen'[p][i].threshold
  <2>1. CASE ticks = 0
    BY <1>10, <2>1
  <2>2. CASE now.value >= now.threshold /\ ticks = breach[p].ticks + 1
    <3>1. breach[p].ticks <= Len(seen[p]) /\ \A i \in 1..breach[p].ticks : seen[p][i].value >= seen[p][i].threshold
      BY DEF AlInv, StreakIsSeen
    <3>2. ASSUME NEW i \in 1..ticks PROVE seen'[p][i].value >= seen'[p][i].threshold
      <4>1. CASE i = 1
        BY <1>10, <2>2, <4>1
      <4>2. CASE i # 1
        <5>1. i - 1 \in 1..breach[p].ticks /\ i - 1 \in 1..Len(seen[p])
          BY <1>4, <1>10, <2>2, <3>1, <4>2
        <5>2. seen'[p][(i - 1) + 1] = seen[p][i - 1] /\ (i - 1) + 1 = i
          BY <1>10, <5>1
        <5> QED
          BY <3>1, <5>1, <5>2
      <4> QED
        BY <4>1, <4>2
    <3> QED
      BY <1>4, <1>10, <2>2, <3>1, <3>2
  <2> QED
    BY <1>6, <2>1, <2>2
<1>14. StreakIsSeen'
  BY <1>8, <1>13 DEF AlInv, StreakIsSeen
<1>15. LastIsLatest'
  <2>1. /\ breach[p].last <= tick /\ \A k \in firedAt[p] : k \in Nat /\ k <= breach[p].last
    BY <1>4 DEF AlInv, LastIsLatest
  <2>2. breach'[p].last <= tick /\ \A k \in firedAt'[p] : k <= breach'[p].last
    BY <1>4, <1>8, <2>1
  <2> QED
    BY <1>1, <1>8, <2>2 DEF AlInv, LastIsLatest
<1>16. Sustained
  <2>1. SUFFICES ASSUME tick \in firedAt'[p] \ firedAt[p]
                 PROVE  /\ Len(seen'[p]) >= Needed(rule)
                        /\ \A i \in 1..Needed(rule) : seen'[p][i].value >= seen'[p][i].threshold
                        /\ seen'[p][1].threshold = rule.threshold
                        /\ \A k \in firedAt[p] : tick - k >= rule.cooldown
    BY <1>8 DEF Sustained, rule
  <2>2. fires /\ ticks >= Needed(rule) /\ CooledDown(breach[p], rule)
    BY <1>7, <1>8, <2>1
  <2>3. Needed(rule) \in Nat
    BY <1>2 DEF Needed
  <2>4. \A i \in 1..Needed(rule) : i \in 1..ticks
    BY <1>6, <2>2, <2>3
  <2>5. \A k \in firedAt[p] : tick - k >= rule.cooldown
    <3>1. \A k \in firedAt[p] : k \in Nat /\ k <= breach[p].last
      BY <1>4 DEF AlInv, LastIsLatest
    <3>2. breach[p].last < 0 \/ tick - breach[p].last >= rule.cooldown
      BY <2>2 DEF CooledDown
    <3> QED
      BY <1>2, <1>4, <3>1, <3>2
  <2>6. Len(seen'[p]) >= Needed(rule)
    BY <1>6, <1>10, <1>13, <2>2, <2>3
  <2>7. \A i \in 1..Needed(rule) : seen'[p][i].value >= seen'[p][i].threshold
    BY <1>13, <2>4
  <2> QED
    BY <1>5, <1>10, <2>5, <2>6, <2>7
<1> QED
  BY <1>11, <1>12, <1>14, <1>15, <1>16 DEF AlInv

\* AlInv is inductive, and every step from it is one that AlertIsSustained allows.
LEMMA AlStepInv == AlInv /\ [AlNext]_alvars => AlInv' /\ Sustained
<1> SUFFICES ASSUME AlInv, [AlNext]_alvars PROVE AlInv' /\ Sustained
  OBVIOUS
<1>1. ASSUME NEW r \in RuleIds, NEW rule \in Rule, CreateRule(r, rule) \/ PutRule(r, rule)
      PROVE  AlInv' /\ Sustained
  <2>1. UNCHANGED <<breach, eval, seen, firedAt, tick>> /\ rules' = [rules EXCEPT ![r] = rule]
    BY <1>1 DEF CreateRule, PutRule
  <2>2. rules' \in [RuleIds -> RuleOrNone]
    BY <2>1 DEF AlInv, AlTyped, RuleOrNone
  <2> QED
    BY <2>1, <2>2, RecordsStep
<1>2. ASSUME NEW r \in RuleIds, BeginUpdateRule(r) \/ DeleteRule(r)
      PROVE  AlInv' /\ Sustained
  <2>1. UNCHANGED <<breach, eval, seen, firedAt, tick>>
    BY <1>2 DEF BeginUpdateRule, DeleteRule
  <2>2. rules' \in [RuleIds -> RuleOrNone]
    BY <1>2 DEF BeginUpdateRule, DeleteRule, AlInv, AlTyped, RuleOrNone
  <2> QED
    BY <2>1, <2>2, RecordsStep
<1>3. ASSUME NEW r \in RuleIds, ForgetBreach(r) PROVE AlInv' /\ Sustained
  BY <1>3, ForgetStep
<1>4. ASSUME NEW c \in Channels, EditChannel(c) \/ Deliver(c) PROVE AlInv' /\ Sustained
  <2>1. UNCHANGED <<rules, breach, eval, seen, firedAt, tick>>
    BY <1>4 DEF EditChannel, Deliver
  <2> QED
    BY <2>1, RecordsStep DEF AlInv, AlTyped
<1>5. ASSUME NEW sample \in [Subjects -> Values \cup {NoSample}], BeginEvaluate(sample)
      PROVE  AlInv' /\ Sustained
  BY <1>5, BeginStep
<1>6. ASSUME NEW p \in Watched, SkipNoSample(p) PROVE AlInv' /\ Sustained
  <2>1. /\ UNCHANGED <<rules, breach, seen, firedAt, tick>>
        /\ eval' \in EvalSet /\ eval'.left \subseteq eval.left /\ eval'.copy = eval.copy
    BY <1>6 DEF SkipNoSample, AlInv, AlTyped, EvalSet
  <2> QED
    BY <2>1, WalkStep
<1>7. ASSUME NEW p \in Watched, Record(p) PROVE AlInv' /\ Sustained
  BY <1>7, ObserveStep
<1>8. CASE Notify \/ NotifyFails
  <2>1. /\ UNCHANGED <<rules, breach, seen, firedAt, tick>>
        /\ eval' \in EvalSet /\ eval'.left = eval.left /\ eval'.copy = eval.copy
    BY <1>8 DEF Notify, NotifyFails, AlInv, AlTyped, EvalSet
  <2> QED
    BY <2>1, WalkStep
<1>9. CASE EndEvaluate
  <2>1. /\ UNCHANGED <<rules, breach, seen, firedAt, tick>>
        /\ eval' \in EvalSet /\ eval'.left = {}
    BY <1>9 DEF EndEvaluate, IdleEval, EvalSet, RuleOrNone
  <2> QED
    BY <2>1, WalkStep
<1>10. CASE UNCHANGED alvars
  BY <1>10, RecordsStep DEF alvars, AlInv, AlTyped
<1> QED
  BY <1>1, <1>2, <1>3, <1>4, <1>5, <1>6, <1>7, <1>8, <1>9, <1>10 DEF AlNext

(* A rule fires for a subject only when the latest sustain_ticks values it observed there were *)
(* at or above the threshold it had when it observed them, and no sooner than cooldown_secs    *)
(* after any earlier alert of it, also while the rule is updated or deleted (alerts.rs         *)
(* evaluate, record_and_maybe_fire).                                       *)
THEOREM AlertsAreSustained == AlSpec => AlertIsSustained
<1>1. AlInv /\ [AlNext]_alvars => [Sustained]_alvars
  BY AlStepInv
<1>2. AlInv /\ [AlNext]_alvars => AlInv'
  BY AlStepInv
<1> QED
  BY <1>1, <1>2, AlInitInv, PTL DEF AlSpec, AlertIsSustained, Sustained

-----------------------------------------------------------------------------
(* The broker: StreamOkIsWhole.                                            *)

Frames == {"stdout", "ok", "exit ok", "failed", "exit bad", "not found", "refused"}
Success(f) == f = "ok" \/ f = "exit ok"
ChildSet == [st : {"none", "running", "ok", "failed", "killed"}, eaten : Nat, out : Nat]

\* Between sessions, and until the command is accepted, there is nothing of a stream.
NothingLeft ==
    /\ cli = "idle" => srv = "none"
    /\ cli = "idle" \/ srv = "check" => child = NoChild /\ pipe = 0 /\ down = <<>> /\ sink = 0

\* A terminal frame is the last one, and the broker has left its loop.
OnlyLastEnds ==
    \A i \in 1..Len(down) : down[i] # "stdout" => i = Len(down) /\ srv \in {"join", "gone"}

\* A child that exited with 0 has written, or taken, the whole stream.
ChildOkIsWhole ==
    child.st = "ok" => /\ req.mode = "send" => child.out = Chunks
                       /\ req.mode = "receive" => child.eaten = Chunks

\* Success is reported for a child that exited with 0 and whose output was read to the end.
OkIsEarned ==
    \A i \in 1..Len(down) :
       Success(down[i]) /\ req.mode \in {"send", "receive"}
          => child.st = "ok" /\ pipe = 0

\* Frames of output on their way.
OnTheWay == IF Len(down) > 0 /\ down[Len(down)] # "stdout" THEN Len(down) - 1 ELSE Len(down)

\* As long as the client reads, what the child of a send wrote is in the sink, on its way or in
\* the pipe.
AllAccounted == cli = "reading" /\ req.mode = "send" => sink + OnTheWay + pipe = child.out

BrInv ==
    /\ child \in ChildSet /\ pipe \in Nat /\ sink \in Nat /\ down \in Seq(Frames)
    /\ NothingLeft /\ OnlyLastEnds /\ ChildOkIsWhole /\ OkIsEarned /\ AllAccounted
    /\ StreamOkIsWhole

\* A broker that no one has connected to.
LEMMA BrInitInv == BrInit => BrInv
BY DEF BrInit, BrInv, NoChild, ChildSet, Frames, NothingLeft, OnlyLastEnds, ChildOkIsWhole,
       OkIsEarned, AllAccounted, StreamOkIsWhole

\* A connection begins, or cannot be made.
LEMMA ConnectStep ==
    ASSUME BrInv, (\E c \in Surface : Connect(c)) \/ AttachConsole \/ BrokerDown
    PROVE  BrInv'
<1>1. /\ cli = "idle" /\ cli' \in {"reading", "error"}
      /\ UNCHANGED <<child, pipe, down, sink>>
  BY DEF Connect, AttachConsole, BrokerDown
<1>2. child = NoChild /\ pipe = 0 /\ down = <<>> /\ sink = 0
  BY <1>1 DEF BrInv, NothingLeft
<1>3. OnlyLastEnds' /\ ChildOkIsWhole' /\ OkIsEarned' /\ StreamOkIsWhole' /\ NothingLeft'
  BY <1>1, <1>2 DEF OnlyLastEnds, ChildOkIsWhole, OkIsEarned, StreamOkIsWhole, NothingLeft, NoChild
<1>4. AllAccounted'
  BY <1>1, <1>2 DEF AllAccounted, OnTheWay, NoChild
<1> QED
  BY <1>1, <1>3, <1>4 DEF BrInv

\* A step that leaves the child, its output and what the client has of it alone, and tells the
\* client of no success.
LEMMA SideStep ==
    ASSUME BrInv, UNCHANGED <<req, child, pipe, down, sink>>,
           srv' = srv \/ srv' = "gone", cli' = cli \/ cli' = "error", cli # "idle"
    PROVE  BrInv'
BY DEF BrInv, NothingLeft, OnlyLastEnds, ChildOkIsWhole, OkIsEarned, AllAccounted, OnTheWay,
       StreamOkIsWhole

\* A step of the pumps.
LEMMA Unmoved ==
    ASSUME BrInv, UNCHANGED <<req, cli, srv, child, pipe, down, sink>>
    PROVE  BrInv'
BY DEF BrInv, NothingLeft, OnlyLastEnds, ChildOkIsWhole, OkIsEarned, AllAccounted, OnTheWay,
       StreamOkIsWhole

\* What the tail of the frames on their way looks like.
LEMMA TailOfFrames ==
    ASSUME down \in Seq(Frames), down # <<>>
    PROVE  /\ Len(down) \in Nat /\ Len(down) > 0 /\ Head(down) = down[1] /\ Head(down) \in Frames
           /\ Tail(down) \in Seq(Frames) /\ Len(Tail(down)) = Len(down) - 1
           /\ \A i \in 1..(Len(down) - 1) : Tail(down)[i] = down[i + 1]
OBVIOUS

\* The client takes a frame: output goes to its sink, a terminal frame is its answer.
LEMMA ReadFrameStep ==
    ASSUME BrInv, ReadFrame
    PROVE  BrInv'
<1>1. /\ cli = "reading" /\ down # <<>> /\ down' = Tail(down)
      /\ UNCHANGED <<req, child, pipe, srv>>
  BY DEF ReadFrame, brtask
<1>2. /\ Len(down) \in Nat /\ Len(down) > 0 /\ Head(down) = down[1] /\ Head(down) \in Frames
      /\ down' \in Seq(Frames) /\ Len(down') = Len(down) - 1
      /\ \A i \in 1..(Len(down) - 1) : down'[i] = down[i + 1]
  BY <1>1, TailOfFrames DEF BrInv
<1>3. OnlyLastEnds' /\ OkIsEarned'
  <2>1. ASSUME NEW i \in 1..Len(down')
        PROVE  i + 1 \in 1..Len(down) /\ down'[i] = down[i + 1]
    BY <1>2
  <2>2. OnlyLastEnds'
    <3>1. SUFFICES ASSUME NEW i \in 1..Len(down'), down'[i] # "stdout"
                   PROVE  i = Len(down') /\ srv' \in {"join", "gone"}
      BY DEF OnlyLastEnds
    <3>2. i + 1 = Len(down) /\ srv \in {"join", "gone"}
      BY <2>1, <3>1 DEF BrInv, OnlyLastEnds
    <3>3. i = Len(down')
      <4>1. Len(down) \in Nat /\ Len(down') = Len(down) - 1
        BY <1>2
      <4> QED
        BY <3>2, <4>1
    <3> QED
      BY <1>1, <3>2, <3>3
  <2>3. OkIsEarned'
    BY <1>1, <2>1 DEF BrInv, OkIsEarned
  <2> QED
    BY <2>2, <2>3
<1>4. ChildOkIsWhole' /\ srv # "check"
  BY <1>1 DEF BrInv, ChildOkIsWhole, NothingLeft
<1>5. CASE Head(down) = "stdout"
  <2>1. cli' = cli /\ sink' \in {sink, sink + 1} /\ (req.mode = "send" => sink' = sink + 1)
    BY <1>5 DEF ReadFrame
  <2>2. OnTheWay' = OnTheWay - 1 /\ OnTheWay \in Nat
    <3>1. CASE Len(down) = 1
      BY <1>2, <1>5, <3>1 DEF OnTheWay
    <3>2. CASE Len(down) > 1
      <4>1. down'[Len(down')] = down[Len(down)]
        BY <1>2, <3>2
      <4> QED
        BY <1>2, <3>2, <4>1 DEF OnTheWay
    <3> QED
      BY <1>2, <3>1, <3>2
  <2>3. sink \in Nat /\ pipe \in Nat
    BY DEF BrInv
  <2>4. AllAccounted'
    BY <1>1, <2>1, <2>2, <2>3 DEF BrInv, AllAccounted
  <2>5. NothingLeft' /\ StreamOkIsWhole'
    BY <1>1, <1>4, <2>1 DEF NothingLeft, StreamOkIsWhole
  <2> QED
    BY <1>1, <1>2, <1>3, <1>4, <2>1, <2>4, <2>5 DEF BrInv
<1>6. CASE Head(down) # "stdout"
  <2>1. /\ cli' = CASE Head(down) \in {"ok", "exit ok"} -> "ok"
                    [] Head(down) = "not found" -> "missing"
                    [] OTHER -> "error"
        /\ sink' = sink
    BY <1>6 DEF ReadFrame
  <2>2. cli' \in {"ok", "missing", "error"} /\ (cli' = "ok" => Success(Head(down)))
    BY <2>1 DEF Success
  <2>3. Len(down) = 1 /\ OnTheWay = 0
    <3>1. Len(down) = 1
      BY <1>2, <1>6 DEF BrInv, OnlyLastEnds
    <3> QED
      BY <1>2, <1>6, <3>1 DEF OnTheWay
  <2>4. StreamOkIsWhole'
    <3>1. SUFFICES ASSUME cli' = "ok", req.mode \in {"send", "receive"}
                   PROVE  /\ req.mode = "send"    => child.st = "ok" /\ sink = Chunks
                          /\ req.mode = "receive" => child.st = "ok" /\ child.eaten = Chunks
      BY <1>1, <2>1 DEF StreamOkIsWhole
    <3>2. child.st = "ok" /\ pipe = 0
      <4>1. 1 \in 1..Len(down) /\ Success(down[1])
        BY <1>2, <2>2, <3>1
      <4> QED
        BY <3>1, <4>1 DEF BrInv, OkIsEarned
    <3>3. req.mode = "send" => sink = Chunks
      <4>1. SUFFICES ASSUME req.mode = "send" PROVE sink = Chunks
        OBVIOUS
      <4>2. child.out = Chunks /\ sink + OnTheWay + pipe = child.out /\ sink \in Nat
        BY <1>1, <3>2, <4>1 DEF BrInv, ChildOkIsWhole, AllAccounted
      <4> QED
        BY <2>3, <3>2, <4>2
    <3> QED
      BY <3>2, <3>3 DEF BrInv, ChildOkIsWhole
  <2>5. NothingLeft' /\ AllAccounted'
    BY <1>1, <1>4, <2>2 DEF NothingLeft, AllAccounted
  <2> QED
    BY <1>1, <1>2, <1>3, <1>4, <2>1, <2>4, <2>5 DEF BrInv
<1> QED
  BY <1>5, <1>6

\* The connection is forgotten.
LEMMA ClosedStep ==
    ASSUME BrInv, Closed
    PROVE  BrInv'
<1>1. /\ cli' = "idle" /\ srv' = "none" /\ child' = NoChild /\ pipe' = 0 /\ down' = <<>>
      /\ sink' = 0
  BY DEF Closed
<1>2. child' \in ChildSet /\ child'.st = "none" /\ down' \in Seq(Frames) /\ Len(down') = 0
  BY <1>1 DEF NoChild, ChildSet
<1>3. OnlyLastEnds' /\ OkIsEarned'
  BY <1>2 DEF OnlyLastEnds, OkIsEarned
<1>4. NothingLeft' /\ ChildOkIsWhole' /\ AllAccounted' /\ StreamOkIsWhole'
  BY <1>1, <1>2 DEF NothingLeft, ChildOkIsWhole, AllAccounted, StreamOkIsWhole
<1> QED
  BY <1>1, <1>2, <1>3, <1>4 DEF BrInv

\* The broker says its last word f, or finds the client gone.  Success for a stream is said only
\* of a child that exited with 0 and whose pipe is empty.
LEMMA LastWord ==
    ASSUME BrInv, NEW f \in Frames, f # "stdout", NEW to, to = "join" \/ to = "gone",
           srv \in {"check", "run"}, Send(f, to), UNCHANGED <<req, cli, pipe, sink>>,
           child' \in ChildSet, child'.out = child.out, child'.eaten = child.eaten,
           child' = child \/ (child.st = "running" /\ child'.st = "killed"),
           \/ ~Success(f)
           \/ req.mode \notin {"send", "receive"}
           \/ child'.st = "ok" /\ pipe = 0
    PROVE  BrInv'
<1>0. cli # "idle"
  BY DEF BrInv, NothingLeft
<1>1. srv' \in {"join", "gone"}
  BY DEF Send
<1>2. ChildOkIsWhole' /\ NothingLeft'
  BY <1>0, <1>1 DEF BrInv, ChildOkIsWhole, NothingLeft
<1>3. \A i \in 1..Len(down) : down[i] = "stdout"
  BY DEF BrInv, OnlyLastEnds
<1>4. down \in Seq(Frames) /\ Len(down) \in Nat
  BY DEF BrInv
<1>5. StreamOkIsWhole'
  BY DEF BrInv, StreamOkIsWhole
<1>6. CASE ClientGone
  <2>1. down' = down /\ cli # "reading"
    BY <1>6 DEF Send, ClientGone
  <2> QED
    BY <1>1, <1>2, <1>3, <1>4, <1>5, <2>1 DEF BrInv, OnlyLastEnds, OkIsEarned, Success, AllAccounted
<1>7. CASE ~ClientGone
  <2>1. down' = Append(down, f)
    BY <1>7 DEF Send
  <2>2. /\ down' \in Seq(Frames) /\ Len(down') = Len(down) + 1
        /\ down'[Len(down) + 1] = f
        /\ \A i \in 1..Len(down) : down'[i] = "stdout"
    BY <1>3, <1>4, <2>1
  <2>3. OnlyLastEnds'
    BY <1>1, <1>4, <2>2 DEF OnlyLastEnds
  <2>4. OkIsEarned'
    <3>1. SUFFICES ASSUME NEW i \in 1..Len(down'), Success(down'[i]), req.mode \in {"send", "receive"}
                   PROVE  child'.st = "ok" /\ pipe = 0
      BY DEF OkIsEarned
    <3>2. i = Len(down) + 1
      <4>1. down'[i] # "stdout"
        BY <3>1 DEF Success
      <4>2. i \in 1..Len(down) \/ i = Len(down) + 1
        BY <1>4, <2>2
      <4> QED
        BY <2>2, <4>1, <4>2
    <3> QED
      BY <2>2, <3>1, <3>2
  <2>5. OnTheWay' = OnTheWay
    BY <1>3, <1>4, <2>2 DEF OnTheWay
  <2>6. AllAccounted'
    BY <2>5 DEF BrInv, AllAccounted
  <2> QED
    BY <1>2, <1>5, <2>2, <2>3, <2>4, <2>6 DEF BrInv
<1> QED
  BY <1>6, <1>7

\* The broker passes on a chunk of output, or finds the client gone and kills the child.
LEMMA ReadStdoutStep ==
    ASSUME BrInv, ReadStdout
    PROVE  BrInv'
<1>1. /\ srv = "run" /\ pipe > 0 /\ pipe' = pipe - 1 /\ Send("stdout", "run")
      /\ child' = IF ClientGone /\ child.st = "running" THEN [child EXCEPT !.st = "killed"] ELSE child
      /\ UNCHANGED <<req, cli, sink>>
  BY DEF ReadStdout, brcli
<1>2. /\ child' \in ChildSet /\ child'.out = child.out /\ child'.eaten = child.eaten
      /\ child' = child \/ child'.st = "killed"
  BY <1>1 DEF BrInv, ChildSet
<1>3. pipe \in Nat /\ pipe' \in Nat /\ sink \in Nat /\ child.out \in Nat
  BY <1>1 DEF BrInv, ChildSet
<1>4. cli # "idle" /\ srv' # "check"
  BY <1>1 DEF BrInv, NothingLeft, Send
<1>5. ChildOkIsWhole' /\ NothingLeft' /\ StreamOkIsWhole'
  BY <1>1, <1>2, <1>4 DEF BrInv, ChildOkIsWhole, NothingLeft, StreamOkIsWhole
<1>6. \A i \in 1..Len(down) : down[i] = "stdout"
  BY <1>1 DEF BrInv, OnlyLastEnds
<1>7. down \in Seq(Frames) /\ Len(down) \in Nat
  BY DEF BrInv
<1>8. CASE ClientGone
  <2>1. down' = down /\ cli # "reading"
    BY <1>1, <1>8 DEF Send, ClientGone
  <2> QED
    BY <1>1, <1>2, <1>3, <1>5, <1>6, <1>7, <2>1
       DEF BrInv, OnlyLastEnds, OkIsEarned, Success, AllAccounted
<1>9. CASE ~ClientGone
  <2>1. down' = Append(down, "stdout") /\ child' = child
    BY <1>1, <1>9 DEF Send
  <2>2. /\ down' \in Seq(Frames) /\ Len(down') = Len(down) + 1
        /\ \A i \in 1..Len(down') : down'[i] = "stdout"
    <3>1. "stdout" \in Frames
      BY DEF Frames
    <3>2. /\ down' \in Seq(Frames) /\ Len(down') = Len(down) + 1
          /\ down'[Len(down) + 1] = "stdout" /\ \A i \in 1..Len(down) : down'[i] = down[i]
      BY <1>7, <2>1, <3>1
    <3>3. ASSUME NEW i \in 1..Len(down') PROVE down'[i] = "stdout"
      <4>1. i \in 1..Len(down) \/ i = Len(down) + 1
        BY <1>7, <3>2
      <4> QED
        BY <1>6, <3>2, <4>1
    <3> QED
      BY <3>2, <3>3
  <2>3. OnlyLastEnds' /\ OkIsEarned'
    BY <2>2 DEF OnlyLastEnds, OkIsEarned, Success
  <2>4. OnTheWay' = Len(down) + 1 /\ OnTheWay = Len(down)
    BY <1>6, <1>7, <2>2 DEF OnTheWay
  <2>5. AllAccounted'
    BY <1>1, <1>3, <1>7, <2>1, <2>4 DEF BrInv, AllAccounted
  <2> QED
    BY <1>1, <1>2, <1>3, <1>5, <2>2, <2>3, <2>5 DEF BrInv
<1> QED
  BY <1>8, <1>9

\* The command is refused, does not start, ends or runs out of time: one terminal frame.
LEMMA EndsStep ==
    ASSUME BrInv,
           \/ Validate
           \/ \E missing \in BOOLEAN : SpawnFails(missing)
           \/ Finished(AfterLoop)
           \/ TimeOut(AfterLoop)
    PROVE  BrInv'
<1>0. child \in ChildSet /\ (AfterLoop = "join" \/ AfterLoop = "gone")
  BY DEF BrInv, AfterLoop
<1>1. CASE Validate
  <2>1. srv = "check" /\ Send("refused", "gone") /\ UNCHANGED <<req, cli, pipe, sink, child>>
    BY <1>1 DEF Validate, brcli
  <2>2. "refused" \in Frames /\ "refused" # "stdout" /\ ~Success("refused")
    BY DEF Frames, Success
  <2>3. srv = "check" /\ Send("refused", "gone")
    BY <2>1
  <2>4. /\ UNCHANGED <<req, cli, pipe, sink>> /\ child' \in ChildSet /\ child'.out = child.out
        /\ child'.eaten = child.eaten
        /\ child' = child \/ (child.st = "running" /\ child'.st = "killed")
    BY <1>0, <2>1
  <2> QED
    BY <2>2, <2>3, <2>4, LastWord
<1>2. ASSUME NEW missing \in BOOLEAN, SpawnFails(missing) PROVE BrInv'
  <2> DEFINE f == CASE req.mode # "unary" -> "exit bad" [] missing -> "not found" [] OTHER -> "failed"
  <2>1. srv = "check" /\ Send(f, "gone") /\ UNCHANGED <<req, cli, pipe, sink, child>>
    BY <1>2 DEF SpawnFails, brcli
  <2>2. f \in {"exit bad", "not found", "failed"}
    OBVIOUS
  <2> HIDE DEF f
  <2>3. f \in Frames /\ f # "stdout" /\ ~Success(f)
    BY <2>2 DEF Frames, Success
  <2>4. srv = "check" /\ Send(f, "gone")
    BY <2>1
  <2>5. /\ UNCHANGED <<req, cli, pipe, sink>> /\ child' \in ChildSet /\ child'.out = child.out
        /\ child'.eaten = child.eaten
        /\ child' = child \/ (child.st = "running" /\ child'.st = "killed")
    BY <1>0, <2>1
  <2> QED
    BY <2>3, <2>4, <2>5, LastWord
<1>3. CASE Finished(AfterLoop)
  <2> DEFINE f == IF req.mode = "unary" THEN IF child.st = "ok" THEN "ok" ELSE "failed"
                  ELSE IF child.st = "ok" \/ req.mode = "console" THEN "exit ok" ELSE "exit bad"
  <2>1. srv = "run" /\ pipe = 0 /\ Send(f, AfterLoop) /\ UNCHANGED <<req, cli, pipe, sink, child>>
    BY <1>3 DEF Finished, brcli
  <2>2. /\ f \in Frames /\ f # "stdout"
        /\ Success(f) /\ req.mode \in {"send", "receive"} => child.st = "ok"
    BY DEF Frames, Success
  <2> HIDE DEF f
  <2>3. \/ ~Success(f)
        \/ req.mode \notin {"send", "receive"}
        \/ child'.st = "ok" /\ pipe = 0
    BY <2>1, <2>2
  <2>4. srv = "run" /\ Send(f, AfterLoop) /\ f \in Frames /\ f # "stdout"
    BY <2>1, <2>2
  <2>5. /\ UNCHANGED <<req, cli, pipe, sink>> /\ child' \in ChildSet /\ child'.out = child.out
        /\ child'.eaten = child.eaten
        /\ child' = child \/ (child.st = "running" /\ child'.st = "killed")
    BY <1>0, <2>1
  <2> QED
    BY <1>0, <2>3, <2>4, <2>5, LastWord
<1>4. CASE TimeOut(AfterLoop)
  <2> DEFINE f == CASE req.mode = "unary" -> "failed" [] req.mode = "console" -> "exit ok"
                    [] OTHER -> "exit bad"
  <2>1. /\ srv = "run" /\ child' = [child EXCEPT !.st = "killed"] /\ Send(f, AfterLoop)
        /\ UNCHANGED <<req, cli, pipe, sink>>
    BY <1>4 DEF TimeOut, brcli
  <2>2. /\ f \in Frames /\ f # "stdout"
        /\ Success(f) => req.mode \notin {"send", "receive"}
    BY DEF Frames, Success
  <2>3. /\ child' \in ChildSet /\ child'.out = child.out /\ child'.eaten = child.eaten
        /\ child.st = "running" /\ child'.st = "killed"
    BY <1>0, <1>4, <2>1 DEF ChildSet, TimeOut
  <2> HIDE DEF f
  <2> QED
    BY <1>0, <2>1, <2>2, <2>3, LastWord
<1> QED
  BY <1>1, <1>2, <1>3, <1>4

\* The child starts, reads, writes or exits.
LEMMA ChildStep ==
    ASSUME BrInv,
           \/ Spawn
           \/ FeedChunk
           \/ ChildWrites
           \/ ChildEnds("ok")
           \/ ChildEnds("failed")
    PROVE  BrInv'
<1>1. CASE Spawn
  <2>1. /\ srv = "check" /\ srv' = "run" /\ UNCHANGED <<req, cli, pipe, down, sink>>
        /\ child' = [NoChild EXCEPT !.st = "running"]
    BY <1>1 DEF Spawn, brcli
  <2>2. child = NoChild /\ cli # "idle" /\ down = <<>>
    BY <2>1 DEF BrInv, NothingLeft
  <2>3. child' \in ChildSet /\ child'.out = child.out /\ child'.st = "running"
    BY <2>1, <2>2 DEF NoChild, ChildSet
  <2>4. OnlyLastEnds' /\ OkIsEarned' /\ ChildOkIsWhole' /\ NothingLeft'
    BY <2>1, <2>2, <2>3 DEF OnlyLastEnds, OkIsEarned, ChildOkIsWhole, NothingLeft
  <2>5. AllAccounted'
    BY <2>1, <2>3 DEF BrInv, AllAccounted, OnTheWay
  <2>6. StreamOkIsWhole'
    BY <2>1, <2>2 DEF BrInv, StreamOkIsWhole, NoChild
  <2> QED
    BY <2>1, <2>3, <2>4, <2>5, <2>6 DEF BrInv
<1>2. CASE ~Spawn
  <2>1. /\ child.st = "running" /\ UNCHANGED <<req, cli, srv, down, sink>>
        /\ child' \in ChildSet
    BY <1>2 DEF BrInv, ChildSet, FeedChunk, ChildWrites, ChildEnds, brcli
  <2>2. srv # "check" /\ cli # "idle"
    BY <2>1 DEF BrInv, NothingLeft, NoChild
  <2>3. /\ pipe' \in Nat
        /\ req.mode = "send" => child'.out - pipe' = child.out - pipe
    BY <1>2 DEF BrInv, ChildSet, FeedChunk, ChildWrites, ChildEnds
  <2>4. ChildOkIsWhole'
    <3>1. CASE FeedChunk \/ ChildWrites \/ ChildEnds("failed")
      <4>1. child'.st # "ok"
        BY <2>1, <3>1 DEF BrInv, ChildSet, FeedChunk, ChildWrites, ChildEnds
      <4> QED
        BY <4>1 DEF ChildOkIsWhole
    <3>2. CASE ChildEnds("ok")
      <4>1. /\ req.mode = "send" => child.out = Chunks
            /\ req.mode = "receive" => child.eaten = Chunks
        BY <3>2 DEF ChildEnds
      <4>2. child'.out = child.out /\ child'.eaten = child.eaten
        BY <3>2 DEF BrInv, ChildSet, ChildEnds
      <4> QED
        BY <2>1, <4>1, <4>2 DEF ChildOkIsWhole
    <3> QED
      BY <1>2, <3>1, <3>2
  <2>5. OnlyLastEnds' /\ NothingLeft'
    BY <2>1, <2>2 DEF BrInv, OnlyLastEnds, NothingLeft
  <2>6. OkIsEarned' /\ StreamOkIsWhole'
    BY <2>1 DEF BrInv, OkIsEarned, StreamOkIsWhole
  <2>7. AllAccounted'
    <3>1. SUFFICES ASSUME cli = "reading", req.mode = "send"
                   PROVE  sink + OnTheWay + pipe' = child'.out
      BY <2>1 DEF AllAccounted, OnTheWay
    <3>2. /\ sink + OnTheWay + pipe = child.out /\ child'.out - pipe' = child.out - pipe
          /\ sink \in Nat /\ pipe \in Nat /\ child.out \in Nat /\ child'.out \in Nat /\ Len(down) \in Nat
      BY <2>1, <2>3, <3>1 DEF BrInv, AllAccounted, ChildSet
    <3>3. OnTheWay \in Int
      BY <3>2 DEF OnTheWay
    <3> HIDE DEF OnTheWay
    <3> QED
      BY <2>3, <3>2, <3>3
  <2> QED
    BY <2>1, <2>3, <2>4, <2>5, <2>6, <2>7 DEF BrInv
<1> QED
  BY <1>1, <1>2

\* BrInv is inductive.
LEMMA BrStepInv == BrInv /\ [BrNext]_brvars => BrInv'
<1> SUFFICES ASSUME BrInv, [BrNext]_brvars PROVE BrInv'
  OBVIOUS
<1>1. CASE PumpChunk \/ PumpEnd \/ FeedEnds
  <2>1. UNCHANGED <<req, cli, srv, child, pipe, down, sink>>
    BY <1>1 DEF PumpChunk, PumpEnd, FeedEnds, brtask, brcli
  <2> QED
    BY <2>1, Unmoved
<1>2. CASE UNCHANGED brvars
  BY <1>2, Unmoved DEF brvars
<1>3. CASE ReadLost \/ GiveUp \/ BrokerDies \/ JoinFeeder
  <2>1. /\ UNCHANGED <<req, child, pipe, down, sink>>
        /\ srv' = srv \/ srv' = "gone"
        /\ cli' = cli \/ cli' = "error"
    BY <1>3 DEF ReadLost, GiveUp, BrokerDies, JoinFeeder, brtask, brcli
  <2>2. cli # "idle"
    BY <1>3 DEF ReadLost, GiveUp, BrokerDies, JoinFeeder, BrInv, NothingLeft
  <2> QED
    BY <2>1, <2>2, SideStep
<1>4. CASE SpawnFails(TRUE) \/ SpawnFails(FALSE)
  BY <1>4, EndsStep
<1> QED
  BY <1>1, <1>2, <1>3, <1>4, ConnectStep, ReadFrameStep, ClosedStep, EndsStep, ReadStdoutStep,
     ChildStep DEF BrNext

(* A streamed command that reports success to the backend has moved the whole stream: zfs     *)
(* send exited with 0 and all of its output is in the sink, zfs receive took every chunk,     *)
(* wherever the broker, the child, the backend or a deadline strikes (broker/client.rs,       *)
(* broker/server.rs).                                                      *)
THEOREM StreamsAreWhole == BrSpec => []StreamOkIsWhole
<1>1. BrInv => StreamOkIsWhole
  BY DEF BrInv
<1> QED
  BY <1>1, BrInitInv, BrStepInv, PTL DEF BrSpec
==============================================================================
