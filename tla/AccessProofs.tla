---------------------------- MODULE AccessProofs ----------------------------
(***************************************************************************)
(* Who is let in, for any accounts, entries, requests and bounds: a grant  *)
(* that was revoked stays revoked (RevokeIsFinal), and a live penalty of   *)
(* the login throttle holds (PenaltyHolds).                                *)
(*                                                                         *)
(* RevokeIsFinal.  An entry that was reported gone is in neither of its    *)
(* two places, the disk and the cache, and its id is not handed out again  *)
(* (RevokedIsGone).  What could bring it back is a request that still      *)
(* holds its grant, and a restart that still finds its record.  The mutex  *)
(* excludes the first: between the put and the insert of a grant nobody    *)
(* revokes it.  The order of the two halves of a revoke excludes the       *)
(* second: the cache forgets, and success is reported, only after the      *)
(* records are gone (InForce).  A request is authorized by the copy of the *)
(* grants that it took, so what was gone when it took it is not in it      *)
(* (CopyIsInForce).                                                        *)
(*                                                                         *)
(* PenaltyHolds.  It is a matter of the bucket arithmetic: a count stops   *)
(* at MaxShift + 1, which is where a further failure leaves it, an evicted *)
(* bucket is quiet, and a bucket that is not quiet asks for a second or    *)
(* more.                                                                   *)
(***************************************************************************)
EXTENDS AccessControl, LoginThrottle, TLAPS

-----------------------------------------------------------------------------
(* Access control: the inductive invariant.                                *)

\* Entries in force, or with a record, have an id that was handed out.
EntriesAreMinted ==
    /\ DOMAIN aclDisk = Entries /\ DOMAIN aclCache = Entries /\ minted \subseteq Entries
    /\ \A e \in Entries : aclDisk[e] # NoGrant \/ aclCache[e] # NoGrant => e \in minted

\* Entries that were reported gone are gone from the disk and from the cache.
RevokedIsGone ==
    /\ revoked \subseteq minted
    /\ \A e \in revoked : aclDisk[e] = NoGrant /\ aclCache[e] = NoGrant

\* What a request has found out so far is still so: from the lock on it is alone, the grant it
\* has put is not revoked, and the records it has erased are gone when it tells the cache.
InForce(q) ==
    /\ acReq[q].pc \notin {"idle", "lock"} => mutate = q
    /\ acReq[q].pc = "lock" => acReq[q].op \in {"grant", "revoke", "remove"}
    /\ acReq[q].pc \in {"revoke", "remove"} => acReq[q].op = acReq[q].pc
    /\ acReq[q].pc \in {"lock", "revoke"} /\ acReq[q].op = "revoke" => acReq[q].entry \in minted
    /\ acReq[q].pc \in {"lock", "remove"} /\ acReq[q].op = "remove" =>
         acReq[q].grant.subject \in AcUsers
    /\ acReq[q].pc = "insert" => acReq[q].entry \in minted \ revoked
    /\ acReq[q].pc \in {"erase", "forget"} => acReq[q].ids \subseteq minted
    /\ acReq[q].pc = "forget" => \A e \in acReq[q].ids : aclDisk[e] = NoGrant

\* The copy of the grants that a request carries has nothing that was reported gone before.
CopyIsInForce == \A e \in caller.since : caller.grants[e] = NoGrant

AcInv ==
    /\ EntriesAreMinted /\ RevokedIsGone
    /\ DOMAIN acReq = AcReqs /\ \A q \in AcReqs : InForce(q)

USE AcAssumption

-----------------------------------------------------------------------------

\* A node without grants.
LEMMA AcInitInv == AcInit => AcInv
<1> SUFFICES ASSUME AcInit PROVE AcInv
  OBVIOUS
<1>1. EntriesAreMinted /\ RevokedIsGone
  BY DEF AcInit, EntriesAreMinted, RevokedIsGone
<1>2. DOMAIN acReq = AcReqs /\ \A q \in AcReqs : acReq[q].pc = "idle"
  BY DEF AcInit, IdleAc
<1> QED
  BY <1>1, <1>2 DEF AcInv, InForce

\* While a request is past the lock the others are not.
LEMMA OthersWait ==
    ASSUME AcInv, NEW q \in AcReqs, acReq[q].pc \notin {"idle", "lock"},
           NEW p \in AcReqs, p # q
    PROVE  acReq[p].pc \in {"idle", "lock"}
BY DEF AcInv, InForce

\* A request that ends leaves the others as they are.
LEMMA FinishFrees ==
    ASSUME AcInv, NEW q \in AcReqs, Finish(q), UNCHANGED <<aclDisk, minted>>,
           revoked' = revoked \/ acReq[q].pc \notin {"idle", "lock"}
    PROVE  DOMAIN acReq' = AcReqs /\ \A p \in AcReqs : InForce(p)'
<1>1. /\ DOMAIN acReq' = AcReqs /\ acReq'[q].pc = "idle"
      /\ \A p \in AcReqs : p # q => acReq'[p] = acReq[p]
      /\ mutate # q => mutate' = mutate
  BY DEF Finish, AcInv, IdleAc
<1>2. InForce(q)'
  BY <1>1 DEF InForce
<1>3. ASSUME NEW p \in AcReqs, p # q PROVE InForce(p)'
  <2>1. CASE revoked' = revoked
    BY <1>1, <1>3, <2>1 DEF AcInv, InForce
  <2>2. CASE acReq[q].pc \notin {"idle", "lock"}
    <3>1. acReq[p].pc \in {"idle", "lock"} /\ acReq'[p] = acReq[p]
      BY <1>1, <1>3, <2>2, OthersWait
    <3> QED
      BY <3>1 DEF AcInv, InForce
  <2> QED
    BY <2>1, <2>2
<1> QED
  BY <1>1, <1>2, <1>3

\* A request that ends and changes neither disk nor cache.
LEMMA EndStep ==
    ASSUME AcInv, NEW q \in AcReqs, Finish(q), UNCHANGED <<aclDisk, aclCache, minted, revoked>>
    PROVE  AcInv'
<1>1. EntriesAreMinted' /\ RevokedIsGone'
  BY DEF AcInv, EntriesAreMinted, RevokedIsGone
<1> QED
  BY <1>1, FinishFrees DEF AcInv

\* A request that goes on and changes neither disk, cache nor what was minted or revoked.
LEMMA GoesOn ==
    ASSUME AcInv, NEW q \in AcReqs, UNCHANGED <<aclDisk, aclCache, minted, revoked>>,
           DOMAIN acReq' = AcReqs, \A p \in AcReqs : p # q => acReq'[p] = acReq[p],
           mutate' = mutate \/ mutate = Free, InForce(q)'
    PROVE  AcInv'
<1>1. EntriesAreMinted' /\ RevokedIsGone'
  BY DEF AcInv, EntriesAreMinted, RevokedIsGone
<1>2. ASSUME NEW p \in AcReqs, p # q PROVE InForce(p)'
  BY <1>2 DEF AcInv, InForce
<1> QED
  BY <1>1, <1>2 DEF AcInv

\* A request begins.
LEMMA BeginStep ==
    ASSUME AcInv, NEW q \in AcReqs,
           \/ \E g \in Grants : BeginGrant(q, g)
           \/ \E e \in Entries : BeginRevoke(q, e)
           \/ \E u \in AcUsers : BeginRemoveSubject(q, u)
    PROVE  AcInv'
<1>1. /\ UNCHANGED <<aclDisk, aclCache, minted, revoked, mutate>>
      /\ DOMAIN acReq' = AcReqs /\ \A p \in AcReqs : p # q => acReq'[p] = acReq[p]
  BY DEF BeginGrant, BeginRevoke, BeginRemoveSubject, achist, AcInv
<1>2. ASSUME NEW g \in Grants, BeginGrant(q, g) PROVE InForce(q)'
  <2>1. acReq'[q].pc = "lock" /\ acReq'[q].op = "grant"
    BY <1>2 DEF BeginGrant, AcInv, IdleAc
  <2> QED
    BY <2>1 DEF InForce
<1>3. ASSUME NEW e \in Entries, BeginRevoke(q, e) PROVE InForce(q)'
  <2>1. /\ acReq'[q].pc = "lock" /\ acReq'[q].op = "revoke" /\ acReq'[q].entry = e
        /\ e \in minted /\ minted' = minted
    BY <1>3 DEF BeginRevoke, AcInv, IdleAc
  <2> QED
    BY <2>1 DEF InForce
<1>4. ASSUME NEW u \in AcUsers, BeginRemoveSubject(q, u) PROVE InForce(q)'
  <2>1. acReq'[q].pc = "lock" /\ acReq'[q].op = "remove" /\ acReq'[q].grant.subject = u
    BY <1>4 DEF BeginRemoveSubject, AcInv, IdleAc, NoGrant
  <2> QED
    BY <2>1 DEF InForce
<1> QED
  BY <1>1, <1>2, <1>3, <1>4, GoesOn

\* The mutex is taken when no request is past it.
LEMMA LockStep ==
    ASSUME AcInv, NEW q \in AcReqs, LockMutate(q)
    PROVE  AcInv'
<1>1. /\ acReq[q].pc = "lock" /\ mutate = Free /\ mutate' = q
      /\ UNCHANGED <<aclDisk, aclCache, minted, revoked>>
      /\ AcTo(q, acReq[q].op)
  BY DEF LockMutate, AcAt, achist
<1>2. /\ DOMAIN acReq' = AcReqs /\ \A p \in AcReqs : p # q => acReq'[p] = acReq[p]
      /\ acReq'[q].pc = acReq[q].op /\ acReq'[q].op = acReq[q].op
      /\ acReq'[q].entry = acReq[q].entry /\ acReq'[q].grant = acReq[q].grant
  BY <1>1 DEF AcTo, AcInv
<1>3. InForce(q)'
  BY <1>1, <1>2 DEF AcInv, InForce
<1> QED
  BY <1>1, <1>2, <1>3, GoesOn

\* The record of a grant gets an id of its own: it was never revoked, and will not be while
\* the grant is not in the cache.
LEMMA PutStep ==
    ASSUME AcInv, NEW q \in AcReqs, GrantPut(q)
    PROVE  AcInv'
<1>1. PICK e \in Entries \ minted :
        /\ minted' = minted \cup {e}
        /\ aclDisk' = [aclDisk EXCEPT ![e] = acReq[q].grant]
        /\ acReq' = [acReq EXCEPT ![q].pc = "insert", ![q].entry = e]
  BY DEF GrantPut
<1>2. acReq[q].pc = "grant" /\ UNCHANGED <<aclCache, mutate, revoked>>
  BY DEF GrantPut, AcAt, achist
<1>3. /\ DOMAIN acReq' = AcReqs /\ \A p \in AcReqs : p # q => acReq'[p] = acReq[p]
      /\ acReq'[q].pc = "insert" /\ acReq'[q].entry = e
  BY <1>1 DEF AcInv
<1>4. mutate = q /\ \A p \in AcReqs : p # q => acReq[p].pc \in {"idle", "lock"}
  BY <1>2, OthersWait DEF AcInv, InForce
<1>5. EntriesAreMinted' /\ RevokedIsGone'
  BY <1>1, <1>2 DEF AcInv, EntriesAreMinted, RevokedIsGone
<1>6. InForce(q)'
  BY <1>1, <1>2, <1>3, <1>4 DEF AcInv, RevokedIsGone, InForce
<1>7. ASSUME NEW p \in AcReqs, p # q PROVE InForce(p)'
  BY <1>1, <1>3, <1>4, <1>7 DEF AcInv, InForce
<1> QED
  BY <1>3, <1>5, <1>6, <1>7 DEF AcInv

\* The cache takes the grant, under an id that is not revoked.
LEMMA InsertStep ==
    ASSUME AcInv, NEW q \in AcReqs, GrantInsert(q)
    PROVE  AcInv'
<1>1. /\ acReq[q].pc = "insert" /\ acReq[q].entry \in minted \ revoked
      /\ aclCache' = [aclCache EXCEPT ![acReq[q].entry] = acReq[q].grant]
      /\ Finish(q) /\ UNCHANGED <<aclDisk, minted, revoked>>
  BY DEF GrantInsert, AcAt, achist, AcInv, InForce
<1>2. EntriesAreMinted' /\ RevokedIsGone'
  BY <1>1 DEF AcInv, EntriesAreMinted, RevokedIsGone
<1> QED
  BY <1>1, <1>2, FinishFrees DEF AcInv

\* What is to be erased is an entry that was asked for, or entries of an account: both minted.
LEMMA CollectStep ==
    ASSUME AcInv, NEW q \in AcReqs, CollectIds(q)
    PROVE  AcInv'
<1> DEFINE ids == IF acReq[q].op = "revoke" THEN {acReq[q].entry}
                  ELSE EntriesOf(acReq[q].grant.subject)
<1>1. /\ acReq[q].pc \in {"revoke", "remove"} /\ mutate = q
      /\ UNCHANGED <<aclDisk, aclCache, minted, revoked, mutate>>
      /\ acReq' = [acReq EXCEPT ![q].pc = "erase", ![q].ids = ids, ![q].entry = "none"]
  BY DEF CollectIds, AcAt, achist, AcInv, InForce
<1>2. ids \subseteq minted
  <2>1. CASE acReq[q].pc = "revoke"
    BY <2>1 DEF AcInv, InForce
  <2>2. CASE acReq[q].pc = "remove"
    <3>1. acReq[q].grant.subject \in AcUsers /\ acReq[q].op = "remove"
      BY <2>2 DEF AcInv, InForce
    <3>2. \A e \in EntriesOf(acReq[q].grant.subject) : e \in Entries /\ aclCache[e] # NoGrant
      BY <3>1 DEF EntriesOf, NoGrant
    <3> QED
      BY <3>1, <3>2 DEF AcInv, EntriesAreMinted
  <2> QED
    BY <1>1, <2>1, <2>2
<1>3. /\ DOMAIN acReq' = AcReqs /\ \A p \in AcReqs : p # q => acReq'[p] = acReq[p]
      /\ acReq'[q].pc = "erase" /\ acReq'[q].ids = ids
  <2> HIDE DEF ids
  <2> QED
    BY <1>1 DEF AcInv
<1>4. InForce(q)'
  <2> HIDE DEF ids
  <2> QED
    BY <1>1, <1>2, <1>3 DEF InForce
<1> QED
  BY <1>1, <1>3, <1>4, GoesOn

\* Records go one after the other; when none is left the cache is told.
LEMMA EraseStep ==
    ASSUME AcInv, NEW q \in AcReqs, EraseRecords(q)
    PROVE  AcInv'
<1> DEFINE left == {e \in acReq[q].ids : aclDisk[e] # NoGrant}
<1>1. /\ acReq[q].pc = "erase" /\ mutate = q /\ acReq[q].ids \subseteq minted
      /\ UNCHANGED <<aclCache, minted, revoked, mutate>>
  BY DEF EraseRecords, AcAt, achist, AcInv, InForce
<1>2. CASE left = {}
  <2>1. AcTo(q, "forget") /\ UNCHANGED aclDisk
    BY <1>2 DEF EraseRecords
  <2>2. /\ DOMAIN acReq' = AcReqs /\ \A p \in AcReqs : p # q => acReq'[p] = acReq[p]
        /\ acReq'[q].pc = "forget" /\ acReq'[q].ids = acReq[q].ids
    BY <2>1 DEF AcTo, AcInv
  <2>3. InForce(q)'
    BY <1>1, <1>2, <2>1, <2>2 DEF InForce
  <2> QED
    BY <1>1, <2>1, <2>2, <2>3, GoesOn
<1>3. CASE left # {}
  <2>1. PICK e \in left : aclDisk' = [aclDisk EXCEPT ![e] = NoGrant] /\ UNCHANGED acReq
    BY <1>3 DEF EraseRecords
  <2>2. /\ DOMAIN aclDisk' = Entries
        /\ \A x \in Entries : aclDisk'[x] \in {aclDisk[x], NoGrant}
    BY <2>1 DEF AcInv, EntriesAreMinted
  <2>3. EntriesAreMinted'
    BY <1>1, <2>2 DEF AcInv, EntriesAreMinted
  <2>4. RevokedIsGone'
    BY <1>1, <2>2 DEF AcInv, EntriesAreMinted, RevokedIsGone
  <2>5. ASSUME NEW p \in AcReqs PROVE InForce(p)'
    BY <1>1, <2>1, <2>2 DEF AcInv, EntriesAreMinted, InForce
  <2> QED
    BY <2>1, <2>3, <2>4, <2>5 DEF AcInv
<1> QED
  BY <1>2, <1>3

\* The cache forgets what the disk has lost, and the entries are reported gone.
LEMMA ForgetStep ==
    ASSUME AcInv, NEW q \in AcReqs, ForgetEntries(q)
    PROVE  AcInv'
<1>1. /\ acReq[q].pc = "forget" /\ acReq[q].ids \subseteq minted
      /\ \A e \in acReq[q].ids : aclDisk[e] = NoGrant
      /\ aclCache' = [e \in Entries |-> IF e \in acReq[q].ids THEN NoGrant ELSE aclCache[e]]
      /\ revoked' = revoked \cup acReq[q].ids
      /\ Finish(q) /\ UNCHANGED <<aclDisk, minted>>
  BY DEF ForgetEntries, AcAt, AcInv, InForce
<1>2. EntriesAreMinted' /\ RevokedIsGone'
  BY <1>1 DEF AcInv, EntriesAreMinted, RevokedIsGone
<1> QED
  BY <1>1, <1>2, FinishFrees DEF AcInv

\* A crash empties the cache and ends every request.
LEMMA AcCrashStep ==
    ASSUME AcInv, AcCrash
    PROVE  AcInv'
<1>1. /\ DOMAIN acReq' = AcReqs /\ \A q \in AcReqs : acReq'[q].pc = "idle"
      /\ aclCache' = [e \in Entries |-> NoGrant] /\ UNCHANGED <<aclDisk, minted, revoked>>
  BY DEF AcCrash, IdleAc, achist
<1>2. EntriesAreMinted' /\ RevokedIsGone'
  BY <1>1 DEF AcInv, EntriesAreMinted, RevokedIsGone
<1> QED
  BY <1>1, <1>2 DEF AcInv, InForce

\* A restart loads what the disk still has.
LEMMA LoadStep ==
    ASSUME AcInv, LoadAcl
    PROVE  AcInv'
<1>1. aclCache' = aclDisk /\ UNCHANGED <<aclDisk, minted, revoked, acReq, mutate>>
  BY DEF LoadAcl, achist
<1>2. EntriesAreMinted' /\ RevokedIsGone'
  BY <1>1 DEF AcInv, EntriesAreMinted, RevokedIsGone
<1> QED
  BY <1>1, <1>2 DEF AcInv, InForce

\* A request that is to be authorized only reads.
LEMMA ReadStep ==
    ASSUME AcInv, UNCHANGED <<aclDisk, aclCache, minted, revoked, acReq, mutate>>
    PROVE  AcInv'
BY DEF AcInv, EntriesAreMinted, RevokedIsGone, InForce

\* The steps of requests that are to be authorized.
Reads == \/ \E u \in AcUsers : Extract(u)
         \/ \E p \in ResourcePaths, perm \in {"read", "write"} : Require(p, perm)
         \/ Forbidden

\* Every step keeps the invariant.
LEMMA AcStepInv == AcInv /\ [AcNext]_acvars => AcInv'
<1> SUFFICES ASSUME AcInv, [AcNext]_acvars PROVE AcInv'
  OBVIOUS
<1>1. ASSUME Reads PROVE AcInv'
  BY <1>1, ReadStep DEF Reads, Extract, Require, Forbidden
<1>2. ASSUME UNCHANGED acvars PROVE AcInv'
  BY <1>2, ReadStep DEF acvars
<1>3. ASSUME NEW q \in AcReqs, AcStep(q) PROVE AcInv'
  <2>1. CASE GrantDuplicate(q) \/ RevokeUnknown(q) \/ StoreFails(q) \/ AcHangUp(q)
    BY <2>1, EndStep DEF GrantDuplicate, RevokeUnknown, StoreFails, AcHangUp, achist
  <2> QED
    BY <1>3, <2>1, LockStep, PutStep, InsertStep, CollectStep, EraseStep, ForgetStep DEF AcStep
<1>4. ASSUME NEW q \in AcReqs,
             \/ \E g \in Grants : BeginGrant(q, g)
             \/ \E e \in Entries : BeginRevoke(q, e)
             \/ \E u \in AcUsers : BeginRemoveSubject(q, u)
      PROVE  AcInv'
  BY <1>4, BeginStep
<1> QED
  BY <1>1, <1>2, <1>3, <1>4, AcCrashStep, LoadStep DEF AcNext, Reads

-----------------------------------------------------------------------------

\* The other steps leave the request and the latest authorization as they are.
LEMMA OthersDoNotRead ==
    ASSUME [AcNext]_acvars, ~Reads
    PROVE  served' = served /\ caller' \in {caller, NoCaller}
BY DEF AcNext, AcStep, Reads, BeginGrant, BeginRevoke, BeginRemoveSubject, LockMutate,
       GrantDuplicate, GrantPut, GrantInsert, RevokeUnknown, CollectIds, EraseRecords,
       ForgetEntries, StoreFails, AcHangUp, AcCrash, LoadAcl, achist, acvars

\* What was reported gone is not in the cache, so not in a copy that is taken of it.
LEMMA CopyStep == AcInv /\ CopyIsInForce /\ [AcNext]_acvars => CopyIsInForce'
<1> SUFFICES ASSUME AcInv, CopyIsInForce, [AcNext]_acvars PROVE CopyIsInForce'
  OBVIOUS
<1>1. ASSUME NEW u \in AcUsers, Extract(u) PROVE CopyIsInForce'
  <2>1. caller' = [user |-> u, grants |-> GrantsFor(u), since |-> revoked]
    BY <1>1 DEF Extract
  <2>2. \A e \in revoked : e \in Entries /\ aclCache[e] = NoGrant
    BY DEF AcInv, EntriesAreMinted, RevokedIsGone
  <2>3. \A e \in revoked : GrantsFor(u)[e] = NoGrant
    BY <2>2 DEF GrantsFor
  <2> QED
    BY <2>1, <2>3 DEF CopyIsInForce
<1>2. CASE caller' = NoCaller
  BY <1>2 DEF CopyIsInForce, NoCaller
<1>3. CASE caller' = caller
  BY <1>3 DEF CopyIsInForce
<1> QED
  BY <1>1, <1>2, <1>3, OthersDoNotRead DEF Reads, Require, Forbidden

\* The entries that let a request through are in its copy.
LEMMA ServedByCopy ==
    ASSUME CopyIsInForce, [AcNext]_acvars, served' # served
    PROVE  served'.by \cap caller.since = {}
<1>1. PICK p \in ResourcePaths, perm \in {"read", "write"} : Require(p, perm)
  BY OthersDoNotRead DEF Reads, Extract, Forbidden
<1>2. served'.by = Giving(caller.grants, p, perm)
  BY <1>1 DEF Require
<1>3. \A e \in Giving(caller.grants, p, perm) : caller.grants[e] # NoGrant
  BY DEF Giving, Covering
<1> QED
  BY <1>2, <1>3 DEF CopyIsInForce

\* Once a revoke, or the removal of an account, has reported success, none of the entries it took
\* away lets through a request that copies its grants afterwards, restarts included:
\* RevokeIsFinal, for any number of requests, entries, failures and crashes.
THEOREM RevokedStaysRevoked == AcSpec => RevokeIsFinal
<1>1. AcInit => CopyIsInForce
  BY DEF AcInit, NoCaller, CopyIsInForce
<1>2. CopyIsInForce /\ [AcNext]_acvars => [served' # served => served'.by \cap caller.since = {}]_acvars
  BY ServedByCopy
<1>3. AcSpec => [](AcInv /\ CopyIsInForce)
  BY <1>1, AcInitInv, AcStepInv, CopyStep, PTL DEF AcSpec
<1> QED
  BY <1>2, <1>3, PTL DEF AcSpec, RevokeIsFinal

-----------------------------------------------------------------------------
(* The login throttle: PenaltyHolds.                                       *)

\* Counts stop at MaxShift + 1, ages just past the quiet window.
BucketSet == [failures : 0..(MaxShift + 1), age : 0..(QuietWindow + 1)]

TInv ==
    /\ bucket \in [Keys -> BucketSet]
    /\ DOMAIN attempt = Attempts

\* The bounds are natural numbers.
LEMMA Bounds ==
    MaxShift \in Nat /\ MaxDelay \in Nat /\ MaxSleep \in Nat /\ QuietWindow \in Nat /\ 0 < MaxDelay
BY ThrottleAssumption

\* A missing bucket, and a bucket after a failure, are buckets.
LEMMA Buckets ==
    /\ NoBucket \in BucketSet /\ Quiet(NoBucket)
    /\ \A b \in BucketSet : RecordFailure(b) \in BucketSet
BY Bounds DEF NoBucket, BucketSet, RecordFailure, Quiet, Smaller

\* A failure never lowers the count of a bucket that is not quiet.
LEMMA FailureCounts ==
    ASSUME NEW b \in BucketSet, ~Quiet(b)
    PROVE  RecordFailure(b).failures >= b.failures
BY Bounds DEF BucketSet, RecordFailure, Smaller

\* A bucket that is not quiet asks for a delay of a second or more.
LEMMA LiveDelays ==
    ASSUME NEW b \in BucketSet
    PROVE  CurrentDelay(b) \in Nat /\ (~Quiet(b) => CurrentDelay(b) >= 1)
<1> DEFINE n == Smaller(Larger(b.failures - 1, 0), MaxShift)
<1>1. b.failures \in 0..(MaxShift + 1)
  BY DEF BucketSet
<1>2. n \in 0..MaxShift
  BY <1>1, Bounds DEF Smaller, Larger
<1>3. 2 ^ n \in Nat /\ 2 ^ n >= 1
  BY <1>2, DoublingAssumption
<1>4. RequiredDelay(b.failures) = Smaller(2 ^ n, MaxDelay)
  BY DEF RequiredDelay
<1> HIDE DEF n
<1>5. Smaller(2 ^ n, MaxDelay) \in Nat /\ Smaller(2 ^ n, MaxDelay) >= 1
  BY <1>3, Bounds DEF Smaller
<1> QED
  BY <1>4, <1>5 DEF CurrentDelay

\* The stricter of two buckets decides.
LEMMA PenaltyIsStricter ==
    ASSUME TInv, NEW ip \in Keys, NEW account \in Keys, NEW k \in {ip, account},
           ~Quiet(bucket[k])
    PROVE  Penalty(bucket, ip, account) >= 1
<1>1. bucket[ip] \in BucketSet /\ bucket[account] \in BucketSet
  BY DEF TInv
<1>2. /\ CurrentDelay(bucket[ip]) \in Nat /\ CurrentDelay(bucket[account]) \in Nat
      /\ CurrentDelay(bucket[ip]) >= 1 \/ CurrentDelay(bucket[account]) >= 1
  BY <1>1, LiveDelays
<1> QED
  BY <1>2 DEF Penalty, Larger

\* A failure on a pair of keys: every bucket stays a bucket, and one that is not quiet keeps its
\* failures, although the maps may be full.
LEMMA FailureStep ==
    ASSUME TInv, NEW ip, NEW account, bucket' = AfterFailure(ip, account)
    PROVE  /\ bucket' \in [Keys -> BucketSet]
           /\ \A k \in Keys : Quiet(bucket[k]) \/ bucket'[k].failures >= bucket[k].failures
<1>1. \A k \in Keys : bucket[k] \in BucketSet
  BY DEF TInv
<1>2. \A k \in Evicted(IPs, ip) \cup Evicted(Accounts, account) : Quiet(bucket[k])
  BY DEF Evicted
<1>3. ASSUME NEW k \in Keys
      PROVE  /\ bucket'[k] \in BucketSet
             /\ Quiet(bucket[k]) \/ bucket'[k].failures >= bucket[k].failures
  <2>1. CASE k \in {ip, account}
    <3>1. bucket'[k] = RecordFailure(bucket[k])
      BY <2>1 DEF AfterFailure
    <3> QED
      BY <1>1, <3>1, Buckets, FailureCounts
  <2>2. CASE k \notin {ip, account} /\ k \in Evicted(IPs, ip) \cup Evicted(Accounts, account)
    <3>1. bucket'[k] = NoBucket
      BY <2>2 DEF AfterFailure
    <3> QED
      BY <1>2, <2>2, <3>1, Buckets
  <2>3. CASE k \notin {ip, account} /\ k \notin Evicted(IPs, ip) \cup Evicted(Accounts, account)
    <3>1. bucket'[k] = bucket[k]
      BY <2>3 DEF AfterFailure
    <3>2. bucket[k].failures \in Int
      BY <1>1, Bounds DEF BucketSet
    <3> QED
      BY <1>1, <3>1, <3>2
  <2> QED
    BY <2>1, <2>2, <2>3
<1>4. bucket' = [k \in Keys |-> bucket'[k]]
  BY DEF AfterFailure
<1> QED
  BY <1>3, <1>4

\* A bucket that did not change keeps its failures.
LEMMA CountsStay ==
    ASSUME TInv, NEW k \in Keys, bucket'[k].failures = bucket[k].failures
    PROVE  bucket'[k].failures >= bucket[k].failures
<1>1. bucket[k].failures \in Int
  BY Bounds DEF TInv, BucketSet
<1> QED
  BY <1>1

\* Time passes: counts stay.
LEMMA TickStep ==
    ASSUME TInv, Tick
    PROVE  /\ TInv'
           /\ \A k \in Keys : bucket'[k].failures >= bucket[k].failures
           /\ \A a \in Attempts : attempt[a] = NoAttempt => attempt'[a] = NoAttempt
<1>1. ASSUME NEW k \in Keys
      PROVE  bucket'[k] \in BucketSet /\ bucket'[k].failures = bucket[k].failures
  <2>1. bucket[k] \in BucketSet
    BY DEF TInv
  <2>2. bucket'[k] = [bucket[k] EXCEPT !.age = Smaller(bucket[k].age + 1, QuietWindow + 1)]
    BY DEF Tick
  <2>3. Smaller(bucket[k].age + 1, QuietWindow + 1) \in 0..(QuietWindow + 1)
    BY <2>1, Bounds DEF Smaller, BucketSet
  <2> QED
    BY <2>1, <2>2, <2>3 DEF BucketSet
<1>2. bucket' = [k \in Keys |-> bucket'[k]] /\ DOMAIN attempt' = Attempts
  BY DEF Tick
<1>3. TInv'
  BY <1>1, <1>2 DEF TInv
<1>4. \A a \in Attempts : attempt[a] = NoAttempt => attempt'[a] = NoAttempt
  BY DEF Tick, NoAttempt
<1> QED
  BY <1>1, <1>3, <1>4, CountsStay

\* An attempt that is on its way is not a free slot.
LEMMA OnItsWay == \A a \in Attempts : attempt[a].pc \in {"sleep", "verify"} => attempt[a] # NoAttempt
BY DEF NoAttempt

\* What PenaltyHolds allows of a step: buckets, then admissions.
CountsKept ==
    \A k \in Keys :
       \/ Quiet(bucket[k])
       \/ bucket'[k].failures >= bucket[k].failures
       \/ \E a \in Attempts : /\ attempt[a].pc = "verify" /\ attempt'[a] = NoAttempt
                              /\ k \in {attempt[a].pair[1], attempt[a].pair[2]}
DelayedEntry ==
    \A a \in Attempts : attempt[a] = NoAttempt /\ attempt'[a] # NoAttempt =>
       LET p == attempt'[a].pair
       IN  (\E k \in {p[1], p[2]} : bucket[k].failures > 0 /\ ~Quiet(bucket[k]))
              => attempt'[a].left >= 1

\* A rejection is counted as a failure.
LEMMA RejectStep ==
    ASSUME TInv, NEW a \in Attempts, NEW ip, NEW account, Reject(a, ip, account)
    PROVE  TInv' /\ CountsKept /\ DelayedEntry
<1>1. bucket' = AfterFailure(ip, account) /\ attempt' = attempt
  BY DEF Reject
<1>2. /\ bucket' \in [Keys -> BucketSet]
      /\ \A k \in Keys : Quiet(bucket[k]) \/ bucket'[k].failures >= bucket[k].failures
  BY <1>1, FailureStep
<1> QED
  BY <1>1, <1>2 DEF TInv, CountsKept, DelayedEntry

\* An attempt that is let in sleeps for the penalty of its pair.
LEMMA AdmitStep ==
    ASSUME TInv, NEW a \in Attempts, NEW ip \in IPs, NEW account \in Accounts,
           Admit(a, ip, account)
    PROVE  TInv' /\ CountsKept /\ DelayedEntry
<1>1. /\ bucket' = bucket /\ DOMAIN attempt' = Attempts
      /\ attempt'[a].pair = <<ip, account>>
      /\ attempt'[a].left = Penalty(bucket, ip, account)
      /\ \A c \in Attempts : c # a => attempt'[c] = attempt[c]
  BY DEF Admit, TInv
<1>2. TInv'
  BY <1>1 DEF TInv
<1>3. CountsKept
  BY <1>1, CountsStay DEF CountsKept
<1>4. ip \in Keys /\ account \in Keys
  BY DEF Keys
<1>5. attempt'[a].pair[1] = ip /\ attempt'[a].pair[2] = account
  BY <1>1
<1>6. \A k \in {ip, account} : ~Quiet(bucket[k]) => attempt'[a].left >= 1
  BY <1>1, <1>4, PenaltyIsStricter
<1>7. DelayedEntry
  BY <1>1, <1>5, <1>6 DEF DelayedEntry
<1> QED
  BY <1>2, <1>3, <1>7

\* An attempt wakes up, or is answered: buckets change only as its outcome says.
LEMMA AnswerStep ==
    ASSUME TInv, NEW a \in Attempts,
           \/ Wake(a)
           \/ Succeed(a)
           \/ NeedsSecondFactor(a)
           \/ Fail(a)
    PROVE  TInv' /\ CountsKept /\ DelayedEntry
<1>1. /\ attempt[a] # NoAttempt /\ DOMAIN attempt' = Attempts
      /\ \A c \in Attempts : c # a => attempt'[c] = attempt[c]
  BY OnItsWay DEF TInv, Wake, Succeed, NeedsSecondFactor, Fail
<1>2. DelayedEntry
  BY <1>1 DEF DelayedEntry
<1>3. CASE bucket' = bucket
  BY <1>1, <1>2, <1>3, CountsStay DEF TInv, CountsKept
<1>4. CASE Succeed(a)
  <2>1. attempt[a].pc = "verify" /\ attempt'[a] = NoAttempt
    BY <1>4 DEF Succeed, TInv
  <2>2. \A k \in Keys : \/ k \in {attempt[a].pair[1], attempt[a].pair[2]} /\ bucket'[k] = NoBucket
                        \/ bucket'[k] = bucket[k]
    BY <1>4 DEF Succeed
  <2>3. CountsKept
    BY <2>1, <2>2, CountsStay DEF CountsKept
  <2>4. bucket' = [k \in Keys |-> bucket'[k]]
    BY <1>4 DEF Succeed
  <2>5. bucket' \in [Keys -> BucketSet]
    BY <2>2, <2>4, Buckets DEF TInv
  <2> QED
    BY <1>1, <1>2, <2>3, <2>5 DEF TInv
<1>5. CASE Fail(a)
  <2>1. bucket' = AfterFailure(attempt[a].pair[1], attempt[a].pair[2])
    BY <1>5 DEF Fail
  <2>2. /\ bucket' \in [Keys -> BucketSet]
        /\ \A k \in Keys : Quiet(bucket[k]) \/ bucket'[k].failures >= bucket[k].failures
    BY <2>1, FailureStep
  <2> QED
    BY <1>1, <1>2, <2>2 DEF TInv, CountsKept
<1> QED
  BY <1>3, <1>4, <1>5 DEF Wake, NeedsSecondFactor

\* No bucket and no attempt to begin with.
LEMMA TInitInv == TInit => TInv
BY Buckets DEF TInit, TInv

\* TInv is inductive, and every step from it is one that PenaltyHolds allows.
LEMMA TStepInv == TInv /\ [TNext]_tvars => TInv' /\ ((CountsKept /\ DelayedEntry) \/ UNCHANGED tvars)
<1> SUFFICES ASSUME TInv, [TNext]_tvars
             PROVE  TInv' /\ ((CountsKept /\ DelayedEntry) \/ UNCHANGED tvars)
  OBVIOUS
<1>1. ASSUME NEW a \in Attempts, NEW p \in Pairs, Reject(a, p[1], p[2]) \/ Admit(a, p[1], p[2])
      PROVE  TInv' /\ CountsKept /\ DelayedEntry
  <2>1. p[1] \in IPs /\ p[2] \in Accounts
    BY DEF Pairs
  <2> QED
    BY <1>1, <2>1, RejectStep, AdmitStep
<1>2. ASSUME NEW a \in Attempts, Wake(a) \/ Succeed(a) \/ NeedsSecondFactor(a) \/ Fail(a)
      PROVE  TInv' /\ CountsKept /\ DelayedEntry
  BY <1>2, AnswerStep
<1>3. CASE Tick
  BY <1>3, TickStep DEF CountsKept, DelayedEntry
<1>4. CASE UNCHANGED tvars
  BY <1>4 DEF TInv, tvars
<1> QED
  BY <1>1, <1>2, <1>3, <1>4 DEF TNext

(* A full map never makes a bucket that is not quiet forget failures, only a success on its   *)
(* own key does, and a source or account with such a bucket is never let in without delay     *)
(* (login_throttle.rs record_failure, penalty_for).                        *)
THEOREM PenaltiesHold == TSpec => PenaltyHolds
<1>1. TInv /\ [TNext]_tvars => [CountsKept /\ DelayedEntry]_tvars
  BY TStepInv
<1>2. TInv /\ [TNext]_tvars => TInv'
  BY TStepInv
<1> QED
  BY <1>1, <1>2, TInitInv, PTL DEF TSpec, PenaltyHolds, CountsKept, DelayedEntry
=============================================================================
