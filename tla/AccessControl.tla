---------------------------- MODULE AccessControl ----------------------------
(***************************************************************************)
(* Path-scoped grants (services/acl.rs), how a request is authorized with   *)
(* them (auth/mod.rs), and the two handlers that take grants away:          *)
(* DELETE /acl/{id} and DELETE /users/{id}.                                 *)
(*                                                                          *)
(* An entry lives twice, as a record on disk and in the cache that every    *)
(* request reads.  The mutex `mutate` serializes the three operations that  *)
(* change entries; each of them changes the disk first and the cache after. *)
(* A store call may fail, a caller may hang up at any await, and the        *)
(* backend may crash, which empties the cache until load reads the disk.    *)
(*                                                                          *)
(* A request carries a copy of its caller's grants from the extractor to    *)
(* the handler, which may await the body first: what it requires is looked  *)
(* up in the copy.  Such requests only read, so one at a time is modelled.  *)
(*                                                                          *)
(* A path is the sequence of its segments, so <<>> is the root "/".         *)
(***************************************************************************)
EXTENDS Naturals, FiniteSets, Sequences, SequencesExt

CONSTANTS AcUsers,      \* accounts that may hold grants
          Entries,      \* ids that new_id may hand out
          AcReqs,       \* concurrent requests
          Resources,    \* guests of the collection "vms"
          GrantPaths,   \* paths that POST /acl is asked for
          GrantRoles,   \* roles that POST /acl is asked for
          MaxAcFaults,  \* failing store calls and hang-ups
          MaxAcCrashes

VARIABLES accounts,     \* the user cache of AuthService: ids of live accounts
          aclDisk,      \* records on disk: [Entries -> grant or NoGrant]
          aclCache,     \* entries: RwLock<HashMap>
          mutate,       \* holder of the mutex, or Free
          acReq,        \* requests under way
          acUp,         \* the backend is serving
          minted,       \* ids new_id has handed out
          revoked,      \* history: entries a request has reported gone
          caller,       \* the AuthUser of a request that has not been authorized yet
          served,       \* the latest authorization: who, by which entries
          acFaults, acCrashes

acvars == <<accounts, aclDisk, aclCache, mutate, acReq, acUp, minted, revoked,
            caller, served, acFaults, acCrashes>>

NoGrant == [path |-> <<>>, subject |-> "none", role |-> "none", propagate |-> FALSE]
Free == "free"
Root == <<>>
\* `since` is history: the entries reported gone when the grants were copied
NoCaller == [user |-> "none", grants |-> [e \in Entries |-> NoGrant], since |-> {}]

\* accounts and requests have ids of their own
ASSUME AcAssumption == "none" \notin AcUsers /\ Free \notin AcReqs


\* resource_path_for: an item of a collection, a collection, or the root
ResourcePaths == {Root, <<"vms">>} \cup {<<"vms", x>> : x \in Resources}

\* effective_permissions, reduced to one permission every role has and one it has not
PermissionsOf(role) == CASE role = "admin" -> {"read", "write"}
                         [] role = "viewer" -> {"read"}
                         [] OTHER -> {}

\* normalize_path and the request's defaults: what create stores
Grants == [path : GrantPaths, subject : AcUsers, role : GrantRoles, propagate : BOOLEAN]

\* path_covers
Covers(g, path) == \/ g.path = path
                   \/ g.propagate /\ IsPrefix(g.path, path)

\* entries_for_subject
EntriesOf(u) == {e \in Entries : aclCache[e].subject = u}

\* grants_for: here without the node-wide roles, which are a grant at the root
GrantsFor(u) == [e \in Entries |-> IF e \in EntriesOf(u) THEN aclCache[e] ELSE NoGrant]

Covering(grants, path) == {e \in Entries : grants[e] # NoGrant /\ Covers(grants[e], path)}

\* effective_permissions_at: the entries that give a permission
Giving(grants, path, perm) ==
    {e \in Covering(grants, path) : perm \in PermissionsOf(grants[e].role)}

IdleAc == [pc |-> "idle", op |-> "none", entry |-> "none", grant |-> NoGrant,
           ids |-> {}]

AcInit ==
    /\ accounts = AcUsers
    /\ aclDisk = [e \in Entries |-> NoGrant]
    /\ aclCache = aclDisk
    /\ mutate = Free
    /\ acReq = [q \in AcReqs |-> IdleAc]
    /\ acUp = TRUE
    /\ minted = {} /\ revoked = {}
    /\ caller = NoCaller /\ served = [by |-> {}, user |-> "none"]
    /\ acFaults = 0 /\ acCrashes = 0

AcAt(q, pc) == acUp /\ acReq[q].pc = pc
AcTo(q, pc) == acReq' = [acReq EXCEPT ![q].pc = pc]
Finish(q) == /\ acReq' = [acReq EXCEPT ![q] = IdleAc]
             /\ mutate' = IF mutate = q THEN Free ELSE mutate
AcFault == acFaults < MaxAcFaults /\ acFaults' = acFaults + 1
achist == <<revoked, caller, served>>
acbound == <<acFaults, acCrashes>>

-----------------------------------------------------------------------------
(* The extractor and require                                                *)

\* from_request_parts: a session caller and a copy of its grants in the cache
Extract(u) ==
    /\ acUp /\ u \in accounts /\ caller = NoCaller
    /\ caller' = [user |-> u, grants |-> GrantsFor(u), since |-> revoked]
    /\ UNCHANGED <<accounts, aclDisk, aclCache, mutate, acReq, acUp, minted, revoked, served, acbound>>

\* require, require_at: the handler looks up a permission at the path of the resource, in the
\* copy that it was given
Require(path, perm) ==
    /\ acUp /\ caller # NoCaller
    /\ Giving(caller.grants, path, perm) # {}
    /\ served' = [by |-> Giving(caller.grants, path, perm), user |-> caller.user]
    /\ caller' = NoCaller
    /\ UNCHANGED <<accounts, aclDisk, aclCache, mutate, acReq, acUp, minted, revoked, acbound>>

\* 403, or the client has left
Forbidden ==
    /\ acUp /\ caller # NoCaller
    /\ caller' = NoCaller
    /\ UNCHANGED <<accounts, aclDisk, aclCache, mutate, acReq, acUp, minted, revoked, served, acbound>>

-----------------------------------------------------------------------------
(* POST /acl                                                                *)

\* create_acl: the subject must be an account
BeginGrant(q, g) ==
    /\ AcAt(q, "idle")
    /\ g.subject \in accounts
    /\ acReq' = [acReq EXCEPT ![q] = [IdleAc EXCEPT !.pc = "lock", !.op = "grant", !.grant = g]]
    /\ UNCHANGED <<accounts, aclDisk, aclCache, mutate, acUp, minted, achist, acbound>>

\* DELETE /acl/{id}
BeginRevoke(q, e) ==
    /\ AcAt(q, "idle") /\ e \in minted
    /\ acReq' = [acReq EXCEPT ![q] = [IdleAc EXCEPT !.pc = "lock", !.op = "revoke", !.entry = e]]
    /\ UNCHANGED <<accounts, aclDisk, aclCache, mutate, acUp, minted, achist, acbound>>

\* DELETE /users/{id}: delete_user succeeds, remove_subject follows
BeginRemoveSubject(q, u) ==
    /\ AcAt(q, "idle") /\ u \in accounts
    /\ accounts' = accounts \ {u}
    /\ acReq' = [acReq EXCEPT ![q] = [IdleAc EXCEPT !.pc = "lock", !.op = "remove",
                                      !.grant.subject = u]]
    /\ UNCHANGED <<aclDisk, aclCache, mutate, acUp, minted, achist, acbound>>

LockMutate(q) ==
    /\ AcAt(q, "lock") /\ mutate = Free
    /\ mutate' = q
    /\ AcTo(q, acReq[q].op)
    /\ UNCHANGED <<accounts, aclDisk, aclCache, acUp, minted, achist, acbound>>

\* create: an exact duplicate is returned as it is
GrantDuplicate(q) ==
    /\ AcAt(q, "grant")
    /\ \E e \in Entries : aclCache[e] = acReq[q].grant
    /\ Finish(q)
    /\ UNCHANGED <<accounts, aclDisk, aclCache, acUp, minted, achist, acbound>>

GrantPut(q) ==
    /\ AcAt(q, "grant")
    /\ \A e \in Entries : aclCache[e] # acReq[q].grant
    /\ \E e \in Entries \ minted :
         /\ minted' = minted \cup {e}
         /\ aclDisk' = [aclDisk EXCEPT ![e] = acReq[q].grant]
         /\ acReq' = [acReq EXCEPT ![q].pc = "insert", ![q].entry = e]
    /\ UNCHANGED <<accounts, aclCache, mutate, acUp, achist, acbound>>

GrantInsert(q) ==
    /\ AcAt(q, "insert")
    /\ aclCache' = [aclCache EXCEPT ![acReq[q].entry] = acReq[q].grant]
    /\ Finish(q)
    /\ UNCHANGED <<accounts, aclDisk, acUp, minted, achist, acbound>>

-----------------------------------------------------------------------------
(* delete and remove_subject                                                *)

RevokeUnknown(q) ==
    /\ AcAt(q, "revoke") /\ aclCache[acReq[q].entry] = NoGrant
    /\ Finish(q)
    /\ UNCHANGED <<accounts, aclDisk, aclCache, acUp, minted, achist, acbound>>

\* the ids to delete are those of the cache at this moment
CollectIds(q) ==
    /\ \/ AcAt(q, "revoke") /\ aclCache[acReq[q].entry] # NoGrant
       \/ AcAt(q, "remove")
    /\ acReq' = [acReq EXCEPT ![q].pc = "erase",
                   ![q].ids = IF acReq[q].op = "revoke" THEN {acReq[q].entry}
                              ELSE EntriesOf(acReq[q].grant.subject),
                   ![q].entry = "none"]
    /\ UNCHANGED <<accounts, aclDisk, aclCache, mutate, acUp, minted, achist, acbound>>

\* mistake: the records of the entries are forgotten by the cache only
EraseRecords_CacheOnly(q) ==
    /\ AcAt(q, "erase")
    /\ AcTo(q, "forget")
    /\ UNCHANGED <<accounts, aclDisk, aclCache, mutate, acUp, minted, achist, acbound>>

\* store.delete of one id after the other; a record that is gone already is fine
EraseRecords(q) ==
    /\ AcAt(q, "erase")
    /\ LET left == {e \in acReq[q].ids : aclDisk[e] # NoGrant} IN
         IF left = {} THEN AcTo(q, "forget") /\ UNCHANGED aclDisk
         ELSE \E e \in left : aclDisk' = [aclDisk EXCEPT ![e] = NoGrant] /\ UNCHANGED acReq
    /\ UNCHANGED <<accounts, aclCache, mutate, acUp, minted, achist, acbound>>

ForgetEntries(q) ==
    /\ AcAt(q, "forget")
    /\ aclCache' = [e \in Entries |-> IF e \in acReq[q].ids THEN NoGrant ELSE aclCache[e]]
    /\ revoked' = revoked \cup acReq[q].ids
    /\ Finish(q)
    /\ UNCHANGED <<accounts, aclDisk, acUp, minted, caller, served, acbound>>

\* a store call returns an error: `?` releases the mutex and leaves the cache as it is
StoreFails(q) ==
    /\ acUp /\ acReq[q].pc \in {"grant", "erase"} /\ AcFault
    /\ Finish(q)
    /\ UNCHANGED <<accounts, aclDisk, aclCache, acUp, minted, achist, acCrashes>>

\* the client disconnects: the handler is dropped at its await
AcHangUp(q) ==
    /\ acUp /\ acReq[q].pc \in {"lock", "insert", "erase", "forget"} /\ AcFault
    /\ Finish(q)
    /\ UNCHANGED <<accounts, aclDisk, aclCache, acUp, minted, achist, acCrashes>>

-----------------------------------------------------------------------------
AcCrash ==
    /\ acUp /\ acCrashes < MaxAcCrashes
    /\ acCrashes' = acCrashes + 1
    /\ acUp' = FALSE
    /\ aclCache' = [e \in Entries |-> NoGrant]
    /\ acReq' = [q \in AcReqs |-> IdleAc]
    /\ mutate' = Free
    /\ caller' = NoCaller
    /\ UNCHANGED <<accounts, aclDisk, minted, revoked, served, acFaults>>

\* AclService::load, before the first request is served
LoadAcl ==
    /\ ~acUp
    /\ acUp' = TRUE
    /\ aclCache' = aclDisk
    /\ UNCHANGED <<accounts, aclDisk, mutate, acReq, minted, achist, acbound>>

AcStep(q) ==
    \/ LockMutate(q) \/ GrantDuplicate(q) \/ GrantPut(q) \/ GrantInsert(q)
    \/ RevokeUnknown(q) \/ CollectIds(q) \/ EraseRecords(q) \/ ForgetEntries(q)
    \/ StoreFails(q) \/ AcHangUp(q)

AcNext ==
    \/ \E u \in AcUsers : Extract(u)
    \/ \E p \in ResourcePaths, perm \in {"read", "write"} : Require(p, perm)
    \/ Forbidden
    \/ \E q \in AcReqs : \/ \E g \in Grants : BeginGrant(q, g)
                         \/ \E e \in Entries : BeginRevoke(q, e)
                         \/ \E u \in AcUsers : BeginRemoveSubject(q, u)
                         \/ AcStep(q)
    \/ AcCrash
    \/ LoadAcl

AcSpec == AcInit /\ [][AcNext]_acvars

-----------------------------------------------------------------------------
(* Once a revoke or the removal of an account has reported success, none of *)
(* the entries it took away lets through a request that comes after it, also*)
(* after a restart that loads the entries from disk; a request that copied  *)
(* its grants before may still be let through (acl.rs delete,               *)
(* remove_subject, load; auth/mod.rs from_request_parts, require_at).       *)
RevokeIsFinal == [][served' # served => served'.by \cap caller.since = {}]_acvars
=============================================================================
