---------------------------- MODULE AuthSessions ----------------------------
(***************************************************************************)
(* Accounts, two-factor enrolment and bearer sessions: AuthService in      *)
(* src/src/services/auth.rs.                                               *)
(*                                                                         *)
(* Accounts live twice: on disk (one JSON file per user) and in a cache    *)
(* that every decision is taken from.  A mutation holds the async mutex    *)
(* `mutate' while it reads the cache, writes the file and then the cache.  *)
(* login does not hold it: it verifies the password against a copy of the  *)
(* hash and mints the token some steps later, and two_factor_disable       *)
(* verifies the code before it takes the mutex.  The file write is an      *)
(* await: it may fail, the process may crash there, and a request whose    *)
(* client has gone is dropped there with the file already written.         *)
(***************************************************************************)
EXTENDS Integers

CONSTANTS Users,                \* ids that new_id() may hand out
          Names,                \* usernames, up to case
          Reqs,                 \* requests that may be in progress at once
          Tokens,               \* tokens that may be live at once
          MaxPw,                \* bound on passwords ever set
          MaxGen,               \* bound on two-factor enrolments ever started
          MaxAuthCrashes, MaxAuthFaults, MaxDrops

ASSUME AuthAssumption ==
    /\ MaxPw \in Nat /\ MaxGen \in Nat
    /\ MaxAuthCrashes \in Nat /\ MaxAuthFaults \in Nat /\ MaxDrops \in Nat
    /\ Users # {} /\ Names # {}
    /\ "none" \notin Users \cup Tokens /\ "nobody" \notin Reqs

VARIABLES disk,                 \* users/<id>.json
          cache,                \* AuthService.users
          tokens,               \* AuthService.tokens
          lock,                 \* holder of AuthService.mutate
          areq,                 \* the requests in progress
          used,                 \* user ids already handed out
          pws, gens,            \* passwords and TOTP secrets generated so far
          spent,                \* how often the recovery code of an enrolment let someone in
          acrashes, afaults, drops

avars == <<disk, cache, tokens, lock, areq, used, pws, gens, spent,
           acrashes, afaults, drops>>

-----------------------------------------------------------------------------
(* A stored user.  Passwords and TOTP secrets are told apart by the order  *)
(* in which they were generated; an enrolment has one recovery code here.  *)

Account == [name  : Names,
            admin : BOOLEAN,                     \* roles contains Admin
            pw    : 0..MaxPw,                    \* what password_hash is the hash of
            tf    : {"off", "pending", "on"},    \* no secret, secret, secret and enabled
            gen   : 0..MaxGen,                   \* which TOTP secret
            code  : BOOLEAN]                     \* its recovery code is unspent
NoUser == [name |-> "none"]

IsAdmin(users, u) == users[u] # NoUser /\ users[u].admin
LastAdmin(u) == \A v \in Users \ {u} : ~IsAdmin(cache, v)    \* admin_count() <= 1
NameTaken(n) == \E v \in Users : cache[v] # NoUser /\ cache[v].name = n

Session == [user : Users,
            cred : 0..MaxPw,                     \* the password its login had verified
            born : 0..MaxPw]                     \* passwords generated when it was inserted
NoSession == [user |-> "none"]

Nobody == "nobody"

(* A request.  pc names the step it is about to take:                      *)
(*   idle     none                  second  login's second-factor gate     *)
(*   recover  lock, spend a recovery code                                  *)
(*   put      write the file        publish update the cache               *)
(*   revoke   drop sessions         clear   lock, disable the second factor*)
(*   mint     look the user up once more      insert  insert the token     *)
APCs == {"idle", "second", "recover", "put", "publish", "revoke", "clear", "mint", "insert"}
Request == [pc   : APCs,
            user : Users \cup {"none"},
            new  : Account \cup {NoUser},        \* what put and publish write
            next : {"idle", "revoke", "mint", "clear"},  \* after publish
            cred : 0..MaxPw,                     \* password verified by login
            gen  : 0..MaxGen,                    \* enrolment whose code was presented
            tok  : Tokens \cup {"none"}]         \* change_password's own token, login's new one
Idle == [pc |-> "idle", user |-> "none", new |-> NoUser, next |-> "idle",
         cred |-> 0, gen |-> 0, tok |-> "none"]

ATypeOK ==
    /\ disk \in [Users -> Account \cup {NoUser}]
    /\ cache \in [Users -> Account \cup {NoUser}]
    /\ tokens \in [Tokens -> Session \cup {NoSession}]
    /\ lock \in Reqs \cup {Nobody}
    /\ areq \in [Reqs -> Request]
    /\ used \subseteq Users
    /\ pws \in 0..MaxPw /\ gens \in 0..MaxGen
    /\ spent \in [0..MaxGen -> Nat]
    /\ acrashes \in 0..MaxAuthCrashes /\ afaults \in 0..MaxAuthFaults /\ drops \in 0..MaxDrops

-----------------------------------------------------------------------------
(* Startup: load_or_seed.                                                  *)

Seed(u, n) == [v \in Users |->
                  IF v = u
                  THEN [name |-> n, admin |-> TRUE, pw |-> 0, tf |-> "off",
                        gen |-> 0, code |-> FALSE]
                  ELSE NoUser]

AInit == /\ \E u \in Users, n \in Names : disk = Seed(u, n) /\ used = {u}
         /\ cache = disk
         /\ tokens = [t \in Tokens |-> NoSession]
         /\ lock = Nobody
         /\ areq = [r \in Reqs |-> Idle]
         /\ pws = 0 /\ gens = 0
         /\ spent = [g \in 0..MaxGen |-> 0]
         /\ acrashes = 0 /\ afaults = 0 /\ drops = 0

\* The process stops and starts again: sessions and requests are gone, the
\* cache is what the files say.  An empty directory is seeded as on first boot.
Restart ==
    /\ acrashes < MaxAuthCrashes
    /\ acrashes' = acrashes + 1
    /\ IF \E u \in Users : disk[u] # NoUser
       THEN UNCHANGED <<disk, used>>
       ELSE \E u \in Users \ used, n \in Names : disk' = Seed(u, n) /\ used' = used \cup {u}
    /\ cache' = disk'
    /\ tokens' = [t \in Tokens |-> NoSession]
    /\ lock' = Nobody
    /\ areq' = [r \in Reqs |-> Idle]
    /\ UNCHANGED <<pws, gens, spent, afaults, drops>>

-----------------------------------------------------------------------------
(* Mutations: take the lock, read the cache, check, and go on to put.      *)

Mutate(r, u, new, next, tok) ==
    /\ areq[r].pc = "idle"
    /\ lock = Nobody
    /\ lock' = r
    /\ areq' = [areq EXCEPT ![r] = [Idle EXCEPT !.pc = "put", !.user = u, !.new = new,
                                              !.next = next, !.tok = tok]]
    /\ UNCHANGED <<disk, cache, tokens, spent, acrashes, afaults, drops>>

CreateUser_ChecksNothing(r, u, n, admin) ==
    /\ u \notin used
    /\ used' = used \cup {u}
    /\ pws < MaxPw
    /\ pws' = pws + 1
    /\ Mutate(r, u, [name |-> n, admin |-> admin, pw |-> pws', tf |-> "off",
                     gen |-> 0, code |-> FALSE], "idle", "none")
    /\ UNCHANGED gens

\* create_user: the id is new and no user in the cache has the name.
CreateUser(r, u, n, admin) ==
    /\ u \notin used
    /\ ~NameTaken(n)
    /\ used' = used \cup {u}
    /\ pws < MaxPw
    /\ pws' = pws + 1
    /\ Mutate(r, u, [name |-> n, admin |-> admin, pw |-> pws', tf |-> "off",
                     gen |-> 0, code |-> FALSE], "idle", "none")
    /\ UNCHANGED gens

\* update_user: new roles (or the ones it has), and possibly a new password,
\* which revokes every session of the user.
UpdateUser(r, u, admin, reset) ==
    /\ cache[u] # NoUser
    /\ (cache[u].admin /\ ~admin) => ~LastAdmin(u)
    /\ reset => pws < MaxPw
    /\ pws' = IF reset THEN pws + 1 ELSE pws
    /\ Mutate(r, u, [cache[u] EXCEPT !.admin = admin, !.pw = IF reset THEN pws' ELSE @],
              IF reset THEN "revoke" ELSE "idle", "none")
    /\ UNCHANGED <<used, gens>>

DeleteUser_AnyAdmin(r, u) ==
    /\ cache[u] # NoUser
    /\ Mutate(r, u, NoUser, "revoke", "none")
    /\ UNCHANGED <<used, pws, gens>>

DeleteUser(r, u) ==
    /\ cache[u] # NoUser
    /\ cache[u].admin => ~LastAdmin(u)
    /\ Mutate(r, u, NoUser, "revoke", "none")
    /\ UNCHANGED <<used, pws, gens>>

\* change_password: the caller has given the current password, and the
\* session it calls with is kept.
ChangePassword(r, u, t) ==
    /\ cache[u] # NoUser
    /\ tokens[t] # NoSession /\ tokens[t].user = u
    /\ pws < MaxPw
    /\ pws' = pws + 1
    /\ Mutate(r, u, [cache[u] EXCEPT !.pw = pws'], "revoke", t)
    /\ UNCHANGED <<used, gens>>

\* two_factor_setup: a fresh secret, pending; again rotates it.
TwoFactorSetup(r, u) ==
    /\ cache[u] # NoUser /\ cache[u].tf # "on"
    /\ gens < MaxGen
    /\ gens' = gens + 1
    /\ Mutate(r, u, [cache[u] EXCEPT !.tf = "pending", !.gen = gens', !.code = FALSE],
              "idle", "none")
    /\ UNCHANGED <<used, pws>>

\* two_factor_confirm, with a right code for the pending secret.
TwoFactorConfirm(r, u) ==
    /\ cache[u] # NoUser /\ cache[u].tf = "pending"
    /\ Mutate(r, u, [cache[u] EXCEPT !.tf = "on", !.code = TRUE], "idle", "none")
    /\ UNCHANGED <<used, pws, gens>>

-----------------------------------------------------------------------------
(* Steps of a request.                                                     *)

\* Move request r to pc; touches nothing else of it.
Goto(r, pc) == areq' = [areq EXCEPT ![r].pc = pc]
End(r)      == areq' = [areq EXCEPT ![r] = Idle]

PutRecord(r) ==
    /\ areq[r].pc = "put"
    /\ disk' = [disk EXCEPT ![areq[r].user] = areq[r].new]
    /\ Goto(r, "publish")
    /\ UNCHANGED <<cache, tokens, lock, used, pws, gens, spent,
                   acrashes, afaults, drops>>

\* The write fails: the error is returned and the guard dropped.
PutFails(r) ==
    /\ areq[r].pc = "put"
    /\ afaults < MaxAuthFaults
    /\ afaults' = afaults + 1
    /\ lock' = Nobody
    /\ End(r)
    /\ UNCHANGED <<disk, cache, tokens, used, pws, gens, spent, acrashes, drops>>

Publish_OnlyRemoves(r) ==
    /\ areq[r].pc = "publish"
    /\ cache' = IF areq[r].new = NoUser THEN [cache EXCEPT ![areq[r].user] = NoUser] ELSE cache
    /\ CASE areq[r].next = "idle"   -> End(r)
         [] areq[r].next # "idle"   -> Goto(r, areq[r].next)
    /\ lock' = IF areq[r].next = "revoke" THEN r ELSE Nobody
    /\ UNCHANGED <<disk, tokens, used, pws, gens, spent, acrashes, afaults, drops>>

\* The file is written: update the cache, and keep the lock if sessions have
\* to be revoked.  A recovery code that was spent has now let its user in.
Publish(r) ==
    /\ areq[r].pc = "publish"
    /\ cache' = [cache EXCEPT ![areq[r].user] = areq[r].new]
    /\ CASE areq[r].next = "idle"   -> End(r)
         [] areq[r].next # "idle"   -> Goto(r, areq[r].next)
    /\ lock' = IF areq[r].next = "revoke" THEN r ELSE Nobody
    /\ spent' = IF areq[r].next \in {"mint", "clear"} /\ areq[r].gen # 0
                THEN [spent EXCEPT ![areq[r].gen] = @ + 1] ELSE spent
    /\ UNCHANGED <<disk, tokens, used, pws, gens, acrashes, afaults, drops>>

Revoke_KeepsSessions(r) ==
    /\ areq[r].pc = "revoke"
    /\ lock' = Nobody
    /\ End(r)
    /\ UNCHANGED <<disk, cache, tokens, used, pws, gens, spent,
                   acrashes, afaults, drops>>

\* The session that changed the password has proved the new one.
Revoke(r) ==
    /\ areq[r].pc = "revoke"
    /\ tokens' = [t \in Tokens |->
                     CASE tokens[t].user # areq[r].user -> tokens[t]
                       [] tokens[t].user = areq[r].user /\ t # areq[r].tok -> NoSession
                       [] tokens[t].user = areq[r].user /\ t = areq[r].tok ->
                            [tokens[t] EXCEPT !.cred = areq[r].new.pw, !.born = areq[r].new.pw]]
    /\ lock' = Nobody
    /\ End(r)
    /\ UNCHANGED <<disk, cache, used, pws, gens, spent, acrashes, afaults, drops>>

\* The client goes away while its request waits for the lock or for the file:
\* the future is dropped there, and with it the guard.
DropAuthRequest(r) ==
    /\ drops < MaxDrops
    /\ areq[r].pc \in {"recover", "clear", "put", "publish"}
    /\ drops' = drops + 1
    /\ lock' = IF lock = r THEN Nobody ELSE lock
    /\ End(r)
    /\ UNCHANGED <<disk, cache, tokens, used, pws, gens, spent, acrashes, afaults>>

-----------------------------------------------------------------------------
(* login.                                                                  *)

\* The password given is compared with a copy of the hash, with no lock held.
\* t is the token that mint_token will return.
\* A wrong password or an unknown name changes nothing and is not shown.
Login(r, u, pw, t) ==
    /\ areq[r].pc = "idle"
    /\ tokens[t] = NoSession /\ \A q \in Reqs : areq[q].tok # t
    /\ cache[u] # NoUser /\ cache[u].pw = pw
    /\ areq' = [areq EXCEPT ![r] = [Idle EXCEPT !.pc = "second", !.user = u, !.cred = pw,
                                              !.next = "mint", !.tok = t]]
    /\ UNCHANGED <<disk, cache, tokens, lock, used, pws, gens, spent,
                   acrashes, afaults, drops>>

\* The gate looks the user up again.  Without an active second factor, or with
\* a right TOTP code, login goes on; any other code is tried as the recovery
\* code of enrolment g.  (No code at all ends the request: EndLogin.)
SecondFactor(r, g) ==
    LET u == areq[r].user
        gated == cache[u] # NoUser /\ cache[u].tf = "on"
    IN  /\ areq[r].pc = "second"
        /\ \/ (gated => g = cache[u].gen) /\ Goto(r, "mint")
           \/ gated /\ areq' = [areq EXCEPT ![r].pc = "recover", ![r].gen = g]
        /\ UNCHANGED <<disk, cache, tokens, lock, used, pws, gens, spent,
                       acrashes, afaults, drops>>

EndLogin(r) ==
    /\ areq[r].pc = "second"
    /\ cache[areq[r].user] # NoUser /\ cache[areq[r].user].tf = "on"
    /\ End(r)
    /\ UNCHANGED <<disk, cache, tokens, lock, used, pws, gens, spent,
                   acrashes, afaults, drops>>

CodeMatches(u, g) == cache[u] # NoUser /\ cache[u].code /\ cache[u].gen = g

SpendRecoveryCode_Unlocked(r) ==
    LET u == areq[r].user
    IN  /\ areq[r].pc = "recover"
        /\ CodeMatches(u, areq[r].gen)
        /\ areq' = [areq EXCEPT ![r].pc = "put", ![r].new = [cache[u] EXCEPT !.code = FALSE]]
        /\ UNCHANGED <<disk, cache, tokens, lock, used, pws, gens, spent,
                       acrashes, afaults, drops>>

\* verify_second_factor's fallback, under the lock.
SpendRecoveryCode(r) ==
    LET u == areq[r].user
    IN  /\ areq[r].pc = "recover"
        /\ lock = Nobody
        /\ CodeMatches(u, areq[r].gen)
        /\ lock' = r
        /\ areq' = [areq EXCEPT ![r].pc = "put", ![r].new = [cache[u] EXCEPT !.code = FALSE]]
        /\ UNCHANGED <<disk, cache, tokens, used, pws, gens, spent,
                       acrashes, afaults, drops>>

RejectRecoveryCode(r) ==
    /\ areq[r].pc = "recover"
    /\ lock = Nobody
    /\ ~CodeMatches(areq[r].user, areq[r].gen)
    /\ End(r)
    /\ UNCHANGED <<disk, cache, tokens, lock, used, pws, gens, spent,
                   acrashes, afaults, drops>>

\* last_login_at is set if the user still exists, then the token is inserted.
Mint(r) ==
    /\ areq[r].pc = "mint"
    /\ IF cache[areq[r].user] = NoUser THEN End(r) ELSE Goto(r, "insert")
    /\ UNCHANGED <<disk, cache, tokens, lock, used, pws, gens, spent,
                   acrashes, afaults, drops>>

InsertToken(r) ==
    /\ areq[r].pc = "insert"
    /\ tokens' = [tokens EXCEPT ![areq[r].tok] = [user |-> areq[r].user, cred |-> areq[r].cred,
                                                 born |-> pws]]
    /\ End(r)
    /\ UNCHANGED <<disk, cache, lock, used, pws, gens, spent,
                   acrashes, afaults, drops>>

\* logout, or the eviction of an expired token by authenticate.
DropToken(t) ==
    /\ tokens[t] # NoSession
    /\ tokens' = [tokens EXCEPT ![t] = NoSession]
    /\ UNCHANGED <<disk, cache, lock, areq, used, pws, gens, spent,
                   acrashes, afaults, drops>>

-----------------------------------------------------------------------------
(* two_factor_disable: verify a code without the lock, then take it.       *)

TwoFactorDisable_HoldsLock(r, u, g) ==
    /\ areq[r].pc = "idle"
    /\ lock = Nobody
    /\ cache[u] # NoUser /\ cache[u].tf = "on"
    /\ lock' = r
    /\ \E pc \in {"recover"} \cup IF g = cache[u].gen THEN {"clear"} ELSE {} :
          areq' = [areq EXCEPT ![r] = [Idle EXCEPT !.pc = pc, !.user = u, !.gen = g,
                                                !.next = "clear"]]
    /\ UNCHANGED <<disk, cache, tokens, used, pws, gens, spent,
                   acrashes, afaults, drops>>

TwoFactorDisable(r, u, g) ==
    /\ areq[r].pc = "idle"
    /\ cache[u] # NoUser /\ cache[u].tf = "on"
    /\ \E pc \in {"recover"} \cup IF g = cache[u].gen THEN {"clear"} ELSE {} :
          areq' = [areq EXCEPT ![r] = [Idle EXCEPT !.pc = pc, !.user = u, !.gen = g,
                                                !.next = "clear"]]
    /\ UNCHANGED <<disk, cache, tokens, lock, used, pws, gens, spent,
                   acrashes, afaults, drops>>

ClearTwoFactor(r) ==
    LET u == areq[r].user
    IN  /\ areq[r].pc = "clear"
        /\ lock = Nobody
        /\ IF cache[u] = NoUser
           THEN End(r) /\ UNCHANGED lock
           ELSE /\ lock' = r
                /\ areq' = [areq EXCEPT ![r] =
                     [@ EXCEPT !.pc = "put", !.next = "idle",
                               !.new = [cache[u] EXCEPT !.tf = "off", !.gen = 0, !.code = FALSE]]]
        /\ UNCHANGED <<disk, cache, tokens, used, pws, gens, spent, acrashes, afaults, drops>>

-----------------------------------------------------------------------------
\* What a request that has begun does next, given the chance.
Waiting(r)  == SpendRecoveryCode(r) \/ RejectRecoveryCode(r) \/ ClearTwoFactor(r)
Stepping(r) == \/ PutRecord(r)
               \/ Publish(r)
               \/ Revoke(r)
               \/ \E g \in 0..MaxGen : SecondFactor(r, g)
               \/ EndLogin(r)
               \/ Mint(r)
               \/ InsertToken(r)

BeginRequest(r) == \E u \in Users :
               \/ \E n \in Names, admin \in BOOLEAN : CreateUser(r, u, n, admin)
               \/ \E admin, reset \in BOOLEAN : UpdateUser(r, u, admin, reset)
               \/ DeleteUser(r, u)
               \/ \E t \in Tokens : ChangePassword(r, u, t)
               \/ TwoFactorSetup(r, u)
               \/ TwoFactorConfirm(r, u)
               \/ \E g \in 1..MaxGen : TwoFactorDisable(r, u, g)
               \/ \E pw \in 0..MaxPw, t \in Tokens : Login(r, u, pw, t)

ANext == \/ \E r \in Reqs : \/ BeginRequest(r)
                            \/ Waiting(r)
                            \/ Stepping(r)
                            \/ PutFails(r)
                            \/ DropAuthRequest(r)
         \/ \E t \in Tokens : DropToken(t)
         \/ Restart

ASpec == AInit /\ [][ANext]_avars

(* The runtime polls every ready future.                                   *)
AFairSpec == ASpec /\ \A r \in Reqs : WF_avars(Stepping(r))

(* tokio's Mutex hands itself to its waiters in the order they came.       *)
MutexIsFair == \A r \in Reqs : SF_avars(Waiting(r))

-----------------------------------------------------------------------------
(* Properties.                                                             *)

\* Whenever no mutation is in progress the cache and the files agree, so a
\* restart changes no account.  (Not so once a request has been dropped.)
CacheMatchesDisk == lock = Nobody => cache = disk

\* "Don't let the last administrator lose their admin role": there is always
\* an administrator, in the cache and in the files the next start will load.
AdminRemains == /\ \E u \in Users : IsAdmin(cache, u)
                /\ \E u \in Users : IsAdmin(disk, u)

\* "Usernames are unique (case-insensitive)": no two creations, however they
\* interleave with each other and with a crash, give one name twice.
UniqueNames ==
    \A users \in {cache, disk} : \A u, v \in Users :
        (users[u] # NoUser /\ users[v] # NoUser /\ users[u].name = users[v].name) => u = v

\* "the same code cannot be spent twice by two concurrent logins": a recovery
\* code lets someone in at most once, dropped requests and crashes included.
RecoveryCodeOnce == \A g \in 0..MaxGen : spent[g] <= 1

\* "a previously issued token cannot survive the credential change": at rest,
\* every session of a user was inserted after their password was last changed.
ResetRevokes ==
    \A t \in Tokens : (lock = Nobody /\ tokens[t] # NoSession) =>
        LET u == tokens[t].user IN cache[u] # NoUser => tokens[t].born >= cache[u].pw

\* No request waits for ever: the lock is always released, and no request
\* waits for it while holding it.
RequestsFinish ==
    MutexIsFair => \A r \in Reqs : areq[r].pc # "idle" ~> areq[r].pc = "idle"
=============================================================================
