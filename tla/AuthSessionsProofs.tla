------------------------- MODULE AuthSessionsProofs -------------------------
(***************************************************************************)
(* Theorems about accounts and sessions, for any sets of users, names,     *)
(* requests and tokens and any bounds: as long as no request has been      *)
(* dropped the cache and the files agree, an administrator remains and     *)
(* names are unique; and, dropped requests or not, a changed password      *)
(* leaves no older session and a recovery code lets at most one login in.  *)
(***************************************************************************)
EXTENDS AuthSessions, TLAPS

\* The steps during which a request holds the mutex.
LockedPCs == {"put", "publish", "revoke"}

\* The mutex is held by exactly the request that is at one of them.
LockDiscipline == \A r \in Reqs : areq[r].pc \in LockedPCs <=> lock = r

\* Users that are stored, logged in or being worked on have been created, and
\* nobody's password is newer than the last one generated.
NothingUnknown ==
    /\ \A u \in Users : /\ cache[u] # NoUser => u \in used /\ cache[u].pw <= pws
                        /\ disk[u] # NoUser => u \in used /\ disk[u].pw <= pws
    /\ \A t \in Tokens : tokens[t] # NoSession => tokens[t].user \in used
    /\ \A r \in Reqs : /\ areq[r].pc # "idle" => areq[r].user \in used
                       /\ areq[r].new # NoUser => areq[r].new.pw <= pws

\* What holds of the record that a request is about to write: a deletion, and
\* whatever else outdates sessions, is followed by their revocation.
RevocationFollows ==
    \A r \in Reqs :
        /\ areq[r].pc \in LockedPCs /\ areq[r].new = NoUser =>
              areq[r].next = "revoke" /\ areq[r].tok = "none"
        /\ areq[r].pc \in {"put", "publish"} /\ areq[r].next # "revoke" =>
              \A t \in Tokens : tokens[t] # NoSession /\ tokens[t].user = areq[r].user =>
                                   tokens[t].born >= areq[r].new.pw
        /\ areq[r].pc = "revoke" => cache[areq[r].user] = areq[r].new

\* A session older than its user's password is about to be revoked.
SessionsAreCurrent ==
    \A t \in Tokens : tokens[t] # NoSession =>
        LET u == tokens[t].user
        IN  \/ cache[u] = NoUser
            \/ tokens[t].born >= cache[u].pw
            \/ \E r \in Reqs : areq[r].pc = "revoke" /\ areq[r].user = u

\* A login carries the token that it is going to hand out.
TokenReserved ==
    \A r \in Reqs : /\ areq[r].pc \in {"second", "mint", "insert"} => areq[r].next = "mint"
                    /\ areq[r].next = "mint" => areq[r].tok \in Tokens

\* A set of accounts that the service may be left with.
Good(users) ==
    /\ \E u \in Users : IsAdmin(users, u)
    /\ \A u, v \in Users :
          (users[u] # NoUser /\ users[v] # NoUser /\ users[u].name = users[v].name) => u = v

\* The cache after request r has published.
After(r) == [cache EXCEPT ![areq[r].user] = areq[r].new]

\* The cache is good, whatever a request is about to make of it is good, and
\* the files are one of the two.
Coherent ==
    /\ Good(cache)
    /\ \A r \in Reqs : areq[r].pc \in {"put", "publish"} => Good(After(r))
    /\ lock = Nobody => disk = cache
    /\ \A r \in Reqs : /\ areq[r].pc \in {"put", "revoke"} => disk = cache
                       /\ areq[r].pc = "publish" => disk = After(r)

AInv == /\ ATypeOK
        /\ LockDiscipline
        /\ NothingUnknown
        /\ RevocationFollows
        /\ SessionsAreCurrent
        /\ TokenReserved
        /\ drops = 0 => Coherent

-----------------------------------------------------------------------------
(* Types.                                                                  *)

\* NoUser is not an account and NoSession is not a session.
LEMMA Absent == /\ \A a \in Account : a # NoUser
                /\ \A s \in Session : s # NoSession
<1>1. \A a \in Account : DOMAIN a # DOMAIN NoUser
  <2>1. \A a \in Account : "pw" \in DOMAIN a
    BY DEF Account
  <2>2. "pw" \notin DOMAIN NoUser
    BY DEF NoUser
  <2> QED
    BY <2>1, <2>2
<1>2. \A s \in Session : s # NoSession
  BY AuthAssumption DEF Session, NoSession
<1> QED
  BY <1>1, <1>2

\* A request that has not begun, or has ended.
LEMMA IdleType == Idle \in Request
  BY AuthAssumption DEF Idle, Request, APCs

\* A request that moves to another step stays what it is.
LEMMA GotoType ==
    ASSUME NEW q \in Request, NEW pc \in APCs
    PROVE  LET n == [q EXCEPT !.pc = pc]
           IN  /\ n \in Request /\ n.pc = pc /\ n.user = q.user /\ n.new = q.new
               /\ n.next = q.next /\ n.tok = q.tok /\ n.cred = q.cred /\ n.gen = q.gen
  BY DEF Request

\* Goto changes one request, and of that one only where it is.
LEMMA GotoStep ==
    ASSUME ATypeOK, NEW r \in Reqs, NEW pc \in APCs, Goto(r, pc)
    PROVE  /\ areq' \in [Reqs -> Request]
           /\ areq' = [areq EXCEPT ![r] = [areq[r] EXCEPT !.pc = pc]]
           /\ areq'[r] = [areq[r] EXCEPT !.pc = pc]
           /\ areq'[r].pc = pc /\ areq'[r].user = areq[r].user /\ areq'[r].new = areq[r].new
           /\ areq'[r].next = areq[r].next /\ areq'[r].tok = areq[r].tok
           /\ \A p \in Reqs \ {r} : areq'[p] = areq[p]
<1>1. areq[r] \in Request /\ areq \in [Reqs -> Request]
  BY DEF ATypeOK
<1>2. areq' = [areq EXCEPT ![r] = [areq[r] EXCEPT !.pc = pc]]
  BY DEF Goto
<1>3. areq'[r] = [areq[r] EXCEPT !.pc = pc] /\ \A p \in Reqs \ {r} : areq'[p] = areq[p]
  BY <1>1, <1>2
<1> QED
  BY <1>1, <1>2, <1>3, GotoType

-----------------------------------------------------------------------------
(* The initial state, and the states after a restart.                      *)

\* The accounts of the first boot: one administrator.
LEMMA SeedIsGood ==
    ASSUME NEW u \in Users, NEW n \in Names
    PROVE  /\ Seed(u, n) \in [Users -> Account \cup {NoUser}]
           /\ Good(Seed(u, n))
           /\ \A v \in Users : Seed(u, n)[v] # NoUser => v = u /\ Seed(u, n)[v].pw = 0
<1>1. [name |-> n, admin |-> TRUE, pw |-> 0, tf |-> "off", gen |-> 0, code |-> FALSE] \in Account
  BY AuthAssumption DEF Account
<1>2. Seed(u, n)[u] # NoUser /\ Seed(u, n)[u].admin
  BY <1>1, Absent DEF Seed
<1>3. \A v \in Users : Seed(u, n)[v] # NoUser => v = u /\ Seed(u, n)[v].pw = 0
  BY DEF Seed
<1>4. Seed(u, n) \in [Users -> Account \cup {NoUser}]
  BY <1>1 DEF Seed
<1> QED
  BY <1>2, <1>3, <1>4 DEF Good, IsAdmin

\* Nobody is logged in and nothing is in progress.
AtRestFacts ==
    /\ cache = disk /\ lock = Nobody
    /\ tokens = [t \in Tokens |-> NoSession] /\ areq = [r \in Reqs |-> Idle]
    /\ \A u \in Users : disk[u] # NoUser => u \in used /\ disk[u].pw <= pws
    /\ drops = 0 => Good(disk)

\* Then the rest of the invariant is about accounts.
LEMMA AtRest == ATypeOK /\ AtRestFacts => AInv
<1> SUFFICES ASSUME ATypeOK, AtRestFacts PROVE AInv
  OBVIOUS
<1> USE DEF AtRestFacts
<1>1. \A r \in Reqs : areq[r] = Idle /\ lock # r
  BY AuthAssumption DEF Nobody
<1>2. LockDiscipline /\ RevocationFollows /\ TokenReserved
  BY <1>1 DEF LockDiscipline, RevocationFollows, TokenReserved, LockedPCs, Idle
<1>3. NothingUnknown /\ SessionsAreCurrent
  BY <1>1 DEF NothingUnknown, SessionsAreCurrent, Idle
<1>4. drops = 0 => Coherent
  BY <1>1 DEF Coherent, Idle
<1> QED
  BY <1>2, <1>3, <1>4 DEF AInv

\* The initial state satisfies the invariant.
LEMMA AInitInv == AInit => AInv
<1> SUFFICES ASSUME AInit PROVE AInv
  OBVIOUS
<1>1. PICK u \in Users, n \in Names : disk = Seed(u, n) /\ used = {u}
  BY DEF AInit
<1>2. ATypeOK
  BY <1>1, SeedIsGood, IdleType, AuthAssumption DEF AInit, ATypeOK
<1>3. Good(disk)
  BY <1>1, SeedIsGood
<1>4. \A v \in Users : disk[v] # NoUser => v \in used /\ disk[v].pw <= pws
  <2>1. \A v \in Users : disk[v] # NoUser => v = u /\ disk[v].pw = 0
    BY <1>1, SeedIsGood
  <2>2. pws = 0 /\ used = {u}
    BY <1>1 DEF AInit
  <2> QED
    BY <2>1, <2>2
<1> QED
  BY <1>2, <1>3, <1>4, AtRest DEF AInit, AtRestFacts

-----------------------------------------------------------------------------
(* Steps, by what they do with the mutex.                                  *)

\* A request that does not hold the mutex, and does not take it, goes on.
LEMMA FreeStep ==
    ASSUME AInv, NEW r \in Reqs, NEW q \in Request,
           areq[r].pc \notin LockedPCs, q.pc \notin LockedPCs,
           q.pc # "idle" => q.user \in used,
           q.new # NoUser => q.new.pw <= pws,
           q.pc \in {"second", "mint", "insert"} => q.next = "mint",
           q.next = "mint" => q.tok \in Tokens,
           areq' = [areq EXCEPT ![r] = q],
           UNCHANGED <<disk, cache, tokens, lock, used, pws, gens, spent,
                       acrashes, afaults, drops>>
    PROVE  AInv'
<1>1. ATypeOK'
  BY DEF AInv, ATypeOK
<1>2. areq'[r] = q /\ \A p \in Reqs \ {r} : areq'[p] = areq[p]
  BY DEF AInv, ATypeOK
<1>3. LockDiscipline' /\ NothingUnknown' /\ RevocationFollows' /\ TokenReserved'
  BY <1>2 DEF AInv, LockDiscipline, NothingUnknown, RevocationFollows, TokenReserved, LockedPCs
<1>4. SessionsAreCurrent'
  BY <1>2 DEF AInv, SessionsAreCurrent, LockedPCs
<1>5. (drops = 0 => Coherent)'
  BY <1>2 DEF AInv, Coherent, After, LockedPCs
<1> QED
  BY <1>1, <1>3, <1>4, <1>5 DEF AInv

\* A request takes the mutex with a record to write that keeps the accounts
\* good and, unless it is going to revoke them, no session out of date.
LEMMA TakeLock ==
    ASSUME AInv, NEW r \in Reqs, NEW q \in Request,
           lock = Nobody, lock' = r,
           q.pc = "put", q.user \in used',
           q.new = NoUser => q.next = "revoke" /\ q.tok = "none",
           q.new # NoUser => q.new.pw <= pws',
           q.next # "revoke" =>
              \A t \in Tokens : tokens[t] # NoSession /\ tokens[t].user = q.user =>
                                   tokens[t].born >= q.new.pw,
           q.next = "mint" => q.tok \in Tokens,
           drops = 0 => Good([cache EXCEPT ![q.user] = q.new]),
           areq' = [areq EXCEPT ![r] = q],
           used \subseteq used', used' \subseteq Users,
           pws' \in 0..MaxPw, pws <= pws', gens' \in 0..MaxGen,
           UNCHANGED <<disk, cache, tokens, spent, acrashes, afaults, drops>>
    PROVE  AInv'
<1>1. ATypeOK'
  BY DEF AInv, ATypeOK
<1>2. areq'[r] = q /\ \A p \in Reqs \ {r} : areq'[p] = areq[p]
  BY DEF AInv, ATypeOK
<1>3. \A p \in Reqs : areq[p].pc \notin LockedPCs
  BY AuthAssumption DEF AInv, LockDiscipline, Nobody
<1>4. LockDiscipline' /\ TokenReserved'
  BY <1>2, <1>3 DEF AInv, LockDiscipline, TokenReserved, LockedPCs
<1>5. NothingUnknown'
  <2>1. pws \in 0..MaxPw
    BY DEF AInv, ATypeOK
  <2>2. \A u \in Users : /\ cache[u] # NoUser => cache[u].pw \in 0..MaxPw
                         /\ disk[u] # NoUser => disk[u].pw \in 0..MaxPw
    BY DEF AInv, ATypeOK, Account
  <2>3. \A p \in Reqs : areq[p].new # NoUser => areq[p].new.pw \in 0..MaxPw
    BY DEF AInv, ATypeOK, Request, Account
  <2> QED
    BY <1>2, <2>1, <2>2, <2>3, AuthAssumption DEF AInv, NothingUnknown
<1>6. RevocationFollows' /\ SessionsAreCurrent'
  BY <1>2, <1>3 DEF AInv, RevocationFollows, SessionsAreCurrent, LockedPCs
<1>7. (drops = 0 => Coherent)'
  BY <1>2, <1>3, AuthAssumption DEF AInv, Coherent, After, LockedPCs, Nobody
<1> QED
  BY <1>1, <1>4, <1>5, <1>6, <1>7 DEF AInv

\* A session ends, or begins with the newest password there is.
LEMMA TokenStep ==
    ASSUME AInv, NEW t \in Tokens, NEW s \in Session \cup {NoSession},
           s # NoSession => s.user \in used /\ s.born = pws,
           tokens' = [tokens EXCEPT ![t] = s],
           UNCHANGED <<disk, cache, lock, areq, used, pws, gens, spent, acrashes, afaults, drops>>
    PROVE  AInv'
<1>1. ATypeOK'
  BY DEF AInv, ATypeOK
<1>2. tokens'[t] = s /\ \A x \in Tokens \ {t} : tokens'[x] = tokens[x]
  BY DEF AInv, ATypeOK
<1>3. LockDiscipline' /\ NothingUnknown' /\ TokenReserved' /\ (drops = 0 => Coherent)'
  BY <1>2 DEF AInv, LockDiscipline, NothingUnknown, TokenReserved, Coherent, After
<1>4. RevocationFollows'
  BY <1>2 DEF AInv, RevocationFollows, NothingUnknown, LockedPCs
<1>5. SessionsAreCurrent'
  BY <1>2 DEF AInv, ATypeOK, SessionsAreCurrent, NothingUnknown
<1> QED
  BY <1>1, <1>3, <1>4, <1>5 DEF AInv

-----------------------------------------------------------------------------
(* The steps of the request that holds the mutex.                          *)

\* The file is written.
LEMMA PutRecordStep ==
    ASSUME AInv, NEW r \in Reqs, PutRecord(r)
    PROVE  AInv'
<1>1. /\ areq' \in [Reqs -> Request] /\ \A p \in Reqs \ {r} : areq'[p] = areq[p]
      /\ areq'[r].pc = "publish" /\ areq'[r].user = areq[r].user /\ areq'[r].new = areq[r].new
      /\ areq'[r].next = areq[r].next /\ areq'[r].tok = areq[r].tok
  BY GotoStep DEF PutRecord, AInv, APCs
<1>2. areq[r].user \in Users /\ areq[r].new \in Account \cup {NoUser}
  BY DEF PutRecord, AInv, ATypeOK, NothingUnknown, Request
<1>3. ATypeOK'
  BY <1>1, <1>2 DEF PutRecord, AInv, ATypeOK
<1>4. lock = r /\ \A p \in Reqs \ {r} : areq[p].pc \notin LockedPCs
  BY DEF PutRecord, AInv, LockDiscipline, LockedPCs
<1>5. LockDiscipline' /\ TokenReserved'
  BY <1>1, <1>4 DEF PutRecord, AInv, LockDiscipline, TokenReserved, LockedPCs
<1>7. NothingUnknown'
  BY <1>1, <1>2 DEF PutRecord, AInv, ATypeOK, NothingUnknown
<1>8. RevocationFollows' /\ SessionsAreCurrent'
  BY <1>1 DEF PutRecord, AInv, RevocationFollows, SessionsAreCurrent, LockedPCs
<1>9. (drops = 0 => Coherent)'
  <2> SUFFICES ASSUME drops = 0 PROVE Coherent'
    BY DEF PutRecord
  <2>1. Coherent /\ disk = cache /\ cache' = cache /\ disk' = After(r) /\ lock' # Nobody
    BY <1>4, AuthAssumption DEF PutRecord, AInv, Coherent, After, Nobody
  <2>2. After(r)' = After(r) /\ \A p \in Reqs \ {r} : areq'[p].pc \notin LockedPCs
    BY <1>1, <1>4, <2>1 DEF After
  <2>3. Good(After(r)) /\ Good(cache)
    BY <2>1 DEF Coherent, PutRecord
  <2> QED
    BY <1>1, <2>1, <2>2, <2>3 DEF Coherent, LockedPCs
<1> QED
  BY <1>3, <1>5, <1>7, <1>8, <1>9 DEF AInv

\* The holder ends without having changed an account, or is dropped: then
\* nothing is claimed of the accounts any more.
LEMMA ReleaseStep ==
    ASSUME AInv, NEW r \in Reqs,
           lock' = IF lock = r THEN Nobody ELSE lock,
           areq[r].pc # "revoke",
           End(r), afaults' \in 0..MaxAuthFaults, drops' \in 0..MaxDrops,
           drops' = 0 => drops = 0 /\ areq[r].pc = "put",
           UNCHANGED <<disk, cache, tokens, used, pws, gens, spent, acrashes>>
    PROVE  AInv'
<1>1. areq'[r] = Idle /\ \A p \in Reqs \ {r} : areq'[p] = areq[p]
  BY DEF End, AInv, ATypeOK
<1>2. ATypeOK'
  BY IdleType DEF End, AInv, ATypeOK
<1>3. LockDiscipline'
  BY <1>1, AuthAssumption DEF AInv, LockDiscipline, LockedPCs, Idle, Nobody
<1>4. NothingUnknown' /\ RevocationFollows' /\ SessionsAreCurrent' /\ TokenReserved'
  BY <1>1 DEF AInv, NothingUnknown, RevocationFollows, SessionsAreCurrent, TokenReserved,
              Idle, LockedPCs
<1>5. (drops = 0 => Coherent)'
  <2> SUFFICES ASSUME drops' = 0 PROVE Coherent'
    OBVIOUS
  <2>1. Coherent /\ disk = cache /\ lock = r
    BY DEF AInv, Coherent, LockDiscipline, LockedPCs
  <2>2. \A p \in Reqs : areq'[p].pc \notin LockedPCs
    BY <1>1, <2>1 DEF AInv, LockDiscipline, LockedPCs, Idle
  <2> QED
    BY <2>1, <2>2 DEF Coherent, LockedPCs
<1> QED
  BY <1>2, <1>3, <1>4, <1>5 DEF AInv

\* The cache is brought up to date; the mutex is kept only to revoke.
LEMMA PublishStep ==
    ASSUME AInv, NEW r \in Reqs, Publish(r)
    PROVE  AInv'
<1> DEFINE u == areq[r].user
           new == areq[r].new
<1>1. /\ areq[r] \in Request /\ areq[r].pc = "publish"
      /\ areq[r].next \in {"idle", "revoke", "mint", "clear"}
  BY DEF Publish, AInv, ATypeOK, Request
<1>2. u \in Users /\ u \in used /\ new \in Account \cup {NoUser} /\ cache' = After(r)
  BY <1>1 DEF Publish, AInv, ATypeOK, NothingUnknown, Request, After
<1>3. /\ areq' \in [Reqs -> Request] /\ \A p \in Reqs \ {r} : areq'[p] = areq[p]
      /\ areq'[r].pc = areq[r].next
      /\ areq[r].next # "idle" => /\ areq'[r].user = u /\ areq'[r].new = new
                                 /\ areq'[r].next = areq[r].next /\ areq'[r].tok = areq[r].tok
      /\ areq[r].next = "idle" => areq'[r] = Idle
  <2>1. CASE areq[r].next = "idle"
    BY <2>1, IdleType DEF Publish, End, AInv, ATypeOK, Idle
  <2>2. CASE areq[r].next # "idle"
    <3>1. Goto(r, areq[r].next) /\ areq[r].next \in APCs
      BY <1>1, <2>2 DEF Publish, APCs
    <3> QED
      BY <2>2, <3>1, GotoStep DEF AInv
  <2> QED
    BY <2>1, <2>2
<1>4. ATypeOK'
  <2>1. cache' \in [Users -> Account \cup {NoUser}]
    BY <1>2 DEF AInv, ATypeOK, After
  <2>2. spent' \in [0..MaxGen -> Nat]
    <3>1. spent \in [0..MaxGen -> Nat] /\ areq[r].gen \in 0..MaxGen
      BY <1>1 DEF AInv, ATypeOK, Request
    <3>2. spent' = spent \/ spent' = [spent EXCEPT ![areq[r].gen] = @ + 1]
      BY DEF Publish
    <3> QED
      BY <3>1, <3>2
  <2> QED
    BY <1>3, <2>1, <2>2 DEF Publish, AInv, ATypeOK
<1>5. lock = r /\ \A p \in Reqs \ {r} : areq[p].pc \notin LockedPCs /\ areq'[p] = areq[p]
  BY <1>1, <1>3 DEF AInv, LockDiscipline, LockedPCs
<1>6. LockDiscipline'
  BY <1>1, <1>3, <1>5, AuthAssumption DEF Publish, LockDiscipline, LockedPCs, Nobody
<1>7. /\ cache'[u] = new /\ \A v \in Users \ {u} : cache'[v] = cache[v]
      /\ disk' = disk /\ tokens' = tokens /\ used' = used /\ pws' = pws /\ drops' = drops
  BY <1>2 DEF Publish, AInv, ATypeOK, After
<1>8. NothingUnknown'
  BY <1>1, <1>2, <1>3, <1>7 DEF AInv, NothingUnknown, Idle
<1>9. RevocationFollows' /\ TokenReserved'
  BY <1>1, <1>3, <1>5, <1>7 DEF AInv, RevocationFollows, TokenReserved, LockedPCs, Idle
<1>10. SessionsAreCurrent'
  <2> SUFFICES ASSUME NEW t \in Tokens, tokens[t] # NoSession, cache'[tokens[t].user] # NoUser
               PROVE  \/ tokens[t].born >= cache'[tokens[t].user].pw
                      \/ \E p \in Reqs : areq'[p].pc = "revoke" /\ areq'[p].user = tokens[t].user
    BY <1>7 DEF SessionsAreCurrent
  <2>1. tokens[t].user \in Users
    BY DEF AInv, ATypeOK, Session
  <2>2. CASE tokens[t].user # u
    BY <1>1, <1>5, <1>7, <2>1, <2>2 DEF AInv, SessionsAreCurrent, LockedPCs
  <2>3. CASE tokens[t].user = u /\ areq[r].next = "revoke"
    BY <1>3, <2>3
  <2>4. CASE tokens[t].user = u /\ areq[r].next # "revoke"
    BY <1>1, <1>7, <2>4 DEF AInv, RevocationFollows
  <2> QED
    BY <2>2, <2>3, <2>4
<1>11. (drops = 0 => Coherent)'
  <2> SUFFICES ASSUME drops = 0 PROVE Coherent'
    BY <1>7
  <2>1. disk' = cache' /\ Good(After(r))
    BY <1>1, <1>2, <1>7 DEF AInv, Coherent
  <2>2. Good(cache')
    BY <1>2, <2>1
  <2>3. \A p \in Reqs : areq'[p].pc \notin {"put", "publish"}
    BY <1>1, <1>3, <1>5 DEF LockedPCs
  <2> QED
    BY <2>1, <2>2, <2>3 DEF Coherent
<1> QED
  BY <1>4, <1>6, <1>8, <1>9, <1>10, <1>11 DEF AInv

\* The sessions of the user are revoked; the one that changed the password is
\* as young as the password.
LEMMA RevokeStep ==
    ASSUME AInv, NEW r \in Reqs, Revoke(r)
    PROVE  AInv'
<1> DEFINE u == areq[r].user
           new == areq[r].new
<1>1. areq'[r] = Idle /\ (\A p \in Reqs \ {r} : areq'[p] = areq[p]) /\ areq' \in [Reqs -> Request]
  BY IdleType DEF Revoke, End, AInv, ATypeOK
<1>2. u \in Users /\ new \in Account \cup {NoUser} /\ (new = NoUser => areq[r].tok \notin Tokens)
  BY AuthAssumption
  DEF Revoke, AInv, ATypeOK, NothingUnknown, RevocationFollows, Request, LockedPCs
<1>3. lock = r /\ cache[u] = new /\ \A p \in Reqs \ {r} : areq[p].pc \notin LockedPCs
  BY DEF Revoke, AInv, LockDiscipline, RevocationFollows, LockedPCs
<1>4. ASSUME NEW t \in Tokens
      PROVE  /\ tokens'[t] \in Session \cup {NoSession}
             /\ tokens'[t] # NoSession =>
                   /\ tokens[t] # NoSession /\ tokens'[t].user = tokens[t].user
                   /\ tokens[t].user # u => tokens'[t] = tokens[t]
                   /\ tokens[t].user = u => new # NoUser /\ tokens'[t].born = new.pw
  <2>1. tokens[t] \in Session \cup {NoSession} /\ (tokens[t] = NoSession => tokens[t].user # u)
    BY <1>2, AuthAssumption DEF AInv, ATypeOK, NoSession
  <2>2. CASE tokens[t].user # u
    BY <2>1, <2>2 DEF Revoke
  <2>3. CASE tokens[t].user = u /\ t # areq[r].tok
    BY <2>3 DEF Revoke
  <2>4. CASE tokens[t].user = u /\ t = areq[r].tok
    <3>1. tokens[t] \in Session /\ new \in Account
      BY <1>2, <2>1, <2>4
    <3>2. tokens'[t] = [tokens[t] EXCEPT !.cred = new.pw, !.born = new.pw]
      BY <2>4 DEF Revoke
    <3>3. new.pw \in 0..MaxPw /\ new # NoUser /\ tokens[t] # NoSession
      BY <3>1, Absent DEF Account
    <3>4. PICK s \in Session, pw \in 0..MaxPw : s = tokens[t] /\ pw = new.pw
      BY <3>1, <3>3
    <3>5. PICK n : n = tokens'[t] /\ n = [s EXCEPT !.cred = pw, !.born = pw]
      BY <3>2, <3>4
    <3>6. n \in Session /\ n.user = s.user /\ n.born = pw
      BY <3>5 DEF Session
    <3> QED
      BY <2>4, <3>3, <3>4, <3>5, <3>6
  <2> QED
    BY <2>2, <2>3, <2>4
<1>5. ATypeOK'
  <2>1. tokens' \in [Tokens -> Session \cup {NoSession}]
    BY <1>4 DEF Revoke
  <2> QED
    BY <1>1, <2>1 DEF Revoke, AInv, ATypeOK
<1>6. LockDiscipline'
  <2>1. lock' = Nobody /\ Idle.pc = "idle"
    BY DEF Revoke, Idle
  <2> QED
    BY <1>1, <1>3, <2>1, AuthAssumption DEF LockDiscipline, LockedPCs, Nobody
<1>7. disk' = disk /\ cache' = cache /\ used' = used /\ pws' = pws /\ drops' = drops
  BY DEF Revoke
<1>8. NothingUnknown' /\ RevocationFollows' /\ TokenReserved'
  BY <1>1, <1>3, <1>4, <1>7 DEF AInv, NothingUnknown, RevocationFollows, TokenReserved,
                                LockedPCs, Idle
<1>9. SessionsAreCurrent'
  <2> SUFFICES ASSUME NEW t \in Tokens, tokens'[t] # NoSession, cache[tokens'[t].user] # NoUser
               PROVE  tokens'[t].born >= cache[tokens'[t].user].pw
    BY <1>7 DEF SessionsAreCurrent
  <2>1. CASE tokens[t].user # u
    BY <1>3, <1>4, <2>1 DEF AInv, SessionsAreCurrent, LockedPCs
  <2>2. CASE tokens[t].user = u
    <3>1. tokens'[t].user = u /\ tokens'[t].born = new.pw /\ new \in Account
      BY <1>2, <1>4, <2>2
    <3> QED
      BY <1>3, <3>1 DEF Account
  <2> QED
    BY <2>1, <2>2
<1>10. (drops = 0 => Coherent)'
  <2> SUFFICES ASSUME drops = 0 PROVE Coherent'
    BY <1>7
  <2>1. Good(cache) /\ disk = cache
    BY DEF Revoke, AInv, Coherent
  <2>2. \A p \in Reqs : areq'[p].pc \notin LockedPCs
    BY <1>1, <1>3 DEF LockedPCs, Idle
  <2> QED
    BY <1>7, <2>1, <2>2 DEF Coherent, LockedPCs
<1> QED
  BY <1>5, <1>6, <1>8, <1>9, <1>10 DEF AInv

-----------------------------------------------------------------------------
(* What a mutation makes of the accounts.                                  *)

\* Changing an account other than its name, and not taking the role from the
\* last administrator, keeps the accounts good.
LEMMA ChangeIsGood ==
    ASSUME ATypeOK, Good(cache), NEW u \in Users, NEW new \in Account,
           cache[u] # NoUser, new.name = cache[u].name,
           cache[u].admin => new.admin \/ ~LastAdmin(u)
    PROVE  Good([cache EXCEPT ![u] = new])
<1> DEFINE after == [cache EXCEPT ![u] = new]
<1>1. after[u] = new /\ new # NoUser /\ \A v \in Users \ {u} : after[v] = cache[v]
  BY Absent DEF ATypeOK
<1>2. \E w \in Users : IsAdmin(after, w)
  <2>1. PICK w \in Users : IsAdmin(cache, w)
    BY DEF Good
  <2>2. CASE w # u
    BY <1>1, <2>1, <2>2 DEF IsAdmin
  <2>3. CASE w = u /\ new.admin
    BY <1>1, <2>3 DEF IsAdmin
  <2>4. CASE w = u /\ ~new.admin
    <3>1. PICK v \in Users \ {u} : IsAdmin(cache, v)
      BY <2>1, <2>4 DEF IsAdmin, LastAdmin
    <3> QED
      BY <1>1, <3>1 DEF IsAdmin
  <2> QED
    BY <2>2, <2>3, <2>4
<1>3. \A v, w \in Users :
         (after[v] # NoUser /\ after[w] # NoUser /\ after[v].name = after[w].name) => v = w
  BY <1>1 DEF Good
<1> QED
  BY <1>2, <1>3 DEF Good

\* Adding an account whose name nobody has keeps them good.
LEMMA AddIsGood ==
    ASSUME ATypeOK, Good(cache), NEW u \in Users, NEW new \in Account,
           cache[u] = NoUser, ~NameTaken(new.name)
    PROVE  Good([cache EXCEPT ![u] = new])
<1> DEFINE after == [cache EXCEPT ![u] = new]
<1>1. after[u] = new /\ \A v \in Users \ {u} : after[v] = cache[v]
  BY DEF ATypeOK
<1>2. \E w \in Users : IsAdmin(after, w)
  BY <1>1 DEF Good, IsAdmin
<1>3. \A v, w \in Users :
         (after[v] # NoUser /\ after[w] # NoUser /\ after[v].name = after[w].name) => v = w
  BY <1>1 DEF Good, NameTaken
<1> QED
  BY <1>2, <1>3 DEF Good

\* Removing an account that is not the last administrator's keeps them good.
LEMMA RemoveIsGood ==
    ASSUME ATypeOK, Good(cache), NEW u \in Users, cache[u] # NoUser,
           cache[u].admin => ~LastAdmin(u)
    PROVE  Good([cache EXCEPT ![u] = NoUser])
<1> DEFINE after == [cache EXCEPT ![u] = NoUser]
<1>1. after[u] = NoUser /\ \A v \in Users \ {u} : after[v] = cache[v]
  BY DEF ATypeOK
<1>2. \E w \in Users : IsAdmin(after, w)
  <2>1. PICK w \in Users \ {u} : IsAdmin(cache, w)
    BY DEF Good, IsAdmin, LastAdmin
  <2> QED
    BY <1>1, <2>1 DEF IsAdmin
<1>3. \A v, w \in Users :
         (after[v] # NoUser /\ after[w] # NoUser /\ after[v].name = after[w].name) => v = w
  BY <1>1 DEF Good
<1> QED
  BY <1>2, <1>3 DEF Good

\* At rest no session is older than its user's password.
LEMMA InvRevokes == AInv => ResetRevokes
<1> SUFFICES ASSUME AInv, lock = Nobody, NEW t \in Tokens, tokens[t] # NoSession,
                    cache[tokens[t].user] # NoUser
             PROVE  tokens[t].born >= cache[tokens[t].user].pw
  BY DEF ResetRevokes
<1>1. \A r \in Reqs : areq[r].pc # "revoke"
  BY AuthAssumption DEF AInv, LockDiscipline, LockedPCs, Nobody
<1> QED
  BY <1>1 DEF AInv, SessionsAreCurrent

\* A mutation begins.
LEMMA MutateStep ==
    ASSUME AInv, NEW r \in Reqs, NEW u \in Users, NEW new \in Account \cup {NoUser},
           NEW next \in {"idle", "revoke"}, NEW tok \in Tokens \cup {"none"},
           Mutate(r, u, new, next, tok),
           u \in used',
           new = NoUser => next = "revoke" /\ tok = "none",
           new # NoUser => new.pw <= pws',
           next # "revoke" =>
              \A t \in Tokens : tokens[t] # NoSession /\ tokens[t].user = u =>
                                   tokens[t].born >= new.pw,
           drops = 0 => Good([cache EXCEPT ![u] = new]),
           used \subseteq used', used' \subseteq Users,
           pws' \in 0..MaxPw, pws <= pws', gens' \in 0..MaxGen
    PROVE  AInv'
<1>1. PICK q : /\ q = [Idle EXCEPT !.pc = "put", !.user = u, !.new = new,
                                   !.next = next, !.tok = tok]
               /\ areq' = [areq EXCEPT ![r] = q]
  BY DEF Mutate
<1>2. /\ q \in Request /\ q.pc = "put" /\ q.user = u /\ q.new = new
      /\ q.next = next /\ q.tok = tok
  <2>1. q = [pc |-> "put", user |-> u, new |-> new, next |-> next,
             cred |-> 0, gen |-> 0, tok |-> tok]
    BY <1>1 DEF Idle
  <2> QED
    BY <2>1, AuthAssumption DEF Request, APCs
<1>3. /\ lock = Nobody /\ lock' = r
      /\ UNCHANGED <<disk, cache, tokens, spent, acrashes, afaults, drops>>
  BY DEF Mutate
<1> QED
  BY <1>1, <1>2, <1>3, TakeLock

-----------------------------------------------------------------------------
(* The operations.                                                         *)

\* create_user preserves the invariant.
LEMMA CreateUserStep ==
    ASSUME AInv, NEW r \in Reqs, NEW u \in Users, NEW n \in Names, NEW admin \in BOOLEAN,
           CreateUser(r, u, n, admin)
    PROVE  AInv'
<1>1. PICK new : /\ new = [name |-> n, admin |-> admin, pw |-> pws', tf |-> "off",
                           gen |-> 0, code |-> FALSE]
                 /\ Mutate(r, u, new, "idle", "none")
  BY DEF CreateUser
<1>2. pws \in 0..MaxPw /\ pws' = pws + 1 /\ pws' \in 0..MaxPw
  BY AuthAssumption DEF CreateUser, AInv, ATypeOK
<1>3. new \in Account /\ new.pw = pws' /\ new.name = n /\ new # NoUser
  <2>1. new \in Account /\ new.pw = pws' /\ new.name = n
    BY <1>1, <1>2, AuthAssumption DEF Account
  <2> QED
    BY <2>1, Absent
<1>4. /\ u \notin used /\ used' = used \cup {u} /\ used \subseteq Users /\ ~NameTaken(n)
      /\ gens' \in 0..MaxGen
  BY DEF CreateUser, AInv, ATypeOK
<1>5. cache[u] = NoUser /\ \A t \in Tokens : tokens[t] # NoSession => tokens[t].user # u
  BY <1>4 DEF AInv, NothingUnknown
<1>6. drops = 0 => Good([cache EXCEPT ![u] = new])
  BY <1>3, <1>4, <1>5, AddIsGood DEF AInv, Coherent
<1>7. new.pw <= pws' /\ pws <= pws' /\ used' \subseteq Users /\ used \subseteq used' /\ u \in used'
  BY <1>2, <1>3, <1>4
<1> QED
  BY <1>1, <1>2, <1>3, <1>4, <1>5, <1>6, <1>7, MutateStep

\* A mutation of an existing account that keeps its name preserves the invariant
\* if it leaves an administrator and either keeps the password or revokes.
LEMMA ChangeStep ==
    ASSUME AInv, NEW r \in Reqs, NEW u \in Users, NEW new \in Account,
           NEW next \in {"idle", "revoke"}, NEW tok \in Tokens \cup {"none"},
           Mutate(r, u, new, next, tok),
           cache[u] # NoUser, new.name = cache[u].name,
           cache[u].admin => new.admin \/ ~LastAdmin(u),
           next = "idle" => new.pw = cache[u].pw,
           new.pw = cache[u].pw \/ new.pw = pws',
           used' = used, pws' \in 0..MaxPw, pws <= pws', gens' \in 0..MaxGen
    PROVE  AInv'
<1>1. u \in used /\ used \subseteq Users /\ lock = Nobody /\ new # NoUser
  BY Absent DEF Mutate, AInv, ATypeOK, NothingUnknown
<1>2. new.pw <= pws'
  <2>1. pws \in Nat /\ cache[u].pw \in Nat /\ pws' \in Nat /\ cache[u].pw <= pws
    BY AuthAssumption DEF AInv, ATypeOK, Account, NothingUnknown
  <2> QED
    BY <2>1
<1>3. next # "revoke" =>
         \A t \in Tokens : tokens[t] # NoSession /\ tokens[t].user = u =>
                              tokens[t].born >= new.pw
  BY <1>1, InvRevokes DEF ResetRevokes
<1>4. drops = 0 => Good([cache EXCEPT ![u] = new])
  BY ChangeIsGood DEF AInv, Coherent
<1> QED
  BY <1>1, <1>2, <1>3, <1>4, MutateStep

\* update_user, change_password, two_factor_setup and two_factor_confirm do.
LEMMA UpdateStep ==
    ASSUME AInv, NEW r \in Reqs, NEW u \in Users, NEW admin \in BOOLEAN, NEW reset \in BOOLEAN,
           NEW t \in Tokens \cup {"none"},
           \/ UpdateUser(r, u, admin, reset)
           \/ t \in Tokens /\ ChangePassword(r, u, t)
           \/ TwoFactorSetup(r, u)
           \/ TwoFactorConfirm(r, u)
    PROVE  AInv'
<1>1. /\ cache[u] \in Account /\ cache[u] # NoUser /\ used' = used
      /\ pws \in 0..MaxPw /\ gens \in 0..MaxGen
  BY DEF UpdateUser, ChangePassword, TwoFactorSetup, TwoFactorConfirm, AInv, ATypeOK
<1>2. PICK a \in Account : a = cache[u]
  BY <1>1
<1>3. pws' \in 0..MaxPw /\ pws <= pws' /\ gens' \in 0..MaxGen
  BY <1>1, AuthAssumption DEF UpdateUser, ChangePassword, TwoFactorSetup, TwoFactorConfirm
<1>4. CASE UpdateUser(r, u, admin, reset)
  <2>1. PICK new, next : /\ new = [a EXCEPT !.admin = admin, !.pw = IF reset THEN pws' ELSE @]
                         /\ next = IF reset THEN "revoke" ELSE "idle"
                         /\ Mutate(r, u, new, next, "none")
    BY <1>2, <1>4 DEF UpdateUser
  <2>2. /\ new \in Account /\ new.name = a.name /\ new.admin = admin
        /\ new.pw = IF reset THEN pws' ELSE a.pw
    BY <1>3, <2>1 DEF Account
  <2>3. a.admin => admin \/ ~LastAdmin(u)
    BY <1>2, <1>4 DEF UpdateUser
  <2> QED
    BY <1>1, <1>2, <1>3, <2>1, <2>2, <2>3, ChangeStep
<1>5. CASE t \in Tokens /\ ChangePassword(r, u, t)
  <2>1. PICK new : new = [a EXCEPT !.pw = pws'] /\ Mutate(r, u, new, "revoke", t)
    BY <1>2, <1>5 DEF ChangePassword
  <2>2. new \in Account /\ new.name = a.name /\ new.admin = a.admin /\ new.pw = pws'
    BY <1>3, <2>1 DEF Account
  <2> QED
    BY <1>1, <1>2, <1>3, <2>1, <2>2, ChangeStep
<1>6. CASE TwoFactorSetup(r, u)
  <2>1. PICK new : /\ new = [a EXCEPT !.tf = "pending", !.gen = gens', !.code = FALSE]
                   /\ Mutate(r, u, new, "idle", "none")
    BY <1>2, <1>6 DEF TwoFactorSetup
  <2>2. new \in Account /\ new.name = a.name /\ new.admin = a.admin /\ new.pw = a.pw
    BY <1>3, <2>1 DEF Account
  <2> QED
    BY <1>1, <1>2, <1>3, <2>1, <2>2, ChangeStep
<1>7. CASE TwoFactorConfirm(r, u)
  <2>1. PICK new : /\ new = [a EXCEPT !.tf = "on", !.code = TRUE]
                   /\ Mutate(r, u, new, "idle", "none")
    BY <1>2, <1>7 DEF TwoFactorConfirm
  <2>2. new \in Account /\ new.name = a.name /\ new.admin = a.admin /\ new.pw = a.pw
    BY <2>1 DEF Account
  <2> QED
    BY <1>1, <1>2, <1>3, <2>1, <2>2, ChangeStep
<1> QED
  BY <1>4, <1>5, <1>6, <1>7

\* delete_user does.
LEMMA DeleteUserStep ==
    ASSUME AInv, NEW r \in Reqs, NEW u \in Users, DeleteUser(r, u)
    PROVE  AInv'
<1>1. /\ cache[u] # NoUser /\ (cache[u].admin => ~LastAdmin(u))
      /\ Mutate(r, u, NoUser, "revoke", "none")
      /\ used' = used /\ pws' = pws /\ gens' = gens
  BY DEF DeleteUser
<1>2. drops = 0 => Good([cache EXCEPT ![u] = NoUser])
  BY <1>1, RemoveIsGood DEF AInv, Coherent
<1>3. /\ u \in used' /\ used' \subseteq Users /\ pws' \in 0..MaxPw /\ pws <= pws'
      /\ gens' \in 0..MaxGen
  BY <1>1, AuthAssumption DEF AInv, ATypeOK, NothingUnknown
<1> QED
  BY <1>1, <1>2, <1>3, MutateStep

\* A request that waited for the mutex to spend a recovery code, or to disable
\* the second factor, takes it with a changed copy of the account.
LEMMA WaitedStep ==
    ASSUME AInv, NEW r \in Reqs, NEW q \in Request, NEW new \in Account,
           lock = Nobody, lock' = r, areq[r].pc # "idle", cache[areq[r].user] # NoUser,
           new.name = cache[areq[r].user].name, new.admin = cache[areq[r].user].admin,
           new.pw = cache[areq[r].user].pw,
           q.pc = "put", q.user = areq[r].user, q.new = new, areq' = [areq EXCEPT ![r] = q],
           q.next = "mint" => q.tok \in Tokens,
           UNCHANGED <<disk, cache, tokens, used, pws, gens, spent, acrashes, afaults, drops>>
    PROVE  AInv'
<1> DEFINE u == areq[r].user
<1>1. /\ u \in Users /\ u \in used /\ used \subseteq Users /\ pws \in 0..MaxPw
      /\ gens \in 0..MaxGen /\ pws <= pws /\ new.pw <= pws
  BY AuthAssumption DEF AInv, ATypeOK, NothingUnknown
<1>2. new # NoUser
  BY Absent
<1>3. \A t \in Tokens : tokens[t] # NoSession /\ tokens[t].user = u => tokens[t].born >= new.pw
  BY InvRevokes DEF ResetRevokes
<1>4. drops = 0 => Good([cache EXCEPT ![u] = new])
  BY <1>1, ChangeIsGood DEF AInv, Coherent
<1> QED
  BY <1>1, <1>2, <1>3, <1>4, TakeLock

\* The two requests that wait so.
LEMMA WaitingStep ==
    ASSUME AInv, NEW r \in Reqs, Waiting(r)
    PROVE  AInv'
<1> DEFINE u == areq[r].user
<1>1. areq[r] \in Request /\ areq[r].pc \in {"recover", "clear"} /\ u \in Users
  BY DEF Waiting, SpendRecoveryCode, RejectRecoveryCode, ClearTwoFactor, AInv, ATypeOK,
         NothingUnknown
<1>2. PICK p \in Request : p = areq[r]
  BY <1>1
<1>3. CASE End(r) /\ UNCHANGED <<disk, cache, tokens, lock, used, pws, gens, spent,
                                 acrashes, afaults, drops>>
  <2>1. /\ areq' = [areq EXCEPT ![r] = Idle] /\ Idle.pc = "idle" /\ Idle.new = NoUser
        /\ Idle.next = "idle"
        /\ areq[r].pc \notin LockedPCs /\ Idle.pc \notin LockedPCs
    BY <1>1, <1>3 DEF End, Idle, LockedPCs
  <2> QED
    BY <1>3, <2>1, IdleType, FreeStep
<1>4. CASE SpendRecoveryCode(r)
  <2>1. cache[u] \in Account /\ cache[u] # NoUser
    BY <1>1, <1>4 DEF SpendRecoveryCode, CodeMatches, AInv, ATypeOK
  <2>2. PICK a \in Account : a = cache[u]
    BY <2>1
  <2>3. PICK new, q : /\ new = [a EXCEPT !.code = FALSE]
                      /\ q = [p EXCEPT !.pc = "put", !.new = new]
                      /\ areq' = [areq EXCEPT ![r] = q]
    BY <1>2, <1>4, <2>2 DEF SpendRecoveryCode
  <2>4. new \in Account /\ new.name = a.name /\ new.admin = a.admin /\ new.pw = a.pw
    BY <2>3 DEF Account
  <2>5. /\ q \in Request /\ q.pc = "put" /\ q.user = p.user /\ q.new = new
        /\ q.next = p.next /\ q.tok = p.tok
    BY <2>3, <2>4 DEF Request, APCs
  <2>6. /\ lock = Nobody /\ lock' = r
        /\ UNCHANGED <<disk, cache, tokens, used, pws, gens, spent, acrashes, afaults, drops>>
    BY <1>4 DEF SpendRecoveryCode
  <2>7. /\ areq[r].pc # "idle" /\ cache[areq[r].user] # NoUser /\ q.user = areq[r].user
        /\ new.name = cache[areq[r].user].name /\ new.admin = cache[areq[r].user].admin
        /\ new.pw = cache[areq[r].user].pw /\ (q.next = "mint" => q.tok \in Tokens)
    BY <1>1, <1>2, <2>1, <2>2, <2>4, <2>5 DEF AInv, TokenReserved
  <2> QED
    BY <2>3, <2>4, <2>5, <2>6, <2>7, WaitedStep
<1>5. CASE ClearTwoFactor(r) /\ cache[u] # NoUser
  <2>1. cache[u] \in Account
    BY <1>1, <1>5 DEF AInv, ATypeOK
  <2>2. PICK a \in Account : a = cache[u]
    BY <2>1
  <2>3. PICK new, q : /\ new = [a EXCEPT !.tf = "off", !.gen = 0, !.code = FALSE]
                      /\ q = [p EXCEPT !.pc = "put", !.next = "idle", !.new = new]
                      /\ areq' = [areq EXCEPT ![r] = q]
    BY <1>2, <1>5, <2>2 DEF ClearTwoFactor
  <2>4. new \in Account /\ new.name = a.name /\ new.admin = a.admin /\ new.pw = a.pw
    <3>1. 0 \in 0..MaxGen
      BY AuthAssumption
    <3> QED
      BY <2>3, <3>1 DEF Account
  <2>5. /\ q \in Request /\ q.pc = "put" /\ q.user = p.user /\ q.new = new
        /\ q.next = "idle" /\ q.tok = p.tok
    BY <2>3, <2>4 DEF Request, APCs
  <2>6. /\ lock = Nobody /\ lock' = r
        /\ UNCHANGED <<disk, cache, tokens, used, pws, gens, spent, acrashes, afaults, drops>>
    BY <1>5 DEF ClearTwoFactor
  <2>7. /\ areq[r].pc # "idle" /\ cache[areq[r].user] # NoUser /\ q.user = areq[r].user
        /\ new.name = cache[areq[r].user].name /\ new.admin = cache[areq[r].user].admin
        /\ new.pw = cache[areq[r].user].pw /\ (q.next = "mint" => q.tok \in Tokens)
    BY <1>1, <1>2, <1>5, <2>2, <2>4, <2>5 DEF AInv, TokenReserved
  <2> QED
    BY <2>3, <2>4, <2>5, <2>6, <2>7, WaitedStep
<1>6. ClearTwoFactor(r) /\ cache[u] = NoUser =>
         End(r) /\ UNCHANGED <<disk, cache, tokens, lock, used, pws, gens, spent,
                               acrashes, afaults, drops>>
  BY DEF ClearTwoFactor
<1>7. RejectRecoveryCode(r) =>
         End(r) /\ UNCHANGED <<disk, cache, tokens, lock, used, pws, gens, spent,
                               acrashes, afaults, drops>>
  BY DEF RejectRecoveryCode
<1> QED
  BY <1>3, <1>4, <1>5, <1>6, <1>7 DEF Waiting

\* Requests begin that hold no lock: login, two_factor_disable.
LEMMA BeginFreeStep ==
    ASSUME AInv, NEW r \in Reqs, NEW u \in Users, NEW pw \in 0..MaxPw, NEW t \in Tokens \cup {"none"},
           NEW g \in 0..MaxGen,
           (t \in Tokens /\ Login(r, u, pw, t)) \/ TwoFactorDisable(r, u, g)
    PROVE  AInv'
<1>1. /\ u \in used /\ areq[r].pc \notin LockedPCs
      /\ UNCHANGED <<disk, cache, tokens, lock, used, pws, gens, spent, acrashes, afaults, drops>>
  BY DEF Login, TwoFactorDisable, AInv, NothingUnknown, LockedPCs
<1>2. PICK q : /\ areq' = [areq EXCEPT ![r] = q]
               /\ \/ /\ q = [Idle EXCEPT !.pc = "second", !.user = u, !.cred = pw,
                                          !.next = "mint", !.tok = t]
                     /\ t \in Tokens
                  \/ \E pc \in {"recover", "clear"} :
                        q = [Idle EXCEPT !.pc = pc, !.user = u, !.gen = g, !.next = "clear"]
  BY DEF Login, TwoFactorDisable
<1>3. /\ q \in Request /\ q.pc \in {"second", "recover", "clear"} /\ q.user = u
      /\ q.new = NoUser /\ (q.pc = "second" => q.next = "mint")
      /\ q.next = "mint" => q.tok \in Tokens
  <2>1. CASE /\ q = [Idle EXCEPT !.pc = "second", !.user = u, !.cred = pw,
                                 !.next = "mint", !.tok = t]
             /\ t \in Tokens
    <3>1. q = [pc |-> "second", user |-> u, new |-> NoUser, next |-> "mint",
               cred |-> pw, gen |-> 0, tok |-> t]
      BY <2>1 DEF Idle
    <3>2. t \in Tokens /\ 0 \in 0..MaxGen
      BY <2>1, AuthAssumption
    <3> QED
      BY <3>1, <3>2 DEF Request, APCs
  <2>2. ASSUME NEW pc \in {"recover", "clear"},
               q = [Idle EXCEPT !.pc = pc, !.user = u, !.gen = g, !.next = "clear"]
        PROVE  q \in Request /\ q.pc = pc /\ q.user = u /\ q.new = NoUser /\ q.next = "clear"
    <3>1. q = [pc |-> pc, user |-> u, new |-> NoUser, next |-> "clear",
               cred |-> 0, gen |-> g, tok |-> "none"]
      BY <2>2 DEF Idle
    <3>2. 0 \in 0..MaxPw
      BY AuthAssumption
    <3> QED
      BY <3>1, <3>2 DEF Request, APCs
  <2> QED
    BY <1>2, <2>1, <2>2
<1>4. q.pc \notin LockedPCs
  BY <1>3 DEF LockedPCs
<1> QED
  BY <1>1, <1>2, <1>3, <1>4, FreeStep

\* login goes on: the second factor, and one more look at the account.
LEMMA LoginStep ==
    ASSUME AInv, NEW r \in Reqs, NEW g \in 0..MaxGen, SecondFactor(r, g) \/ EndLogin(r) \/ Mint(r)
    PROVE  AInv'
<1>1. /\ areq[r] \in Request /\ areq[r].pc \in {"second", "mint"} /\ areq[r].user \in used
      /\ areq[r].new # NoUser => areq[r].new.pw <= pws
      /\ areq[r].next = "mint" /\ areq[r].tok \in Tokens
      /\ UNCHANGED <<disk, cache, tokens, lock, used, pws, gens, spent, acrashes, afaults, drops>>
  BY DEF SecondFactor, EndLogin, Mint, AInv, ATypeOK, NothingUnknown, TokenReserved
<1>2. PICK p \in Request : p = areq[r]
  BY <1>1
<1>3. PICK q : /\ areq' = [areq EXCEPT ![r] = q]
               /\ \/ q = Idle
                  \/ \E pc \in {"mint", "insert"} : q = [p EXCEPT !.pc = pc]
                  \/ q = [p EXCEPT !.pc = "recover", !.gen = g]
  <2>1. \/ areq' = [areq EXCEPT ![r] = Idle]
        \/ \E pc \in {"mint", "insert"} : areq' = [areq EXCEPT ![r].pc = pc]
        \/ areq' = [areq EXCEPT ![r].pc = "recover", ![r].gen = g]
    BY DEF SecondFactor, EndLogin, Mint, Goto, End
  <2>2. CASE areq' = [areq EXCEPT ![r] = Idle]
    BY <2>2
  <2>3. ASSUME NEW pc \in {"mint", "insert"}, areq' = [areq EXCEPT ![r].pc = pc]
        PROVE  areq' = [areq EXCEPT ![r] = [p EXCEPT !.pc = pc]]
    BY <1>2, <2>3
  <2>4. CASE areq' = [areq EXCEPT ![r].pc = "recover", ![r].gen = g]
    <3>1. areq' = [areq EXCEPT ![r] = [p EXCEPT !.pc = "recover", !.gen = g]]
      BY <1>2, <2>4
    <3> QED
      BY <3>1
  <2> QED
    BY <2>1, <2>2, <2>3, <2>4
<1>4. /\ q \in Request /\ q.pc \in {"idle", "mint", "insert", "recover"}
      /\ \/ q.pc = "idle" /\ q.new = NoUser /\ q.next = "idle"
         \/ q.user = p.user /\ q.new = p.new /\ q.next = p.next /\ q.tok = p.tok
  <2>1. CASE q = Idle
    BY <2>1, IdleType DEF Idle
  <2>2. CASE \E pc \in {"mint", "insert"} : q = [p EXCEPT !.pc = pc]
    BY <2>2 DEF Request, APCs
  <2>3. CASE q = [p EXCEPT !.pc = "recover", !.gen = g]
    BY <2>3 DEF Request, APCs
  <2> QED
    BY <1>3, <2>1, <2>2, <2>3
<1>5. /\ areq[r].pc \notin LockedPCs /\ q.pc \notin LockedPCs
      /\ q.pc # "idle" => q.user \in used
      /\ q.new # NoUser => q.new.pw <= pws
      /\ q.pc \in {"mint", "insert", "second"} => q.next = "mint"
      /\ q.next = "mint" => q.tok \in Tokens
  BY <1>1, <1>2, <1>4 DEF LockedPCs
<1> QED
  BY <1>1, <1>3, <1>4, <1>5, FreeStep

\* A session begins, and the login that opened it ends.
LEMMA InsertTokenStep ==
    ASSUME AInv, NEW r \in Reqs, InsertToken(r)
    PROVE  AInv'
<1> DEFINE t == areq[r].tok
<1>0. t \in Tokens
  BY DEF InsertToken, AInv, TokenReserved
<1>1. PICK s : /\ s = [user |-> areq[r].user, cred |-> areq[r].cred, born |-> pws]
               /\ tokens' = [tokens EXCEPT ![t] = s]
  BY DEF InsertToken
<1>2. s \in Session /\ s.user \in used /\ s.born = pws
  BY <1>1 DEF InsertToken, AInv, ATypeOK, NothingUnknown, Request, Session
<1>3. areq'[r] = Idle /\ (\A p \in Reqs \ {r} : areq'[p] = areq[p]) /\ areq' \in [Reqs -> Request]
  BY IdleType DEF InsertToken, End, AInv, ATypeOK
<1>4. tokens'[t] = s /\ \A x \in Tokens \ {t} : tokens'[x] = tokens[x]
  BY <1>0, <1>1 DEF AInv, ATypeOK
<1>5. ATypeOK'
  BY <1>0, <1>1, <1>2, <1>3 DEF InsertToken, AInv, ATypeOK
<1>6. /\ UNCHANGED <<disk, cache, lock, used, pws, drops>> /\ areq[r].pc = "insert"
      /\ Idle.pc = "idle" /\ Idle.new = NoUser /\ Idle.next = "idle"
  BY DEF InsertToken, Idle
<1>7. LockDiscipline' /\ NothingUnknown' /\ TokenReserved'
  BY <1>2, <1>3, <1>4, <1>6 DEF AInv, LockDiscipline, NothingUnknown, TokenReserved, LockedPCs
<1>8. RevocationFollows'
  BY <1>2, <1>3, <1>4, <1>6 DEF AInv, NothingUnknown, RevocationFollows, LockedPCs
<1>9. SessionsAreCurrent'
  BY <1>2, <1>3, <1>4, <1>6 DEF AInv, ATypeOK, NothingUnknown, SessionsAreCurrent
<1>10. (drops = 0 => Coherent)'
  BY <1>3, <1>6 DEF AInv, Coherent, After
<1> QED
  BY <1>5, <1>7, <1>8, <1>9, <1>10 DEF AInv

\* A session ends by logout or expiry.
LEMMA DropTokenStep ==
    ASSUME AInv, NEW t \in Tokens, DropToken(t)
    PROVE  AInv'
  BY TokenStep DEF DropToken

\* The write fails, or the request is dropped.
LEMMA GiveUpStep ==
    ASSUME AInv, NEW r \in Reqs, PutFails(r) \/ DropAuthRequest(r)
    PROVE  AInv'
<1>1. CASE PutFails(r)
  <2>1. lock = r
    BY <1>1 DEF PutFails, AInv, LockDiscipline, LockedPCs
  <2>2. afaults' \in 0..MaxAuthFaults /\ drops' = drops /\ drops' \in 0..MaxDrops
    BY <1>1, AuthAssumption DEF PutFails, AInv, ATypeOK
  <2> QED
    BY <1>1, <2>1, <2>2, ReleaseStep DEF PutFails
<1>2. CASE DropAuthRequest(r)
  <2>1. afaults' \in 0..MaxAuthFaults /\ drops' \in 0..MaxDrops /\ drops' # 0
    BY <1>2, AuthAssumption DEF DropAuthRequest, AInv, ATypeOK
  <2> QED
    BY <1>2, <2>1, ReleaseStep DEF DropAuthRequest
<1> QED
  BY <1>1, <1>2

\* After a restart the accounts are those of the files, or the seed.
LEMMA RestartStep ==
    ASSUME AInv, Restart
    PROVE  AInv'
<1>1. /\ cache' = disk' /\ lock' = Nobody /\ tokens' = [t \in Tokens |-> NoSession]
      /\ areq' = [r \in Reqs |-> Idle] /\ UNCHANGED <<pws, gens, spent, afaults, drops>>
      /\ acrashes' \in 0..MaxAuthCrashes /\ pws \in 0..MaxPw
  BY AuthAssumption DEF Restart, AInv, ATypeOK
<1>2. /\ disk' \in [Users -> Account \cup {NoUser}] /\ used' \subseteq Users
      /\ \A u \in Users : disk'[u] # NoUser => u \in used' /\ disk'[u].pw <= pws
      /\ drops = 0 => Good(disk')
  <2>1. CASE disk' = disk /\ used' = used
    <3>1. drops = 0 => Good(disk)
      <4> SUFFICES ASSUME drops = 0 PROVE Good(disk)
        OBVIOUS
      <4>1. lock = Nobody \/ \E r \in Reqs : areq[r].pc \in LockedPCs
        BY DEF AInv, ATypeOK, LockDiscipline
      <4>2. disk = cache \/ \E r \in Reqs : disk = After(r) /\ Good(After(r))
        BY <4>1 DEF AInv, Coherent, LockedPCs
      <4>3. Good(cache)
        BY DEF AInv, Coherent
      <4> QED
        BY <4>2, <4>3
    <3> QED
      BY <2>1, <3>1 DEF AInv, ATypeOK, NothingUnknown
  <2>2. ASSUME NEW u \in Users, NEW n \in Names, disk' = Seed(u, n), used' = used \cup {u}
        PROVE  /\ disk' \in [Users -> Account \cup {NoUser}] /\ used' \subseteq Users
               /\ \A v \in Users : disk'[v] # NoUser => v \in used' /\ disk'[v].pw <= pws
               /\ Good(disk')
    <3>1. /\ disk' \in [Users -> Account \cup {NoUser}] /\ Good(disk')
          /\ \A v \in Users : disk'[v] # NoUser => v = u /\ disk'[v].pw = 0
      BY <2>2, SeedIsGood
    <3>2. used' \subseteq Users /\ u \in used' /\ 0 <= pws
      BY <1>1, <2>2 DEF AInv, ATypeOK
    <3> QED
      BY <3>1, <3>2
  <2> QED
    BY <2>1, <2>2 DEF Restart
<1>3. ATypeOK'
  BY <1>1, <1>2, IdleType DEF AInv, ATypeOK
<1>4. AtRestFacts'
  BY <1>1, <1>2 DEF AtRestFacts
<1> QED
  BY <1>3, <1>4, AtRest, PTL

\* Every step of the service preserves the invariant.
LEMMA ANextInv == AInv /\ [ANext]_avars => AInv'
<1> SUFFICES ASSUME AInv, [ANext]_avars PROVE AInv'
  OBVIOUS
<1>1. CASE UNCHANGED avars
  BY <1>1 DEF avars, AInv, ATypeOK, LockDiscipline, NothingUnknown, RevocationFollows,
              SessionsAreCurrent, TokenReserved, Coherent, After
<1>2. ASSUME NEW r \in Reqs, BeginRequest(r) PROVE AInv'
  <2>1. PICK u \in Users :
           \/ \E n \in Names, admin \in BOOLEAN : CreateUser(r, u, n, admin)
           \/ \E admin, reset \in BOOLEAN : UpdateUser(r, u, admin, reset)
           \/ DeleteUser(r, u)
           \/ \E t \in Tokens : ChangePassword(r, u, t)
           \/ TwoFactorSetup(r, u)
           \/ TwoFactorConfirm(r, u)
           \/ \E g \in 1..MaxGen : TwoFactorDisable(r, u, g)
           \/ \E pw \in 0..MaxPw, t \in Tokens : Login(r, u, pw, t)
    BY <1>2 DEF BeginRequest
  <2>2. CASE \E n \in Names, admin \in BOOLEAN : CreateUser(r, u, n, admin)
    BY <2>2, CreateUserStep
  <2>3. CASE DeleteUser(r, u)
    BY <2>3, DeleteUserStep
  <2>4. CASE \/ \E admin, reset \in BOOLEAN : UpdateUser(r, u, admin, reset)
             \/ \E t \in Tokens : ChangePassword(r, u, t)
             \/ TwoFactorSetup(r, u)
             \/ TwoFactorConfirm(r, u)
    <3>1. PICK admin \in BOOLEAN, reset \in BOOLEAN, t \in Tokens \cup {"none"} :
             \/ UpdateUser(r, u, admin, reset)
             \/ t \in Tokens /\ ChangePassword(r, u, t)
             \/ TwoFactorSetup(r, u)
             \/ TwoFactorConfirm(r, u)
      BY <2>4
    <3> QED
      BY <3>1, UpdateStep
  <2>5. CASE \/ \E g \in 1..MaxGen : TwoFactorDisable(r, u, g)
             \/ \E pw \in 0..MaxPw, t \in Tokens : Login(r, u, pw, t)
    <3>1. 0 \in 0..MaxPw /\ 0 \in 0..MaxGen /\ 1..MaxGen \subseteq 0..MaxGen
      BY AuthAssumption
    <3>2. PICK pw \in 0..MaxPw, t \in Tokens \cup {"none"}, g \in 0..MaxGen :
             (t \in Tokens /\ Login(r, u, pw, t)) \/ TwoFactorDisable(r, u, g)
      BY <2>5, <3>1
    <3> QED
      BY <3>2, BeginFreeStep
  <2> QED
    BY <2>1, <2>2, <2>3, <2>4, <2>5
<1>3. ASSUME NEW r \in Reqs, Stepping(r) PROVE AInv'
  <2>1. CASE (\E g \in 0..MaxGen : SecondFactor(r, g)) \/ EndLogin(r) \/ Mint(r)
    <3>1. PICK g \in 0..MaxGen : SecondFactor(r, g) \/ EndLogin(r) \/ Mint(r)
      BY <2>1, AuthAssumption
    <3> QED
      BY <3>1, LoginStep
  <2> QED
    BY <1>3, <2>1, PutRecordStep, PublishStep, RevokeStep, InsertTokenStep DEF Stepping
<1>4. ASSUME NEW r \in Reqs, Waiting(r) \/ PutFails(r) \/ DropAuthRequest(r) PROVE AInv'
  BY <1>4, WaitingStep, GiveUpStep
<1> QED
  BY <1>1, <1>2, <1>3, <1>4, DropTokenStep, RestartStep DEF ANext

-----------------------------------------------------------------------------
(* The properties of accounts and sessions.                                *)

\* The invariant holds in every reachable state.
THEOREM AuthInvariance == ASpec => []AInv
  BY AInitInv, ANextInv, PTL DEF ASpec

\* Accounts, sessions and requests always have their types.
THEOREM AuthTypeCorrect == ASpec => []ATypeOK
  BY AuthInvariance, PTL DEF AInv

\* Until a request is dropped, the cache and the files agree whenever no
\* mutation is in progress, however many fail and however often the process
\* is restarted.
THEOREM CacheAgreesUntilDropped == ASpec => [](drops = 0 => CacheMatchesDisk)
<1>1. AInv => (drops = 0 => CacheMatchesDisk)
  BY DEF AInv, Coherent, CacheMatchesDisk
<1> QED
  BY <1>1, AuthInvariance, PTL

\* Accounts the service may be left with are in the cache and in the files.
LEMMA AccountsAreGood == AInv => (drops = 0 => AdminRemains /\ UniqueNames)
<1>1. ASSUME AInv, drops = 0 PROVE AdminRemains /\ UniqueNames
  <2>1. lock = Nobody \/ \E r \in Reqs : areq[r].pc \in LockedPCs
    BY <1>1 DEF AInv, ATypeOK, LockDiscipline
  <2>2. disk = cache \/ \E r \in Reqs : disk = After(r) /\ Good(After(r))
    BY <1>1, <2>1 DEF AInv, Coherent, LockedPCs
  <2>3. Good(cache) /\ Good(disk)
    BY <1>1, <2>2 DEF AInv, Coherent
  <2> QED
    BY <2>3 DEF Good, AdminRemains, UniqueNames
<1> QED
  BY <1>1

\* Until a request is dropped, there is an administrator in the cache and in
\* the files the next start will load.
THEOREM AnAdminRemains == ASpec => [](drops = 0 => AdminRemains)
  BY AccountsAreGood, AuthInvariance, PTL

\* Until a request is dropped, no two accounts have one name, in the cache or
\* in the files.
THEOREM NamesStayUnique == ASpec => [](drops = 0 => UniqueNames)
  BY AccountsAreGood, AuthInvariance, PTL

\* A changed password leaves no older session, dropped requests included.
THEOREM ResetAlwaysRevokes == ASpec => []ResetRevokes
  BY InvRevokes, AuthInvariance, PTL

-----------------------------------------------------------------------------
(* Recovery codes.  An enrolment g is spent when spent[g] > 0, and live in *)
(* a copy of an account that still holds its code or may yet be given it.  *)

Pending(r) == areq[r].pc \in {"put", "publish"}
Live(a) == a.gen # 0 /\ (a.code \/ a.tf = "pending")

\* The copies of user u's account: in the cache, in the files and in a request that will write it.
Copy(u, a) ==
    \/ cache[u] = a \/ disk[u] = a
    \/ \E r \in Reqs : Pending(r) /\ areq[r].user = u /\ areq[r].new = a

\* A copy is of an enrolment that was begun; if it is live the enrolment is not spent, and it
\* holds a code only once the enrolment is confirmed.
Sound(a) ==
    /\ a.gen <= gens
    /\ Live(a) => spent[a.gen] = 0
    /\ a.code => a.tf = "on"

\* Every copy is sound, and copies of one enrolment are of one user.
CopiesSound == \A u \in Users, a \in Account : Copy(u, a) => Sound(a)
EnrolmentsOwned ==
    \A u, v \in Users, a, b \in Account :
        Copy(u, a) /\ Copy(v, b) /\ a.gen = b.gen /\ a.gen # 0 => u = v

\* A request that spends a code found it unspent, and writes the account without it; what a
\* request publishes is what it has written.
SpendsOnce(r) ==
    /\ Pending(r) /\ areq[r].next \in {"mint", "clear"} /\ areq[r].gen # 0 =>
          /\ areq[r].new \in Account /\ areq[r].new.gen = areq[r].gen /\ ~Live(areq[r].new)
          /\ spent[areq[r].gen] = 0
    /\ areq[r].pc = "publish" => disk[areq[r].user] = areq[r].new

\* Codes of enrolments to come are not spent, and none is spent twice.
SpentBefore == \A g \in 0..MaxGen : spent[g] <= 1 /\ (spent[g] # 0 => g <= gens)

CodeInv ==
    /\ CopiesSound /\ EnrolmentsOwned /\ SpentBefore
    /\ \A r \in Reqs : SpendsOnce(r)

\* An account without an enrolment is sound.
LEMMA NoEnrolmentSound ==
    ASSUME ATypeOK, NEW a \in Account, a.gen = 0, ~a.code
    PROVE  Sound(a)
BY AuthAssumption DEF Sound, Live, ATypeOK

\* The seeded account has no enrolment.
LEMMA SeedCopies ==
    ASSUME NEW u \in Users, NEW n \in Names, NEW v \in Users, NEW a \in Account,
           Seed(u, n)[v] = a
    PROVE  a.gen = 0 /\ ~a.code
BY Absent DEF Seed

\* A service that was just seeded.
LEMMA CodeInit == AInit => CodeInv
<1> SUFFICES ASSUME AInit PROVE CodeInv
  OBVIOUS
<1>1. ATypeOK
  BY AInitInv DEF AInv
<1>2. PICK u \in Users, n \in Names : disk = Seed(u, n) /\ cache = disk
  BY DEF AInit
<1>3. \A r \in Reqs : ~Pending(r) /\ areq[r].pc = "idle"
  BY DEF AInit, Pending, Idle
<1>4. \A v \in Users, a \in Account : Copy(v, a) => a.gen = 0 /\ ~a.code
  BY <1>2, <1>3, SeedCopies DEF Copy
<1>5. CopiesSound /\ EnrolmentsOwned
  BY <1>1, <1>4, NoEnrolmentSound DEF CopiesSound, EnrolmentsOwned
<1>6. SpentBefore
  BY AuthAssumption DEF AInit, SpentBefore
<1> QED
  BY <1>3, <1>5, <1>6 DEF CodeInv, SpendsOnce

\* Copies that were there before stay sound and owned.
LEMMA FewerCopies ==
    ASSUME CodeInv, UNCHANGED <<gens, spent>>,
           \A u \in Users, a \in Account : Copy(u, a)' => Copy(u, a)
    PROVE  CopiesSound' /\ EnrolmentsOwned' /\ SpentBefore'
<1>1. CopiesSound' /\ SpentBefore'
  BY DEF CodeInv, CopiesSound, SpentBefore, Sound, Live
<1>2. EnrolmentsOwned'
  BY DEF CodeInv, EnrolmentsOwned
<1> QED
  BY <1>1, <1>2

\* One copy more, of the enrolment its user has, of none, or of a new one.
LEMMA OneCopyMore ==
    ASSUME ATypeOK, CodeInv, NEW w \in Users, NEW c \in Account, spent' = spent,
           gens' \in {gens, gens + 1}, Sound(c)',
           \A u \in Users, a \in Account : Copy(u, a)' => Copy(u, a) \/ (u = w /\ a = c),
           \/ c.gen = 0
           \/ \E b \in Account : Copy(w, b) /\ b.gen = c.gen
           \/ c.gen = gens + 1
    PROVE  CopiesSound' /\ EnrolmentsOwned' /\ SpentBefore'
<1>1. gens \in Nat /\ \A a \in Account : a.gen \in Nat
  BY AuthAssumption DEF ATypeOK, Account
<1>2. CopiesSound'
  BY <1>1 DEF CodeInv, CopiesSound, Sound, Live
<1>3. SpentBefore'
  BY <1>1 DEF CodeInv, SpentBefore
<1>4. \A v \in Users, b \in Account : Copy(v, b) /\ b.gen = c.gen /\ c.gen # 0 => v = w
  BY <1>1 DEF CodeInv, EnrolmentsOwned, CopiesSound, Sound
<1>5. EnrolmentsOwned'
  BY <1>4 DEF CodeInv, EnrolmentsOwned
<1> QED
  BY <1>2, <1>3, <1>5

\* A step that writes nothing, and puts no request into position to write.
LEMMA QuietStep ==
    ASSUME CodeInv, UNCHANGED <<cache, disk, gens, spent>>,
           \A p \in Reqs : Pending(p)' => areq'[p] = areq[p]
    PROVE  CodeInv'
<1>1. \A u \in Users, a \in Account : Copy(u, a)' => Copy(u, a)
  BY DEF Copy, Pending
<1>2. \A r \in Reqs : SpendsOnce(r)'
  BY DEF CodeInv, SpendsOnce, Pending, Live
<1> QED
  BY <1>1, <1>2, FewerCopies DEF CodeInv

\* A request takes the lock and goes on to write an account: a deletion, or a sound copy of the
\* enrolment the user has, of none, or of a new one.
LEMMA NewWrite ==
    ASSUME AInv, CodeInv, NEW r \in Reqs, NEW w \in Users, NEW c \in Account \cup {NoUser},
           UNCHANGED <<cache, disk, spent>>, gens' \in {gens, gens + 1},
           \A p \in Reqs : p # r => areq'[p] = areq[p],
           areq'[r].pc = "put", areq'[r].user = w, areq'[r].new = c,
           \/ c = NoUser /\ gens' = gens
           \/ /\ c \in Account /\ Sound(c)'
              /\ \/ c.gen = 0
                 \/ \E b \in Account : Copy(w, b) /\ b.gen = c.gen
                 \/ c.gen = gens + 1,
           areq'[r].next \in {"mint", "clear"} /\ areq'[r].gen # 0 =>
             c \in Account /\ c.gen = areq'[r].gen /\ ~Live(c) /\ spent[c.gen] = 0
    PROVE  CodeInv'
<1>1. \A u \in Users, a \in Account : Copy(u, a)' => Copy(u, a) \/ (u = w /\ a = c)
  BY DEF Copy, Pending
<1>2. CopiesSound' /\ EnrolmentsOwned' /\ SpentBefore'
  <2>1. CASE c = NoUser /\ gens' = gens
    BY <1>1, <2>1, Absent, FewerCopies
  <2>2. CASE c \in Account /\ Sound(c)'
    BY <1>1, <2>2, Absent, OneCopyMore DEF AInv
  <2> QED
    BY <2>1, <2>2
<1>3. \A p \in Reqs : p # r => SpendsOnce(p)'
  BY DEF CodeInv, SpendsOnce, Pending, Live
<1>4. SpendsOnce(r)'
  BY DEF SpendsOnce, Live
<1> QED
  BY <1>2, <1>3, <1>4 DEF CodeInv

\* What Mutate puts into the request.
LEMMA MutateWrites ==
    ASSUME AInv, NEW r \in Reqs, NEW u \in Users, NEW new, NEW next, NEW tok,
           Mutate(r, u, new, next, tok)
    PROVE  /\ UNCHANGED <<cache, disk, spent>> /\ \A p \in Reqs : p # r => areq'[p] = areq[p]
           /\ areq'[r].pc = "put" /\ areq'[r].user = u /\ areq'[r].new = new /\ areq'[r].gen = 0
<1>1. PICK q : /\ q = [Idle EXCEPT !.pc = "put", !.user = u, !.new = new,
                                   !.next = next, !.tok = tok]
               /\ areq' = [areq EXCEPT ![r] = q]
  BY DEF Mutate
<1>2. q.pc = "put" /\ q.user = u /\ q.new = new /\ q.gen = 0
  BY <1>1 DEF Idle
<1>3. areq'[r] = q /\ \A p \in Reqs : p # r => areq'[p] = areq[p]
  BY <1>1 DEF AInv, ATypeOK
<1> QED
  BY <1>2, <1>3 DEF Mutate

\* create_user and delete_user: no enrolment, or no account.
LEMMA CodeAccountStep ==
    ASSUME AInv, CodeInv, NEW r \in Reqs, NEW u \in Users,
           \/ \E n \in Names, admin \in BOOLEAN : CreateUser(r, u, n, admin)
           \/ DeleteUser(r, u)
    PROVE  CodeInv'
<1>1. CASE DeleteUser(r, u)
  <2>1. Mutate(r, u, NoUser, "revoke", "none") /\ gens' = gens
    BY <1>1 DEF DeleteUser
  <2> QED
    BY <2>1, MutateWrites, NewWrite
<1>2. ASSUME NEW n \in Names, NEW admin \in BOOLEAN, CreateUser(r, u, n, admin) PROVE CodeInv'
  <2>1. PICK new : /\ new = [name |-> n, admin |-> admin, pw |-> pws', tf |-> "off",
                             gen |-> 0, code |-> FALSE]
                   /\ Mutate(r, u, new, "idle", "none")
    BY <1>2 DEF CreateUser
  <2>2. pws' \in 0..MaxPw /\ gens' = gens
    BY <1>2, AuthAssumption DEF CreateUser, AInv, ATypeOK
  <2>3. new \in Account /\ new.gen = 0 /\ new.code = FALSE
    BY <2>1, <2>2, AuthAssumption DEF Account
  <2>4. gens \in Nat
    BY AuthAssumption DEF AInv, ATypeOK
  <2>5. Sound(new)'
    BY <2>2, <2>3, <2>4 DEF Sound, Live
  <2> QED
    BY <2>1, <2>2, <2>3, <2>5, MutateWrites, NewWrite
<1> QED
  BY <1>1, <1>2

\* update_user and change_password keep the enrolment, two_factor_setup begins one and
\* two_factor_confirm gives a pending one its code.
LEMMA CodeUpdateStep ==
    ASSUME AInv, CodeInv, NEW r \in Reqs, NEW u \in Users,
           NEW admin \in BOOLEAN, NEW reset \in BOOLEAN, NEW t \in Tokens \cup {"none"},
           \/ UpdateUser(r, u, admin, reset)
           \/ t \in Tokens /\ ChangePassword(r, u, t)
           \/ TwoFactorSetup(r, u)
           \/ TwoFactorConfirm(r, u)
    PROVE  CodeInv'
<1>1. /\ cache[u] \in Account /\ pws \in 0..MaxPw /\ gens \in 0..MaxGen
  BY DEF UpdateUser, ChangePassword, TwoFactorSetup, TwoFactorConfirm, AInv, ATypeOK
<1>2. PICK a \in Account : a = cache[u]
  BY <1>1
<1>3. pws' \in 0..MaxPw /\ gens' \in 0..MaxGen
  BY <1>1, AuthAssumption DEF UpdateUser, ChangePassword, TwoFactorSetup, TwoFactorConfirm
<1>4. Copy(u, a) /\ Sound(a)
  BY <1>2 DEF Copy, CodeInv, CopiesSound
<1>5. ASSUME NEW new \in Account, NEW next, NEW tok, Mutate(r, u, new, next, tok), gens' = gens,
             new.gen = a.gen, new.code => new.tf = "on",
             new.code \/ new.tf = "pending" => a.code \/ a.tf = "pending"
      PROVE  CodeInv'
  <2>1. Sound(new)'
    BY <1>4, <1>5, MutateWrites DEF Sound, Live
  <2> QED
    BY <1>4, <1>5, <2>1, MutateWrites, NewWrite
<1>6. CASE UpdateUser(r, u, admin, reset)
  <2>1. PICK new, next : /\ new = [a EXCEPT !.admin = admin, !.pw = IF reset THEN pws' ELSE @]
                         /\ Mutate(r, u, new, next, "none") /\ gens' = gens
    BY <1>2, <1>6 DEF UpdateUser
  <2>2. new \in Account /\ new.gen = a.gen /\ new.tf = a.tf /\ new.code = a.code
    BY <1>3, <2>1 DEF Account
  <2> QED
    BY <1>4, <1>5, <2>1, <2>2 DEF Sound
<1>7. CASE t \in Tokens /\ ChangePassword(r, u, t)
  <2>1. PICK new : /\ new = [a EXCEPT !.pw = pws'] /\ Mutate(r, u, new, "revoke", t)
                   /\ gens' = gens
    BY <1>2, <1>7 DEF ChangePassword
  <2>2. new \in Account /\ new.gen = a.gen /\ new.tf = a.tf /\ new.code = a.code
    BY <1>3, <2>1 DEF Account
  <2> QED
    BY <1>4, <1>5, <2>1, <2>2 DEF Sound
<1>8. CASE TwoFactorConfirm(r, u)
  <2>1. PICK new : /\ new = [a EXCEPT !.tf = "on", !.code = TRUE] /\ gens' = gens
                   /\ Mutate(r, u, new, "idle", "none") /\ a.tf = "pending"
    BY <1>2, <1>8 DEF TwoFactorConfirm
  <2>2. new \in Account /\ new.gen = a.gen /\ new.tf = "on"
    BY <2>1 DEF Account
  <2> QED
    BY <1>5, <2>1, <2>2
<1>9. CASE TwoFactorSetup(r, u)
  <2>1. PICK new : /\ new = [a EXCEPT !.tf = "pending", !.gen = gens', !.code = FALSE]
                   /\ Mutate(r, u, new, "idle", "none") /\ gens' = gens + 1
    BY <1>2, <1>9 DEF TwoFactorSetup
  <2>2. new \in Account /\ new.gen = gens + 1 /\ new.code = FALSE
    BY <1>3, <2>1 DEF Account
  <2>3. spent' = spent /\ spent[gens + 1] = 0
    <3>1. gens + 1 \in 0..MaxGen /\ ~(gens + 1 <= gens)
      BY <1>1, <1>3, <2>1, AuthAssumption
    <3> QED
      BY <2>1, <3>1, MutateWrites DEF CodeInv, SpentBefore
  <2>4. Sound(new)'
    BY <1>1, <2>1, <2>2, <2>3, AuthAssumption DEF Sound
  <2>5. /\ UNCHANGED <<cache, disk, spent>> /\ \A p \in Reqs : p # r => areq'[p] = areq[p]
        /\ areq'[r].pc = "put" /\ areq'[r].user = u /\ areq'[r].new = new /\ areq'[r].gen = 0
    BY <2>1, MutateWrites
  <2>6. gens' \in {gens, gens + 1}
    BY <2>1
  <2> QED
    BY <2>2, <2>4, <2>5, <2>6, NewWrite
<1> QED
  BY <1>6, <1>7, <1>8, <1>9

\* verify_second_factor's fallback finds the code in the cache and takes it out; the second
\* factor is switched off with the enrolment.
LEMMA CodeWaitingStep ==
    ASSUME AInv, CodeInv, NEW r \in Reqs, Waiting(r)
    PROVE  CodeInv'
<1> DEFINE u == areq[r].user
<1>1. areq[r] \in Request /\ areq[r].pc \in {"recover", "clear"} /\ u \in Users
  BY DEF Waiting, SpendRecoveryCode, RejectRecoveryCode, ClearTwoFactor, AInv, ATypeOK,
         NothingUnknown
<1>2. PICK p \in Request : p = areq[r]
  BY <1>1
<1>3. gens \in Nat /\ DOMAIN areq = Reqs
  BY AuthAssumption DEF AInv, ATypeOK
<1>4. CASE SpendRecoveryCode(r)
  <2>1. cache[u] \in Account /\ cache[u].code /\ cache[u].gen = p.gen
    BY <1>1, <1>2, <1>4 DEF SpendRecoveryCode, CodeMatches, AInv, ATypeOK
  <2>2. PICK a \in Account : a = cache[u]
    BY <2>1
  <2>3. PICK new, q : /\ new = [a EXCEPT !.code = FALSE]
                      /\ q = [p EXCEPT !.pc = "put", !.new = new]
                      /\ areq' = [areq EXCEPT ![r] = q]
    BY <1>2, <1>4, <2>2 DEF SpendRecoveryCode
  <2>4. new \in Account /\ new.gen = a.gen /\ new.tf = a.tf /\ new.code = FALSE
    BY <2>3 DEF Account
  <2>5. q.pc = "put" /\ q.user = p.user /\ q.new = new /\ q.gen = p.gen
    BY <2>3, <2>4 DEF Request
  <2>6. UNCHANGED <<cache, disk, gens, spent>>
    BY <1>4 DEF SpendRecoveryCode
  <2>7. Copy(u, a) /\ Sound(a) /\ a.code
    BY <1>1, <2>1, <2>2 DEF Copy, CodeInv, CopiesSound
  <2>8. new.tf = "on" /\ ~Live(new) /\ (a.gen # 0 => spent[a.gen] = 0)
    BY <2>4, <2>7 DEF Sound, Live
  <2>9. Sound(new)'
    BY <2>4, <2>6, <2>7, <2>8 DEF Sound, Live
  <2>10. areq'[r] = q /\ \A x \in Reqs : x # r => areq'[x] = areq[x]
    BY <1>3, <2>3
  <2> QED
    BY <1>1, <1>2, <2>1, <2>2, <2>4, <2>5, <2>6, <2>7, <2>8, <2>9, <2>10, NewWrite
<1>5. CASE ClearTwoFactor(r) /\ cache[u] # NoUser
  <2>1. cache[u] \in Account
    BY <1>1, <1>5 DEF AInv, ATypeOK
  <2>2. PICK a \in Account : a = cache[u]
    BY <2>1
  <2>3. PICK new, q : /\ new = [a EXCEPT !.tf = "off", !.gen = 0, !.code = FALSE]
                      /\ q = [p EXCEPT !.pc = "put", !.next = "idle", !.new = new]
                      /\ areq' = [areq EXCEPT ![r] = q]
    BY <1>2, <1>5, <2>2 DEF ClearTwoFactor
  <2>4. new \in Account /\ new.gen = 0 /\ new.code = FALSE
    <3>1. 0 \in 0..MaxGen
      BY AuthAssumption
    <3> QED
      BY <2>3, <3>1 DEF Account
  <2>5. q.pc = "put" /\ q.user = p.user /\ q.new = new /\ q.next = "idle"
    BY <2>3, <2>4 DEF Request
  <2>6. UNCHANGED <<cache, disk, gens, spent>>
    BY <1>5 DEF ClearTwoFactor
  <2>7. Sound(new)'
    BY <1>3, <2>4, <2>6 DEF Sound, Live
  <2>8. areq'[r] = q /\ \A x \in Reqs : x # r => areq'[x] = areq[x]
    BY <1>3, <2>3
  <2> QED
    BY <1>1, <1>2, <2>4, <2>5, <2>6, <2>7, <2>8, NewWrite
<1>6. CASE End(r) /\ UNCHANGED <<cache, disk, gens, spent>>
  <2>1. \A x \in Reqs : Pending(x)' => areq'[x] = areq[x]
    BY <1>3, <1>6 DEF End, Pending, Idle
  <2> QED
    BY <1>6, <2>1, QuietStep
<1>7. /\ ClearTwoFactor(r) /\ cache[u] = NoUser => End(r) /\ UNCHANGED <<cache, disk, gens, spent>>
      /\ RejectRecoveryCode(r) => End(r) /\ UNCHANGED <<cache, disk, gens, spent>>
  BY DEF ClearTwoFactor, RejectRecoveryCode
<1> QED
  BY <1>4, <1>5, <1>6, <1>7 DEF Waiting

\* Requests that begin, go on or end without a write.
LEMMA CodeFreeStep ==
    ASSUME AInv, CodeInv, NEW r \in Reqs, NEW u \in Users, NEW pw \in 0..MaxPw,
           NEW t \in Tokens \cup {"none"}, NEW g \in 0..MaxGen,
           \/ Login(r, u, pw, t) \/ TwoFactorDisable(r, u, g) \/ SecondFactor(r, g)
           \/ EndLogin(r) \/ Mint(r) \/ InsertToken(r) \/ Revoke(r)
           \/ PutFails(r) \/ DropAuthRequest(r)
    PROVE  CodeInv'
<1>1. UNCHANGED <<cache, disk, gens, spent>> /\ DOMAIN areq = Reqs
  BY DEF Login, TwoFactorDisable, SecondFactor, EndLogin, Mint, InsertToken, Revoke, PutFails,
         DropAuthRequest, AInv, ATypeOK
<1>2. /\ \A x \in Reqs : x # r => areq'[x] = areq[x]
      /\ areq'[r].pc \in {"idle", "second", "recover", "clear", "mint", "insert"}
  <2>1. CASE End(r)
    BY <1>1, <2>1 DEF End, Idle
  <2>2. ASSUME NEW pc \in {"mint", "insert"}, Goto(r, pc)
        PROVE  areq'[r].pc = pc /\ \A x \in Reqs : x # r => areq'[x] = areq[x]
    <3>1. pc \in APCs
      BY <2>2 DEF APCs
    <3> QED
      BY <2>2, <3>1, GotoStep DEF AInv
  <2>3. CASE Login(r, u, pw, t)
    BY <1>1, <2>3 DEF Login, Idle
  <2>4. CASE TwoFactorDisable(r, u, g)
    <3>1. PICK pc \in {"recover", "clear"} :
            areq' = [areq EXCEPT ![r] = [Idle EXCEPT !.pc = pc, !.user = u, !.gen = g,
                                                   !.next = "clear"]]
      BY <2>4 DEF TwoFactorDisable
    <3> QED
      BY <1>1, <3>1 DEF Idle
  <2>5. CASE areq' = [areq EXCEPT ![r].pc = "recover", ![r].gen = g]
    <3>1. PICK p \in Request : p = areq[r]
      BY DEF AInv, ATypeOK
    <3>2. areq' = [areq EXCEPT ![r] = [p EXCEPT !.pc = "recover", !.gen = g]]
      BY <2>5, <3>1
    <3>3. [p EXCEPT !.pc = "recover", !.gen = g].pc = "recover"
      BY DEF Request
    <3> QED
      BY <1>1, <3>2, <3>3
  <2>6. \/ Login(r, u, pw, t) \/ TwoFactorDisable(r, u, g) \/ End(r)
        \/ Goto(r, "mint") \/ Goto(r, "insert")
        \/ areq' = [areq EXCEPT ![r].pc = "recover", ![r].gen = g]
    BY DEF SecondFactor, EndLogin, Mint, InsertToken, Revoke, PutFails, DropAuthRequest
  <2> QED
    BY <2>1, <2>2, <2>3, <2>4, <2>5, <2>6
<1>3. \A x \in Reqs : Pending(x)' => areq'[x] = areq[x]
  BY <1>2 DEF Pending
<1> QED
  BY <1>1, <1>3, QuietStep

\* The file gets the copy the request has.
LEMMA CodePutStep ==
    ASSUME AInv, CodeInv, NEW r \in Reqs, PutRecord(r)
    PROVE  CodeInv'
<1>1. /\ areq[r].pc = "put" /\ areq[r].user \in Users /\ lock = r
      /\ disk' = [disk EXCEPT ![areq[r].user] = areq[r].new] /\ DOMAIN disk = Users
      /\ UNCHANGED <<cache, gens, spent>>
  BY DEF PutRecord, AInv, ATypeOK, NothingUnknown, LockDiscipline, LockedPCs
<1>2. /\ areq'[r].pc = "publish" /\ areq'[r].user = areq[r].user /\ areq'[r].new = areq[r].new
      /\ areq'[r].next = areq[r].next /\ areq'[r].gen = areq[r].gen
      /\ \A p \in Reqs : p # r => areq'[p] = areq[p]
  <2>1. areq[r] \in Request /\ areq'[r] = [areq[r] EXCEPT !.pc = "publish"]
        /\ \A p \in Reqs : p # r => areq'[p] = areq[p]
    BY DEF PutRecord, Goto, AInv, ATypeOK
  <2>2. PICK q \in Request : q = areq[r]
    BY <2>1
  <2>3. "publish" \in APCs
    BY DEF APCs
  <2> QED
    BY <2>1, <2>2, <2>3, GotoType
<1>3. \A p \in Reqs : p # r => ~Pending(p) /\ ~Pending(p)'
  BY <1>1, <1>2 DEF AInv, LockDiscipline, LockedPCs, Pending
<1>4. Pending(r) /\ Pending(r)'
  BY <1>1, <1>2 DEF Pending
<1>5. \A u \in Users, a \in Account : Copy(u, a)' => Copy(u, a)
  BY <1>1, <1>2, <1>3, <1>4 DEF Copy
<1>6. SpendsOnce(r)'
  BY <1>1, <1>2, <1>4 DEF CodeInv, SpendsOnce, Live
<1>7. \A p \in Reqs : p # r => SpendsOnce(p)'
  BY <1>3 DEF SpendsOnce, Pending
<1> QED
  BY <1>1, <1>5, <1>6, <1>7, FewerCopies DEF CodeInv

\* The cache gets the copy the file has: a code that is spent by it is now in no copy.
LEMMA CodePublishStep ==
    ASSUME AInv, CodeInv, NEW r \in Reqs, Publish(r)
    PROVE  CodeInv'
<1> DEFINE u == areq[r].user
           new == areq[r].new
           g == areq[r].gen
<1>1. /\ areq[r].pc = "publish" /\ u \in Users /\ lock = r
      /\ cache' = [cache EXCEPT ![u] = new] /\ DOMAIN cache = Users
      /\ UNCHANGED <<disk, gens>> /\ disk[u] = new
      /\ spent \in [0..MaxGen -> Nat] /\ g \in 0..MaxGen /\ gens \in Nat
  BY AuthAssumption DEF Publish, AInv, ATypeOK, NothingUnknown, LockDiscipline, LockedPCs,
                        CodeInv, SpendsOnce, Request
<1>2. \A p \in Reqs : ~Pending(p)'
  <2>1. \A p \in Reqs : p # r => ~Pending(p)
    BY <1>1 DEF AInv, LockDiscipline, LockedPCs, Pending
  <2>2. areq'[r].pc \in {"idle", "revoke", "mint", "clear"} /\ \A p \in Reqs : p # r => areq'[p] = areq[p]
    <3>1. CASE End(r)
      BY <3>1 DEF End, Idle, AInv, ATypeOK
    <3>2. CASE Goto(r, areq[r].next) /\ areq[r].next # "idle"
      <4>1. areq[r].next \in {"revoke", "mint", "clear"} /\ areq[r].next \in APCs
        BY <3>2 DEF AInv, ATypeOK, Request, APCs
      <4> QED
        BY <3>2, <4>1, GotoStep DEF AInv
    <3> QED
      BY <3>1, <3>2 DEF Publish
  <2> QED
    BY <2>1, <2>2 DEF Pending
<1>3. \A v \in Users, a \in Account : Copy(v, a)' => Copy(v, a) /\ (v = u => a = new)
  BY <1>1, <1>2 DEF Copy
<1>4. \A p \in Reqs : SpendsOnce(p)'
  BY <1>2 DEF SpendsOnce, Pending
<1>5. CASE spent' = spent
  BY <1>1, <1>3, <1>4, <1>5, FewerCopies DEF CodeInv
<1>6. CASE spent' # spent
  <2>1. /\ areq[r].next \in {"mint", "clear"} /\ g # 0
        /\ spent' = [spent EXCEPT ![g] = @ + 1]
    BY <1>6 DEF Publish
  <2>2. new \in Account /\ new.gen = g /\ ~Live(new) /\ spent[g] = 0 /\ Copy(u, new)
    BY <1>1, <2>1 DEF CodeInv, SpendsOnce, Pending, Copy
  <2>3. spent'[g] = 1 /\ \A x \in 0..MaxGen : x # g => spent'[x] = spent[x]
    BY <1>1, <2>1, <2>2
  <2>4. Sound(new)
    BY <1>1, <2>2 DEF CodeInv, CopiesSound
  <2>5. ASSUME NEW v \in Users, NEW a \in Account, Copy(v, a)' PROVE Sound(a)'
    <3>1. Copy(v, a) /\ Sound(a) /\ a.gen \in 0..MaxGen
      BY <1>3, <2>5 DEF CodeInv, CopiesSound, Account
    <3>2. CASE a.gen = g
      <4>1. v = u
        BY <1>1, <2>1, <2>2, <3>1, <3>2 DEF CodeInv, EnrolmentsOwned
      <4>2. a = new
        BY <1>3, <2>5, <4>1
      <4> QED
        BY <1>1, <2>2, <2>4, <4>2 DEF Sound, Live
    <3>3. CASE a.gen # g
      BY <1>1, <2>3, <3>1, <3>3 DEF Sound, Live
    <3> QED
      BY <3>2, <3>3
  <2>6. CopiesSound'
    BY <2>5 DEF CopiesSound
  <2>7. EnrolmentsOwned'
    BY <1>3 DEF CodeInv, EnrolmentsOwned
  <2>8. SpentBefore'
    BY <1>1, <2>2, <2>3, <2>4 DEF CodeInv, SpentBefore, Sound
  <2> QED
    BY <1>4, <2>6, <2>7, <2>8 DEF CodeInv
<1> QED
  BY <1>5, <1>6

\* A restart loads the files, whose copies are sound, or seeds an account without enrolment.
LEMMA CodeRestartStep ==
    ASSUME AInv, CodeInv, Restart
    PROVE  CodeInv'
<1>1. \A r \in Reqs : ~Pending(r)' /\ areq'[r].pc = "idle"
  BY DEF Restart, Pending, Idle
<1>2. cache' = disk' /\ UNCHANGED <<gens, spent>>
  BY DEF Restart
<1>3. \A r \in Reqs : SpendsOnce(r)'
  BY <1>1 DEF SpendsOnce
<1>4. CASE disk' = disk
  <2>1. \A u \in Users, a \in Account : Copy(u, a)' => Copy(u, a)
    BY <1>1, <1>2, <1>4 DEF Copy
  <2> QED
    BY <1>2, <1>3, <2>1, FewerCopies DEF CodeInv
<1>5. CASE disk' # disk
  <2>1. PICK u \in Users, n \in Names : disk' = Seed(u, n)
    BY <1>5 DEF Restart
  <2>2. \A v \in Users, a \in Account : Copy(v, a)' => a.gen = 0 /\ ~a.code
    BY <1>1, <1>2, <2>1, SeedCopies DEF Copy
  <2>3. gens' \in Nat
    BY <1>2, AuthAssumption DEF AInv, ATypeOK
  <2>4. CopiesSound' /\ EnrolmentsOwned'
    BY <2>2, <2>3 DEF CopiesSound, EnrolmentsOwned, Sound, Live
  <2>5. SpentBefore'
    BY <1>2 DEF CodeInv, SpentBefore
  <2> QED
    BY <1>3, <2>4, <2>5 DEF CodeInv
<1> QED
  BY <1>4, <1>5

\* Every step keeps enrolments and their codes in order.
LEMMA CodeNext == AInv /\ CodeInv /\ [ANext]_avars => CodeInv'
<1> SUFFICES ASSUME AInv, CodeInv, [ANext]_avars PROVE CodeInv'
  OBVIOUS
<1>1. CASE UNCHANGED avars \/ \E t \in Tokens : DropToken(t)
  BY <1>1, QuietStep DEF avars, DropToken
<1>2. ASSUME NEW r \in Reqs, BeginRequest(r) PROVE CodeInv'
  <2>1. PICK u \in Users :
           \/ \E n \in Names, admin \in BOOLEAN : CreateUser(r, u, n, admin)
           \/ \E admin, reset \in BOOLEAN : UpdateUser(r, u, admin, reset)
           \/ DeleteUser(r, u)
           \/ \E t \in Tokens : ChangePassword(r, u, t)
           \/ TwoFactorSetup(r, u)
           \/ TwoFactorConfirm(r, u)
           \/ \E g \in 1..MaxGen : TwoFactorDisable(r, u, g)
           \/ \E pw \in 0..MaxPw, t \in Tokens : Login(r, u, pw, t)
    BY <1>2 DEF BeginRequest
  <2>2. CASE (\E n \in Names, admin \in BOOLEAN : CreateUser(r, u, n, admin)) \/ DeleteUser(r, u)
    BY <2>2, CodeAccountStep
  <2>3. CASE \/ \E admin, reset \in BOOLEAN : UpdateUser(r, u, admin, reset)
             \/ \E t \in Tokens : ChangePassword(r, u, t)
             \/ TwoFactorSetup(r, u)
             \/ TwoFactorConfirm(r, u)
    <3>1. PICK admin \in BOOLEAN, reset \in BOOLEAN, t \in Tokens \cup {"none"} :
             \/ UpdateUser(r, u, admin, reset)
             \/ t \in Tokens /\ ChangePassword(r, u, t)
             \/ TwoFactorSetup(r, u)
             \/ TwoFactorConfirm(r, u)
      BY <2>3
    <3> QED
      BY <3>1, CodeUpdateStep
  <2>4. CASE \/ \E g \in 1..MaxGen : TwoFactorDisable(r, u, g)
             \/ \E pw \in 0..MaxPw, t \in Tokens : Login(r, u, pw, t)
    <3>1. 0 \in 0..MaxPw /\ 0 \in 0..MaxGen /\ 1..MaxGen \subseteq 0..MaxGen
      BY AuthAssumption
    <3>2. PICK pw \in 0..MaxPw, t \in Tokens \cup {"none"}, g \in 0..MaxGen :
             Login(r, u, pw, t) \/ TwoFactorDisable(r, u, g)
      BY <2>4, <3>1
    <3> QED
      BY <3>2, CodeFreeStep
  <2> QED
    BY <2>1, <2>2, <2>3, <2>4
<1>3. ASSUME NEW r \in Reqs, Stepping(r) \/ PutFails(r) \/ DropAuthRequest(r) PROVE CodeInv'
  <2>1. CASE PutRecord(r) \/ Publish(r)
    BY <2>1, CodePutStep, CodePublishStep
  <2>2. CASE \/ \E g \in 0..MaxGen : SecondFactor(r, g)
             \/ EndLogin(r) \/ Mint(r) \/ InsertToken(r) \/ Revoke(r)
             \/ PutFails(r) \/ DropAuthRequest(r)
    <3>1. 0 \in 0..MaxPw /\ 0 \in 0..MaxGen
      BY AuthAssumption
    <3>2. PICK g \in 0..MaxGen :
             \/ SecondFactor(r, g) \/ EndLogin(r) \/ Mint(r) \/ InsertToken(r) \/ Revoke(r)
             \/ PutFails(r) \/ DropAuthRequest(r)
      BY <2>2, <3>1
    <3>3. PICK u \in Users, pw \in 0..MaxPw, t \in Tokens \cup {"none"} : TRUE
      BY <3>1, AuthAssumption
    <3> QED
      BY <3>2, CodeFreeStep, <3>3
  <2> QED
    BY <1>3, <2>1, <2>2 DEF Stepping
<1>4. ASSUME NEW r \in Reqs, Waiting(r) PROVE CodeInv'
  BY <1>4, CodeWaitingStep
<1> QED
  BY <1>1, <1>2, <1>3, <1>4, CodeRestartStep DEF ANext

\* A recovery code lets someone in at most once, for any number of concurrent logins, with
\* dropped requests, failing writes and crashes: RecoveryCodeOnce.
THEOREM CodesAreSpentOnce == ASpec => []RecoveryCodeOnce
<1>1. CodeInv => RecoveryCodeOnce
  BY DEF CodeInv, SpentBefore, RecoveryCodeOnce
<1>2. ASpec => []CodeInv
  BY AuthInvariance, CodeInit, CodeNext, PTL DEF ASpec
<1> QED
  BY <1>1, <1>2, PTL
=============================================================================
