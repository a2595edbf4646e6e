------------------------------ MODULE ApiTokens ------------------------------
(***************************************************************************)
(* Long-lived API tokens (services/api_token.rs, api/tokens.rs) and the     *)
(* extractor that admits a caller by one (auth/mod.rs).                     *)
(*                                                                          *)
(* The records have no cache and no lock: every request lists the files.    *)
(* authenticate answers from the copy it has listed, and writes that copy   *)
(* back to refresh last_used_at, at most once per hour.                     *)
(***************************************************************************)
EXTENDS Naturals, FiniteSets

CONSTANTS TokenIds,     \* ids and secrets that create may mint
          TokUsers,
          TokPerms,     \* permissions
          TokReqs,      \* concurrent requests
          TouchAfter,   \* ticks in the hour that last_used_at stays fresh
          MaxTokTime

VARIABLES tokens,       \* files: [TokenIds -> record or NoToken]
          mintedTok,    \* secrets handed to their owners
          owners,       \* accounts that exist
          tokReq,       \* requests under way
          tokRevoked,   \* history: tokens whose DELETE has answered 204
          admitted,     \* the permissions of the caller admitted last
          tokNow

tokvars == <<tokens, mintedTok, owners, tokReq, tokRevoked, admitted, tokNow>>

NoToken == [owner |-> "none", perms |-> {}, expires |-> 0, used |-> 0]
Never == MaxTokTime + 1
IdleTok == [pc |-> "idle", tok |-> "none", copy |-> NoToken]

TokInit ==
    /\ tokens = [t \in TokenIds |-> NoToken]
    /\ mintedTok = {}
    /\ owners = TokUsers
    /\ tokReq = [q \in TokReqs |-> IdleTok]
    /\ tokRevoked = {} /\ admitted = {}
    /\ tokNow = 1

\* create: a subset of the caller's permissions, all of them when none is named,
\* and an expiry of at least one day
CreateToken(u, held, asked, days) ==
    /\ u \in owners
    /\ asked \subseteq held
    /\ \E t \in TokenIds \ mintedTok :
         /\ mintedTok' = mintedTok \cup {t}
         /\ tokens' = [tokens EXCEPT ![t] =
                         [owner |-> u, perms |-> IF asked = {} THEN held ELSE asked,
                          expires |-> IF days = 0 THEN Never ELSE tokNow + days,
                          used |-> 0]]
    /\ UNCHANGED <<owners, tokReq, tokRevoked, admitted, tokNow>>

\* delete reads the record: only its owner may go on
ReadForRevoke(q, u, t) ==
    /\ tokReq[q].pc = "idle" /\ t \in mintedTok /\ u \in owners
    /\ tokens[t].owner = u
    /\ tokReq' = [tokReq EXCEPT ![q] = [IdleTok EXCEPT !.pc = "erase", !.tok = t]]
    /\ UNCHANGED <<tokens, mintedTok, owners, tokRevoked, admitted, tokNow>>

EraseToken(q) ==
    /\ tokReq[q].pc = "erase"
    /\ tokens' = [tokens EXCEPT ![tokReq[q].tok] = NoToken]
    /\ tokRevoked' = tokRevoked \cup {tokReq[q].tok}
    /\ tokReq' = [tokReq EXCEPT ![q] = IdleTok]
    /\ UNCHANGED <<mintedTok, owners, admitted, tokNow>>

\* is_expired
Expired(r) == r.expires <= tokNow

\* authenticate lists the records and finds the one with the hash of the secret
ListTokens(q, t) ==
    /\ tokReq[q].pc = "idle" /\ t \in mintedTok
    /\ tokens[t] # NoToken /\ ~Expired(tokens[t])
    /\ tokReq' = [tokReq EXCEPT ![q] = [IdleTok EXCEPT !.pc = "touch", !.tok = t, !.copy = tokens[t]]]
    /\ UNCHANGED <<tokens, mintedTok, owners, tokRevoked, admitted, tokNow>>

\* touch_last_used: the whole copy is written, unless it is fresh; a failed write is ignored
TouchLastUsed(q) ==
    /\ tokReq[q].pc = "touch"
    /\ LET c == tokReq[q].copy IN
         \/ c.used # 0 /\ tokNow - c.used < TouchAfter /\ UNCHANGED tokens
         \/ /\ c.used = 0 \/ tokNow - c.used >= TouchAfter
            /\ \/ tokens' = [tokens EXCEPT ![tokReq[q].tok] = [c EXCEPT !.used = tokNow]]
               \/ UNCHANGED tokens
    /\ tokReq' = [tokReq EXCEPT ![q].pc = "owner"]
    /\ UNCHANGED <<mintedTok, owners, tokRevoked, admitted, tokNow>>

\* from_request_parts: the owner must still exist; the caller has the token's permissions
Admit(q) ==
    /\ tokReq[q].pc = "owner"
    /\ admitted' = IF tokReq[q].copy.owner \in owners THEN tokReq[q].copy.perms ELSE {}
    /\ tokReq' = [tokReq EXCEPT ![q] = IdleTok]
    /\ UNCHANGED <<tokens, mintedTok, owners, tokRevoked, tokNow>>

\* DELETE /users/{id} leaves the tokens of the account on disk
RemoveOwner(u) ==
    /\ u \in owners
    /\ owners' = owners \ {u}
    /\ UNCHANGED <<tokens, mintedTok, tokReq, tokRevoked, admitted, tokNow>>

TokTick ==
    /\ tokNow < MaxTokTime
    /\ tokNow' = tokNow + 1
    /\ UNCHANGED <<tokens, mintedTok, owners, tokReq, tokRevoked, admitted>>

TokNext ==
    \/ \E u \in TokUsers, held, asked \in SUBSET TokPerms, d \in 0..1 : CreateToken(u, held, asked, d)
    \/ \E q \in TokReqs : \/ \E u \in TokUsers, t \in TokenIds : ReadForRevoke(q, u, t)
                          \/ EraseToken(q)
                          \/ \E t \in TokenIds : ListTokens(q, t)
                          \/ TouchLastUsed(q)
                          \/ Admit(q)
    \/ \E u \in TokUsers : RemoveOwner(u)
    \/ TokTick

TokSpec == TokInit /\ [][TokNext]_tokvars

-----------------------------------------------------------------------------
(* A token whose owner has revoked it has no record that a later request    *)
(* could be admitted by: "Revoke a token by id." (api_token.rs delete).     *)
(* touch_last_used writes back the copy it has read before the delete.      *)
RevokedTokenIsGone == \A t \in tokRevoked : tokens[t] = NoToken
=============================================================================
