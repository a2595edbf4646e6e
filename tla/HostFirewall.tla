----------------------------- MODULE HostFirewall -----------------------------
(***************************************************************************)
(* The node's input filter (services/firewall.rs, api/network.rs): an       *)
(* update renders the rules to an nftables batch file, has nft load it and  *)
(* saves the record, under apply_lock; a restart loads the saved record     *)
(* again.  nft replaces the chain at once or refuses the batch.  The batch  *)
(* file is one file for all updates, and an nft whose request was dropped   *)
(* runs on in the broker, outside the lock.                                 *)
(***************************************************************************)
EXTENDS Naturals, Sequences

CONSTANTS FwRules,       \* rules that validate accepts
          Refused,       \* those of them that nft refuses
          MaxRules,      \* rules in a configuration
          FwReqs,
          MaxFwFaults, MaxFwRestarts

VARIABLES fwSaved,    \* the record, or the default when there is none
          fwHost,     \* the rules of the chain; none after a reboot of the host
          fwBatch,    \* the rules in host.nft
          fwLate,     \* the batch of an nft whose request was dropped
          fwLock, fwReq, fwUp,
          fwRaced,    \* history: the nft of a dropped request ran after that of the latest update
          fwFaults, fwRestarts

fwvars == <<fwSaved, fwHost, fwBatch, fwLate, fwLock, fwReq, fwUp, fwRaced, fwFaults, fwRestarts>>

Configs == [enabled : BOOLEAN, policy : {"accept", "drop"},
            rules : UNION {[1..n -> FwRules] : n \in 0..MaxRules}]

\* get: the configuration of a node that has none
Default == [enabled |-> FALSE, policy |-> "accept", rules |-> <<>>]

\* nft_host_batch: the chain is flushed, and stays empty when the filter is disabled
Rendered(c) ==
    IF c.enabled
    THEN <<"loopback", "established">> \o c.rules \o (IF c.policy = "drop" THEN <<"drop">> ELSE <<>>)
    ELSE <<>>

\* external: nft loads all of a batch or nothing
NftAccepts(batch) == \A i \in DOMAIN batch : batch[i] \notin Refused

NoHolder == "free"
NoBatch == <<"none">>
ASSUME FwAssumption == NoHolder \notin FwReqs

IdleFw == [pc |-> "idle", cfg |-> Default]

FwInit ==
    /\ fwSaved = Default /\ fwHost = <<>> /\ fwBatch = <<>> /\ fwLate = NoBatch
    /\ fwLock = NoHolder
    /\ fwReq = [q \in FwReqs |-> IdleFw]
    /\ fwUp = "serving"
    /\ fwRaced = FALSE
    /\ fwFaults = 0 /\ fwRestarts = 0

FwAt(q, pc) == fwUp = "serving" /\ fwReq[q].pc = pc
FwTo(q, pc) == fwReq' = [fwReq EXCEPT ![q].pc = pc]
FwEnd(q) == fwReq' = [fwReq EXCEPT ![q] = IdleFw] /\ fwLock' = NoHolder
fwcount == <<fwFaults, fwRestarts>>

\* PUT /network/firewall, validate, apply_lock
UpdateFirewall(q, c) ==
    /\ FwAt(q, "idle") /\ fwLock = NoHolder
    /\ fwLock' = q
    /\ fwReq' = [fwReq EXCEPT ![q] = [pc |-> "batch", cfg |-> c]]
    /\ UNCHANGED <<fwSaved, fwHost, fwBatch, fwLate, fwUp, fwRaced, fwcount>>

\* apply: nft_host_batch is written to the batch file
WriteBatch(q) ==
    /\ FwAt(q, "batch")
    /\ fwBatch' = Rendered(fwReq[q].cfg)
    /\ FwTo(q, "nft")
    /\ UNCHANGED <<fwSaved, fwHost, fwLate, fwLock, fwUp, fwRaced, fwcount>>

\* the file cannot be written, or the client leaves while it is
WriteBatchFails(q) ==
    /\ FwAt(q, "batch") /\ fwFaults < MaxFwFaults /\ fwFaults' = fwFaults + 1
    /\ fwBatch' \in {fwBatch, Rendered(fwReq[q].cfg)}
    /\ FwEnd(q)
    /\ UNCHANGED <<fwSaved, fwHost, fwLate, fwUp, fwRaced, fwRestarts>>

\* mistake: the record is saved before nft has accepted the rules
LoadBatch_SaveFirst(q) ==
    /\ FwAt(q, "nft")
    /\ fwSaved' = fwReq[q].cfg
    /\ IF NftAccepts(fwBatch) THEN fwHost' = fwBatch /\ fwRaced' = FALSE /\ FwTo(q, "save") /\ UNCHANGED fwLock
       ELSE UNCHANGED <<fwHost, fwRaced>> /\ FwEnd(q)
    /\ UNCHANGED <<fwBatch, fwLate, fwUp, fwcount>>

\* nft -f: all of it, or an error that ends the update
LoadBatch(q) ==
    /\ FwAt(q, "nft")
    /\ IF NftAccepts(fwBatch) THEN fwHost' = fwBatch /\ fwRaced' = FALSE /\ FwTo(q, "save") /\ UNCHANGED fwLock
       ELSE UNCHANGED <<fwHost, fwRaced>> /\ FwEnd(q)
    /\ UNCHANGED <<fwSaved, fwBatch, fwLate, fwUp, fwcount>>

SaveRules(q) ==
    /\ FwAt(q, "save")
    /\ fwSaved' = fwReq[q].cfg
    /\ FwEnd(q)
    /\ UNCHANGED <<fwHost, fwBatch, fwLate, fwUp, fwRaced, fwcount>>

\* the put fails: the error is returned and the host keeps the new rules
SaveFails(q) ==
    /\ FwAt(q, "save") /\ fwFaults < MaxFwFaults /\ fwFaults' = fwFaults + 1
    /\ FwEnd(q)
    /\ UNCHANGED <<fwSaved, fwHost, fwBatch, fwLate, fwUp, fwRaced, fwRestarts>>

\* the client leaves while nft runs: the handler is dropped and apply_lock
\* released, but the broker's nft goes on
ClientLeaves(q) ==
    /\ FwAt(q, "nft") /\ fwFaults < MaxFwFaults /\ fwFaults' = fwFaults + 1
    /\ fwLate = NoBatch /\ fwLate' = fwBatch
    /\ FwEnd(q)
    /\ UNCHANGED <<fwSaved, fwHost, fwBatch, fwUp, fwRaced, fwRestarts>>

\* that nft loads what it has read of the file, before or after it was written again
LateNft(batch) ==
    /\ fwLate # NoBatch /\ batch \in {fwLate, fwBatch}
    /\ fwLate' = NoBatch
    /\ IF NftAccepts(batch) THEN fwHost' = batch /\ fwRaced' = TRUE ELSE UNCHANGED <<fwHost, fwRaced>>
    /\ UNCHANGED <<fwSaved, fwBatch, fwLock, fwReq, fwUp, fwcount>>

\* the client leaves while the record is written: the write happens or not
ClientLeavesSaving(q) ==
    /\ FwAt(q, "save") /\ fwFaults < MaxFwFaults /\ fwFaults' = fwFaults + 1
    /\ fwSaved' \in {fwSaved, fwReq[q].cfg}
    /\ FwEnd(q)
    /\ UNCHANGED <<fwHost, fwBatch, fwLate, fwUp, fwRaced, fwRestarts>>

\* the backend dies, with the requests in it; with the host, the rules and a
\* late nft go as well
FwDown(withHost) ==
    /\ fwUp = "serving" /\ fwRestarts < MaxFwRestarts /\ fwRestarts' = fwRestarts + 1
    /\ fwUp' = "starting"
    /\ IF withHost THEN fwHost' = <<>> /\ fwLate' = NoBatch ELSE UNCHANGED <<fwHost, fwLate>>
    /\ fwLock' = NoHolder
    /\ fwReq' = [q \in FwReqs |-> IdleFw]
    /\ UNCHANGED <<fwSaved, fwBatch, fwRaced, fwFaults>>

\* apply_persisted, before the first request: no record is the disabled
\* default, which empties the chain
ApplyPersisted ==
    /\ fwUp = "starting"
    /\ fwUp' = "serving"
    /\ fwBatch' = Rendered(fwSaved)
    /\ fwHost' = IF NftAccepts(Rendered(fwSaved)) THEN Rendered(fwSaved) ELSE fwHost
    /\ UNCHANGED <<fwSaved, fwLate, fwLock, fwReq, fwRaced, fwcount>>

\* its failure is logged, and the node serves with what nft had
ApplyPersistedFails ==
    /\ fwUp = "starting" /\ fwFaults < MaxFwFaults /\ fwFaults' = fwFaults + 1
    /\ fwUp' = "serving"
    /\ UNCHANGED <<fwSaved, fwHost, fwBatch, fwLate, fwLock, fwReq, fwRaced, fwRestarts>>

FwNext ==
    \/ \E q \in FwReqs : \/ \E c \in Configs : UpdateFirewall(q, c)
                         \/ WriteBatch(q) \/ WriteBatchFails(q) \/ LoadBatch(q) \/ SaveRules(q)
                         \/ SaveFails(q) \/ ClientLeaves(q) \/ ClientLeavesSaving(q)
    \/ \E b \in {fwLate, fwBatch} : LateNft(b)
    \/ \E h \in BOOLEAN : FwDown(h)
    \/ ApplyPersisted \/ ApplyPersistedFails

FwSpec == FwInit /\ [][FwNext]_fwvars

-----------------------------------------------------------------------------
(* Every start that gets to run nft puts the host back on the saved         *)
(* configuration, whatever update failed, was dropped at any await or was   *)
(* killed before ("a rejected ruleset never becomes the saved state",       *)
(* firewall.rs update), and an update that is reported as done has its      *)
(* rules on the host, unless the nft of a dropped request ran after its own.*)
FilterIsTheAcceptedOne ==
    [][/\ ApplyPersisted => fwHost' = Rendered(fwSaved)
       /\ \A q \in FwReqs : SaveRules(q) /\ ~fwRaced => fwHost = Rendered(fwSaved')]_fwvars

(* firewall.rs apply_lock: "Serializes config mutation + apply so two       *)
(* updates can't interleave the read-modify-write or race two `nft -f`      *)
(* invocations."  An update that is reported as done has its rules on the   *)
(* host.                                                                    *)
UpdateTakesEffect ==
    [][\A q \in FwReqs : SaveRules(q) => fwHost = Rendered(fwSaved')]_fwvars
=============================================================================
