---------------------------- MODULE GuestsProofs ----------------------------
(***************************************************************************)
(* TicketOpensOnce, FailedCtLeavesNothing, CtAgreeWhenSerial and           *)
(* DefinitionFollows, for any guests, tickets, containers, disks, devices, *)
(* requests and bounds; ListedIsOneMoment and FailedCloneLeavesNothing,    *)
(* for any virtual machines that share no disk.                            *)
(*                                                                         *)
(* A ticket passes through four stages and never goes back: not handed     *)
(* out, held in the map for the guest it was issued for, gone from the map *)
(* unused (expired, or redeemed as the wrong kind), and gone from the map  *)
(* with the one bridge it opened.  Only the ids that were never handed out *)
(* are minted, and only a held ticket is redeemed.                         *)
(*                                                                         *)
(* For containers the invariant says, at every step of the one request     *)
(* under way, how far records, containers and datasets are out of step:    *)
(* only under the name of that request, and only between lxc-create and    *)
(* the record (Fresh) or between lxc-destroy and the record (Leaving).     *)
(*                                                                         *)
(* For snapshots it says that all snapshots of a virtual machine under one *)
(* name are of one moment, complete or not, so that no order of creations  *)
(* and deletions can mix two; for clones, which of a disk and its copy is  *)
(* a clone of the other, and what a teardown is done with.                 *)
(*                                                                         *)
(* For disks and devices it says that the request under way has the record *)
(* as it is until it writes it, and that what virsh changed before the     *)
(* write is what the write will say.                                       *)
(***************************************************************************)
EXTENDS Consoles, Containers, VmSnapshots, VmDevices, FiniteSetTheorems, SequenceTheorems, TLAPS

-----------------------------------------------------------------------------
(* The inductive invariant.                                                *)

\* An id that was not handed out is in no map and has opened nothing.
FreshIsUnused(t) ==
    issued[t] = NotIssued => tickets[t] = NoTicket /\ sessions[t].count = 0

\* A ticket that is held is for the guest it was issued for and expires TICKET_TTL after that, and
\* has opened nothing.
HeldIsUnused(t) ==
    tickets[t] # NoTicket => /\ tickets[t].guest = issued[t].guest
                             /\ tickets[t].expires = issued[t].at + TicketTtl
                             /\ sessions[t].count = 0

\* A ticket that has opened a bridge has opened one, for its guest and in time, and is gone from
\* the map.
UsedIsGone(t) ==
    \/ sessions[t].count = 0
    \/ /\ sessions[t].count = 1
       /\ sessions[t].guest = issued[t].guest
       /\ sessions[t].opened < issued[t].at + TicketTtl
       /\ tickets[t] = NoTicket

ConInv ==
    /\ DOMAIN tickets = Tickets /\ DOMAIN issued = Tickets /\ DOMAIN sessions = Tickets
    /\ conNow \in Nat
    /\ \A t \in Tickets : FreshIsUnused(t) /\ HeldIsUnused(t) /\ UsedIsGone(t)

USE ConAssumption

-----------------------------------------------------------------------------

\* At the start no ticket has been handed out.
LEMMA ConInitInv == ConInit => ConInv
BY DEF ConInit, ConInv, FreshIsUnused, HeldIsUnused, UsedIsGone, NoTicket, NoSession

\* A step that touches no map, and keeps what each bridge says of its ticket, changes nothing
\* the invariant speaks of.
LEMMA BridgesKeepCount ==
    ASSUME ConInv, UNCHANGED <<tickets, issued>>, DOMAIN sessions' = Tickets,
           conNow' \in Nat,
           \A t \in Tickets : /\ sessions'[t].count = sessions[t].count
                              /\ sessions'[t].guest = sessions[t].guest
                              /\ sessions'[t].opened = sessions[t].opened
    PROVE  ConInv'
BY DEF ConInv, FreshIsUnused, HeldIsUnused, UsedIsGone

\* A step that leaves all three maps alone.
LEMMA MapsUnchanged ==
    ASSUME ConInv, UNCHANGED <<tickets, issued, sessions>>, conNow' \in Nat
    PROVE  ConInv'
BY DEF ConInv, FreshIsUnused, HeldIsUnused, UsedIsGone

\* A guest that stops closes the far end of its bridges, and no more.
LEMMA StopStep ==
    ASSUME ConInv, NEW g \in ConGuests, GuestStops(g)
    PROVE  ConInv'
<1>1. /\ DOMAIN sessions' = Tickets
      /\ \A t \in Tickets : /\ sessions'[t].count = sessions[t].count
                            /\ sessions'[t].guest = sessions[t].guest
                            /\ sessions'[t].opened = sessions[t].opened
      /\ conNow' \in Nat
  BY DEF GuestStops, ConInv
<1> QED
  BY <1>1, BridgesKeepCount DEF GuestStops

\* mint_ticket hands out an id that has never been handed out; those that have expired leave
\* the map.
LEMMA MintStep ==
    ASSUME ConInv, NEW g \in ConGuests, NEW k \in Kinds(g), Mint(g, k)
    PROVE  ConInv'
<1>1. PICK t \in Tickets :
        /\ issued[t] = NotIssued
        /\ tickets' = [x \in Tickets |->
                          IF x = t THEN [guest |-> g, kind |-> k, addr |-> display[g],
                                         expires |-> conNow + TicketTtl]
                          ELSE IF tickets[x].expires > conNow THEN tickets[x] ELSE NoTicket]
        /\ issued' = [issued EXCEPT ![t] = [guest |-> g, at |-> conNow]]
  BY DEF Mint
<1>2. /\ DOMAIN tickets' = Tickets /\ DOMAIN issued' = Tickets /\ sessions' = sessions
      /\ tickets'[t].guest = g /\ issued'[t] = [guest |-> g, at |-> conNow] /\ sessions[t].count = 0
      /\ tickets'[t].expires = conNow + TicketTtl /\ conNow' = conNow
  BY <1>1 DEF Mint, ConInv, FreshIsUnused
<1>3. \A x \in Tickets : x # t => /\ issued'[x] = issued[x]
                                  /\ tickets'[x] \in {tickets[x], NoTicket}
  BY <1>1 DEF ConInv
<1>4. FreshIsUnused(t)' /\ HeldIsUnused(t)' /\ UsedIsGone(t)'
  BY <1>2 DEF FreshIsUnused, HeldIsUnused, UsedIsGone, NotIssued
<1>5. ASSUME NEW x \in Tickets, x # t
      PROVE  FreshIsUnused(x)' /\ HeldIsUnused(x)' /\ UsedIsGone(x)'
  BY <1>2, <1>3, <1>5 DEF ConInv, FreshIsUnused, HeldIsUnused, UsedIsGone
<1> QED
  BY <1>2, <1>4, <1>5 DEF ConInv

\* What can be redeemed is held, and the guest named in the request is that of the ticket.
LEMMA RedeemableIsHeld ==
    ASSUME ConInv, NEW t \in Tickets, NEW g \in ConGuests, Redeemable(t, g)
    PROVE  /\ tickets[t] # NoTicket /\ issued[t].guest = g /\ sessions[t].count = 0
           /\ conNow < issued[t].at + TicketTtl
<1>1. tickets[t] # NoTicket
  BY DEF Redeemable, NoTicket
<1> QED
  BY <1>1 DEF ConInv, HeldIsUnused, Redeemable

\* tickets.remove takes the redeemed ticket out of the map and leaves the others.
LEMMA ConsumedIsGone ==
    ASSUME ConInv, NEW t \in Tickets, tickets' = Consumed(t)
    PROVE  /\ DOMAIN tickets' = Tickets /\ tickets'[t] = NoTicket
           /\ \A x \in Tickets : x # t => tickets'[x] = tickets[x]
BY DEF ConInv, Consumed

\* A ticket of the other kind is consumed, and opens nothing.
LEMMA WrongKindStep ==
    ASSUME ConInv, NEW t \in Tickets, NEW g \in ConGuests, NEW k \in Kinds(g),
           RedeemWrongKind(t, g, k)
    PROVE  ConInv'
<1>1. /\ DOMAIN tickets' = Tickets /\ tickets'[t] = NoTicket
      /\ \A x \in Tickets : x # t => tickets'[x] = tickets[x]
      /\ issued' = issued /\ sessions' = sessions /\ conNow' = conNow
  BY ConsumedIsGone DEF RedeemWrongKind
<1> QED
  BY <1>1 DEF ConInv, FreshIsUnused, HeldIsUnused, UsedIsGone

\* A redemption takes the ticket out of the map in the step that opens its first bridge.
LEMMA RedeemStep ==
    ASSUME ConInv, NEW t \in Tickets, NEW g \in ConGuests, NEW k \in Kinds(g), Redeem(t, g, k)
    PROVE  ConInv'
<1>1. /\ tickets[t] # NoTicket /\ issued[t].guest = g /\ sessions[t].count = 0
      /\ conNow < issued[t].at + TicketTtl
  BY RedeemableIsHeld DEF Redeem
<1>2. /\ DOMAIN tickets' = Tickets /\ tickets'[t] = NoTicket
      /\ \A x \in Tickets : x # t => tickets'[x] = tickets[x]
  BY ConsumedIsGone DEF Redeem
<1>3. /\ DOMAIN sessions' = Tickets /\ issued' = issued
      /\ sessions'[t].count = 1 /\ sessions'[t].guest = g /\ sessions'[t].opened = conNow
      /\ conNow' = conNow
      /\ \A x \in Tickets : x # t => sessions'[x] = sessions[x]
  BY <1>1 DEF Redeem, ConInv, NoSession
<1>4. issued[t] # NotIssued
  BY <1>1 DEF NotIssued
<1> QED
  BY <1>1, <1>2, <1>3, <1>4 DEF ConInv, FreshIsUnused, HeldIsUnused, UsedIsGone

\* A bridge that is made, ends or is closed keeps its ticket's count.
LEMMA BridgeKeeps ==
    ASSUME ConInv, NEW t \in Tickets, BridgeStep(t) \/ BrowserCloses(t)
    PROVE  ConInv'
<1>1. UNCHANGED <<tickets, issued>> /\ conNow' \in Nat
  BY DEF BridgeStep, Attach, AttachContainer, AttachFails, BridgeEnds, BrokerDetaches,
         BrowserCloses, ConInv
<1>2. /\ DOMAIN sessions' = Tickets
      /\ \A x \in Tickets : /\ sessions'[x].count = sessions[x].count
                            /\ sessions'[x].guest = sessions[x].guest
                            /\ sessions'[x].opened = sessions[x].opened
  <2>1. CASE Attach(t)
    BY <2>1 DEF Attach, ConInv
  <2>2. CASE AttachContainer(t)
    BY <2>2 DEF AttachContainer, ConInv
  <2>3. CASE AttachFails(t)
    BY <2>3 DEF AttachFails, ConInv
  <2>4. CASE BridgeEnds(t)
    BY <2>4 DEF BridgeEnds, ConInv
  <2>5. CASE BrokerDetaches(t)
    BY <2>5 DEF BrokerDetaches, ConInv
  <2>6. CASE BrowserCloses(t)
    BY <2>6 DEF BrowserCloses, ConInv
  <2> QED
    BY <2>1, <2>2, <2>3, <2>4, <2>5, <2>6 DEF BridgeStep
<1> QED
  BY <1>1, <1>2, BridgesKeepCount

\* Every step keeps the invariant.
LEMMA ConStepInv == ConInv /\ [ConNext]_convars => ConInv'
<1> SUFFICES ASSUME ConInv, [ConNext]_convars PROVE ConInv'
  OBVIOUS
<1>1. ASSUME NEW g \in ConGuests, GuestStarts(g) PROVE ConInv'
  BY <1>1, MapsUnchanged DEF GuestStarts, ConInv
<1>2. ASSUME ConTick \/ UNCHANGED convars PROVE ConInv'
  BY <1>2, MapsUnchanged DEF ConTick, convars, ConInv
<1> QED
  BY <1>1, <1>2, StopStep, MintStep, WrongKindStep, RedeemStep, BridgeKeeps DEF ConNext

\* A console ticket opens at most one bridge, for the guest it was minted for and before it
\* expires, and is in no map once it has: TicketOpensOnce, for any guests, tickets, lifetimes and
\* bounds.
THEOREM TicketsOpenOnce == ConSpec => []TicketOpensOnce
<1>1. ConInv => TicketOpensOnce
  BY DEF ConInv, UsedIsGone, TicketOpensOnce
<1> QED
  BY <1>1, ConInitInv, ConStepInv, PTL DEF ConSpec

-----------------------------------------------------------------------------
(* Containers: FailedCtLeavesNothing and CtAgreeWhenSerial.                *)

CtActions == {"start", "stop", "restart", "freeze", "unfreeze"}
ArgSet == CtLimits \cup CtTags \cup CtActions \cup {"none"}
CtSet  == [name : CtNames \cup {"none"}, limit : ArgSet]
LxcSet == [power : {"absent", "stopped", "running", "frozen"}, conf : ArgSet, cgroup : ArgSet]
CtSteps == {"idle", "read", "lxcCreate", "quota", "config", "undo", "remnant", "failed", "start",
            "put", "cgroup", "kill", "erase", "power", "state", "list", "capture", "exists",
            "rollback", "unsnap"}
ReqSet == [op : {"none", "create", "update", "delete", "power", "migrate", "snapshot", "rollback", "unsnap"},
           pc : CtSteps,
           id : CtIds \cup {"none"}, ct : CtSet, arg : ArgSet, start : BOOLEAN,
           lossy : BOOLEAN, left : BOOLEAN]

CtTyped ==
    /\ crec \in [CtIds -> CtSet] /\ \A i \in CtIds : crec[i] = NoCt \/ crec[i].name \in CtNames
    /\ lxc \in [CtNames -> LxcSet]
    /\ creq \in [CtReqs -> ReqSet]
    /\ ctmixed \in BOOLEAN /\ ctfaults \in Nat

\* The operation that a step belongs to, and what the request knows by then.
AtStep(q) ==
    /\ q.pc # "idle" => q.id \in CtIds
    /\ q.pc \notin {"idle", "read"} => q.ct.name \in CtNames
    /\ q.pc \in {"lxcCreate", "quota", "config", "failed", "start"} => q.op = "create"
    /\ q.pc \in {"undo", "remnant"} => q.op \in {"create", "delete"}
    /\ q.pc \in {"kill", "erase"} => q.op = "delete"
    /\ q.pc = "power" => q.op = "power"
    /\ q.pc = "exists" => q.op \in {"rollback", "unsnap"}
    /\ q.op = "none" => q.pc = "idle"
    /\ q.op = "create" => q.pc \in {"lxcCreate", "quota", "config", "undo", "remnant", "failed",
                                    "start", "put"}
    /\ q.op = "power" => q.arg \in CtActions

\* Nobody else is under way.
Alone == \A r, q \in CtReqs : creq[r] # NoCtReq /\ creq[q] # NoCtReq => r = q

\* Until it is started a new container does not run, so zfs can destroy its dataset.
TornDown(q) ==
    q.op = "create" =>
      /\ q.pc \in {"quota", "config", "undo", "remnant"} => lxc[q.ct.name].power \in {"stopped", "absent"}
      /\ q.pc = "remnant" /\ ~q.lossy => ~CtExists(q.ct.name) /\ q.ct.name \notin roots
      /\ q.pc = "failed" => /\ q.lossy \/ ~CtExists(q.ct.name)
                            /\ (q.lossy /\ q.left) \/ q.ct.name \notin roots

\* Containers that have no record yet, and records that have no container any more.
Fresh(q)   == q.op = "create" /\ q.pc \in {"quota", "config", "start", "put"}
Leaving(q) == q.op = "delete" /\ q.pc \in {"remnant", "erase"}

Agree(n) ==
    /\ CtExists(n) <=> n \in roots
    /\ CtExists(n) <=> \E i \in CtIds : crec[i].name = n
OneEach == \A i, j \in CtIds : crec[i].name = crec[j].name /\ crec[i].name # "none" => i = j

\* Where the one request is between the host and the records.
InTransit(q) ==
    /\ q.op = "create" => crec[q.id] = NoCt /\ q.pc \notin {"undo", "remnant", "failed"}
    /\ q.op # "create" /\ q.pc \notin {"idle", "read"} => crec[q.id].name = q.ct.name
    /\ Fresh(q) => /\ CtExists(q.ct.name) /\ q.ct.name \in roots
                   /\ \A i \in CtIds : crec[i].name # q.ct.name
                   /\ q.pc # "put" => lxc[q.ct.name].power = "stopped"
    /\ Leaving(q) => ~CtExists(q.ct.name) /\ q.ct.name \notin roots
OthersAgree(q) ==
    \A n \in CtNames : ((Fresh(q) \/ Leaving(q)) /\ q.ct.name = n) \/ Agree(n)

CtInv ==
    /\ CtTyped
    /\ \A r \in CtReqs : AtStep(creq[r])
    /\ ~ctmixed => Alone /\ \A r \in CtReqs : TornDown(creq[r])
    /\ ~ctmixed /\ ctfaults = 0 =>
         /\ OneEach /\ \A r \in CtReqs : InTransit(creq[r])
         /\ \A r \in CtReqs : creq[r] # NoCtReq => OthersAgree(creq[r])
         /\ (\A r \in CtReqs : creq[r] = NoCtReq) => \A n \in CtNames : Agree(n)

USE CtAssumption

\* What the absence of a request says.
LEMMA NobodyThere ==
    /\ NoCtReq \in ReqSet /\ AtStep(NoCtReq) /\ TornDown(NoCtReq) /\ InTransit(NoCtReq)
    /\ NoCtReq.pc = "idle" /\ NoCt \in CtSet /\ NoCt.name = "none" /\ NoLxc \in LxcSet
    /\ NoLxc.power = "absent" /\ ~Fresh(NoCtReq) /\ ~Leaving(NoCtReq)
<1>1. NoCt \in CtSet /\ NoCt.name = "none"
  BY DEF NoCt, CtSet, ArgSet
<1>2. NoLxc \in LxcSet /\ NoLxc.power = "absent"
  BY DEF NoLxc, LxcSet, ArgSet
<1>3. NoCtReq.pc = "idle" /\ NoCtReq.op = "none" /\ NoCtReq \in ReqSet
  BY <1>1 DEF NoCtReq, ReqSet, CtSteps, ArgSet
<1> QED
  BY <1>1, <1>2, <1>3 DEF AtStep, TornDown, InTransit, Fresh, Leaving

\* One container with its record, dataset and configuration, and no request.
LEMMA CtInitInv == CtInit => CtInv
<1> SUFFICES ASSUME CtInit PROVE CtInv
  OBVIOUS
<1>1. PICK i \in CtIds, n \in CtNames, l \in CtLimits :
        /\ crec = [j \in CtIds |-> IF j = i THEN [name |-> n, limit |-> l] ELSE NoCt]
        /\ lxc = [m \in CtNames |-> IF m = n THEN [power |-> "stopped", conf |-> l, cgroup |-> "none"]
                                   ELSE NoLxc]
        /\ roots = {n}
  <2>1. /\ (CHOOSE i \in CtIds : TRUE) \in CtIds /\ (CHOOSE n \in CtNames : TRUE) \in CtNames
        /\ (CHOOSE l \in CtLimits : TRUE) \in CtLimits
    OBVIOUS
  <2> QED
    BY <2>1 DEF CtInit
<1>2. creq = [r \in CtReqs |-> NoCtReq] /\ ctmixed = FALSE /\ ctfaults = 0
  BY DEF CtInit
<1>3. \A j \in CtIds : crec[j] = (IF j = i THEN [name |-> n, limit |-> l] ELSE NoCt)
  BY <1>1
<1>4. /\ crec[i].name = n /\ n # "none" /\ \A j \in CtIds : j # i => crec[j].name = "none"
      /\ lxc[n].power = "stopped" /\ \A m \in CtNames : m # n => lxc[m].power = "absent"
  BY <1>1, NobodyThere
<1>5. CtTyped
  <2>1. [name |-> n, limit |-> l] \in CtSet
    BY DEF CtSet, ArgSet
  <2>2. [power |-> "stopped", conf |-> l, cgroup |-> "none"] \in LxcSet
    BY DEF LxcSet, ArgSet
  <2> QED
    BY <1>1, <1>2, <1>4, <2>1, <2>2, NobodyThere DEF CtTyped
<1>6. \A r \in CtReqs : AtStep(creq[r]) /\ TornDown(creq[r]) /\ InTransit(creq[r]) /\ creq[r] = NoCtReq
  BY <1>2, NobodyThere
<1>7. OneEach /\ \A m \in CtNames : Agree(m)
  BY <1>1, <1>4 DEF OneEach, Agree, CtExists
<1> QED
  BY <1>2, <1>5, <1>6, <1>7 DEF CtInv, Alone

\* While requests come one at a time, whoever acts is alone.
LEMMA TheOthersAreIdle ==
    ASSUME CtInv, ~ctmixed, NEW r \in CtReqs, creq[r].pc # "idle", NEW q \in CtReqs, q # r
    PROVE  creq[q] = NoCtReq
BY NobodyThere DEF CtInv, Alone

\* A step of the request r.
LEMMA CtFrame ==
    ASSUME CtInv, NEW r \in CtReqs, creq[r].pc # "idle",
           CtTyped', AtStep(creq'[r]), \A q \in CtReqs : q # r => creq'[q] = creq[q],
           ctmixed' = ctmixed, ctfaults' = 0 => ctfaults = 0,
           ~ctmixed => TornDown(creq[r])',
           ~ctmixed /\ ctfaults' = 0 => OneEach' /\ InTransit(creq[r])' /\ OthersAgree(creq[r])'
    PROVE  CtInv'
<1>1. \A q \in CtReqs : AtStep(creq'[q])
  BY DEF CtInv
<1>2. ASSUME ~ctmixed PROVE Alone' /\ \A q \in CtReqs : TornDown(creq[q])'
  <2>1. \A q \in CtReqs : q # r => creq'[q] = NoCtReq
    BY <1>2, TheOthersAreIdle
  <2>2. TornDown(NoCtReq)'
    BY NobodyThere DEF TornDown, NoCtReq
  <2>3. \A q \in CtReqs : q # r => TornDown(creq[q])'
    BY <2>1, <2>2 DEF TornDown
  <2> QED
    BY <1>2, <2>1, <2>3 DEF Alone
<1>3. ASSUME ~ctmixed, ctfaults' = 0
      PROVE  /\ OneEach' /\ \A q \in CtReqs : InTransit(creq[q])'
             /\ \A q \in CtReqs : creq'[q] # NoCtReq => OthersAgree(creq[q])'
             /\ (\A q \in CtReqs : creq'[q] = NoCtReq) => \A n \in CtNames : Agree(n)'
  <2>1. \A q \in CtReqs : q # r => creq'[q] = NoCtReq
    BY <1>3, TheOthersAreIdle
  <2>2. InTransit(NoCtReq)'
    BY NobodyThere DEF InTransit, NoCtReq, Fresh, Leaving
  <2>3. \A q \in CtReqs : q # r => InTransit(creq[q])'
    BY <2>1, <2>2 DEF InTransit
  <2>4. (\A q \in CtReqs : creq'[q] = NoCtReq) => \A n \in CtNames : Agree(n)'
    BY <1>3, NobodyThere DEF OthersAgree
  <2> QED
    BY <1>3, <2>1, <2>3, <2>4
<1> QED
  BY <1>1, <1>2, <1>3 DEF CtInv

\* A request begins.
LEMMA CtRequestStep ==
    ASSUME CtInv, NEW r \in CtReqs, NEW op, NEW i \in CtIds, NEW ct \in CtSet, NEW arg \in ArgSet,
           NEW start \in BOOLEAN, CtRequest(r, op, i, ct, arg, start),
           op \in {"create", "update", "delete", "power", "migrate", "snapshot", "rollback", "unsnap"},
           op = "create" => ct.name \in CtNames /\ crec[i] = NoCt,
           op = "power" => arg \in CtActions
    PROVE  CtInv'
<1> DEFINE new == [op |-> op, pc |-> IF op = "create" THEN "lxcCreate" ELSE "read",
                   id |-> i, ct |-> ct, arg |-> arg, start |-> start,
                   lossy |-> FALSE, left |-> FALSE]
<1>1. /\ creq[r] = NoCtReq /\ creq' = [creq EXCEPT ![r] = new]
      /\ ctmixed' = (ctmixed \/ \E q \in CtReqs : creq[q] # NoCtReq)
      /\ UNCHANGED <<crec, lxc, roots, ctsnaps, ctfaults>>
  BY DEF CtRequest, cthost
<1>2. /\ new.op = op /\ new.id = i /\ new.ct = ct /\ new.arg = arg
      /\ new.pc = IF op = "create" THEN "lxcCreate" ELSE "read"
      /\ new \in ReqSet
  BY DEF ReqSet, CtSteps
<1> HIDE DEF new
<1>3. /\ creq' \in [CtReqs -> ReqSet] /\ creq'[r] = new
      /\ \A q \in CtReqs : q # r => creq'[q] = creq[q]
  BY <1>1, <1>2 DEF CtInv, CtTyped
<1>4. CtTyped'
  <2>1. ctmixed' \in BOOLEAN
    BY <1>1 DEF CtInv, CtTyped
  <2> QED
    BY <1>1, <1>3, <2>1 DEF CtInv, CtTyped
<1>5. AtStep(new)
  BY <1>2 DEF AtStep
<1>6. \A q \in CtReqs : AtStep(creq'[q])
  BY <1>3, <1>5 DEF CtInv
<1>7. ~Fresh(new) /\ ~Leaving(new)
  BY <1>2 DEF Fresh, Leaving
<1>8. ASSUME ~ctmixed' PROVE ~ctmixed /\ \A q \in CtReqs : creq[q] = NoCtReq
  BY <1>1, <1>8 DEF CtInv, CtTyped
<1>9. ASSUME ~ctmixed' PROVE Alone' /\ \A q \in CtReqs : TornDown(creq[q])'
  <2>1. \A q \in CtReqs : q # r => creq'[q] = NoCtReq
    BY <1>3, <1>8, <1>9
  <2>2. TornDown(NoCtReq)' /\ TornDown(new)'
    BY <1>2, NobodyThere DEF TornDown, NoCtReq
  <2>3. \A q \in CtReqs : TornDown(creq[q])'
    BY <1>3, <2>1, <2>2 DEF TornDown
  <2> QED
    BY <2>1, <2>3 DEF Alone
<1>10. ASSUME ~ctmixed', ctfaults' = 0
       PROVE  /\ OneEach' /\ \A q \in CtReqs : InTransit(creq[q])'
              /\ \A q \in CtReqs : OthersAgree(creq[q])'
              /\ \A n \in CtNames : Agree(n)'
  <2>1. OneEach /\ \A n \in CtNames : Agree(n)
    BY <1>1, <1>8, <1>10 DEF CtInv
  <2>2. OneEach' /\ \A n \in CtNames : Agree(n)'
    BY <1>1, <2>1 DEF OneEach, Agree, CtExists
  <2>3. \A q \in CtReqs : q # r => creq'[q] = NoCtReq
    BY <1>3, <1>8, <1>10
  <2>4. InTransit(NoCtReq)' /\ InTransit(new)'
    BY <1>1, <1>2, <1>7, NobodyThere DEF InTransit, NoCtReq, Fresh, Leaving
  <2>5. \A q \in CtReqs : InTransit(creq[q])'
    BY <1>3, <2>3, <2>4 DEF InTransit
  <2> QED
    BY <2>2, <2>5 DEF OthersAgree
<1> QED
  BY <1>4, <1>6, <1>9, <1>10 DEF CtInv

\* A request ends and leaves host and records alone; not while it has something in hand, unless
\* a fault makes it.
LEMMA CtEndStep ==
    ASSUME CtInv, NEW r \in CtReqs, creq[r].pc # "idle", CtEnd(r),
           UNCHANGED <<crec, lxc, roots, ctmixed>>, ctfaults' \in Nat, ctfaults' >= ctfaults,
           ~ctmixed /\ ctfaults' = 0 => ~Fresh(creq[r]) /\ ~Leaving(creq[r])
    PROVE  CtInv'
<1>1. creq' \in [CtReqs -> ReqSet] /\ creq'[r] = NoCtReq /\ \A q \in CtReqs : q # r => creq'[q] = creq[q]
  BY NobodyThere DEF CtEnd, CtInv, CtTyped
<1>2. CtTyped' /\ ctfaults \in Nat
  BY <1>1 DEF CtInv, CtTyped
<1>3. TornDown(creq[r])' /\ InTransit(creq[r])'
  BY <1>1, NobodyThere DEF TornDown, InTransit, NoCtReq, Fresh, Leaving
<1>4. ASSUME ~ctmixed, ctfaults' = 0 PROVE OneEach' /\ OthersAgree(creq[r])'
  <2>1. ctfaults = 0 /\ creq[r] # NoCtReq
    BY <1>2, <1>4, NobodyThere
  <2>2. OneEach /\ OthersAgree(creq[r])
    BY <1>4, <2>1 DEF CtInv
  <2>3. \A n \in CtNames : Agree(n)
    BY <1>4, <2>2 DEF OthersAgree
  <2>4. OneEach' /\ \A n \in CtNames : Agree(n)'
    BY <2>2, <2>3 DEF OneEach, Agree, CtExists
  <2> QED
    BY <2>4 DEF OthersAgree
<1>5. ctfaults' = 0 => ctfaults = 0
  BY <1>2
<1>6. AtStep(creq'[r])
  BY <1>1, NobodyThere
<1> QED
  BY <1>1, <1>2, <1>3, <1>4, <1>5, <1>6, CtFrame

\* What moving on changes.
LEMMA CtMoved ==
    ASSUME CtInv, NEW r \in CtReqs, NEW pc \in CtSteps, CtTo(r, pc)
    PROVE  /\ creq' \in [CtReqs -> ReqSet]
           /\ creq'[r].pc = pc /\ creq'[r].op = creq[r].op /\ creq'[r].id = creq[r].id
           /\ creq'[r].ct = creq[r].ct /\ creq'[r].arg = creq[r].arg /\ creq'[r].lossy = creq[r].lossy
           /\ \A q \in CtReqs : q # r => creq'[q] = creq[q]
<1>1. creq[r] \in ReqSet
  BY DEF CtInv, CtTyped
<1>2. creq' = [creq EXCEPT ![r] = [creq[r] EXCEPT !.pc = pc]]
  BY DEF CtTo
<1>3. [creq[r] EXCEPT !.pc = pc] \in ReqSet
  BY <1>1 DEF ReqSet
<1>4. creq'[r] = [creq[r] EXCEPT !.pc = pc] /\ \A q \in CtReqs : q # r => creq'[q] = creq[q]
  BY <1>2 DEF CtInv, CtTyped
<1>5. creq' \in [CtReqs -> ReqSet]
  BY <1>2, <1>3 DEF CtInv, CtTyped
<1> QED
  BY <1>1, <1>4, <1>5 DEF ReqSet

\* A request moves on, and no container comes or goes.
LEMMA CtMoveStep ==
    ASSUME CtInv, NEW r \in CtReqs, creq[r].pc # "idle", creq' \in [CtReqs -> ReqSet],
           \A q \in CtReqs : q # r => creq'[q] = creq[q],
           UNCHANGED <<crec, roots, ctmixed>>, lxc' \in [CtNames -> LxcSet],
           \A n \in CtNames : lxc'[n].power = "absent" <=> lxc[n].power = "absent",
           ctfaults' \in Nat, ctfaults' >= ctfaults, AtStep(creq'[r]),
           ~ctmixed => TornDown(creq[r])',
           ~ctmixed /\ ctfaults' = 0 =>
              /\ InTransit(creq[r])'
              /\ (Fresh(creq[r]) \/ Leaving(creq[r])) =>
                    /\ Fresh(creq'[r]) \/ Leaving(creq'[r])
                    /\ creq'[r].ct = creq[r].ct
    PROVE  CtInv'
<1>1. CtTyped' /\ ctfaults \in Nat
  BY DEF CtInv, CtTyped
<1>2. ctfaults' = 0 => ctfaults = 0
  BY <1>1
<1>3. ASSUME ~ctmixed, ctfaults' = 0 PROVE OneEach' /\ OthersAgree(creq[r])'
  <2>1. OneEach /\ OthersAgree(creq[r])
    BY <1>2, <1>3, NobodyThere DEF CtInv
  <2>2. \A n \in CtNames : Agree(n) => Agree(n)'
    BY DEF Agree, CtExists
  <2>3. OneEach'
    BY <2>1 DEF OneEach
  <2>4. \A n \in CtNames : ((Fresh(creq'[r]) \/ Leaving(creq'[r])) /\ creq'[r].ct.name = n) \/ Agree(n)'
    BY <1>3, <2>1, <2>2 DEF OthersAgree
  <2>5. OthersAgree(creq[r])'
    BY <2>4 DEF OthersAgree, Fresh, Leaving
  <2> QED
    BY <2>3, <2>5
<1> QED
  BY <1>1, <1>2, <1>3, CtFrame

\* get_stored.
LEMMA CtReadStep ==
    ASSUME CtInv, NEW r \in CtReqs, ReadCt(r)
    PROVE  CtInv'
<1> DEFINE q == creq[r]
<1>1. q.pc = "read" /\ UNCHANGED <<crec, lxc, roots, ctmixed, ctfaults>>
  BY DEF ReadCt, cthost, cthist
<1>2. q \in ReqSet /\ AtStep(q) /\ ctfaults \in Nat /\ lxc \in [CtNames -> LxcSet]
  BY DEF CtInv, CtTyped
<1>3. /\ q.id \in CtIds /\ ~Fresh(q) /\ ~Leaving(q)
      /\ q.op \in {"update", "delete", "power", "migrate", "snapshot", "rollback", "unsnap"}
  BY <1>1, <1>2 DEF AtStep, ReqSet, Fresh, Leaving
<1>4. CASE crec[q.id] = NoCt
  <2>1. CtEnd(r)
    BY <1>4 DEF ReadCt
  <2> QED
    BY <1>1, <1>2, <1>3, <2>1, CtEndStep
<1>5. CASE crec[q.id] # NoCt
  <2> DEFINE c == IF q.op = "update" THEN [crec[q.id] EXCEPT !.limit = q.arg] ELSE crec[q.id]
             pc == CtFirst(q.op)
  <2>1. creq' = [creq EXCEPT ![r].pc = pc, ![r].ct = c]
    BY <1>5 DEF ReadCt
  <2>2. crec[q.id] \in CtSet /\ crec[q.id].name \in CtNames /\ q.arg \in ArgSet
    BY <1>2, <1>3, <1>5 DEF CtInv, CtTyped, ReqSet
  <2>3. c \in CtSet /\ c.name = crec[q.id].name
    BY <2>2 DEF CtSet
  <2>4. pc \in {"cgroup", "kill", "power", "state", "list", "exists"} /\ pc \in CtSteps
    BY <1>3 DEF CtFirst, CtSteps
  <2>10. /\ pc = "kill" => q.op = "delete"
         /\ pc = "power" => q.op = "power"
         /\ pc = "exists" => q.op = "unsnap"
    BY <1>3 DEF CtFirst
  <2> HIDE DEF c, pc
  <2>5. /\ creq'[r] = [q EXCEPT !.pc = pc, !.ct = c]
        /\ \A p \in CtReqs : p # r => creq'[p] = creq[p]
        /\ DOMAIN creq' = CtReqs
    BY <2>1 DEF CtInv, CtTyped
  <2>6. /\ creq'[r] \in ReqSet /\ creq'[r].pc = pc /\ creq'[r].ct = c /\ creq'[r].id = q.id
        /\ creq'[r].op = q.op /\ creq'[r].arg = q.arg
    BY <1>2, <2>3, <2>4, <2>5 DEF ReqSet
  <2>7. creq' \in [CtReqs -> ReqSet]
    <3>1. creq' = [p \in CtReqs |-> creq'[p]]
      BY <2>1 DEF CtInv, CtTyped
    <3>2. \A p \in CtReqs : creq'[p] \in ReqSet
      BY <2>5, <2>6 DEF CtInv, CtTyped
    <3> QED
      BY <3>1, <3>2
  <2>8. AtStep(creq'[r])
    BY <1>2, <1>3, <2>2, <2>3, <2>4, <2>6, <2>10 DEF AtStep
  <2>9. TornDown(creq[r])' /\ InTransit(creq[r])'
    BY <1>1, <1>3, <2>3, <2>4, <2>6 DEF TornDown, InTransit, Fresh, Leaving
  <2> QED
    BY <1>1, <1>2, <1>3, <2>5, <2>7, <2>8, <2>9, CtMoveStep
<1> QED
  BY <1>4, <1>5

\* lxc-create: refused for a name that is taken, otherwise the request has a container in hand.
LEMMA LxcCreateStep ==
    ASSUME CtInv, NEW r \in CtReqs, LxcCreate(r)
    PROVE  CtInv'
<1> DEFINE q == creq[r]
           n == q.ct.name
<1>1. q.pc = "lxcCreate" /\ UNCHANGED <<crec, ctmixed, ctfaults>>
  BY DEF LxcCreate, cthist
<1>2. q \in ReqSet /\ AtStep(q) /\ ctfaults \in Nat /\ lxc \in [CtNames -> LxcSet]
  BY DEF CtInv, CtTyped
<1>3. q.id \in CtIds /\ n \in CtNames /\ q.op = "create" /\ ~Fresh(q) /\ ~Leaving(q)
  BY <1>1, <1>2 DEF AtStep, Fresh, Leaving
<1>4. CASE CtExists(n) \/ n \in roots
  <2>1. CtEnd(r) /\ UNCHANGED <<lxc, roots>>
    BY <1>4 DEF LxcCreate
  <2> QED
    BY <1>1, <1>2, <1>3, <2>1, CtEndStep
<1>5. CASE ~(CtExists(n) \/ n \in roots)
  <2>1. /\ lxc' = [lxc EXCEPT ![n] = [power |-> "stopped", conf |-> "none", cgroup |-> "none"]]
        /\ roots' = roots \cup {n} /\ CtTo(r, "quota")
    BY <1>5 DEF LxcCreate
  <2>2. /\ creq' \in [CtReqs -> ReqSet] /\ creq'[r].pc = "quota" /\ creq'[r].op = "create"
        /\ creq'[r].id = q.id /\ creq'[r].ct = q.ct /\ creq'[r].arg = q.arg
        /\ \A p \in CtReqs : p # r => creq'[p] = creq[p]
    BY <1>3, <2>1, CtMoved DEF CtSteps
  <2>3. /\ lxc' \in [CtNames -> LxcSet] /\ lxc'[n].power = "stopped"
        /\ \A m \in CtNames : m # n => lxc'[m] = lxc[m]
    <3>1. [power |-> "stopped", conf |-> "none", cgroup |-> "none"] \in LxcSet
      BY DEF LxcSet, ArgSet
    <3> QED
      BY <1>2, <1>3, <2>1, <3>1
  <2>4. CtTyped'
    BY <1>1, <2>2, <2>3 DEF CtInv, CtTyped
  <2>5. AtStep(creq'[r])
    BY <1>2, <1>3, <2>2 DEF AtStep
  <2>6. TornDown(creq[r])'
    BY <2>2, <2>3 DEF TornDown
  <2>7. ASSUME ~ctmixed, ctfaults' = 0
        PROVE  OneEach' /\ InTransit(creq[r])' /\ OthersAgree(creq[r])'
    <3>1. OneEach /\ InTransit(q) /\ OthersAgree(q)
      BY <1>1, <2>7, NobodyThere DEF CtInv
    <3>2. \A m \in CtNames : Agree(m)
      BY <1>3, <3>1 DEF OthersAgree
    <3>3. \A i \in CtIds : crec[i].name # n
      BY <1>3, <1>5, <3>2 DEF Agree
    <3>4. OneEach'
      BY <1>1, <3>1 DEF OneEach
    <3>5. InTransit(creq[r])'
      BY <1>1, <1>3, <2>1, <2>2, <2>3, <3>1, <3>3 DEF InTransit, Fresh, Leaving, CtExists
    <3>6. \A m \in CtNames : m # n => Agree(m)'
      BY <1>1, <2>1, <2>3, <3>2 DEF Agree, CtExists
    <3>7. OthersAgree(creq[r])'
      BY <2>2, <3>6 DEF OthersAgree, Fresh
    <3> QED
      BY <3>4, <3>5, <3>7
  <2> QED
    BY <1>1, <2>2, <2>4, <2>5, <2>6, <2>7, CtFrame
<1> QED
  BY <1>4, <1>5

\* The quota, and the configuration; without a dataset or container, or when a fault strikes, what
\* was made is to be torn down.
LEMMA CtConfigStep ==
    ASSUME CtInv, NEW r \in CtReqs, SetQuota(r) \/ WriteConfig(r) \/ CreateFails(r)
    PROVE  CtInv'
<1> DEFINE q == creq[r]
           n == q.ct.name
<1>1. q.pc \in {"quota", "config"} /\ UNCHANGED <<crec, roots, ctmixed>>
  BY DEF SetQuota, WriteConfig, CreateFails, CtFault, cthist, cthost
<1>2. q \in ReqSet /\ AtStep(q) /\ ctfaults \in Nat /\ lxc \in [CtNames -> LxcSet]
  BY DEF CtInv, CtTyped
<1>3. q.id \in CtIds /\ n \in CtNames /\ q.op = "create" /\ Fresh(q)
  BY <1>1, <1>2 DEF AtStep, Fresh
<1>4. PICK pc \in {"config", "undo", "start", "put"} : CtTo(r, pc)
  BY DEF SetQuota, WriteConfig, CreateFails
<1>5. /\ creq' \in [CtReqs -> ReqSet] /\ creq'[r].pc = pc /\ creq'[r].op = "create"
      /\ creq'[r].id = q.id /\ creq'[r].ct = q.ct /\ creq'[r].arg = q.arg
      /\ \A p \in CtReqs : p # r => creq'[p] = creq[p]
  BY <1>3, <1>4, CtMoved DEF CtSteps
<1>6. /\ lxc' \in [CtNames -> LxcSet]
      /\ \A m \in CtNames : lxc'[m].power = lxc[m].power
  <2>1. lxc' = lxc \/ lxc' = [lxc EXCEPT ![n].conf = q.ct.limit]
    BY DEF SetQuota, WriteConfig, CreateFails, cthost
  <2>2. q.ct.limit \in ArgSet
    BY <1>2 DEF ReqSet, CtSet
  <2>3. CASE lxc' = [lxc EXCEPT ![n].conf = q.ct.limit]
    <3>1. [lxc[n] EXCEPT !.conf = q.ct.limit] \in LxcSet /\ [lxc[n] EXCEPT !.conf = q.ct.limit].power = lxc[n].power
      BY <1>2, <1>3, <2>2 DEF LxcSet
    <3> QED
      BY <1>2, <1>3, <2>3, <3>1
  <2> QED
    BY <1>2, <2>1, <2>3
<1>7. ctfaults' \in Nat /\ ctfaults' >= ctfaults
  BY <1>2 DEF SetQuota, WriteConfig, CreateFails, CtFault, cthist
<1>8. AtStep(creq'[r])
  BY <1>2, <1>3, <1>4, <1>5 DEF AtStep
<1>9. ~ctmixed => TornDown(creq[r])'
  <2>1. ~ctmixed => lxc[n].power \in {"stopped", "absent"}
    BY <1>1, <1>3 DEF CtInv, TornDown
  <2> QED
    BY <1>3, <1>4, <1>5, <1>6, <2>1 DEF TornDown
<1>10. ASSUME ~ctmixed, ctfaults' = 0 PROVE InTransit(creq[r])' /\ Fresh(creq'[r])
  <2>1. ctfaults = 0 /\ InTransit(q)
    BY <1>2, <1>7, <1>10 DEF CtInv
  <2>2. CtExists(n) /\ n \in roots /\ lxc[n].power = "stopped"
    BY <1>1, <1>3, <2>1 DEF InTransit
  <2>3. pc # "undo"
    <3>1. ~CreateFails(r)
      BY <1>2, <1>10 DEF CreateFails, CtFault
    <3>2. CtTo(r, "config") \/ CtTo(r, "start") \/ CtTo(r, "put")
      BY <2>2, <3>1 DEF SetQuota, WriteConfig
    <3>3. creq'[r].pc # "undo"
      BY <3>2, CtMoved DEF CtSteps
    <3> QED
      BY <1>5, <3>3
  <2>4. Fresh(creq'[r]) /\ ~Leaving(creq'[r])
    BY <1>4, <1>5, <2>3 DEF Fresh, Leaving
  <2>5. InTransit(creq[r])'
    BY <1>1, <1>3, <1>4, <1>5, <1>6, <2>1, <2>2, <2>3 DEF InTransit, Fresh, Leaving, CtExists
  <2> QED
    BY <2>4, <2>5
<1> QED
  BY <1>1, <1>5, <1>6, <1>7, <1>8, <1>9, <1>10, CtMoveStep

\* lxc-destroy -f.
LEMMA LxcDestroyStep ==
    ASSUME CtInv, NEW r \in CtReqs, NEW ok \in BOOLEAN, LxcDestroy(r, ok)
    PROVE  CtInv'
<1> DEFINE q == creq[r]
           n == q.ct.name
<1>1. q.pc = "undo" /\ UNCHANGED <<crec, ctmixed>>
  BY DEF LxcDestroy, CtFault, cthist
<1>2. q \in ReqSet /\ AtStep(q) /\ ctfaults \in Nat /\ lxc \in [CtNames -> LxcSet]
  BY DEF CtInv, CtTyped
<1>3. q.id \in CtIds /\ n \in CtNames /\ q.op \in {"create", "delete"} /\ ~Fresh(q) /\ ~Leaving(q)
  BY <1>1, <1>2 DEF AtStep, Fresh, Leaving
<1>4. /\ creq' \in [CtReqs -> ReqSet] /\ creq'[r].pc = "remnant" /\ creq'[r].lossy = ~ok
      /\ creq'[r].op = q.op /\ creq'[r].id = q.id /\ creq'[r].ct = q.ct /\ creq'[r].arg = q.arg
      /\ \A p \in CtReqs : p # r => creq'[p] = creq[p]
  <2>1. creq' = [creq EXCEPT ![r].pc = "remnant", ![r].lossy = ~ok]
    BY DEF LxcDestroy
  <2>2. /\ creq'[r] = [q EXCEPT !.pc = "remnant", !.lossy = ~ok]
        /\ \A p \in CtReqs : p # r => creq'[p] = creq[p]
        /\ creq' = [p \in CtReqs |-> creq'[p]]
    BY <2>1 DEF CtInv, CtTyped
  <2>3. /\ creq'[r] \in ReqSet /\ creq'[r].pc = "remnant" /\ creq'[r].lossy = ~ok
        /\ creq'[r].op = q.op /\ creq'[r].id = q.id /\ creq'[r].ct = q.ct /\ creq'[r].arg = q.arg
    BY <1>2, <2>2 DEF ReqSet, CtSteps
  <2>4. \A p \in CtReqs : creq'[p] \in ReqSet
    BY <2>2, <2>3 DEF CtInv, CtTyped
  <2> QED
    BY <2>2, <2>3, <2>4
<1>5. /\ lxc' \in [CtNames -> LxcSet] /\ \A m \in CtNames : m # n => lxc'[m] = lxc[m] /\ (m \in roots' <=> m \in roots)
      /\ ok => lxc'[n].power = "absent" /\ n \notin roots'
      /\ ~ok => lxc' = lxc /\ ctfaults' # 0
      /\ ctfaults' \in Nat /\ ctfaults' >= ctfaults
  <2>1. CASE ok
    BY <1>2, <1>3, <2>1, NobodyThere DEF LxcDestroy, Gone, cthist
  <2>2. CASE ~ok
    BY <1>2, <2>2 DEF LxcDestroy, CtFault, cthost
  <2> QED
    BY <2>1, <2>2
<1>6. CtTyped'
  BY <1>1, <1>4, <1>5 DEF CtInv, CtTyped
<1>7. AtStep(creq'[r])
  BY <1>2, <1>3, <1>4 DEF AtStep
<1>8. ~ctmixed => TornDown(creq[r])'
  <2>1. ~ctmixed /\ q.op = "create" => lxc[n].power \in {"stopped", "absent"}
    BY <1>1 DEF CtInv, TornDown
  <2> QED
    BY <1>4, <1>5, <2>1 DEF TornDown, CtExists
<1>9. ASSUME ~ctmixed, ctfaults' = 0
      PROVE  OneEach' /\ InTransit(creq[r])' /\ OthersAgree(creq[r])'
  <2>1. ok /\ ctfaults = 0
    BY <1>2, <1>5, <1>9
  <2>2. OneEach /\ InTransit(q) /\ OthersAgree(q)
    BY <1>1, <1>9, <2>1, NobodyThere DEF CtInv
  <2>3. q.op = "delete" /\ crec[q.id].name = n
    BY <1>1, <1>3, <2>2 DEF InTransit
  <2>4. \A m \in CtNames : Agree(m)
    BY <1>3, <2>2 DEF OthersAgree
  <2>5. InTransit(creq[r])'
    BY <1>1, <1>4, <1>5, <2>1, <2>3 DEF InTransit, Fresh, Leaving, CtExists
  <2>6. \A m \in CtNames : m # n => Agree(m)'
    BY <1>1, <1>5, <2>4 DEF Agree, CtExists
  <2>7. OthersAgree(creq[r])'
    BY <1>4, <2>3, <2>6 DEF OthersAgree, Leaving
  <2> QED
    BY <1>1, <2>2, <2>5, <2>7 DEF OneEach
<1>10. ctfaults' = 0 => ctfaults = 0
  BY <1>2, <1>5
<1> QED
  BY <1>1, <1>4, <1>6, <1>7, <1>8, <1>9, <1>10, CtFrame

\* zfs destroy -r of what is left.
LEMMA RemnantStep ==
    ASSUME CtInv, NEW r \in CtReqs, NEW ok \in BOOLEAN, DestroyRemnant(r, ok)
    PROVE  CtInv'
<1> DEFINE q == creq[r]
           n == q.ct.name
           pc == IF q.op = "delete" THEN "erase" ELSE "failed"
<1>1. /\ q.pc = "remnant" /\ UNCHANGED <<crec, lxc, ctmixed>>
      /\ creq' = [creq EXCEPT ![r].pc = pc, ![r].left = ~ok]
  BY DEF DestroyRemnant, cthist, cthost, CtFault
<1>2. q \in ReqSet /\ AtStep(q) /\ ctfaults \in Nat /\ lxc \in [CtNames -> LxcSet]
  BY DEF CtInv, CtTyped
<1>3. q.id \in CtIds /\ n \in CtNames /\ q.op \in {"create", "delete"} /\ pc \in CtSteps
  BY <1>1, <1>2 DEF AtStep, CtSteps
<1>4. /\ creq' \in [CtReqs -> ReqSet] /\ creq'[r].pc = pc /\ creq'[r].lossy = q.lossy /\ creq'[r].left = ~ok
      /\ creq'[r].op = q.op /\ creq'[r].id = q.id /\ creq'[r].ct = q.ct /\ creq'[r].arg = q.arg
      /\ \A p \in CtReqs : p # r => creq'[p] = creq[p]
  <2> HIDE DEF pc
  <2>1. /\ creq'[r] = [q EXCEPT !.pc = pc, !.left = ~ok]
        /\ \A p \in CtReqs : p # r => creq'[p] = creq[p]
        /\ creq' = [p \in CtReqs |-> creq'[p]]
    BY <1>1 DEF CtInv, CtTyped
  <2>2. /\ creq'[r] \in ReqSet /\ creq'[r].pc = pc /\ creq'[r].lossy = q.lossy /\ creq'[r].left = ~ok
        /\ creq'[r].op = q.op /\ creq'[r].id = q.id /\ creq'[r].ct = q.ct /\ creq'[r].arg = q.arg
    BY <1>2, <1>3, <2>1 DEF ReqSet
  <2>3. \A p \in CtReqs : creq'[p] \in ReqSet
    BY <2>1, <2>2 DEF CtInv, CtTyped
  <2> QED
    BY <2>1, <2>2, <2>3
<1>5. /\ \A m \in CtNames : m # n => (m \in roots' <=> m \in roots)
      /\ n \in roots' => n \in roots
      /\ ok /\ lxc[n].power \in {"stopped", "absent"} => n \notin roots'
      /\ ctfaults' \in Nat /\ (ctfaults' = 0 => ctfaults = 0)
  <2>1. CASE ok
    BY <1>2, <2>1 DEF DestroyRemnant, cthist
  <2>2. CASE ~ok
    BY <1>2, <2>2 DEF DestroyRemnant, CtFault, cthost
  <2> QED
    BY <2>1, <2>2
<1>6. CtTyped'
  BY <1>1, <1>4, <1>5 DEF CtInv, CtTyped
<1>7. AtStep(creq'[r])
  BY <1>2, <1>3, <1>4 DEF AtStep
<1>8. ~ctmixed => TornDown(creq[r])'
  <2>1. ~ctmixed /\ q.op = "create" => /\ lxc[n].power \in {"stopped", "absent"}
                                       /\ q.lossy \/ (~CtExists(n) /\ n \notin roots)
    BY <1>1 DEF CtInv, TornDown
  <2> QED
    BY <1>1, <1>3, <1>4, <1>5, <2>1 DEF TornDown, CtExists
<1>9. ASSUME ~ctmixed, ctfaults' = 0
      PROVE  OneEach' /\ InTransit(creq[r])' /\ OthersAgree(creq[r])'
  <2>1. OneEach /\ InTransit(q) /\ OthersAgree(q)
    BY <1>1, <1>5, <1>9, NobodyThere DEF CtInv
  <2>2. q.op = "delete" /\ Leaving(q)
    BY <1>1, <1>3, <2>1 DEF InTransit, Leaving
  <2>3. lxc[n].power = "absent" /\ n \notin roots' /\ crec[q.id].name = n
    BY <1>1, <1>5, <2>1, <2>2 DEF InTransit, CtExists
  <2>4. InTransit(creq[r])'
    BY <1>1, <1>4, <2>2, <2>3 DEF InTransit, Fresh, Leaving, CtExists
  <2>5. \A m \in CtNames : m # n => Agree(m)'
    BY <1>1, <1>5, <2>1 DEF OthersAgree, Agree, CtExists
  <2>6. OthersAgree(creq[r])'
    BY <1>4, <2>2, <2>5 DEF OthersAgree, Leaving
  <2> QED
    BY <1>1, <2>1, <2>4, <2>6 DEF OneEach
<1> QED
  BY <1>1, <1>4, <1>5, <1>6, <1>7, <1>8, <1>9, CtFrame

\* The record is put, or erased, and the request ends.
LEMMA CtRecordStep ==
    ASSUME CtInv, NEW r \in CtReqs, PutCt(r) \/ EraseCt(r)
    PROVE  CtInv'
<1> DEFINE q == creq[r]
           n == q.ct.name
           c == IF q.pc = "put" THEN q.ct ELSE NoCt
<1>1. /\ q.pc \in {"put", "erase"} /\ UNCHANGED <<lxc, roots, ctmixed, ctfaults>>
      /\ crec' = [crec EXCEPT ![q.id] = c] /\ CtEnd(r)
  BY DEF PutCt, EraseCt, cthost, cthist
<1>2. q \in ReqSet /\ AtStep(q) /\ ctfaults \in Nat /\ lxc \in [CtNames -> LxcSet]
  BY DEF CtInv, CtTyped
<1>3. q.id \in CtIds /\ n \in CtNames /\ q.ct \in CtSet /\ n # "none"
  BY <1>1, <1>2 DEF AtStep, ReqSet
<1>4. /\ creq' \in [CtReqs -> ReqSet] /\ creq'[r] = NoCtReq
      /\ \A p \in CtReqs : p # r => creq'[p] = creq[p]
  BY <1>1, NobodyThere DEF CtEnd, CtInv, CtTyped
<1>5. c \in CtSet /\ (c = NoCt \/ c.name \in CtNames)
  BY <1>3, NobodyThere
<1> HIDE DEF c
<1>6. /\ crec' \in [CtIds -> CtSet] /\ crec'[q.id] = c
      /\ \A i \in CtIds : i # q.id => crec'[i] = crec[i]
  BY <1>1, <1>3, <1>5 DEF CtInv, CtTyped
<1>7. CtTyped'
  BY <1>1, <1>4, <1>5, <1>6 DEF CtInv, CtTyped
<1>8. TornDown(creq[r])' /\ InTransit(creq[r])' /\ AtStep(creq'[r])
  BY <1>4, NobodyThere DEF TornDown, InTransit, NoCtReq, Fresh, Leaving
<1>9. ASSUME ~ctmixed, ctfaults' = 0 PROVE OneEach' /\ OthersAgree(creq[r])'
  <2>1. OneEach /\ InTransit(q) /\ OthersAgree(q)
    BY <1>1, <1>9, NobodyThere DEF CtInv
  <2>2. CASE q.pc = "put" /\ q.op = "create"
    <3>1. /\ CtExists(n) /\ n \in roots /\ (\A i \in CtIds : crec[i].name # n) /\ crec[q.id] = NoCt
          /\ c.name = n
      BY <2>1, <2>2 DEF InTransit, Fresh, c
    <3>2. crec'[q.id].name = n /\ crec[q.id].name = "none"
      BY <1>6, <3>1, NobodyThere
    <3>3. OneEach'
      BY <1>6, <2>1, <3>1, <3>2 DEF OneEach
    <3>4. ASSUME NEW m \in CtNames, m = n PROVE Agree(m)'
      BY <1>1, <1>3, <3>1, <3>2, <3>4 DEF Agree, CtExists
    <3>5. ASSUME NEW m \in CtNames, m # n PROVE Agree(m)'
      <4>1. Agree(m)
        BY <2>1, <3>5 DEF OthersAgree
      <4>2. (\E i \in CtIds : crec'[i].name = m) <=> (\E i \in CtIds : crec[i].name = m)
        BY <1>6, <3>2, <3>5
      <4> QED
        BY <1>1, <4>1, <4>2 DEF Agree, CtExists
    <3>6. \A m \in CtNames : Agree(m)'
      BY <3>4, <3>5
    <3> QED
      BY <3>3, <3>6 DEF OthersAgree
  <2>3. CASE q.pc = "put" /\ q.op # "create"
    <3>1. c.name = crec[q.id].name /\ ~Fresh(q) /\ ~Leaving(q)
      BY <2>1, <2>3 DEF InTransit, Fresh, Leaving, c
    <3>2. \A i \in CtIds : crec'[i].name = crec[i].name
      BY <1>6, <3>1
    <3>3. OneEach'
      BY <2>1, <3>2 DEF OneEach
    <3>4. ASSUME NEW m \in CtNames PROVE Agree(m)'
      <4>1. Agree(m)
        BY <2>1, <3>1 DEF OthersAgree
      <4> QED
        BY <1>1, <3>2, <4>1 DEF Agree, CtExists
    <3> QED
      BY <3>3, <3>4 DEF OthersAgree
  <2>4. CASE q.pc = "erase"
    <3>1. q.op = "delete" /\ Leaving(q)
      BY <1>2, <2>4 DEF AtStep, Leaving
    <3>2. ~CtExists(n) /\ n \notin roots /\ crec[q.id].name = n /\ c = NoCt
      BY <2>1, <2>4, <3>1 DEF InTransit, c
    <3>3. crec'[q.id].name = "none"
      BY <1>6, <3>2, NobodyThere
    <3>4. \A i \in CtIds : i # q.id => crec[i].name # n
      BY <1>3, <2>1, <3>2 DEF OneEach
    <3>5. OneEach'
      BY <1>6, <2>1, <3>3 DEF OneEach
    <3>6. ASSUME NEW m \in CtNames, m = n PROVE Agree(m)'
      BY <1>1, <1>3, <1>6, <3>2, <3>3, <3>4, <3>6 DEF Agree, CtExists
    <3>7. ASSUME NEW m \in CtNames, m # n PROVE Agree(m)'
      <4>1. Agree(m) /\ m # "none"
        BY <2>1, <3>7 DEF OthersAgree
      <4>2. (\E i \in CtIds : crec'[i].name = m) <=> (\E i \in CtIds : crec[i].name = m)
        BY <1>6, <3>2, <3>3, <3>7, <4>1
      <4> QED
        BY <1>1, <4>1, <4>2 DEF Agree, CtExists
    <3>8. \A m \in CtNames : Agree(m)'
      BY <3>6, <3>7
    <3> QED
      BY <3>5, <3>8 DEF OthersAgree
  <2> QED
    BY <1>1, <2>2, <2>3, <2>4
<1> QED
  BY <1>1, <1>4, <1>7, <1>8, <1>9, CtFrame

\* A step that is neither of a create nor of a delete that has let go of its container moves on.
LEMMA CtPlainMove ==
    ASSUME CtInv, NEW r \in CtReqs, NEW pc \in CtSteps, CtTo(r, pc),
           creq[r].pc \in {"cgroup", "kill", "power", "state", "list", "exists"},
           pc \in {"put", "undo", "exists", "capture", "rollback", "unsnap"},
           pc = "undo" => creq[r].op = "delete",
           pc = "exists" => creq[r].op = "rollback",
           UNCHANGED <<crec, roots, ctmixed, ctfaults>>, lxc' \in [CtNames -> LxcSet],
           \A n \in CtNames : lxc'[n].power = "absent" <=> lxc[n].power = "absent"
    PROVE  CtInv'
<1> DEFINE q == creq[r]
<1>1. q \in ReqSet /\ AtStep(q) /\ ctfaults \in Nat
  BY DEF CtInv, CtTyped
<1>2. q.id \in CtIds /\ q.ct.name \in CtNames /\ q.op # "create" /\ q.op # "none" /\ ~Fresh(q) /\ ~Leaving(q)
  BY <1>1 DEF AtStep, Fresh, Leaving
<1>3. /\ creq' \in [CtReqs -> ReqSet] /\ creq'[r].pc = pc /\ creq'[r].op = q.op
      /\ creq'[r].id = q.id /\ creq'[r].ct = q.ct /\ creq'[r].arg = q.arg
      /\ \A p \in CtReqs : p # r => creq'[p] = creq[p]
  BY CtMoved
<1>4. AtStep(creq'[r])
  BY <1>1, <1>2, <1>3 DEF AtStep
<1>5. TornDown(creq[r])'
  BY <1>2, <1>3 DEF TornDown
<1>6. ASSUME ~ctmixed, ctfaults' = 0 PROVE InTransit(creq[r])'
  <2>1. InTransit(q)
    BY <1>6 DEF CtInv
  <2> QED
    BY <1>2, <1>3, <2>1 DEF InTransit, Fresh, Leaving
<1>7. ctfaults' \in Nat /\ ctfaults' >= ctfaults
  BY <1>1
<1> QED
  BY <1>2, <1>3, <1>4, <1>5, <1>6, <1>7, CtMoveStep

\* lxc-start of a new container, which is stopped and has its dataset unless somebody interfered.
LEMMA StartCreatedStep ==
    ASSUME CtInv, NEW r \in CtReqs, StartCreated(r)
    PROVE  CtInv'
<1> DEFINE q == creq[r]
           n == q.ct.name
<1>1. q.pc = "start" /\ UNCHANGED <<crec, roots, ctmixed, ctfaults>>
  BY DEF StartCreated, cthist
<1>2. q \in ReqSet /\ AtStep(q) /\ ctfaults \in Nat /\ lxc \in [CtNames -> LxcSet]
  BY DEF CtInv, CtTyped
<1>3. q.id \in CtIds /\ n \in CtNames /\ q.op = "create" /\ Fresh(q)
  BY <1>1, <1>2 DEF AtStep, Fresh
<1>4. ctfaults' \in Nat /\ ctfaults' >= ctfaults
  BY <1>1, <1>2
<1>5. ASSUME ~ctmixed, ctfaults' = 0
      PROVE  InTransit(q) /\ lxc[n].power = "stopped" /\ n \in roots
  <2>1. InTransit(q)
    BY <1>1, <1>5 DEF CtInv
  <2> QED
    BY <1>1, <1>3, <2>1 DEF InTransit
<1>6. CASE lxc[n].power = "stopped" /\ n \in roots
  <2> DEFINE c == [lxc[n] EXCEPT !.power = "running", !.cgroup = lxc[n].conf]
  <2>1. lxc' = [lxc EXCEPT ![n] = c] /\ CtTo(r, "put")
    BY <1>6 DEF StartCreated
  <2>2. c \in LxcSet /\ c.power = "running"
    BY <1>2, <1>3 DEF LxcSet
  <2> HIDE DEF c
  <2>3. /\ lxc' \in [CtNames -> LxcSet] /\ lxc'[n].power = "running"
        /\ \A m \in CtNames : m # n => lxc'[m] = lxc[m]
    BY <1>2, <1>3, <2>1, <2>2
  <2>4. \A m \in CtNames : lxc'[m].power = "absent" <=> lxc[m].power = "absent"
    BY <1>6, <2>3
  <2>5. /\ creq' \in [CtReqs -> ReqSet] /\ creq'[r].pc = "put" /\ creq'[r].op = "create"
        /\ creq'[r].id = q.id /\ creq'[r].ct = q.ct /\ creq'[r].arg = q.arg
        /\ \A p \in CtReqs : p # r => creq'[p] = creq[p]
    BY <1>3, <2>1, CtMoved DEF CtSteps
  <2>6. AtStep(creq'[r]) /\ Fresh(creq'[r])
    BY <1>2, <1>3, <2>5 DEF AtStep, Fresh
  <2>7. TornDown(creq[r])'
    BY <2>5 DEF TornDown
  <2>8. ASSUME ~ctmixed, ctfaults' = 0 PROVE InTransit(creq[r])'
    BY <1>1, <1>3, <1>5, <2>3, <2>5, <2>8 DEF InTransit, Fresh, Leaving, CtExists
  <2> QED
    BY <1>1, <1>4, <2>3, <2>4, <2>5, <2>6, <2>7, <2>8, CtMoveStep
<1>7. CASE ~(lxc[n].power = "stopped" /\ n \in roots)
  <2>1. CtEnd(r) /\ lxc' = lxc
    BY <1>7 DEF StartCreated
  <2>2. ~(~ctmixed /\ ctfaults' = 0)
    BY <1>5, <1>7
  <2> QED
    BY <1>1, <1>4, <2>1, <2>2, CtEndStep
<1> QED
  BY <1>6, <1>7

\* A change to what LXC has under one name, which neither makes nor removes a container.
LEMMA LxcChanged ==
    ASSUME NEW n \in CtNames, NEW c \in LxcSet, lxc \in [CtNames -> LxcSet],
           lxc' = [lxc EXCEPT ![n] = c], c.power = "absent" <=> lxc[n].power = "absent"
    PROVE  /\ lxc' \in [CtNames -> LxcSet]
           /\ \A m \in CtNames : lxc'[m].power = "absent" <=> lxc[m].power = "absent"
<1>1. /\ lxc' \in [CtNames -> LxcSet] /\ lxc'[n] = c
      /\ \A m \in CtNames : m # n => lxc'[m] = lxc[m]
  OBVIOUS
<1> QED
  BY <1>1

\* lxc-cgroup and lxc-stop -k change what runs, never which containers there are.
LEMMA CtKillStep ==
    ASSUME CtInv, NEW r \in CtReqs, SetCgroup(r) \/ KillCt(r)
    PROVE  CtInv'
<1> DEFINE q == creq[r]
           n == q.ct.name
<1>1. q.pc \in {"cgroup", "kill"} /\ UNCHANGED <<crec, roots, ctmixed, ctfaults>>
  BY DEF SetCgroup, KillCt, cthist
<1>2. q \in ReqSet /\ AtStep(q) /\ lxc \in [CtNames -> LxcSet]
  BY DEF CtInv, CtTyped
<1>3. n \in CtNames /\ q.ct.limit \in ArgSet
  BY <1>1, <1>2 DEF AtStep, ReqSet, CtSet
<1>4. PICK c \in LxcSet : /\ lxc' = [lxc EXCEPT ![n] = c]
                          /\ c.power = "absent" <=> lxc[n].power = "absent"
  <2>1. CASE lxc' = lxc
    <3>1. lxc' = [lxc EXCEPT ![n] = lxc[n]] /\ lxc[n] \in LxcSet
      BY <1>2, <1>3, <2>1
    <3> QED
      BY <3>1
  <2>2. CASE lxc' = [lxc EXCEPT ![n].cgroup = q.ct.limit]
    <3>1. /\ [lxc[n] EXCEPT !.cgroup = q.ct.limit] \in LxcSet
          /\ [lxc[n] EXCEPT !.cgroup = q.ct.limit].power = lxc[n].power
      BY <1>2, <1>3 DEF LxcSet
    <3> QED
      BY <2>2, <3>1
  <2>3. CASE CtExists(n) /\ lxc' = [lxc EXCEPT ![n].power = "stopped", ![n].cgroup = "none"]
    <3>1. /\ [lxc[n] EXCEPT !.power = "stopped", !.cgroup = "none"] \in LxcSet
          /\ [lxc[n] EXCEPT !.power = "stopped", !.cgroup = "none"].power = "stopped"
      <4>1. "none" \in ArgSet /\ lxc[n] \in LxcSet
        BY <1>2, <1>3 DEF ArgSet
      <4> QED
        BY <4>1 DEF LxcSet
    <3>2. lxc' = [lxc EXCEPT ![n] = [lxc[n] EXCEPT !.power = "stopped", !.cgroup = "none"]]
      BY <2>3
    <3> HIDE DEF n
    <3>3. lxc[n].power # "absent"
      BY <2>3 DEF CtExists
    <3> QED
      BY <3>1, <3>2, <3>3
  <2> QED
    BY <2>1, <2>2, <2>3 DEF SetCgroup, KillCt
<1>5. /\ lxc' \in [CtNames -> LxcSet]
      /\ \A m \in CtNames : lxc'[m].power = "absent" <=> lxc[m].power = "absent"
  BY <1>2, <1>3, <1>4, LxcChanged
<1>6. \/ q.pc = "cgroup" /\ CtTo(r, "put")
      \/ q.pc = "kill" /\ CtTo(r, "undo") /\ q.op = "delete"
  BY <1>2 DEF SetCgroup, KillCt, AtStep
<1>7. "put" \in CtSteps /\ "undo" \in CtSteps
  BY DEF CtSteps
<1>8. CASE q.pc = "cgroup" /\ CtTo(r, "put")
  BY <1>1, <1>5, <1>7, <1>8, CtPlainMove
<1>9. CASE q.pc = "kill" /\ CtTo(r, "undo") /\ q.op = "delete"
  BY <1>1, <1>5, <1>7, <1>9, CtPlainMove
<1> QED
  BY <1>6, <1>8, <1>9

\* What a power action leaves of a container that it accepts.
LEMMA PoweredExists ==
    ASSUME NEW n \in CtNames, NEW a \in CtActions, lxc \in [CtNames -> LxcSet], CtPowerOk(n, a)
    PROVE  /\ lxc[n].power # "absent"
           /\ CtPowered(lxc[n], a) \in LxcSet /\ CtPowered(lxc[n], a).power # "absent"
<1>1. lxc[n] \in LxcSet /\ "none" \in ArgSet /\ lxc[n].conf \in ArgSet
  BY DEF LxcSet, ArgSet
<1>2. CASE a = "start" \/ a = "restart"
  <2>1. CtPowered(lxc[n], a) = [lxc[n] EXCEPT !.power = "running", !.cgroup = lxc[n].conf]
    BY <1>2 DEF CtPowered
  <2>2. lxc[n].power # "absent"
    BY <1>2 DEF CtPowerOk, CtExists
  <2> QED
    BY <1>1, <2>1, <2>2 DEF LxcSet
<1>3. CASE a = "stop"
  <2>1. CtPowered(lxc[n], a) = [lxc[n] EXCEPT !.power = "stopped", !.cgroup = "none"]
    BY <1>3 DEF CtPowered
  <2>2. lxc[n].power # "absent"
    BY <1>3 DEF CtPowerOk
  <2> QED
    BY <1>1, <2>1, <2>2 DEF LxcSet
<1>4. CASE a = "freeze"
  <2>1. CtPowered(lxc[n], a) = [lxc[n] EXCEPT !.power = "frozen"]
    BY <1>4 DEF CtPowered
  <2>2. lxc[n].power # "absent"
    BY <1>4 DEF CtPowerOk
  <2> QED
    BY <1>1, <2>1, <2>2 DEF LxcSet
<1>5. CASE a = "unfreeze"
  <2>1. CtPowered(lxc[n], a) = [lxc[n] EXCEPT !.power = "running"]
    BY <1>5 DEF CtPowered
  <2>2. lxc[n].power # "absent"
    BY <1>5 DEF CtPowerOk
  <2> QED
    BY <1>1, <2>1, <2>2 DEF LxcSet
<1> QED
  BY <1>2, <1>3, <1>4, <1>5 DEF CtActions

\* A power action.
LEMMA CtPowerStep ==
    ASSUME CtInv, NEW r \in CtReqs, PowerCt(r)
    PROVE  CtInv'
<1> DEFINE q == creq[r]
           n == q.ct.name
<1>1. q.pc = "power" /\ UNCHANGED <<crec, roots, ctmixed, ctfaults>>
  BY DEF PowerCt, cthist
<1>2. q \in ReqSet /\ AtStep(q) /\ ctfaults \in Nat /\ lxc \in [CtNames -> LxcSet]
  BY DEF CtInv, CtTyped
<1>3. n \in CtNames /\ q.op = "power" /\ q.arg \in CtActions /\ ~Fresh(q) /\ ~Leaving(q)
  BY <1>1, <1>2 DEF AtStep, Fresh, Leaving
<1>4. CASE CtPowerOk(n, q.arg)
  <2> DEFINE c == CtPowered(lxc[n], q.arg)
  <2>1. lxc' = [lxc EXCEPT ![n] = c] /\ CtTo(r, "put")
    BY <1>4 DEF PowerCt
  <2>2. lxc[n].power # "absent" /\ c \in LxcSet /\ c.power # "absent"
    BY <1>2, <1>3, <1>4, PoweredExists
  <2> HIDE DEF c
  <2>3. /\ lxc' \in [CtNames -> LxcSet]
        /\ \A m \in CtNames : lxc'[m].power = "absent" <=> lxc[m].power = "absent"
    BY <1>2, <1>3, <2>1, <2>2, LxcChanged
  <2>4. "put" \in CtSteps
    BY DEF CtSteps
  <2> QED
    BY <1>1, <2>1, <2>3, <2>4, CtPlainMove
<1>5. CASE ~CtPowerOk(n, q.arg)
  <2>1. CtEnd(r) /\ lxc' = lxc
    BY <1>5 DEF PowerCt
  <2> QED
    BY <1>1, <1>2, <1>3, <2>1, CtEndStep
<1> QED
  BY <1>4, <1>5

\* The checks before a rollback and a snapshot's removal, and the snapshot commands, which touch
\* neither a container nor its record.
LEMMA CtSnapshotStep ==
    ASSUME CtInv, NEW r \in CtReqs,
           \/ CheckState(r) \/ ListCt(r) \/ CaptureCt(r) \/ LookForSnapshot(r)
           \/ RollbackCt(r) \/ DestroySnapshot(r)
    PROVE  CtInv'
<1> DEFINE q == creq[r]
<1>1. /\ q.pc \in {"state", "list", "capture", "exists", "rollback", "unsnap"}
      /\ UNCHANGED <<crec, lxc, roots, ctmixed, ctfaults>>
  BY DEF CheckState, ListCt, CaptureCt, LookForSnapshot, RollbackCt, DestroySnapshot, cthist, cthost
<1>2. q \in ReqSet /\ AtStep(q) /\ ctfaults \in Nat /\ lxc \in [CtNames -> LxcSet]
  BY DEF CtInv, CtTyped
<1>3. ~Fresh(q) /\ ~Leaving(q) /\ (q.pc = "exists" => q.op = "rollback" \/ q.op = "unsnap")
  BY <1>1, <1>2 DEF AtStep, Fresh, Leaving
<1>4. CASE CtEnd(r)
  BY <1>1, <1>2, <1>3, <1>4, CtEndStep
<1>5. /\ "exists" \in CtSteps /\ "capture" \in CtSteps /\ "rollback" \in CtSteps /\ "unsnap" \in CtSteps
      /\ \A m \in CtNames : lxc'[m].power = "absent" <=> lxc[m].power = "absent"
      /\ lxc' \in [CtNames -> LxcSet]
  BY <1>1, <1>2 DEF CtSteps
<1>6. CASE q.pc = "state" /\ q.op = "rollback" /\ CtTo(r, "exists")
  BY <1>1, <1>5, <1>6, CtPlainMove
<1>7. CASE q.pc = "list" /\ CtTo(r, "capture")
  BY <1>1, <1>5, <1>7, CtPlainMove
<1>8. CASE q.pc = "exists" /\ CtTo(r, q.op)
  <2>1. CASE q.op = "rollback"
    BY <1>1, <1>5, <1>8, <2>1, CtPlainMove
  <2>2. CASE q.op = "unsnap"
    BY <1>1, <1>5, <1>8, <2>2, CtPlainMove
  <2> QED
    BY <1>3, <1>8, <2>1, <2>2
<1> QED
  BY <1>4, <1>6, <1>7, <1>8
  DEF CheckState, ListCt, CaptureCt, LookForSnapshot, RollbackCt, DestroySnapshot

\* A request is refused after its teardown, or cut off by a fault.
LEMMA CtStopStep ==
    ASSUME CtInv, NEW r \in CtReqs, CreateFailed(r) \/ CtEnds(r)
    PROVE  CtInv'
<1>1. /\ CtEnd(r) /\ UNCHANGED <<crec, lxc, roots, ctmixed>>
  BY DEF CreateFailed, CtEnds, CtFault, cthist, cthost
<1>2. ctfaults \in Nat /\ AtStep(creq[r]) /\ creq[r] \in ReqSet
  BY DEF CtInv, CtTyped
<1>3. CASE CreateFailed(r)
  <2>1. creq[r].pc = "failed" /\ ctfaults' = ctfaults
    BY <1>3 DEF CreateFailed, cthist
  <2>2. ~Fresh(creq[r]) /\ ~Leaving(creq[r])
    BY <2>1 DEF Fresh, Leaving
  <2> QED
    BY <1>1, <1>2, <2>1, <2>2, CtEndStep
<1>4. CASE CtEnds(r)
  <2>1. ctfaults' = ctfaults + 1
    BY <1>4 DEF CtEnds, CtFault
  <2>2. ctfaults' \in Nat /\ ctfaults' >= ctfaults /\ ctfaults' # 0
    BY <1>2, <2>1
  <2>3. CASE creq[r].pc # "idle"
    BY <1>1, <2>2, <2>3, CtEndStep
  <2>4. CASE creq[r].pc = "idle"
    <3>1. creq'[r] = NoCtReq /\ creq' \in [CtReqs -> ReqSet]
          /\ \A q \in CtReqs : q # r => creq'[q] = creq[q]
      BY <1>1, NobodyThere DEF CtEnd, CtInv, CtTyped
    <3>2. CtTyped'
      BY <1>1, <2>2, <3>1 DEF CtInv, CtTyped
    <3>3. \A q \in CtReqs : AtStep(creq'[q])
      BY <3>1, NobodyThere DEF CtInv
    <3>4. ASSUME ~ctmixed PROVE Alone' /\ \A q \in CtReqs : TornDown(creq[q])'
      <4>1. Alone /\ \A q \in CtReqs : TornDown(creq[q])
        BY <3>4 DEF CtInv
      <4>2. TornDown(creq[r])'
        BY <3>1, NobodyThere DEF TornDown
      <4>3. \A q \in CtReqs : q # r => TornDown(creq[q])'
        BY <1>1, <3>1, <4>1 DEF TornDown, CtExists
      <4>4. Alone'
        BY <3>1, <4>1 DEF Alone
      <4> QED
        BY <4>2, <4>3, <4>4
    <3> QED
      BY <1>1, <2>2, <3>2, <3>3, <3>4 DEF CtInv
  <2> QED
    BY <2>3, <2>4
<1> QED
  BY <1>3, <1>4

LEMMA CtStepInv == CtInv /\ [CtNext]_ctvars => CtInv'
<1> SUFFICES ASSUME CtInv, [CtNext]_ctvars PROVE CtInv'
  OBVIOUS
<1>1. CASE UNCHANGED ctvars
  <2>1. UNCHANGED <<crec, lxc, roots, creq, ctmixed, ctfaults>>
    BY <1>1 DEF ctvars
  <2> QED
    BY <2>1 DEF CtInv, CtTyped, Alone, TornDown, OneEach, InTransit, OthersAgree, Agree, Fresh, Leaving,
                CtExists
<1>2. CASE CtNext
  <2>0. NoCt \in CtSet /\ "none" \in ArgSet /\ FALSE \in BOOLEAN
    BY NobodyThere DEF ArgSet
  <2>1. ASSUME NEW r \in CtReqs, NEW i \in CtIds, NEW n \in CtNames, NEW l \in CtLimits,
               NEW s \in BOOLEAN, CreateCt(r, i, n, l, s)
        PROVE  CtInv'
    <3> DEFINE ct == [name |-> n, limit |-> l]
    <3>1. ct \in CtSet /\ ct.name \in CtNames
      BY DEF CtSet, ArgSet
    <3>2. crec[i] = NoCt /\ CtRequest(r, "create", i, ct, "none", s)
      BY <2>1 DEF CreateCt
    <3> HIDE DEF ct
    <3> QED
      BY <2>0, <3>1, <3>2, CtRequestStep
  <2>2. ASSUME NEW r \in CtReqs, NEW i \in CtIds, NEW l \in CtLimits,
               CtRequest(r, "update", i, NoCt, l, FALSE)
        PROVE  CtInv'
    <3>1. l \in ArgSet
      BY DEF ArgSet
    <3> QED
      BY <2>0, <2>2, <3>1, CtRequestStep
  <2>3. ASSUME NEW r \in CtReqs, NEW i \in CtIds, NEW op \in {"delete", "migrate"},
               CtRequest(r, op, i, NoCt, "none", FALSE)
        PROVE  CtInv'
    <3>1. op = "delete" \/ op = "migrate"
      OBVIOUS
    <3> QED
      BY <2>0, <2>3, <3>1, CtRequestStep
  <2>4. ASSUME NEW r \in CtReqs, NEW i \in CtIds, NEW a \in CtActions,
               CtRequest(r, "power", i, NoCt, a, FALSE)
        PROVE  CtInv'
    <3>1. a \in ArgSet
      BY DEF ArgSet
    <3> QED
      BY <2>0, <2>4, <3>1, CtRequestStep
  <2>5. ASSUME NEW r \in CtReqs, NEW i \in CtIds, NEW t \in CtTags,
               NEW op \in {"snapshot", "rollback", "unsnap"}, CtRequest(r, op, i, NoCt, t, FALSE)
        PROVE  CtInv'
    <3>1. t \in ArgSet /\ (op = "snapshot" \/ op = "rollback" \/ op = "unsnap")
      BY DEF ArgSet
    <3> QED
      BY <2>0, <2>5, <3>1, CtRequestStep
  <2>6. ASSUME NEW r \in CtReqs, NEW ok \in BOOLEAN, LxcDestroy(r, ok) PROVE CtInv'
    BY <2>6, LxcDestroyStep
  <2>7. ASSUME NEW r \in CtReqs, NEW ok \in BOOLEAN, DestroyRemnant(r, ok) PROVE CtInv'
    BY <2>7, RemnantStep
  <2> QED
    BY <1>2, <2>1, <2>2, <2>3, <2>4, <2>5, <2>6, <2>7, CtReadStep, LxcCreateStep, CtConfigStep,
       CtRecordStep, StartCreatedStep, CtKillStep, CtPowerStep, CtSnapshotStep, CtStopStep
    DEF CtNext, CtActions
<1> QED
  BY <1>1, <1>2

\* create of src/src/services/lxc.rs: whatever the sets of containers, names and requests, a create
\* that failed on the quota or the configuration, with no request beside it, has left the container
\* only if lxc-destroy failed too, and the dataset only if the zfs destroy after it failed as well.
THEOREM FailedCreatesAreTornDown == CtSpec => []FailedCtLeavesNothing
<1>1. CtInv => FailedCtLeavesNothing
  <2> SUFFICES ASSUME CtInv, ~ctmixed, NEW r \in CtReqs, CtAt(r, "create", "failed")
               PROVE  /\ CtExists(creq[r].ct.name) => creq[r].lossy
                      /\ creq[r].ct.name \in roots => creq[r].lossy /\ creq[r].left
    BY DEF FailedCtLeavesNothing
  <2>1. TornDown(creq[r])
    BY DEF CtInv
  <2> QED
    BY <2>1 DEF TornDown, CtAt
<1> QED
  BY <1>1, CtInitInv, CtStepInv, PTL DEF CtSpec

\* The operations of src/src/services/lxc.rs one after another, none of them cut off, keep records,
\* containers and datasets in step, however many there are.
THEOREM ContainersHaveRecords == CtSpec => []CtAgreeWhenSerial
<1>1. CtInv => CtAgreeWhenSerial
  <2> SUFFICES ASSUME CtInv, ~ctmixed, ctfaults = 0, \A r \in CtReqs : creq[r] = NoCtReq,
                      NEW n \in CtNames
               PROVE  /\ CtExists(n) <=> n \in roots
                      /\ CtExists(n) <=> Cardinality({i \in CtIds : crec[i].name = n}) = 1
                      /\ ~CtExists(n) <=> \A i \in CtIds : crec[i].name # n
    BY DEF CtAgreeWhenSerial
  <2>1. OneEach /\ Agree(n) /\ n # "none"
    BY DEF CtInv
  <2>2. CASE CtExists(n)
    <3>1. PICK i \in CtIds : crec[i].name = n
      BY <2>1, <2>2 DEF Agree
    <3>2. {j \in CtIds : crec[j].name = n} = {i}
      BY <2>1, <3>1 DEF OneEach
    <3>3. Cardinality({j \in CtIds : crec[j].name = n}) = 1
      BY <3>2, FS_Singleton
    <3>4. n \in roots
      BY <2>1, <2>2 DEF Agree
    <3> QED
      BY <2>2, <3>1, <3>3, <3>4
  <2>3. CASE ~CtExists(n)
    <3>1. {j \in CtIds : crec[j].name = n} = {}
      BY <2>1, <2>3 DEF Agree
    <3>2. Cardinality({j \in CtIds : crec[j].name = n}) = 0
      BY <3>1, FS_EmptySet
    <3>3. n \notin roots /\ \A j \in CtIds : crec[j].name # n
      BY <2>1, <2>3 DEF Agree
    <3> QED
      BY <2>3, <3>2, <3>3
  <2> QED
    BY <2>2, <2>3
<1> QED
  BY <1>1, CtInitInv, CtStepInv, PTL DEF CtSpec

HIDE CtAssumption
HIDE ConAssumption

-----------------------------------------------------------------------------
(* Snapshots and clones: the inductive invariant.                          *)

CloneSteps == {"copy", "promote", "define", "record", "undoCopies", "undoBases"}
DiskSteps  == {"idle", "running", "restore", "file", "stopped", "list", "capture", "check", "save", "freeze",
               "thaw", "end", "cleanup", "rollback", "delete"}
SnapReqSet ==
    [op : {"none", "disk", "ram", "restore", "rollback", "delete", "clone"}, v : SnapVms \cup {"none"},
     tag : Tags \cup {"base", "none"}, pc : DiskSteps \cup CloneSteps, todo : SUBSET Sources,
     done : SUBSET Sources, full : BOOLEAN, ok : BOOLEAN, froze : BOOLEAN, lossy : BOOLEAN]
SnapAll == [ds : Sources \cup Copies, tag : Tags \cup {"base"}, at : Int]

\* What a request is about, and the steps it may be at.
SnapReqOk(q) ==
    /\ q.op = "none" => q.pc = "idle"
    /\ q.op # "none" => q.v \in SnapVms
    /\ q.op = "clone" => q.pc \in CloneSteps \cup {"capture"}
    /\ q.op \notin {"clone", "none"} => q.tag \in Tags /\ q.pc \in DiskSteps
    /\ q.pc = "stopped" => q.op = "rollback"
    /\ q.pc = "file" => q.op = "delete"
    /\ q.pc = "check" => q.op \in {"rollback", "delete"}
SnapTyped ==
    /\ sreq \in [SnapReqs -> SnapReqSet] /\ \A r \in SnapReqs : SnapReqOk(sreq[r])
    /\ snaps \subseteq SnapAll /\ taken \in Int

\* The snapshots of one VM in one pool under one tag are of one moment.
OneMoment ==
    \A v \in SnapVms, s, t \in snaps :
        s.ds \in DisksOf[v] /\ t.ds \in DisksOf[v] /\ PoolOf[s.ds] = PoolOf[t.ds] /\ s.tag = t.tag =>
            s.at = t.at

\* Of a disk and its copy, one at most is a clone, of the other.
OriginOk ==
    /\ Sources \subseteq DOMAIN origin /\ origin = [e \in DOMAIN origin |-> origin[e]]
    /\ DOMAIN origin \subseteq Sources \cup Copies
    /\ \A d \in Sources :
         /\ origin[d] \in {NoOrigin, <<CopyOf[d], "base">>}
         /\ CopyOf[d] \in DOMAIN origin => origin[CopyOf[d]] \in {NoOrigin, <<d, "base">>}
         /\ origin[d] # NoOrigin => CopyOf[d] \in DOMAIN origin /\ origin[CopyOf[d]] = NoOrigin

\* A VM is cloned by one request at a time.
ClonesApart ==
    \A r, s \in SnapReqs : r # s /\ sreq[r].op = "clone" /\ sreq[s].op = "clone" => sreq[r].v # sreq[s].v

\* The copy of a disk is gone, or the disk has become a clone of it.
Undone(d) == CopyOf[d] \in DOMAIN origin => origin[d] = <<CopyOf[d], "base">>

\* A linked clone changes no disk of the source, and a disk that was promoted has no base any
\* more; a teardown has removed the copies, and then the bases, that it is done with.
CloneOk(q) ==
    q.op = "clone" =>
      /\ q.done \subseteq DisksOf[q.v] /\ q.todo \subseteq DisksOf[q.v]
      /\ q.pc \in {"capture", "copy", "promote", "define", "record"} =>
            \A d \in q.done : CopyOf[d] \in DOMAIN origin
      /\ ~q.full => q.pc # "promote"
      /\ ~q.full \/ q.pc = "capture" => \A d \in DisksOf[q.v] : origin[d] = NoOrigin
      /\ \A d \in DisksOf[q.v] \ q.done : CopyOf[d] \in DOMAIN origin => origin[CopyOf[d]] = NoOrigin
      /\ \A d \in DisksOf[q.v] : origin[d] # NoOrigin => ~Has(d, "base")
      /\ ~q.lossy /\ q.pc = "undoCopies" => \A d \in q.done \ q.todo : Undone(d)
      /\ ~q.lossy /\ q.pc = "undoBases" =>
            /\ \A d \in q.done : Undone(d)
            /\ \A d \in DisksOf[q.v] \ q.todo : ~Has(d, "base")

SnapInv == SnapTyped /\ OneMoment /\ OriginOk /\ ClonesApart /\ \A r \in SnapReqs : CloneOk(sreq[r])

\* No two virtual machines have a disk in common.
DisksApart == \A v, w \in SnapVms : v # w => DisksOf[v] \cap DisksOf[w] = {}

-----------------------------------------------------------------------------

\* A disk is no copy, and no two disks have the same copy.
LEMMA CopiesApart ==
    /\ \A d, e \in Sources : CopyOf[d] = CopyOf[e] => d = e
    /\ \A d \in Sources : CopyOf[d] \in Copies
    /\ \A c \in Copies : c \notin Sources /\ \E d \in Sources : c = CopyOf[d]
    /\ \A v \in SnapVms : DisksOf[v] \subseteq Sources
    /\ "base" \notin Tags /\ "none" \notin Sources /\ "none" \notin SnapVms /\ "none" \notin Copies
BY SnapAssumption DEF Sources, Copies, Range, IsInjective

\* At the start there is no snapshot, no clone and no request.
LEMMA SnapInitInv == SnapInit => SnapInv
<1> SUFFICES ASSUME SnapInit PROVE SnapInv
  OBVIOUS
<1>1. PICK S \in SUBSET Copies : origin = [d \in Sources \cup S |-> NoOrigin]
  BY DEF SnapInit
<1>2. NoSnapReq \in SnapReqSet /\ SnapReqOk(NoSnapReq) /\ CloneOk(NoSnapReq) /\ NoSnapReq.op = "none"
  BY DEF NoSnapReq, SnapReqSet, SnapReqOk, CloneOk, DiskSteps
<1>3. \A r \in SnapReqs : sreq[r] = NoSnapReq
  BY DEF SnapInit
<1>4. SnapTyped
  BY <1>2, <1>3 DEF SnapInit, SnapTyped
<1>5. OneMoment
  BY DEF SnapInit, OneMoment
<1>6. OriginOk
  BY <1>1, CopiesApart DEF OriginOk
<1>7. ClonesApart /\ \A r \in SnapReqs : CloneOk(sreq[r])
  BY <1>2, <1>3 DEF ClonesApart
<1> QED
  BY <1>4, <1>5, <1>6, <1>7 DEF SnapInv

\* What one request does to its own entry, when it leaves the other entries alone and stays the
\* clone it is, if it is one.
OwnEntry(r) ==
    /\ sreq' = [sreq EXCEPT ![r] = sreq'[r]]
    /\ sreq'[r] \in SnapReqSet /\ SnapReqOk(sreq'[r])
    /\ sreq'[r].op = "clone" => sreq[r].op = "clone" /\ sreq'[r].v = sreq[r].v

\* A step that adds no snapshot and touches no origin keeps the invariant when the acting request
\* keeps its part of it.
LEMMA SnapQuiet ==
    ASSUME SnapInv, NEW r \in SnapReqs, OwnEntry(r), origin' = origin, snaps' \subseteq snaps,
           taken' \in Int, CloneOk(sreq[r])'
    PROVE  SnapInv'
<1>1. sreq' \in [SnapReqs -> SnapReqSet] /\ \A s \in SnapReqs : s # r => sreq'[s] = sreq[s]
  BY DEF SnapInv, SnapTyped, OwnEntry
<1>2. SnapTyped'
  BY <1>1 DEF SnapInv, SnapTyped, OwnEntry, SnapReqOk
<1>3. OneMoment' /\ OriginOk'
  BY DEF SnapInv, OneMoment, OriginOk
<1>4. ClonesApart'
  BY <1>1 DEF SnapInv, ClonesApart, OwnEntry
<1>5. ASSUME NEW s \in SnapReqs PROVE CloneOk(sreq[s])'
  <2>1. CASE s = r
    BY <2>1
  <2>2. CASE s # r
    BY <2>2, <1>1 DEF SnapInv, CloneOk, Has, Undone
  <2> QED BY <2>1, <2>2
<1> QED
  BY <1>2, <1>3, <1>4, <1>5 DEF SnapInv


\* The same of a request that is no clone after the step.
LEMMA SnapPlain ==
    ASSUME SnapInv, NEW r \in SnapReqs, sreq' = [sreq EXCEPT ![r] = sreq'[r]],
           sreq'[r] \in SnapReqSet, SnapReqOk(sreq'[r]), sreq'[r].op # "clone",
           origin' = origin, snaps' \subseteq snaps, taken' = taken
    PROVE  SnapInv'
BY SnapQuiet DEF OwnEntry, CloneOk, SnapInv, SnapTyped

\* A request that ends leaves an empty entry.
LEMMA SnapEnded ==
    ASSUME SnapInv, NEW r \in SnapReqs, SnapEnd(r), origin' = origin, snaps' \subseteq snaps, taken' = taken
    PROVE  SnapInv'
<1>1. sreq'[r] = NoSnapReq /\ sreq' = [sreq EXCEPT ![r] = sreq'[r]]
  BY DEF SnapEnd, SnapInv, SnapTyped
<1>2. NoSnapReq \in SnapReqSet /\ SnapReqOk(NoSnapReq) /\ NoSnapReq.op = "none"
  BY DEF NoSnapReq, SnapReqSet, SnapReqOk, DiskSteps
<1> QED
  BY <1>1, <1>2, SnapPlain

\* A request that moves on to another disk, or to another step, of what it does.
LEMMA SnapMoves ==
    ASSUME SnapInv, NEW r \in SnapReqs, NEW p \in SnapReqSet, sreq' = [sreq EXCEPT ![r] = p],
           p.op = sreq[r].op, p.v = sreq[r].v, p.tag = sreq[r].tag,
           sreq[r].op \notin {"clone", "none"}, p.pc \in DiskSteps \ {"stopped", "file"},
           p.pc = "check" => sreq[r].op \in {"rollback", "delete"},
           origin' = origin, snaps' \subseteq snaps, taken' = taken
    PROVE  SnapInv'
<1>1. sreq \in [SnapReqs -> SnapReqSet] /\ SnapReqOk(sreq[r])
  BY DEF SnapInv, SnapTyped
<1>2. sreq'[r] = p
  BY <1>1
<1>3. SnapReqOk(p)
  BY <1>1 DEF SnapReqOk
<1> QED
  BY <1>1, <1>2, <1>3, SnapPlain

\* The steps of a request that is no clone, and the disks it has to do.
LEMMA SnapEntry ==
    ASSUME SnapInv, NEW r \in SnapReqs
    PROVE  /\ sreq \in [SnapReqs -> SnapReqSet] /\ sreq[r] \in SnapReqSet /\ SnapReqOk(sreq[r])
           /\ sreq[r].pc \in DiskSteps \ {"idle", "capture"} => sreq[r].op \notin {"clone", "none"}
           /\ sreq[r].op \notin {"clone", "none"} => sreq[r].v \in SnapVms /\ DisksOf[sreq[r].v] \subseteq Sources
           /\ sreq[r].todo \subseteq Sources /\ taken \in Int
           /\ sreq[r].pc \in CloneSteps => sreq[r].op = "clone"
           /\ sreq[r].op = "clone" => sreq[r].v \in SnapVms /\ DisksOf[sreq[r].v] \subseteq Sources /\ CloneOk(sreq[r])
           /\ CloneOk(sreq[r])
<1>1. sreq \in [SnapReqs -> SnapReqSet] /\ SnapReqOk(sreq[r]) /\ taken \in Int
  BY DEF SnapInv, SnapTyped
<1>2. sreq[r] \in SnapReqSet
  BY <1>1
<1>3. sreq[r].pc \in DiskSteps \ {"idle", "capture"} => sreq[r].op \notin {"clone", "none"}
  BY <1>1 DEF SnapReqOk, DiskSteps, CloneSteps
<1>4. sreq[r].pc \in CloneSteps => sreq[r].op = "clone"
  BY <1>1 DEF SnapReqOk, DiskSteps, CloneSteps
<1>5. sreq[r].op # "none" => sreq[r].v \in SnapVms /\ DisksOf[sreq[r].v] \subseteq Sources
  BY <1>1, CopiesApart DEF SnapReqOk
<1>6. sreq[r].todo \subseteq Sources
  BY <1>2 DEF SnapReqSet
<1> QED
  BY <1>1, <1>2, <1>3, <1>4, <1>5, <1>6 DEF SnapInv

\* What every step of a request that is no clone does, but the capture.
LEMMA PlainSteps ==
    ASSUME SnapInv, NEW r \in SnapReqs,
           \/ CheckPower(r) \/ ListRam(r) \/ \E ok \in BOOLEAN : FreezeGuest(r, ok) \/ ThawGuest(r, ok)
           \/ ReadBack(r) \/ SaveRam(r) \/ RestoreRam(r) \/ DeleteRam(r) \/ Abandon(r)
           \/ \E d \in Sources : \/ ListDisk(r, d) \/ CleanUpTag(r, d) \/ CheckDisk(r, d)
                                 \/ RollbackDisk(r, d) \/ DestroyTag(r, d)
    PROVE  SnapInv'
<1> DEFINE q == sreq[r]
<1> DEFINE Quiet == origin' = origin /\ snaps' \subseteq snaps /\ taken' = taken
<1> DEFINE Set(pc, p) == /\ p \in SnapReqSet /\ sreq' = [sreq EXCEPT ![r] = p]
                         /\ p.op = q.op /\ p.v = q.v /\ p.tag = q.tag /\ p.pc = pc
<1>1. /\ sreq \in [SnapReqs -> SnapReqSet] /\ q \in SnapReqSet /\ SnapReqOk(q)
      /\ q.pc \in DiskSteps \ {"idle", "capture"} => q.op \notin {"clone", "none"}
      /\ q.op \notin {"clone", "none"} => q.v \in SnapVms /\ DisksOf[q.v] \subseteq Sources
  BY SnapEntry
<1>2. /\ q.todo \in SUBSET Sources /\ q.ok \in BOOLEAN /\ q.froze \in BOOLEAN
      /\ q.pc \in DiskSteps \cup CloneSteps
  BY <1>1 DEF SnapReqSet
<1>3. ASSUME SnapEnd(r), Quiet PROVE SnapInv'
  BY <1>3, SnapEnded
<1>4. ASSUME NEW pc \in DiskSteps \ {"stopped", "file"}, NEW p, Set(pc, p), Quiet,
             q.op \notin {"clone", "none"}, pc = "check" => q.op \in {"rollback", "delete"}
      PROVE  SnapInv'
  BY <1>4, SnapMoves
<1>5. ASSUME NEW pc \in DiskSteps, SnapTo(r, pc) PROVE Set(pc, [q EXCEPT !.pc = pc])
  BY <1>5, <1>1 DEF SnapTo, SnapReqSet
<1>6. ASSUME NEW d, sreq' = [sreq EXCEPT ![r].todo = @ \ {d}] PROVE Set(q.pc, [q EXCEPT !.todo = @ \ {d}])
  BY <1>6, <1>1 DEF SnapReqSet
<1>7. /\ {"running", "stopped", "list", "freeze", "thaw", "save", "restore", "file", "check", "rollback",
          "delete", "cleanup", "end"} \subseteq DiskSteps \ {"idle", "capture"}
      /\ "capture" \in DiskSteps
  BY DEF DiskSteps
<1> HIDE DEF q, Set, Quiet
<1>8. CASE CheckPower(r)
  <2>1. Quiet
    BY <1>8 DEF CheckPower, zfs, Quiet
  <2>2. q.pc \in {"running", "stopped"} /\ q.op \notin {"clone", "none"}
    BY <1>8, <1>1, <1>7 DEF CheckPower, q
  <2>3. CASE SnapEnd(r)
    BY <2>1, <2>3, <1>3
  <2>4. CASE SnapTo(r, "list")
    BY <2>1, <2>2, <2>4, <1>2, <1>4, <1>5, <1>7
  <2>5. CASE SnapTo(r, "check") /\ q.pc = "stopped"
    <3>1. q.op \in {"rollback", "delete"}
      BY <2>5, <1>1 DEF SnapReqOk
    <3> QED BY <2>1, <2>2, <2>5, <3>1, <1>2, <1>4, <1>5, <1>7
  <2> QED BY <1>8, <2>3, <2>4, <2>5 DEF CheckPower, q
<1>9. CASE ListRam(r)
  <2>1. Quiet
    BY <1>9 DEF ListRam, zfs, Quiet
  <2>2. q.op \notin {"clone", "none"}
    BY <1>9, <1>1, <1>7 DEF ListRam, q
  <2>3. CASE SnapEnd(r)
    BY <2>1, <2>3, <1>3
  <2>4. CASE SnapTo(r, "save") \/ SnapTo(r, "freeze")
    BY <2>1, <2>2, <2>4, <1>2, <1>4, <1>5, <1>7
  <2> QED BY <1>9, <2>3, <2>4 DEF ListRam, q
<1>10. ASSUME NEW ok \in BOOLEAN, FreezeGuest(r, ok) PROVE SnapInv'
  <2>1. Quiet
    BY <1>10 DEF FreezeGuest, zfs, Quiet
  <2>2. q.op \notin {"clone", "none"}
    BY <1>10, <1>1, <1>7 DEF FreezeGuest, q
  <2> DEFINE froze == run[q.v] = "running"
  <2>3. sreq' = [sreq EXCEPT ![r] = [q EXCEPT !.pc = "capture", !.froze = froze, !.todo = DisksOf[q.v]]]
    BY <1>1, <1>10 DEF FreezeGuest, q
  <2>4. froze \in BOOLEAN /\ DisksOf[q.v] \in SUBSET Sources
    BY <2>2, <1>1
  <2> HIDE DEF froze
  <2>5. Set("capture", [q EXCEPT !.pc = "capture", !.froze = froze, !.todo = DisksOf[q.v]])
    BY <2>3, <2>4, <1>1, <1>7 DEF SnapReqSet, Set
  <2> QED BY <2>5,  <2>1, <2>2, <2>3, <1>2, <1>4, <1>7
<1>11. ASSUME NEW ok \in BOOLEAN, ThawGuest(r, ok) PROVE SnapInv'
  <2>1. Quiet
    BY <1>11 DEF ThawGuest, zfs, Quiet
  <2>2. q.op \notin {"clone", "none"}
    BY <1>11, <1>1, <1>7 DEF ThawGuest, q
  <2>3. PICK pc \in {"end", "cleanup"} : sreq' = [sreq EXCEPT ![r].pc = pc, ![r].todo = DisksOf[q.v]]
    BY <1>11 DEF ThawGuest, q
  <2>4. Set(pc, [q EXCEPT !.pc = pc, !.todo = DisksOf[q.v]])
    BY <2>2, <2>3, <1>1, <1>7 DEF SnapReqSet, Set, q
  <2> QED BY <2>4, <2>1, <2>2, <2>3, <1>1, <1>2, <1>4, <1>7
<1>12. CASE ReadBack(r) \/ SaveRam(r) \/ RestoreRam(r) \/ Abandon(r)
  BY <1>12, <1>3 DEF ReadBack, SaveRam, RestoreRam, Abandon, zfs, Quiet
<1>13. CASE DeleteRam(r)
  <2>1. Quiet
    BY <1>13 DEF DeleteRam, zfs, Quiet
  <2>2. q.op = "delete"
    BY <1>13, <1>1 DEF DeleteRam, q, SnapReqOk
  <2>3. CASE SnapEnd(r)
    BY <2>1, <2>3, <1>3
  <2>4. CASE SnapTo(r, "check")
    BY <2>1, <2>2, <2>4, <1>2, <1>4, <1>5, <1>7
  <2> QED BY <1>13, <2>3, <2>4 DEF DeleteRam, q
<1>14. ASSUME NEW d \in Sources, ListDisk(r, d) PROVE SnapInv'
  <2>1. Quiet
    BY <1>14 DEF ListDisk, zfs, Quiet
  <2>2. q.pc = "list" /\ q.op \notin {"clone", "none"}
    BY <1>14, <1>1, <1>7 DEF ListDisk, q
  <2> DEFINE ok == q.ok /\ Has(d, q.tag)
  <2>3. sreq' = [sreq EXCEPT ![r].todo = @ \ {d}, ![r].ok = ok]
    BY <1>14, Zenon DEF ListDisk, q
  <2>4. ok \in BOOLEAN
    OBVIOUS
  <2> HIDE DEF ok
  <2>5. Set("list", [q EXCEPT !.todo = @ \ {d}, !.ok = ok])
    BY <2>2, <2>3, <2>4, <1>1 DEF SnapReqSet, Set, q
  <2> QED BY <2>1, <2>2, <2>5, <1>4, <1>7
<1>15. ASSUME NEW d, sreq' = [sreq EXCEPT ![r].todo = @ \ {d}], Quiet,
              q.pc \in {"cleanup", "check", "rollback", "delete"}
       PROVE  SnapInv'
  <2>1. Set(q.pc, [q EXCEPT !.todo = @ \ {d}])
    BY <1>15, <1>6
  <2>2. q.op \notin {"clone", "none"} /\ (q.pc = "check" => q.op \in {"rollback", "delete"})
    BY <1>15, <1>1, <1>7 DEF SnapReqOk
  <2>3. q.pc \in DiskSteps \ {"stopped", "file"}
    BY <1>15, <1>7
  <2> QED BY <1>15, <2>1, <2>2, <2>3, <1>2, <1>4
<1>16. ASSUME NEW d \in Sources, CleanUpTag(r, d) \/ RollbackDisk(r, d) \/ DestroyTag(r, d) PROVE SnapInv'
  <2>1. Quiet
    BY <1>16 DEF CleanUpTag, RollbackDisk, DestroyTag, Without, Quiet
  <2>2. q.pc \in {"cleanup", "check", "rollback", "delete"}
    BY <1>16 DEF CleanUpTag, RollbackDisk, DestroyTag, q
  <2>3. SnapEnd(r) \/ sreq' = [sreq EXCEPT ![r].todo = @ \ {d}]
    BY <1>16 DEF CleanUpTag, RollbackDisk, DestroyTag, Onward
  <2> QED BY <2>1, <2>2, <2>3, <1>3, <1>15
<1>17. ASSUME NEW d \in Sources, CheckDisk(r, d) PROVE SnapInv'
  <2>1. Quiet /\ q.pc = "check"
    BY <1>17 DEF CheckDisk, zfs, Quiet, q
  <2>2. q.op \in {"rollback", "delete"}
    BY <2>1, <1>1 DEF SnapReqOk
  <2>3. CASE sreq' = [sreq EXCEPT ![r].pc = q.op, ![r].todo = DisksOf[q.v]]
    <3>1. Set(q.op, [q EXCEPT !.pc = q.op, !.todo = DisksOf[q.v]])
      BY <2>2, <2>3, <1>1, <1>7 DEF SnapReqSet, Set, q
    <3> QED BY <2>1, <2>2, <3>1, <1>1, <1>2, <1>4, <1>7
  <2> QED BY <1>17, <2>1, <2>3, <1>3, <1>15 DEF CheckDisk, q
<1> QED
  BY <1>8, <1>9, <1>10, <1>11, <1>12, <1>13, <1>14, <1>16, <1>17

\* A step of one clone leaves the other clones as they are when it acts on no disk but its own:
\* two clones under way are of two virtual machines, which have no disk in common.
LEMMA CloneActs ==
    ASSUME DisksApart, SnapInv, NEW r \in SnapReqs, sreq[r].op = "clone", OwnEntry(r),
           snaps' \subseteq SnapAll, taken' \in Int, OneMoment', OriginOk', CloneOk(sreq[r])',
           \A d \in Sources \ DisksOf[sreq[r].v] :
              /\ origin'[d] = origin[d]
              /\ CopyOf[d] \in DOMAIN origin' <=> CopyOf[d] \in DOMAIN origin
              /\ CopyOf[d] \in DOMAIN origin => origin'[CopyOf[d]] = origin[CopyOf[d]]
              /\ Has(d, "base")' => Has(d, "base")
    PROVE  SnapInv'
<1>1. sreq' \in [SnapReqs -> SnapReqSet] /\ \A s \in SnapReqs : s # r => sreq'[s] = sreq[s]
  BY DEF SnapInv, SnapTyped, OwnEntry
<1>2. SnapTyped'
  BY <1>1 DEF SnapInv, SnapTyped, OwnEntry, SnapReqOk
<1>3. ClonesApart'
  BY <1>1 DEF SnapInv, ClonesApart, OwnEntry
<1>4. ASSUME NEW s \in SnapReqs, s # r PROVE CloneOk(sreq[s])'
  <2>1. sreq'[s] = sreq[s]
    BY <1>1, <1>4
  <2>2. CASE sreq[s].op # "clone"
    BY <2>1, <2>2 DEF CloneOk
  <2>3. CASE sreq[s].op = "clone"
    <3>1. sreq[s].v # sreq[r].v
      BY <1>4, <2>3 DEF SnapInv, ClonesApart
    <3>2. sreq[s].v \in SnapVms /\ sreq[r].v \in SnapVms /\ DisksOf[sreq[s].v] \subseteq Sources
      BY <2>3, SnapEntry
    <3>3. DisksOf[sreq[s].v] \subseteq Sources \ DisksOf[sreq[r].v]
      BY <3>1, <3>2 DEF DisksApart
    <3>4. CloneOk(sreq[s])
      BY DEF SnapInv
    <3>5. sreq[s].done \subseteq DisksOf[sreq[s].v] /\ sreq[s].todo \subseteq DisksOf[sreq[s].v]
      BY <3>4, <2>3 DEF CloneOk
    <3>6. \A d \in DisksOf[sreq[s].v] : /\ origin'[d] = origin[d]
                                        /\ CopyOf[d] \in DOMAIN origin' <=> CopyOf[d] \in DOMAIN origin
                                        /\ CopyOf[d] \in DOMAIN origin => origin'[CopyOf[d]] = origin[CopyOf[d]]
                                        /\ Has(d, "base")' => Has(d, "base")
      BY <3>3
    <3>7. \A d \in DisksOf[sreq[s].v] : Undone(d) => Undone(d)'
      BY <3>6 DEF Undone
    <3> HIDE DEF Undone
    <3> QED
      BY <2>1, <3>4, <3>5, <3>6, <3>7 DEF CloneOk
  <2> QED BY <2>2, <2>3
<1> QED
  BY <1>1, <1>2, <1>3, <1>4 DEF SnapInv

\* A request begins: no other clone of its virtual machine is under way, and no disk of it is
\* a clone itself.
LEMMA StartStep ==
    ASSUME SnapInv, NEW r \in SnapReqs, NEW v \in SnapVms, NEW f, f \in BOOLEAN,
           NEW op \in {"disk", "ram", "restore", "rollback", "delete", "clone"},
           NEW t \in Tags \cup {"base"}, op # "clone" => t \in Tags, Start(r, op, v, t, f)
    PROVE  SnapInv'
<1> DEFINE pc == CASE op = "ram" -> "running" [] op = "restore" -> "restore" [] op = "delete" -> "file"
                   [] op = "rollback" -> "stopped" [] op = "disk" -> "list" [] op = "clone" -> "capture"
<1> DEFINE p == [NoSnapReq EXCEPT !.op = op, !.v = v, !.tag = t, !.full = f, !.todo = DisksOf[v], !.pc = pc]
<1>1. /\ op = "clone" => pc = "capture"
      /\ op # "clone" => pc \in {"running", "restore", "file", "stopped", "list"}
      /\ pc = "stopped" => op = "rollback"
      /\ pc = "file" => op = "delete"
  OBVIOUS
<1>2. /\ sreq' = [sreq EXCEPT ![r] = p] /\ UNCHANGED <<snaps, origin, taken>>
      /\ op = "clone" => MayClone(v)
  BY Zenon DEF Start, zfs
<1> HIDE DEF pc
<1>3. p \in SnapReqSet
  <2>1. NoSnapReq \in SnapReqSet
    BY DEF NoSnapReq, SnapReqSet, DiskSteps
  <2>2. pc \in DiskSteps \cup CloneSteps /\ DisksOf[v] \in SUBSET Sources
    BY <1>1, CopiesApart DEF DiskSteps, CloneSteps
  <2> QED
    BY <2>1, <2>2 DEF SnapReqSet
<1>4. /\ p.op = op /\ p.v = v /\ p.tag = t /\ p.pc = pc /\ p.done = {} /\ p.todo = DisksOf[v]
  BY DEF NoSnapReq
<1> HIDE DEF p
<1>5. SnapReqOk(p)
  BY <1>1, <1>4 DEF SnapReqOk, DiskSteps, CloneSteps
<1>6. sreq' \in [SnapReqs -> SnapReqSet] /\ sreq'[r] = p /\ \A s \in SnapReqs : s # r => sreq'[s] = sreq[s]
  BY <1>2, <1>3, SnapEntry
<1>7. SnapTyped'
  BY <1>2, <1>5, <1>6 DEF SnapInv, SnapTyped, SnapReqOk
<1>8. OneMoment' /\ OriginOk'
  BY <1>2 DEF SnapInv, OneMoment, OriginOk
<1>9. ClonesApart'
  <2>2. op = "clone" => \A s \in SnapReqs : sreq[s].op = "clone" => sreq[s].v # v
    BY <1>2 DEF MayClone
  <2> QED
    BY <1>6, <1>4, <2>2 DEF SnapInv, ClonesApart
<1>10. CloneOk(sreq[r])'
  <2>2. origin' = origin
    BY <1>2
  <2>1. op = "clone" => \A d \in DisksOf[v] : /\ origin[d] = NoOrigin
                                              /\ CopyOf[d] \in DOMAIN origin => origin[CopyOf[d]] = NoOrigin
    <3> SUFFICES ASSUME MayClone(v), NEW d \in DisksOf[v]
                 PROVE  /\ origin[d] = NoOrigin
                        /\ CopyOf[d] \in DOMAIN origin => origin[CopyOf[d]] = NoOrigin
      BY <1>2
    <3> QED
      BY Zenon DEF MayClone
  <2> QED
    BY <1>1, <1>6, <1>4, <2>1, <2>2 DEF CloneOk
<1>11. ASSUME NEW s \in SnapReqs, s # r PROVE CloneOk(sreq[s])'
  <2>1. sreq'[s] = sreq[s] /\ CloneOk(sreq[s])
    BY <1>6, <1>11 DEF SnapInv
  <2> QED
    BY <2>1, <1>2 DEF CloneOk, Has, Undone
<1> QED
  BY <1>7, <1>8, <1>9, <1>10, <1>11 DEF SnapInv

\* No power step touches a snapshot, an origin or a request.
LEMMA PowerTurnsStep == SnapInv /\ (\E v \in SnapVms : PowerTurns(v)) => SnapInv'
BY DEF SnapInv, SnapTyped, OneMoment, OriginOk, ClonesApart, CloneOk, Has, Undone, PowerTurns, zfs

\* One zfs command takes the disks of a pool at one moment, and none when one of them has a
\* snapshot of that name; the base of a clone is on no disk of another clone.
LEMMA CaptureStep ==
    ASSUME DisksApart, SnapInv, NEW r \in SnapReqs, NEW d \in Sources, Capture(r, d)
    PROVE  SnapInv'
<1> DEFINE q == sreq[r]
<1> DEFINE t == IF q.op = "clone" THEN "base" ELSE q.tag
<1> DEFINE part == SamePool(q.v, d)
<1> DEFINE ok == \A e \in part : ~Has(e, t)
<1> DEFINE new == [ds : part, tag : {t}, at : {taken + 1}]
<1> DEFINE over == q.todo \subseteq part \/ ~ok
<1> DEFINE pc == IF over THEN AfterCapture(q) ELSE "capture"
<1> DEFINE todo == IF over THEN DisksOf[q.v] ELSE q.todo \ part
<1> DEFINE p == [q EXCEPT !.ok = ok, !.todo = todo, !.pc = pc]
<1>1. /\ sreq \in [SnapReqs -> SnapReqSet] /\ q \in SnapReqSet /\ SnapReqOk(q) /\ taken \in Int
      /\ CloneOk(q) /\ q.todo \subseteq Sources
  BY SnapEntry
<1>2. q.pc = "capture" /\ origin' = origin
  BY DEF Capture
<1>3. q.op # "none" /\ q.v \in SnapVms /\ (q.op # "clone" => q.tag \in Tags)
  BY <1>1, <1>2 DEF SnapReqOk
<1>4. DisksOf[q.v] \subseteq Sources /\ part \subseteq DisksOf[q.v]
  BY <1>3, CopiesApart DEF SamePool
<1>20. CASE q.op = "clone" /\ ~ok
  BY <1>2, <1>20, SnapEnded DEF Capture
<1>21. SUFFICES ASSUME ~(q.op = "clone" /\ ~ok) PROVE SnapInv'
  BY <1>20
<1>5. taken' = taken \/ taken' = taken + 1
  BY DEF Capture
<1>6. snaps' = snaps \/ (ok /\ snaps' = snaps \cup new)
  BY DEF Capture
<1>7. t \in Tags \cup {"base"} /\ (t = "base" => q.op = "clone") /\ (q.op = "clone" => t = "base")
  BY <1>3, CopiesApart
<1>8. taken' \in Int /\ taken + 1 \in Int
  BY <1>1, <1>5
<1>9. /\ sreq' = [sreq EXCEPT ![r] = p] /\ ok \in BOOLEAN /\ pc \in DiskSteps \cup CloneSteps
      /\ todo \subseteq Sources /\ (q.op = "clone" => todo \subseteq DisksOf[q.v])
  <2>1. sreq' = [sreq EXCEPT ![r].ok = ok, ![r].todo = todo, ![r].pc = pc]
    BY <1>21, Zenon DEF Capture
  <2>2. ok \in BOOLEAN /\ pc \in DiskSteps \cup CloneSteps
    BY DEF DiskSteps, CloneSteps, AfterCapture
  <2>3. todo \subseteq Sources /\ (q.op = "clone" => todo \subseteq DisksOf[q.v])
    BY <1>1, <1>4 DEF CloneOk
  <2> HIDE DEF ok, pc, todo
  <2> QED BY <2>1, <2>2, <2>3, <1>1
<1>10. /\ q.op = "clone" => pc \in {"copy", "capture"}
       /\ q.op # "clone" => pc \in {"thaw", "capture"}
  BY DEF AfterCapture
<1>11. snaps' \subseteq SnapAll
  <2>1. snaps \subseteq SnapAll
    BY DEF SnapInv, SnapTyped
  <2>2. new \subseteq SnapAll
    BY <1>4, <1>7, <1>8 DEF SnapAll
  <2> QED BY <1>6, <2>1, <2>2
<1> HIDE DEF ok, pc, t, todo, part
<1>12. p \in SnapReqSet /\ p.op = q.op /\ p.v = q.v /\ p.tag = q.tag /\ p.full = q.full /\ p.pc = pc
       /\ p.done = q.done /\ p.todo = todo /\ p.lossy = q.lossy
  BY <1>1, <1>9 DEF SnapReqSet
<1>13. SnapReqOk(p)
  BY <1>1, <1>3, <1>10, <1>12 DEF SnapReqOk, DiskSteps, CloneSteps
<1>14. sreq' \in [SnapReqs -> SnapReqSet] /\ sreq'[r] = p /\ \A s \in SnapReqs : s # r => sreq'[s] = sreq[s]
  BY <1>1, <1>9, <1>12
<1>15. CloneOk(sreq[r])'
  <2> SUFFICES ASSUME q.op = "clone" PROVE CloneOk(sreq[r])'
    BY <1>12, <1>14 DEF CloneOk
  <2>1. \A e \in DisksOf[q.v] : origin[e] = NoOrigin
    BY <1>1, <1>2 DEF CloneOk
  <2> HIDE DEF p
  <2> QED
    BY <1>1, <1>2, <1>9, <1>10, <1>12, <1>14, <2>1 DEF CloneOk
<1>16. OneMoment'
  <2>1. CASE snaps' = snaps
    BY <2>1 DEF SnapInv, OneMoment
  <2>2. CASE ok /\ snaps' = snaps \cup new
    <3> SUFFICES ASSUME NEW v \in SnapVms, NEW x \in snaps', NEW y \in snaps',
                        x.ds \in DisksOf[v], y.ds \in DisksOf[v], PoolOf[x.ds] = PoolOf[y.ds], x.tag = y.tag
                 PROVE  x.at = y.at
      BY DEF OneMoment
    <3>1. ASSUME NEW s \in new PROVE s.ds \in part /\ s.tag = t /\ s.at = taken + 1
      OBVIOUS
    <3>5. \A e \in part : PoolOf[e] = PoolOf[d] /\ e \in DisksOf[q.v]
      BY DEF part, SamePool
    <3>6. \A e \in DisksOf[q.v] : PoolOf[e] = PoolOf[d] => e \in part
      BY DEF part, SamePool
    <3>2. ASSUME NEW s \in snaps, s.ds \in part PROVE s.tag # t
      BY <2>2, <3>2 DEF ok, Has
    <3> HIDE DEF new
    <3>3. CASE x \in snaps /\ y \in snaps
      BY <3>3 DEF SnapInv, OneMoment
    <3>4. CASE x \in new \/ y \in new
      <4>1. v = q.v
        BY <3>1, <3>4, <3>5, <1>3 DEF DisksApart
      <4>2. x.ds \in part /\ y.ds \in part
        BY <4>1, <3>1, <3>4, <3>5, <3>6
      <4> QED BY <4>2, <3>1, <3>2, <3>4, <2>2
    <3> QED BY <2>2, <3>3, <3>4
  <2> QED BY <1>6, <2>1, <2>2
<1>17. OriginOk'
  BY <1>2 DEF SnapInv, OriginOk
<1>18. CASE q.op = "clone"
  <2>1. ASSUME NEW e \in Sources \ DisksOf[q.v], Has(e, "base")' PROVE Has(e, "base")
    BY <2>1, <1>4, <1>6 DEF Has
  <2>2. OwnEntry(r)
    BY <1>9, <1>12, <1>13, <1>14 DEF OwnEntry
  <2> QED
    BY <1>2, <1>8, <1>11, <1>15, <1>16, <1>17, <1>18, <2>1, <2>2, CloneActs
<1>19. CASE q.op # "clone"
  <2>1. t # "base"
    BY <1>7, <1>19
  <2>2. \A e \in Sources : Has(e, "base")' => Has(e, "base")
    BY <1>6, <2>1 DEF Has
  <2>3. SnapTyped'
    BY <1>8, <1>11, <1>13, <1>14 DEF SnapInv, SnapTyped, SnapReqOk
  <2>4. ClonesApart'
    <3>1. sreq'[r].op # "clone"
      BY <1>12, <1>14, <1>19
    <3>2. \A s \in SnapReqs : s # r => sreq'[s] = sreq[s]
      BY <1>14
    <3>3. ClonesApart
      BY DEF SnapInv
    <3> HIDE DEF q, p
    <3> QED BY <3>1, <3>2, <3>3 DEF ClonesApart
  <2>5. ASSUME NEW s \in SnapReqs, s # r PROVE CloneOk(sreq[s])'
    <3>1. sreq'[s] = sreq[s] /\ CloneOk(sreq[s]) /\ sreq[s] \in SnapReqSet
      BY <1>1, <1>14, <2>5 DEF SnapInv
    <3>2. sreq[s].op = "clone" => DisksOf[sreq[s].v] \subseteq Sources
      BY SnapEntry
    <3> QED
      BY <3>1, <3>2, <2>2, <1>2 DEF CloneOk, Undone
  <2> QED
    BY <1>15, <1>16, <1>17, <2>3, <2>4, <2>5 DEF SnapInv
<1> QED
  BY <1>18, <1>19


-----------------------------------------------------------------------------
(* Clones.                                                                 *)

\* A clone that moves on to another step keeps its entry typed.
LEMMA CloneMoves ==
    ASSUME SnapInv, NEW r \in SnapReqs, NEW p \in SnapReqSet, sreq' = [sreq EXCEPT ![r] = p],
           sreq[r].pc \in CloneSteps, p.op = sreq[r].op, p.v = sreq[r].v, p.pc \in CloneSteps
    PROVE  OwnEntry(r) /\ sreq'[r] = p
<1>1. sreq \in [SnapReqs -> SnapReqSet] /\ SnapReqOk(sreq[r]) /\ sreq[r].op = "clone"
  BY SnapEntry
<1>2. sreq'[r] = p
  BY <1>1
<1>3. SnapReqOk(p)
  BY <1>1 DEF SnapReqOk, CloneSteps
<1> QED
  BY <1>1, <1>2, <1>3 DEF OwnEntry

\* The teardown begins with everything that was copied to do.
LEMMA UndoStep ==
    ASSUME SnapInv, NEW r \in SnapReqs, sreq[r].pc \in CloneSteps, Undo(r, sreq[r]),
           origin' = origin, snaps' \subseteq snaps, taken' = taken
    PROVE  SnapInv'
<1> DEFINE q == sreq[r]
<1> DEFINE p == [q EXCEPT !.pc = "undoCopies", !.todo = q.done]
<1>1. q \in SnapReqSet /\ q.op = "clone" /\ CloneOk(q) /\ taken \in Int
  BY SnapEntry
<1>2. /\ p \in SnapReqSet /\ p.op = q.op /\ p.v = q.v /\ p.pc = "undoCopies"
      /\ p.todo = q.done /\ p.done = q.done /\ p.full = q.full
  BY <1>1 DEF SnapReqSet, CloneSteps
<1>3. sreq' = [sreq EXCEPT ![r] = p]
  BY DEF Undo
<1> HIDE DEF p
<1>4. OwnEntry(r) /\ sreq'[r] = p
  BY <1>2, <1>3, CloneMoves DEF CloneSteps
<1>5. CloneOk(sreq[r])'
  <2>1. \A d : Has(d, "base")' => Has(d, "base")
    BY DEF Has
  <2> QED
    BY <1>1, <1>2, <1>4, <2>1 DEF CloneOk
<1> QED
  BY <1>1, <1>4, <1>5, SnapQuiet

\* A capture that fails ends a clone, and leaves a snapshot its clean-up.
LEMMA CaptureFailsStep ==
    ASSUME SnapInv, NEW r \in SnapReqs, CaptureFails(r) PROVE SnapInv'
<1> DEFINE q == sreq[r]
<1>1. q \in SnapReqSet /\ SnapReqOk(q) /\ q.pc = "capture"
  BY SnapEntry DEF CaptureFails
<1>2. snaps' = snaps /\ origin' = origin /\ taken' = taken
  BY DEF CaptureFails, zfs
<1>3. CASE SnapEnd(r)
  BY <1>2, <1>3, SnapEnded
<1>4. CASE q.op # "clone" /\ sreq' = [sreq EXCEPT ![r].ok = FALSE, ![r].pc = "thaw"]
  <2> DEFINE p == [q EXCEPT !.ok = FALSE, !.pc = "thaw"]
  <2>1. p \in SnapReqSet /\ p.op = q.op /\ p.v = q.v /\ p.tag = q.tag /\ p.pc = "thaw"
    BY <1>1 DEF SnapReqSet, DiskSteps
  <2>2. sreq' = [sreq EXCEPT ![r] = p]
    BY <1>4
  <2>3. q.op \notin {"clone", "none"}
    BY <1>1, <1>4 DEF SnapReqOk
  <2>4. p.pc \in DiskSteps \ {"stopped", "file"} /\ p.pc # "check"
    BY <2>1 DEF DiskSteps
  <2> HIDE DEF p
  <2> QED
    BY <1>2, <2>1, <2>2, <2>3, <2>4, SnapMoves
<1> QED
  BY <1>3, <1>4 DEF CaptureFails

\* A copy is made of a disk that has none, for a clone that has to.
LEMMA CloneDiskStep ==
    ASSUME DisksApart, SnapInv, NEW r \in SnapReqs, NEW d \in Sources, NEW ok \in BOOLEAN, CloneDisk(r, d, ok)
    PROVE  SnapInv'
<1> DEFINE q == sreq[r]
<1> DEFINE c == CopyOf[d]
<1>1. /\ q \in SnapReqSet /\ q.op = "clone" /\ CloneOk(q) /\ q.pc = "copy" /\ d \in q.todo /\ taken \in Int
      /\ q.v \in SnapVms /\ q.pc \in CloneSteps
  BY SnapEntry DEF CloneDisk, IsNext, CloneSteps
<1>2. snaps' = snaps /\ taken' = taken
  BY DEF CloneDisk
<1>3. CASE ~ok
  BY <1>1, <1>2, <1>3, UndoStep DEF CloneDisk
<1>4. CASE ok
  <2> DEFINE pc == IF q.full THEN "promote" ELSE IF q.todo = {d} THEN "define" ELSE "copy"
  <2> DEFINE p == [q EXCEPT !.todo = @ \ {d}, !.done = @ \cup {d}, !.pc = pc]
  <2>1. /\ c \notin DOMAIN origin
        /\ origin' = [e \in DOMAIN origin \cup {c} |-> IF e = c THEN <<d, "base">> ELSE origin[e]]
    BY <1>4 DEF CloneDisk
  <2>2. sreq' = [sreq EXCEPT ![r] = p]
    BY <1>4, Zenon DEF CloneDisk
  <2>3. pc \in {"promote", "define", "copy"} /\ (~q.full => pc # "promote")
    OBVIOUS
  <2> HIDE DEF pc
  <2>4. /\ p \in SnapReqSet /\ p.op = q.op /\ p.v = q.v /\ p.pc = pc
        /\ p.todo = q.todo \ {d} /\ p.done = q.done \cup {d} /\ p.full = q.full
    BY <1>1, <2>3 DEF SnapReqSet, CloneSteps
  <2> HIDE DEF p
  <2>5. OwnEntry(r) /\ sreq'[r] = p
    BY <1>1, <2>2, <2>3, <2>4, CloneMoves DEF CloneSteps
  <2>6. c \in Copies /\ c \notin Sources
    BY CopiesApart
  <2>7. \A e \in Sources : origin'[e] = origin[e]
    BY <2>1, <2>6 DEF SnapInv, OriginOk
  <2>9. \A e \in Sources \ {d} : /\ CopyOf[e] # c
                                 /\ CopyOf[e] \in DOMAIN origin' <=> CopyOf[e] \in DOMAIN origin
                                 /\ CopyOf[e] \in DOMAIN origin => origin'[CopyOf[e]] = origin[CopyOf[e]]
    BY <2>1, CopiesApart
  <2>8. CloneOk(sreq[r])'
    <3>1. DisksOf[q.v] \subseteq Sources
      BY <1>1, CopiesApart
    <3>2. \A e \in p.done : CopyOf[e] \in DOMAIN origin'
      BY <1>1, <2>1, <2>4 DEF CloneOk
    <3>3. \A e \in DisksOf[q.v] \ p.done : CopyOf[e] \in DOMAIN origin' => origin'[CopyOf[e]] = NoOrigin
      BY <1>1, <2>4, <2>9, <3>1 DEF CloneOk
    <3>4. \A e : Has(e, "base")' => Has(e, "base")
      BY <1>2 DEF Has
    <3>5. p.pc \in {"promote", "define", "copy"}
      BY <2>3, <2>4
    <3>6. p.done \subseteq DisksOf[q.v] /\ p.todo \subseteq DisksOf[q.v]
      BY <1>1, <2>4 DEF CloneOk
    <3> QED BY <1>1, <2>3, <2>4, <2>5, <2>7, <3>1, <3>2, <3>3, <3>4, <3>5, <3>6 DEF CloneOk
  <2>10. d \in DisksOf[q.v]
    BY <1>1 DEF CloneOk
  <2>11. OriginOk'
    <3>1. origin[d] = NoOrigin
      BY <2>1 DEF SnapInv, OriginOk
    <3>2. c \in DOMAIN origin' /\ origin'[c] = <<d, "base">>
      BY <2>1
    <3>3. /\ Sources \subseteq DOMAIN origin' /\ origin' = [e \in DOMAIN origin' |-> origin'[e]]
          /\ DOMAIN origin' \subseteq Sources \cup Copies
      BY <2>1, <2>6 DEF SnapInv, OriginOk
    <3>4. ASSUME NEW e \in Sources
          PROVE  /\ origin'[e] \in {NoOrigin, <<CopyOf[e], "base">>}
                 /\ CopyOf[e] \in DOMAIN origin' => origin'[CopyOf[e]] \in {NoOrigin, <<e, "base">>}
                 /\ origin'[e] # NoOrigin => CopyOf[e] \in DOMAIN origin' /\ origin'[CopyOf[e]] = NoOrigin
      <4>1. CASE e = d
        BY <4>1, <2>7, <3>1, <3>2
      <4>2. CASE e # d
        BY <4>2, <2>7, <2>9 DEF SnapInv, OriginOk
      <4> QED BY <4>1, <4>2
    <3> QED BY <3>3, <3>4 DEF OriginOk
  <2>12. OneMoment' /\ snaps' \subseteq SnapAll
    BY <1>2 DEF SnapInv, SnapTyped, OneMoment
  <2>13. \A e \in Sources \ DisksOf[q.v] :
            /\ origin'[e] = origin[e]
            /\ CopyOf[e] \in DOMAIN origin' <=> CopyOf[e] \in DOMAIN origin
            /\ CopyOf[e] \in DOMAIN origin => origin'[CopyOf[e]] = origin[CopyOf[e]]
            /\ Has(e, "base")' => Has(e, "base")
    BY <1>2, <2>7, <2>9, <2>10 DEF Has
  <2> QED
    BY <1>1, <1>2, <2>5, <2>8, <2>11, <2>12, <2>13, CloneActs
<1> QED
  BY <1>3, <1>4

\* Promoting a copy turns the disk and its copy round; the snapshots that move leave the disks.
LEMMA PromoteStep ==
    ASSUME DisksApart, SnapInv, NEW r \in SnapReqs, NEW d \in Sources, Promote(r, d)
    PROVE  SnapInv'
<1> DEFINE q == sreq[r]
<1> DEFINE c == CopyOf[d]
<1> DEFINE pc == IF q.todo = {} THEN "define" ELSE "copy"
<1> DEFINE p == [q EXCEPT !.pc = pc]
<1>1. /\ q \in SnapReqSet /\ q.op = "clone" /\ CloneOk(q) /\ q.pc = "promote" /\ d \in q.done /\ taken \in Int
      /\ q.v \in SnapVms /\ q.pc \in CloneSteps
  BY SnapEntry DEF Promote, CloneSteps
<1>2. taken' = taken /\ sreq' = [sreq EXCEPT ![r] = p]
  BY DEF Promote, SnapTo
<1>3. q.full /\ d \in DisksOf[q.v]
  BY <1>1 DEF CloneOk
<1>4. pc \in {"define", "copy"}
  OBVIOUS
<1> HIDE DEF pc
<1>5. /\ p \in SnapReqSet /\ p.op = q.op /\ p.v = q.v /\ p.pc = pc /\ p.todo = q.todo /\ p.done = q.done
      /\ p.full = q.full
  BY <1>1, <1>4 DEF SnapReqSet, CloneSteps
<1> HIDE DEF p
<1>6. OwnEntry(r) /\ sreq'[r] = p
  BY <1>1, <1>2, <1>4, <1>5, CloneMoves DEF CloneSteps
<1>8. c \in Copies /\ c \notin Sources
  BY CopiesApart
<1>9. \A s \in snaps' : \/ s \in snaps
                        \/ \E x \in snaps : s = [x EXCEPT !.ds = c]
  BY Zenon DEF Promote
<1>10. snaps' \subseteq SnapAll
  <2>1. snaps \subseteq SnapAll
    BY DEF SnapInv, SnapTyped
  <2> QED BY <1>8, <1>9, <2>1 DEF SnapAll
<1>11. \A s \in snaps' : s.ds \in Sources => s \in snaps
  <2>1. snaps \subseteq SnapAll
    BY DEF SnapInv, SnapTyped
  <2> QED BY <1>8, <1>9, <2>1 DEF SnapAll
<1>12. OneMoment'
  BY <1>11, CopiesApart DEF SnapInv, OneMoment
<1>13. origin[c] = <<d, "base">> /\ OriginOk
  BY DEF Promote, SnapInv
<1>14. origin[d] = NoOrigin
  BY <1>13 DEF OriginOk, NoOrigin
<1>15. \A e \in DOMAIN origin : e \notin {c, d} => origin[e][1] # d
  <2> SUFFICES ASSUME NEW e \in DOMAIN origin, e \notin {c, d}, origin[e][1] = d PROVE FALSE
    OBVIOUS
  <2>1. CASE e \in Sources
    <3>1. origin[e] = NoOrigin \/ origin[e] = <<CopyOf[e], "base">>
      BY <2>1, <1>13 DEF OriginOk
    <3>2. origin[e][1] = "none" \/ origin[e][1] = CopyOf[e]
      BY <3>1 DEF NoOrigin
    <3> QED BY <2>1, <3>2, CopiesApart
  <2>2. CASE e \in Copies
    <3>1. PICK f \in Sources : e = CopyOf[f]
      BY <2>2, CopiesApart
    <3>2. origin[e] = NoOrigin \/ origin[e] = <<f, "base">>
      BY <3>1, <1>13 DEF OriginOk
    <3>3. origin[e][1] = "none" \/ origin[e][1] = f
      BY <3>2 DEF NoOrigin
    <3> QED BY <3>1, <3>3, CopiesApart
  <2> QED BY <2>1, <2>2, <1>13 DEF OriginOk
<1>16. /\ DOMAIN origin' = DOMAIN origin /\ origin' = [e \in DOMAIN origin' |-> origin'[e]]
       /\ d \in DOMAIN origin => origin'[d] = <<c, "base">>
       /\ c \in DOMAIN origin => origin'[c] = origin[d]
       /\ \A e \in DOMAIN origin : e \notin {c, d} => origin'[e] = origin[e]
  BY <1>8, <1>15 DEF Promote
<1>17. d \in DOMAIN origin /\ c \in DOMAIN origin
  BY <1>1, <1>13 DEF OriginOk, CloneOk
<1>21. ~Has(d, "base")'
  <2> SUFFICES ASSUME NEW s \in snaps', s.ds = d, s.tag = "base" PROVE FALSE
    BY DEF Has
  <2>1. s \in snaps
    BY <1>11
  <2>2. PICK x \in snaps : x.ds = d /\ x.tag = "base" /\ Moment(d, "base") = x.at
    BY <2>1 DEF Moment
  <2>3. s.at = x.at /\ x.at \in Int
    BY <1>1, <1>3, <2>1, <2>2 DEF SnapInv, OneMoment, SnapTyped, SnapAll
  <2>4. PICK y \in snaps : s = IF y.ds = d /\ y.at <= Moment(d, "base") THEN [y EXCEPT !.ds = c] ELSE y
    BY Zenon DEF Promote
  <2>5. CASE y.ds = d /\ y.at <= Moment(d, "base")
    <3>1. s.ds = c
      BY <2>4, <2>5 DEF SnapInv, SnapTyped, SnapAll
    <3> QED BY <3>1, <1>8
  <2>6. CASE ~(y.ds = d /\ y.at <= Moment(d, "base"))
    BY <2>2, <2>3, <2>4, <2>6
  <2> QED BY <2>5, <2>6
<1>18. CloneOk(sreq[r])'
  <2>1. DisksOf[q.v] \subseteq Sources
    BY <1>1, CopiesApart
  <2>2. \A e \in DisksOf[q.v] \ {d} : e # c /\ e \in DOMAIN origin /\ CopyOf[e] # c /\ CopyOf[e] # d
    BY <2>1, <1>8, <1>13, CopiesApart DEF OriginOk
  <2>3. \A e \in DisksOf[q.v] \ q.done : CopyOf[e] \in DOMAIN origin' => origin'[CopyOf[e]] = NoOrigin
    BY <1>1, <1>16, <2>2 DEF CloneOk
  <2>4. \A e \in DisksOf[q.v] : origin'[e] # NoOrigin => ~Has(e, "base")'
    <3> SUFFICES ASSUME NEW e \in DisksOf[q.v], origin'[e] # NoOrigin, e # d PROVE ~Has(e, "base")'
      BY <1>21
    <3>1. origin'[e] = origin[e]
      BY <1>16, <2>2
    <3>2. ~Has(e, "base")
      BY <1>1, <3>1 DEF CloneOk
    <3> QED BY <3>2, <2>1, <1>11 DEF Has
  <2>5. \A e \in q.done : CopyOf[e] \in DOMAIN origin'
    BY <1>1, <1>16 DEF CloneOk
  <2>6. p.pc \in {"define", "copy"} /\ p.full
    BY <1>3, <1>4, <1>5
  <2> QED BY <1>1, <1>5, <1>6, <2>3, <2>4, <2>5, <2>6 DEF CloneOk
<1>19. OriginOk'
  <2>1. /\ Sources \subseteq DOMAIN origin' /\ origin' = [e \in DOMAIN origin' |-> origin'[e]]
        /\ DOMAIN origin' \subseteq Sources \cup Copies
    BY <1>13, <1>16 DEF OriginOk
  <2>2. ASSUME NEW e \in Sources
        PROVE  /\ origin'[e] \in {NoOrigin, <<CopyOf[e], "base">>}
               /\ CopyOf[e] \in DOMAIN origin' => origin'[CopyOf[e]] \in {NoOrigin, <<e, "base">>}
               /\ origin'[e] # NoOrigin => CopyOf[e] \in DOMAIN origin' /\ origin'[CopyOf[e]] = NoOrigin
    <3>1. CASE e = d
      BY <3>1, <1>14, <1>16, <1>17
    <3>2. CASE e # d
      <4>1. CopyOf[e] # c /\ CopyOf[e] # d /\ e # c
        BY <3>2, CopiesApart
      <4> QED BY <3>2, <4>1, <1>13, <1>16 DEF OriginOk
    <3> QED BY <3>1, <3>2
  <2> QED BY <2>1, <2>2 DEF OriginOk
<1>20. \A e \in Sources \ DisksOf[q.v] :
          /\ origin'[e] = origin[e]
          /\ CopyOf[e] \in DOMAIN origin' <=> CopyOf[e] \in DOMAIN origin
          /\ CopyOf[e] \in DOMAIN origin => origin'[CopyOf[e]] = origin[CopyOf[e]]
          /\ Has(e, "base")' => Has(e, "base")
  <2> SUFFICES ASSUME NEW e \in Sources \ DisksOf[q.v]
               PROVE  /\ origin'[e] = origin[e]
                      /\ CopyOf[e] \in DOMAIN origin' <=> CopyOf[e] \in DOMAIN origin
                      /\ CopyOf[e] \in DOMAIN origin => origin'[CopyOf[e]] = origin[CopyOf[e]]
                      /\ Has(e, "base")' => Has(e, "base")
    OBVIOUS
  <2>1. e # d /\ e # c /\ e \in DOMAIN origin /\ CopyOf[e] # c /\ CopyOf[e] # d
    BY <1>3, <1>8, <1>13, CopiesApart DEF OriginOk
  <2>2. Has(e, "base")' => Has(e, "base")
    BY <1>11 DEF Has
  <2> QED BY <1>16, <2>1, <2>2
<1> QED
  BY <1>1, <1>2, <1>6, <1>10, <1>12, <1>18, <1>19, <1>20, CloneActs

\* A clone that is defined loses its base, best effort, and is put on record or torn down.
LEMMA DefineStep ==
    ASSUME SnapInv, NEW r \in SnapReqs, NEW ok \in BOOLEAN, DefineClone(r, ok)
    PROVE  SnapInv'
<1> DEFINE q == sreq[r]
<1> DEFINE p == [q EXCEPT !.pc = "record"]
<1>1. /\ snaps' \subseteq snaps /\ origin' = origin /\ taken' = taken
      /\ q.pc = "define" /\ q.pc \in CloneSteps /\ "record" \in CloneSteps
  BY DEF DefineClone, CloneSteps
<1>2. SnapTo(r, "record") \/ Undo(r, sreq[r])
  BY DEF DefineClone
<1>3. CASE SnapTo(r, "record")
  <2>1. q \in SnapReqSet /\ q.op = "clone" /\ CloneOk(q) /\ taken \in Int
    BY <1>1, SnapEntry
  <2>2. /\ p \in SnapReqSet /\ p.op = q.op /\ p.v = q.v /\ p.pc = "record"
        /\ p.todo = q.todo /\ p.done = q.done /\ p.full = q.full
    BY <2>1, <1>1 DEF SnapReqSet
  <2>3. sreq' = [sreq EXCEPT ![r] = p]
    BY <1>3 DEF SnapTo
  <2> HIDE DEF p
  <2>4. OwnEntry(r) /\ sreq'[r] = p
    BY <1>1, <2>2, <2>3, CloneMoves
  <2>5. \A d : Has(d, "base")' => Has(d, "base")
    BY <1>1 DEF Has
  <2>6. CloneOk(sreq[r])'
    BY <1>1, <2>1, <2>2, <2>4, <2>5 DEF CloneOk
  <2> QED
    BY <1>1, <2>1, <2>4, <2>6, SnapQuiet
<1> QED
  BY <1>1, <1>2, <1>3, UndoStep

\* A copy is destroyed unless something is a clone of it, or the command fails.
LEMMA DestroyCopyStep ==
    ASSUME DisksApart, SnapInv, NEW r \in SnapReqs, NEW d \in Sources, NEW ok \in BOOLEAN, DestroyCopy(r, d, ok)
    PROVE  SnapInv'
<1> DEFINE q == sreq[r]
<1> DEFINE c == CopyOf[d]
<1> DEFINE lossy == q.lossy \/ ~ok
<1> DEFINE p == [q EXCEPT !.todo = @ \ {d}, !.lossy = lossy]
<1>1. /\ q \in SnapReqSet /\ q.op = "clone" /\ CloneOk(q) /\ q.pc = "undoCopies" /\ d \in q.todo /\ taken \in Int
      /\ q.v \in SnapVms /\ q.pc \in CloneSteps
  BY SnapEntry DEF DestroyCopy, IsNext, CloneSteps
<1>2. taken' = taken /\ snaps' \subseteq snaps
  BY DEF DestroyCopy
<1>3. sreq' = [sreq EXCEPT ![r] = p] /\ lossy \in BOOLEAN
  BY Zenon DEF DestroyCopy
<1>4. ~lossy => ok /\ ~q.lossy
  BY <1>1 DEF SnapReqSet
<1> HIDE DEF lossy
<1>5. /\ p \in SnapReqSet /\ p.op = q.op /\ p.v = q.v /\ p.pc = q.pc /\ p.todo = q.todo \ {d} /\ p.done = q.done
      /\ p.full = q.full /\ p.lossy = lossy
  BY <1>1, <1>3 DEF SnapReqSet
<1> HIDE DEF p
<1>6. OwnEntry(r) /\ sreq'[r] = p
  BY <1>1, <1>3, <1>5, CloneMoves
<1>7. c \in Copies /\ c \notin Sources /\ d \in DisksOf[q.v]
  BY <1>1, CopiesApart DEF CloneOk
<1>8. CASE ok /\ CanDestroy(c)
  <2>1. origin' = [e \in DOMAIN origin \ {c} |-> origin[e]]
    BY <1>8 DEF DestroyCopy, Drop
  <2>2. \A e \in Sources : origin'[e] = origin[e]
    BY <1>7, <2>1 DEF SnapInv, OriginOk
  <2>3. \A e \in Sources \ {d} : /\ CopyOf[e] # c
                                 /\ CopyOf[e] \in DOMAIN origin' <=> CopyOf[e] \in DOMAIN origin
                                 /\ CopyOf[e] \in DOMAIN origin => origin'[CopyOf[e]] = origin[CopyOf[e]]
    BY <2>1, CopiesApart
  <2>4. c \notin DOMAIN origin'
    BY <2>1
  <2>5. origin[d] = NoOrigin
    <3>1. origin[d][1] # c
      BY <1>7, <1>8 DEF CanDestroy, SnapInv, OriginOk
    <3>2. origin[d] \in {NoOrigin, <<c, "base">>}
      BY DEF SnapInv, OriginOk
    <3> QED BY <3>1, <3>2
  <2>6. OriginOk'
    <3>1. /\ Sources \subseteq DOMAIN origin' /\ origin' = [e \in DOMAIN origin' |-> origin'[e]]
          /\ DOMAIN origin' \subseteq Sources \cup Copies
      BY <2>1, <1>7 DEF SnapInv, OriginOk
    <3>2. ASSUME NEW e \in Sources
          PROVE  /\ origin'[e] \in {NoOrigin, <<CopyOf[e], "base">>}
                 /\ CopyOf[e] \in DOMAIN origin' => origin'[CopyOf[e]] \in {NoOrigin, <<e, "base">>}
                 /\ origin'[e] # NoOrigin => CopyOf[e] \in DOMAIN origin' /\ origin'[CopyOf[e]] = NoOrigin
      <4>1. CASE e = d
        BY <4>1, <2>2, <2>4, <2>5
      <4>2. CASE e # d
        BY <4>2, <2>2, <2>3 DEF SnapInv, OriginOk
      <4> QED BY <4>1, <4>2
    <3> QED BY <3>1, <3>2 DEF OriginOk
  <2>7. CloneOk(sreq[r])'
    <3>1. DisksOf[q.v] \subseteq Sources
      BY <1>1, CopiesApart
    <3>2. \A e \in DisksOf[q.v] : Undone(e) => Undone(e)'
      BY <2>1, <2>2, <3>1 DEF Undone
    <3>3. Undone(d)'
      BY <2>4 DEF Undone
    <3>4. \A e : Has(e, "base")' => Has(e, "base")
      BY <1>2 DEF Has
    <3>5. \A e \in DisksOf[q.v] \ q.done : CopyOf[e] \in DOMAIN origin' => origin'[CopyOf[e]] = NoOrigin
      BY <1>1, <2>1 DEF CloneOk
    <3>6. ~lossy => \A e \in q.done \ p.todo : Undone(e)'
      BY <1>1, <1>4, <1>5, <3>2, <3>3 DEF CloneOk
    <3>7. p.pc = "undoCopies" /\ p.todo \subseteq DisksOf[q.v] /\ q.done \subseteq DisksOf[q.v]
      BY <1>1, <1>5 DEF CloneOk
    <3> HIDE DEF Undone
    <3> QED BY <1>1, <1>5, <1>6, <2>2, <3>1, <3>4, <3>5, <3>6, <3>7 DEF CloneOk
  <2>8. OneMoment' /\ snaps' \subseteq SnapAll
    BY <1>2 DEF SnapInv, SnapTyped, OneMoment
  <2>9. \A e \in Sources \ DisksOf[q.v] :
            /\ origin'[e] = origin[e]
            /\ CopyOf[e] \in DOMAIN origin' <=> CopyOf[e] \in DOMAIN origin
            /\ CopyOf[e] \in DOMAIN origin => origin'[CopyOf[e]] = origin[CopyOf[e]]
            /\ Has(e, "base")' => Has(e, "base")
    BY <1>2, <1>7, <2>2, <2>3 DEF Has
  <2> QED
    BY <1>1, <1>2, <1>6, <2>6, <2>7, <2>8, <2>9, CloneActs
<1>9. CASE ~(ok /\ CanDestroy(c))
  <2>1. origin' = origin
    BY <1>9 DEF DestroyCopy
  <2>2. CloneOk(sreq[r])'
    <3>5. \A e : /\ Has(e, "base")' => Has(e, "base")
                 /\ Undone(e) => Undone(e)'
      BY <1>2, <2>1 DEF Has, Undone
    <3>6. p.pc = "undoCopies" /\ p.todo \subseteq DisksOf[q.v] /\ q.done \subseteq DisksOf[q.v]
      BY <1>1, <1>5 DEF CloneOk
    <3>7. (~lossy => Undone(d)) => CloneOk(sreq[r])'
      <4> SUFFICES ASSUME ~lossy => Undone(d) PROVE CloneOk(sreq[r])'
        OBVIOUS
      <4>1. ~lossy => \A e \in q.done \ p.todo : Undone(e)'
        BY <1>1, <1>4, <1>5, <3>5 DEF CloneOk
      <4> HIDE DEF Undone
      <4> QED BY <1>1, <1>5, <1>6, <2>1, <3>5, <3>6, <4>1 DEF CloneOk
    <3> SUFFICES ASSUME ~lossy, c \in DOMAIN origin, origin[d] # <<c, "base">> PROVE FALSE
      BY <3>7 DEF Undone
    <3>1. ~CanDestroy(c)
      BY <1>4, <1>9
    <3>2. origin[d] = NoOrigin
      BY <1>7 DEF SnapInv, OriginOk
    <3> SUFFICES ASSUME NEW e \in DOMAIN origin \ {c}, origin[e][1] = c PROVE FALSE
      BY <3>1 DEF CanDestroy
    <3>3. CASE e \in Sources
      <4>1. origin[e] = NoOrigin \/ origin[e] = <<CopyOf[e], "base">>
        BY <3>3 DEF SnapInv, OriginOk
      <4>2. origin[e][1] = "none" \/ origin[e][1] = CopyOf[e]
        BY <4>1 DEF NoOrigin
      <4>3. origin[e][1] = CopyOf[e]
        BY <4>2, <1>7, CopiesApart
      <4>4. e = d
        BY <4>3, <3>3, CopiesApart
      <4> QED BY <4>3, <4>4, <3>2, <1>7, CopiesApart DEF NoOrigin
    <3>4. CASE e \in Copies
      <4>1. PICK f \in Sources : e = CopyOf[f]
        BY <3>4, CopiesApart
      <4>2. origin[e] = NoOrigin \/ origin[e] = <<f, "base">>
        BY <4>1 DEF SnapInv, OriginOk
      <4>3. origin[e][1] = "none" \/ origin[e][1] = f
        BY <4>2 DEF NoOrigin
      <4> QED BY <4>3, <1>7, CopiesApart
    <3> QED BY <3>3, <3>4 DEF SnapInv, OriginOk
  <2> QED
    BY <1>1, <1>2, <1>6, <2>1, <2>2, SnapQuiet
<1> QED
  BY <1>8, <1>9

\* The copies are done with, one way or another: the bases are next.
LEMMA CopiesGoneStep ==
    ASSUME SnapInv, NEW r \in SnapReqs, CopiesGone(r)
    PROVE  SnapInv'
<1> DEFINE q == sreq[r]
<1> DEFINE p == [q EXCEPT !.pc = "undoBases", !.todo = DisksOf[q.v]]
<1>1. /\ q \in SnapReqSet /\ q.op = "clone" /\ CloneOk(q) /\ q.pc = "undoCopies" /\ q.todo = {} /\ taken \in Int
      /\ DisksOf[q.v] \subseteq Sources /\ q.pc \in CloneSteps
  BY SnapEntry DEF CopiesGone, CloneSteps
<1>2. UNCHANGED <<snaps, origin, taken>> /\ sreq' = [sreq EXCEPT ![r] = p]
  BY DEF CopiesGone, zfs
<1>3. /\ p \in SnapReqSet /\ p.op = q.op /\ p.v = q.v /\ p.pc = "undoBases" /\ p.todo = DisksOf[q.v]
      /\ p.done = q.done /\ p.full = q.full /\ p.lossy = q.lossy
  BY <1>1 DEF SnapReqSet, CloneSteps
<1> HIDE DEF p
<1>4. OwnEntry(r) /\ sreq'[r] = p
  BY <1>1, <1>2, <1>3, CloneMoves DEF CloneSteps
<1>5. CloneOk(sreq[r])'
  <2>1. \A d : /\ Has(d, "base")' => Has(d, "base")
               /\ Undone(d) => Undone(d)'
    BY <1>2 DEF Has, Undone
  <2>2. ~q.lossy => \A d \in q.done : Undone(d)
    BY <1>1 DEF CloneOk
  <2> HIDE DEF Undone
  <2> QED
    BY <1>1, <1>2, <1>3, <1>4, <2>1, <2>2 DEF CloneOk
<1> QED
  BY <1>1, <1>2, <1>4, <1>5, SnapQuiet

\* The base of a disk whose copy is gone is nobody's origin, so it can be destroyed.
LEMMA DestroyBaseStep ==
    ASSUME SnapInv, NEW r \in SnapReqs, NEW d \in Sources, NEW ok \in BOOLEAN, DestroyBase(r, d, ok)
    PROVE  SnapInv'
<1> DEFINE q == sreq[r]
<1> DEFINE lossy == q.lossy \/ ~ok
<1> DEFINE p == [q EXCEPT !.todo = @ \ {d}, !.lossy = lossy]
<1>1. /\ q \in SnapReqSet /\ q.op = "clone" /\ CloneOk(q) /\ q.pc = "undoBases" /\ d \in q.todo /\ taken \in Int
      /\ q.pc \in CloneSteps
  BY SnapEntry DEF DestroyBase, IsNext, CloneSteps
<1>2. taken' = taken /\ snaps' \subseteq snaps /\ origin' = origin
  BY DEF DestroyBase, Without
<1>3. sreq' = [sreq EXCEPT ![r] = p] /\ lossy \in BOOLEAN
  BY Zenon DEF DestroyBase
<1>4. ~lossy => ok /\ ~q.lossy
  BY <1>1 DEF SnapReqSet
<1> HIDE DEF lossy
<1>5. /\ p \in SnapReqSet /\ p.op = q.op /\ p.v = q.v /\ p.pc = q.pc /\ p.todo = q.todo \ {d} /\ p.done = q.done
      /\ p.full = q.full /\ p.lossy = lossy
  BY <1>1, <1>3 DEF SnapReqSet
<1> HIDE DEF p
<1>6. OwnEntry(r) /\ sreq'[r] = p
  BY <1>1, <1>3, <1>5, CloneMoves
<1>7. CloneOk(sreq[r])'
  <2>1. \A e : Has(e, "base")' => Has(e, "base")
    BY <1>2 DEF Has
  <2>6. d \in DisksOf[q.v]
    BY <1>1 DEF CloneOk
  <2>7. \A e : Undone(e) => Undone(e)'
    BY <1>2 DEF Undone
  <2>8. (~lossy => ~Has(d, "base")') => CloneOk(sreq[r])'
    <3> HIDE DEF Undone
    <3> SUFFICES ASSUME ~lossy => ~Has(d, "base")' PROVE CloneOk(sreq[r])'
      OBVIOUS
    <3>1. ~lossy => /\ \A e \in q.done : Undone(e)'
                    /\ \A e \in DisksOf[q.v] \ p.todo : ~Has(e, "base")'
      BY <1>1, <1>4, <1>5, <2>1, <2>7 DEF CloneOk
    <3>2. p.pc = "undoBases" /\ p.todo \subseteq DisksOf[q.v] /\ q.done \subseteq DisksOf[q.v]
      BY <1>1, <1>5 DEF CloneOk
    <3> QED BY <1>1, <1>2, <1>5, <1>6, <2>1, <3>1, <3>2 DEF CloneOk
  <2> SUFFICES ASSUME ~lossy PROVE ~Has(d, "base")'
    BY <2>8
  <2>2. CopyOf[d] \in DOMAIN origin => origin[CopyOf[d]] # <<d, "base">>
    <3>1. CASE d \in q.done
      <4>1. CopyOf[d] \in DOMAIN origin => origin[d] # NoOrigin
        BY <1>1, <1>4, <3>1, CopiesApart DEF CloneOk, Undone, NoOrigin
      <4>2. CopyOf[d] \in DOMAIN origin => origin[CopyOf[d]] = NoOrigin
        BY <4>1 DEF SnapInv, OriginOk
      <4> QED BY <4>2, CopiesApart DEF NoOrigin
    <3>2. CASE d \notin q.done
      BY <1>1, <2>6, <3>2, CopiesApart DEF CloneOk, NoOrigin
    <3> QED BY <3>1, <3>2
  <2>3. ~IsOrigin(d, "base")
    <3> SUFFICES ASSUME NEW e \in DOMAIN origin, origin[e] = <<d, "base">> PROVE FALSE
      BY DEF IsOrigin
    <3>1. CASE e \in Sources
      <4>1. origin[e] = NoOrigin \/ origin[e] = <<CopyOf[e], "base">>
        BY <3>1 DEF SnapInv, OriginOk
      <4>2. origin[e][1] = "none" \/ origin[e][1] = CopyOf[e]
        BY <4>1 DEF NoOrigin
      <4> QED BY <3>1, <4>2, CopiesApart
    <3>2. CASE e \in Copies
      <4>1. PICK f \in Sources : e = CopyOf[f]
        BY <3>2, CopiesApart
      <4>2. origin[e] = NoOrigin \/ origin[e] = <<f, "base">>
        BY <4>1 DEF SnapInv, OriginOk
      <4>3. origin[e][1] = "none" \/ origin[e][1] = f
        BY <4>2 DEF NoOrigin
      <4>4. d = f
        BY <4>3, CopiesApart
      <4> QED BY <4>1, <4>4, <2>2
    <3> QED BY <3>1, <3>2 DEF SnapInv, OriginOk
  <2>4. CASE Has(d, "base")
    <3>1. snaps' = Without(d, "base")
      BY <1>4, <2>3, <2>4 DEF DestroyBase, CanDestroySnap
    <3> QED BY <3>1 DEF Has, Without
  <2>5. CASE ~Has(d, "base")
    BY <2>1, <2>5
  <2> QED BY <2>4, <2>5
<1> QED
  BY <1>1, <1>2, <1>6, <1>7, SnapQuiet

\* Every step keeps the invariant.
LEMMA SnapNextInv ==
    ASSUME DisksApart, SnapInv, [SnapNext]_snapvars
    PROVE  SnapInv'
<1>1. CASE UNCHANGED snapvars
  BY <1>1 DEF SnapInv, SnapTyped, OneMoment, OriginOk, ClonesApart, CloneOk, Has, Undone, snapvars
<1>2. CASE \E v \in SnapVms : PowerTurns(v)
  BY <1>2, PowerTurnsStep
<1>3. ASSUME NEW r \in SnapReqs, NEW v \in SnapVms, NEW t \in Tags,
             NEW op \in {"disk", "ram", "restore", "rollback", "delete"}, Start(r, op, v, t, FALSE)
      PROVE  SnapInv'
  BY <1>3, StartStep
<1>4. ASSUME NEW r \in SnapReqs, NEW v \in SnapVms, NEW f \in BOOLEAN, Start(r, "clone", v, "base", f)
      PROVE  SnapInv'
  BY <1>4, StartStep
<1>5. ASSUME NEW r \in SnapReqs, SnapStep(r) \/ Abandon(r) PROVE SnapInv'
  <2>1. CASE CaptureFails(r) \/ \E d \in Sources : Capture(r, d)
    BY <2>1, CaptureStep, CaptureFailsStep
  <2>2. CASE PromoteFails(r)
    BY <2>2, UndoStep DEF PromoteFails, CloneSteps, zfs
  <2>3. CASE CopiesGone(r)
    BY <2>3, CopiesGoneStep
  <2>4. CASE CloneFailed(r)
    BY <2>4, SnapEnded DEF CloneFailed, zfs
  <2>5. CASE \E ok \in BOOLEAN : DefineClone(r, ok)
    BY <2>5, DefineStep
  <2>9. CASE \E ok \in BOOLEAN : RecordClone(r, ok)
    BY <2>9, SnapEnded DEF RecordClone, zfs
  <2>6. CASE \E d \in Sources : Promote(r, d)
    BY <2>6, PromoteStep
  <2>7. CASE \E d \in Sources, ok \in BOOLEAN :
                CloneDisk(r, d, ok) \/ DestroyCopy(r, d, ok) \/ DestroyBase(r, d, ok)
    BY <2>7, CloneDiskStep, DestroyCopyStep, DestroyBaseStep
  <2>8. CASE \/ CheckPower(r) \/ ListRam(r) \/ \E ok \in BOOLEAN : FreezeGuest(r, ok) \/ ThawGuest(r, ok)
             \/ ReadBack(r) \/ SaveRam(r) \/ RestoreRam(r) \/ DeleteRam(r) \/ Abandon(r)
             \/ \E d \in Sources : \/ ListDisk(r, d) \/ CleanUpTag(r, d) \/ CheckDisk(r, d)
                                   \/ RollbackDisk(r, d) \/ DestroyTag(r, d)
    BY <2>8, PlainSteps
  <2> QED
    BY <1>5, <2>1, <2>2, <2>3, <2>4, <2>5, <2>6, <2>7, <2>8, <2>9 DEF SnapStep
<1> QED
  BY <1>1, <1>2, <1>3, <1>4, <1>5 DEF SnapNext

\* ListedIsOneMoment, for virtual machines that share no disk: the snapshots that one name lists
\* in one pool were taken by one zfs command, however requests interleave and wherever they are cut off.
THEOREM SnapshotsAreOneMoment ==
    ASSUME DisksApart PROVE SnapSpec => []ListedIsOneMoment
<1>1. SnapInit => SnapInv
  BY SnapInitInv
<1>2. SnapInv /\ [SnapNext]_snapvars => SnapInv'
  BY SnapNextInv
<1>3. SnapInv => ListedIsOneMoment
  <2> SUFFICES ASSUME SnapInv, NEW v \in SnapVms, NEW t \in Tags, Listed(v, t),
                      NEW d \in DisksOf[v], NEW e \in DisksOf[v], PoolOf[d] = PoolOf[e]
               PROVE  Moment(d, t) = Moment(e, t)
    BY DEF ListedIsOneMoment
  <2>1. Has(d, t) /\ Has(e, t)
    BY DEF Listed
  <2>2. PICK x \in snaps : x.ds = d /\ x.tag = t /\ Moment(d, t) = x.at
    BY <2>1 DEF Has, Moment
  <2>3. PICK y \in snaps : y.ds = e /\ y.tag = t /\ Moment(e, t) = y.at
    BY <2>1 DEF Has, Moment
  <2> QED
    BY <2>2, <2>3 DEF SnapInv, OneMoment
<1> QED
  BY <1>1, <1>2, <1>3, PTL DEF SnapSpec

\* FailedCloneLeavesNothing, for virtual machines that share no disk, their disks in any pools:
\* the teardown of a clone whose commands do not fail of themselves leaves no base, and no copy
\* but one that the source disk has become a clone of.
THEOREM FailedClonesAreUndone ==
    ASSUME DisksApart PROVE SnapSpec => []FailedCloneLeavesNothing
<1>1. SnapInit => SnapInv
  BY SnapInitInv
<1>2. SnapInv /\ [SnapNext]_snapvars => SnapInv'
  BY SnapNextInv
<1>3. SnapInv => FailedCloneLeavesNothing
  <2> SUFFICES ASSUME SnapInv, NEW r \in SnapReqs, sreq[r].pc = "undoBases", sreq[r].todo = {},
                      ~sreq[r].lossy
               PROVE  /\ \A d \in DisksOf[sreq[r].v] : ~Has(d, "base")
                      /\ \A d \in sreq[r].done : CopyOf[d] \in DOMAIN origin =>
                                     sreq[r].full /\ origin[d] = <<CopyOf[d], "base">>
    BY DEF FailedCloneLeavesNothing
  <2>1. CloneOk(sreq[r]) /\ sreq[r].op = "clone" /\ DisksOf[sreq[r].v] \subseteq Sources
    BY SnapEntry DEF CloneSteps
  <2>2. \A d \in Sources : <<CopyOf[d], "base">> # NoOrigin
    BY CopiesApart DEF NoOrigin
  <2> QED
    BY <2>1, <2>2 DEF CloneOk, Undone
<1> QED
  BY <1>1, <1>2, <1>3, PTL DEF SnapSpec

-----------------------------------------------------------------------------
(* Disks and devices: the inductive invariant.                             *)

DevDisks  == [ds : Datasets, size : Gib]
HostDevs  == UsbDevs \cup PciDevs
RecSet    == [disks : Seq(DevDisks), devs : SUBSET HostDevs]
ConfSet   == [disks : [Targets -> Datasets \cup {"none"}], devs : SUBSET HostDevs]
PowerArgs == {<<"start">>, <<"destroy">>, <<"suspend">>, <<"resume">>}
DevArgs   == (Targets \X Gib) \cup (Datasets \X Gib) \cup (Targets \X Datasets) \cup PowerArgs
             \cup {<<x>> : x \in Targets \cup HostDevs} \cup {<<>>}
DevReqSet == [op : {"none", "resize", "attachDisk", "detachDisk", "migrate", "attachDev", "detachDev", "power"},
              pc : {"idle", "read", "volsize", "look", "mkzvol", "state", "virsh", "put", "define"},
              arg : DevArgs, rec : RecSet, running : BOOLEAN]

\* What a request asks for.
Asks(q) ==
    /\ q.op \in {"resize", "detachDisk", "migrate"} => q.arg[1] \in Targets
    /\ q.op = "resize" => q.arg[2] \in Gib
    /\ q.op = "attachDisk" => q.arg[1] \in Datasets /\ q.arg[2] \in Gib
    /\ q.op \in {"attachDev", "detachDev"} => q.arg[1] \in HostDevs
    /\ q.op = "power" => q.arg \in PowerArgs

\* The steps of each kind of request, and what the checks have established.
Proceeds(q) ==
    /\ q.pc = "idle" <=> q.op = "none"
    /\ q.pc = "idle" => q = NoDevReq
    /\ q.pc \notin {"idle", "read"} =>
         /\ q.op \in {"resize", "detachDisk"} => q.arg[1] <= Len(q.rec.disks)
         /\ q.op = "attachDisk" => Len(q.rec.disks) < MaxDisks
         /\ Len(q.rec.disks) <= MaxDisks
    /\ q.pc = "volsize" => q.op = "resize"
    /\ q.pc = "look" => q.op \in {"attachDisk", "migrate"}
    /\ q.pc = "mkzvol" => q.op = "attachDisk"
    /\ q.pc = "state" => q.op # "power"
    /\ q.pc = "virsh" => q.op \notin {"resize", "migrate"} /\ (q.op = "power" \/ q.running)
    /\ q.pc = "put" => q.op # "migrate"
    /\ q.pc = "define" => q.op \notin {"migrate", "resize", "power"}

DevTyped ==
    /\ devreq \in [DevReqs -> DevReqSet] /\ \A r \in DevReqs : Asks(devreq[r]) /\ Proceeds(devreq[r])
    /\ rec \in RecSet /\ Len(rec.disks) <= MaxDisks
    /\ conf \in ConfSet /\ overlap \in BOOLEAN /\ devfaults \in Nat

\* One request at a time.
OneDevReq == \A r, s \in DevReqs : devreq[r] # NoDevReq /\ devreq[s] # NoDevReq => r = s

\* Every disk that the record or the definition names is there.
DisksThere ==
    /\ \A t \in Targets : conf.disks[t] \in DOMAIN zvol \cup {"none"}
    /\ \A i \in 1..Len(rec.disks) : rec.disks[i].ds \in DOMAIN zvol

\* So is every disk that a request has read, and the one it attaches once it has been looked for.
Provisioned(q) ==
    /\ q.pc \notin {"idle", "read"} => \A i \in 1..Len(q.rec.disks) : q.rec.disks[i].ds \in DOMAIN zvol
    /\ q.op = "attachDisk" /\ q.pc \in {"state", "virsh", "put", "define"} => q.arg[1] \in DOMAIN zvol

\* Between the check and the write a request has the record as it is; once virsh has changed the
\* definition it is what the record is about to be.
Follows(q) ==
    /\ q.pc \notin {"idle", "read", "define"} => q.rec = rec
    /\ q.pc = "put" /\ (q.running \/ q.op \in {"resize", "power"}) => InSync(Edited(q))
    /\ q.pc = "define" => rec = Edited(q)

Steady == (\A r \in DevReqs : devreq[r].pc \notin {"put", "define"}) => InSync(rec)

DevInv ==
    /\ DevTyped /\ DisksThere /\ \A r \in DevReqs : Provisioned(devreq[r])
    /\ ~overlap /\ devfaults = 0 => OneDevReq /\ Steady /\ \A r \in DevReqs : Follows(devreq[r])

-----------------------------------------------------------------------------
(* Lemmas about the operators.                                             *)

\* RemoveAt takes one element out and moves the later ones up.
LEMMA RemoveAtFacts ==
    ASSUME NEW S, NEW s \in Seq(S), NEW i \in 1..Len(s)
    PROVE  /\ RemoveAt(s, i) \in Seq(S) /\ Len(RemoveAt(s, i)) = Len(s) - 1
           /\ \A j \in 1..Len(s) - 1 : RemoveAt(s, i)[j] = IF j < i THEN s[j] ELSE s[j + 1]
<1> DEFINE a == SubSeq(s, 1, i - 1)
<1> DEFINE b == SubSeq(s, i + 1, Len(s))
<1>1. Len(s) \in Nat /\ i \in Int
  OBVIOUS
<1>2. a \in Seq(S) /\ Len(a) = i - 1 /\ \A j \in 1..i - 1 : a[j] = s[j]
  <2>1. \A j \in 1..i - 1 : s[j] \in S
    BY <1>1
  <2>2. /\ a \in Seq(S) /\ Len(a) = (IF 1 <= i - 1 THEN i - 1 - 1 + 1 ELSE 0)
        /\ \A j \in 1..(i - 1 - 1 + 1) : a[j] = s[1 + j - 1]
    BY <1>1, <2>1, SubSeqProperties
  <2> QED BY <1>1, <2>2
<1>3. b \in Seq(S) /\ Len(b) = Len(s) - i /\ \A j \in 1..Len(s) - i : b[j] = s[i + j]
  <2>1. \A j \in i + 1..Len(s) : s[j] \in S
    BY <1>1
  <2>2. /\ b \in Seq(S) /\ Len(b) = (IF i + 1 <= Len(s) THEN Len(s) - (i + 1) + 1 ELSE 0)
        /\ \A j \in 1..(Len(s) - (i + 1) + 1) : b[j] = s[i + 1 + j - 1]
    BY <1>1, <2>1, SubSeqProperties
  <2> QED BY <1>1, <2>2
<1> HIDE DEF a, b
<1>4. /\ a \o b \in Seq(S) /\ Len(a \o b) = Len(a) + Len(b)
      /\ \A j \in 1..Len(a) + Len(b) : (a \o b)[j] = IF j <= Len(a) THEN a[j] ELSE b[j - Len(a)]
  BY <1>2, <1>3, ConcatProperties
<1>5. RemoveAt(s, i) = a \o b
  BY DEF RemoveAt, a, b
<1>6. ASSUME NEW j \in 1..Len(s) - 1 PROVE (a \o b)[j] = IF j < i THEN s[j] ELSE s[j + 1]
  <2>1. CASE j < i
    BY <2>1, <1>1, <1>2, <1>3, <1>4
  <2>2. CASE ~(j < i)
    <3>1. (a \o b)[j] = b[j - (i - 1)] /\ j - (i - 1) \in 1..Len(s) - i
      BY <2>2, <1>1, <1>2, <1>3, <1>4
    <3>2. b[j - (i - 1)] = s[i + (j - (i - 1))]
      BY <3>1, <1>3
    <3>3. i + (j - (i - 1)) = j + 1
      BY <1>1
    <3> QED BY <2>2, <3>1, <3>2, <3>3
  <2> QED BY <2>1, <2>2
<1>7. a \o b \in Seq(S) /\ Len(a \o b) = Len(s) - 1
  BY <1>1, <1>2, <1>3, <1>4
<1> QED
  BY <1>5, <1>6, <1>7

\* The record that a request writes has n disks, those it shares with the record it read in the
\* same order, and the same devices.
SameDisks(q, n) ==
    /\ Edited(q).devs = q.rec.devs /\ Len(Edited(q).disks) = n
    /\ \A i \in 1..n : i <= Len(q.rec.disks) => Edited(q).disks[i].ds = q.rec.disks[i].ds

\* What a request writes is a record, with no more disks than are allowed, and each of them a disk
\* the record had or the one that is attached.
LEMMA EditedFacts ==
    ASSUME NEW q \in DevReqSet, Asks(q), Proceeds(q), q.pc \notin {"idle", "read"}, q.op # "migrate"
    PROVE  /\ Edited(q) \in RecSet /\ Len(Edited(q).disks) <= MaxDisks
           /\ \A i \in 1..Len(Edited(q).disks) :
                 \/ \E j \in 1..Len(q.rec.disks) : Edited(q).disks[i].ds = q.rec.disks[j].ds
                 \/ q.op = "attachDisk" /\ Edited(q).disks[i].ds = q.arg[1]
           /\ q.op \in {"resize", "power"} => SameDisks(q, Len(q.rec.disks))
           /\ q.op = "attachDisk" => /\ SameDisks(q, Len(q.rec.disks) + 1)
                                     /\ Edited(q).disks[Len(q.rec.disks) + 1].ds = q.arg[1]
           /\ q.op = "detachDisk" /\ q.arg[1] = Len(q.rec.disks) => SameDisks(q, Len(q.rec.disks) - 1)
<1> DEFINE D == q.rec.disks
<1> DEFINE E == Edited(q)
<1> DEFINE Known(i) == \/ \E j \in 1..Len(D) : E.disks[i].ds = D[j].ds
                       \/ q.op = "attachDisk" /\ E.disks[i].ds = q.arg[1]
<1>1. /\ q.rec \in RecSet /\ D \in Seq(DevDisks) /\ Len(D) \in Nat /\ q.rec.devs \in SUBSET HostDevs
      /\ q.rec = [disks |-> D, devs |-> q.rec.devs]
  BY DEF DevReqSet, RecSet
<1>2. /\ q.op \in {"resize", "attachDisk", "detachDisk", "attachDev", "detachDev", "power"}
      /\ Len(D) <= MaxDisks /\ MaxDisks \in Nat
  BY DevAssumption DEF DevReqSet, Proceeds
<1>3. CASE q.op = "resize"
  <2> DEFINE F == [D EXCEPT ![q.arg[1]].size = q.arg[2]]
  <2>1. q.arg[1] \in 1..Len(D) /\ q.arg[2] \in Gib
    BY <1>1, <1>3 DEF Asks, Proceeds, Targets
  <2>2. E = [q.rec EXCEPT !.disks = F]
    BY <1>1, <1>3 DEF Edited
  <2>3. F \in Seq(DevDisks) /\ Len(F) = Len(D) /\ \A i \in 1..Len(D) : F[i].ds = D[i].ds
    <3> DEFINE k == q.arg[1]
    <3> DEFINE y == [D[k] EXCEPT !.size = q.arg[2]]
    <3>1. D[k] \in DevDisks
      BY <1>1, <2>1
    <3>2. y \in DevDisks /\ y.ds = D[k].ds
      BY <2>1, <3>1 DEF DevDisks
    <3>3. F = [D EXCEPT ![k] = y]
      OBVIOUS
    <3> HIDE DEF y, F
    <3> QED BY <1>1, <2>1, <3>2, <3>3
  <2> HIDE DEF F
  <2>4. E.disks = F /\ E.devs = q.rec.devs /\ E \in RecSet
    BY <1>1, <2>2, <2>3 DEF RecSet
  <2>5. SameDisks(q, Len(D))
    BY <2>3, <2>4 DEF SameDisks
  <2> QED BY <1>2, <1>3, <2>3, <2>4, <2>5
<1>4. CASE q.op = "attachDisk"
  <2> DEFINE x == [ds |-> q.arg[1], size |-> q.arg[2]]
  <2> DEFINE F == Append(D, x)
  <2>1. x \in DevDisks /\ Len(D) < MaxDisks
    BY <1>4 DEF Asks, Proceeds, DevDisks
  <2>2. E = [q.rec EXCEPT !.disks = F]
    BY <1>1, <1>4 DEF Edited
  <2>3. F \in Seq(DevDisks) /\ Len(F) = Len(D) + 1 /\ F[Len(D) + 1] = x /\ \A i \in 1..Len(D) : F[i] = D[i]
    BY <1>1, <2>1
  <2> HIDE DEF F
  <2>4. E.disks = F /\ E.devs = q.rec.devs /\ E \in RecSet
    BY <1>1, <2>2, <2>3 DEF RecSet
  <2>5. \A i \in 1..Len(F) : i \in 1..Len(D) \/ i = Len(D) + 1
    BY <1>1, <2>3
  <2>6. SameDisks(q, Len(D) + 1) /\ E.disks[Len(D) + 1].ds = q.arg[1]
    BY <1>1, <2>3, <2>4, <2>5 DEF SameDisks
  <2> QED BY <1>1, <1>2, <1>4, <2>1, <2>3, <2>4, <2>5, <2>6
<1>5. CASE q.op = "detachDisk"
  <2> DEFINE F == RemoveAt(D, q.arg[1])
  <2>1. q.arg[1] \in 1..Len(D)
    BY <1>1, <1>5 DEF Asks, Proceeds, Targets
  <2>2. E = [q.rec EXCEPT !.disks = F]
    BY <1>1, <1>5 DEF Edited
  <2>3. /\ F \in Seq(DevDisks) /\ Len(F) = Len(D) - 1
        /\ \A j \in 1..Len(D) - 1 : F[j] = IF j < q.arg[1] THEN D[j] ELSE D[j + 1]
    BY <1>1, <2>1, RemoveAtFacts
  <2> HIDE DEF F
  <2>4. E.disks = F /\ E.devs = q.rec.devs /\ E \in RecSet
    BY <1>1, <2>2, <2>3 DEF RecSet
  <2>5. \A i \in 1..Len(F) : i \in 1..Len(D) - 1 /\ i \in 1..Len(D) /\ i + 1 \in 1..Len(D)
    BY <1>1, <2>3
  <2>6. ASSUME NEW i \in 1..Len(F) PROVE \E j \in 1..Len(D) : F[i].ds = D[j].ds
    BY <2>3, <2>5
  <2>7. Len(F) <= MaxDisks
    BY <1>1, <1>2, <2>3
  <2>8. q.arg[1] = Len(D) => SameDisks(q, Len(D) - 1)
    BY <1>1, <2>3, <2>4, <2>5 DEF SameDisks
  <2> QED BY <1>5, <2>4, <2>6, <2>7, <2>8
<1>6. CASE q.op \in {"attachDev", "detachDev", "power"}
  <2>1. q.op \in {"attachDev", "detachDev"} => q.arg[1] \in HostDevs
    BY DEF Asks
  <2>2. E.disks = D /\ E \in RecSet
    BY <1>1, <1>6, <2>1 DEF Edited, RecSet
  <2>3. q.op = "power" => SameDisks(q, Len(D))
    BY <1>1, <2>2 DEF SameDisks, Edited
  <2> QED BY <1>1, <1>2, <1>6, <2>2, <2>3
<1> QED
  BY <1>2, <1>3, <1>4, <1>5, <1>6

\* A definition is a function of the datasets in their order and of the devices.
LEMMA RenderedFacts ==
    ASSUME NEW x
    PROVE  /\ Rendered(x).devs = x.devs /\ DOMAIN Rendered(x).disks = Targets
           /\ \A t \in Targets : Rendered(x).disks[t] = IF t <= Len(x.disks) THEN x.disks[t].ds ELSE "none"
BY DEF Rendered

\* A definition that has the disks and the devices of a record is the one it is rendered to.
LEMMA RenderedIs ==
    ASSUME NEW x, NEW c \in ConfSet, c.devs = x.devs,
           \A t \in Targets : c.disks[t] = IF t <= Len(x.disks) THEN x.disks[t].ds ELSE "none"
    PROVE  c = Rendered(x)
<1>1. c.disks = [t \in Targets |-> IF t <= Len(x.disks) THEN x.disks[t].ds ELSE "none"]
  BY DEF ConfSet
<1>2. c = [disks |-> c.disks, devs |-> c.devs]
  BY DEF ConfSet
<1> QED
  BY <1>1, <1>2 DEF Rendered

\* Rendering a record gives a definition.
LEMMA RenderedTyped == ASSUME NEW x \in RecSet PROVE Rendered(x) \in ConfSet
<1>1. x.disks \in Seq(DevDisks) /\ x.devs \in SUBSET HostDevs /\ Len(x.disks) \in Nat
  BY DEF RecSet
<1>2. ASSUME NEW t \in Targets, t <= Len(x.disks) PROVE x.disks[t].ds \in Datasets
  <2>1. t \in 1..Len(x.disks)
    BY <1>1, <1>2 DEF Targets
  <2>2. x.disks[t] \in DevDisks
    BY <1>1, <2>1
  <2> QED BY <2>2 DEF DevDisks
<1>3. [t \in Targets |-> IF t <= Len(x.disks) THEN x.disks[t].ds ELSE "none"] \in [Targets -> Datasets \cup {"none"}]
  BY <1>2
<1> QED
  BY <1>1, <1>3 DEF Rendered, ConfSet

\* A new size, or no change, renders to the same definition.
LEMMA EditRenders ==
    ASSUME NEW q \in DevReqSet, Asks(q), Proceeds(q), q.pc \notin {"idle", "read"}, q.op \in {"resize", "power"}
    PROVE  Rendered(Edited(q)) = Rendered(q.rec)
<1>1. SameDisks(q, Len(q.rec.disks)) /\ Edited(q) \in RecSet
  BY EditedFacts
<1>2. Len(q.rec.disks) \in Nat
  BY DEF DevReqSet, RecSet
<1>3. \A t \in Targets : (IF t <= Len(Edited(q).disks) THEN Edited(q).disks[t].ds ELSE "none")
                         = IF t <= Len(q.rec.disks) THEN q.rec.disks[t].ds ELSE "none"
  BY <1>1, <1>2 DEF SameDisks, Targets
<1> QED
  BY <1>1, <1>3 DEF SameDisks, Rendered

-----------------------------------------------------------------------------
(* The steps.                                                              *)

\* At the start the record has one disk, which is there, and the definition has it.
LEMMA DevInitInv == DevInit => DevInv
<1> SUFFICES ASSUME DevInit PROVE DevInv
  OBVIOUS
<1> DEFINE d == CHOOSE d \in Datasets : TRUE
<1> DEFINE x == [ds |-> d, size |-> MaxGib]
<1>1. d \in Datasets /\ x \in DevDisks
  BY DevAssumption DEF DevDisks, Gib
<1>2. /\ rec = [disks |-> <<x>>, devs |-> {}]
      /\ conf = [disks |-> [NoDisks EXCEPT ![1] = d], devs |-> {}]
      /\ zvol = [e \in {d} |-> MaxGib]
  BY DEF DevInit
<1> HIDE DEF d
<1>3. <<x>> \in Seq(DevDisks) /\ Len(<<x>>) = 1 /\ <<x>>[1] = x
  BY <1>1
<1>4. rec \in RecSet /\ Len(rec.disks) = 1 /\ rec.disks[1].ds = d /\ rec.devs = {}
  BY <1>2, <1>3 DEF RecSet
<1>5. /\ conf \in ConfSet /\ conf.devs = {}
      /\ \A t \in Targets : conf.disks[t] = IF t = 1 THEN d ELSE "none"
  BY <1>1, <1>2 DEF ConfSet, NoDisks
<1>6. /\ NoDevReq \in DevReqSet /\ Asks(NoDevReq) /\ Proceeds(NoDevReq) /\ NoDevReq.pc = "idle"
      /\ NoDevReq.op = "none"
  <2>1. [disks |-> <<>>, devs |-> {}] \in RecSet
    BY DEF RecSet
  <2>2. <<>> \in DevArgs
    BY DEF DevArgs
  <2> QED BY <2>1, <2>2 DEF NoDevReq, DevReqSet, Asks, Proceeds
<1>7. \A r \in DevReqs : devreq[r] = NoDevReq
  BY DEF DevInit
<1>8. DevTyped
  <2>1. devreq \in [DevReqs -> DevReqSet] /\ overlap \in BOOLEAN /\ devfaults \in Nat
    BY <1>6 DEF DevInit
  <2>2. Len(rec.disks) <= MaxDisks
    BY <1>4, DevAssumption
  <2> QED BY <1>4, <1>5, <1>6, <1>7, <2>1, <2>2 DEF DevTyped
<1>9. conf = Rendered(rec)
  <2>1. \A t \in Targets : t <= 1 <=> t = 1
    BY DEF Targets
  <2> QED BY <1>4, <1>5, <2>1, RenderedIs
<1>10. DisksThere
  <2>1. d \in DOMAIN zvol
    BY <1>2
  <2> QED BY <1>4, <1>5, <2>1 DEF DisksThere
<1>11. OneDevReq /\ Steady /\ \A r \in DevReqs : Follows(devreq[r]) /\ Provisioned(devreq[r])
  BY <1>6, <1>7, <1>9, RenderedFacts DEF OneDevReq, Steady, Follows, InSync, Provisioned
<1> QED
  BY <1>8, <1>10, <1>11 DEF DevInv

\* A step of the request under way keeps the invariant when it keeps the definition and the record
\* in step: while nothing overlapped and nothing failed there is no other request.
LEMMA DevActs ==
    ASSUME DevInv, NEW r \in DevReqs, devreq[r].pc # "idle", NEW p \in DevReqSet, Asks(p), Proceeds(p),
           devreq' = [devreq EXCEPT ![r] = p], rec' \in RecSet, Len(rec'.disks) <= MaxDisks, conf' \in ConfSet,
           overlap' = overlap, devfaults' \in Nat, devfaults' = 0 => devfaults = 0,
           DOMAIN zvol \subseteq DOMAIN zvol', DisksThere', Provisioned(p)',
           ASSUME ~overlap, devfaults' = 0
           PROVE  Follows(p)' /\ (p.pc \notin {"put", "define"} => InSync(rec)')
    PROVE  DevInv'
<1>1. devreq \in [DevReqs -> DevReqSet] /\ \A s \in DevReqs : Asks(devreq[s]) /\ Proceeds(devreq[s])
  BY DEF DevInv, DevTyped
<1>2. devreq' \in [DevReqs -> DevReqSet] /\ devreq'[r] = p /\ \A s \in DevReqs : s # r => devreq'[s] = devreq[s]
  BY <1>1
<1>3. DevTyped'
  BY <1>1, <1>2 DEF DevInv, DevTyped, Asks, Proceeds
<1>5. \A s \in DevReqs : Provisioned(devreq[s])'
  <2>1. \A s \in DevReqs : Provisioned(devreq[s])
    BY DEF DevInv
  <2> QED BY <1>2, <2>1 DEF Provisioned
<1>4. ASSUME ~overlap, devfaults' = 0 PROVE (OneDevReq /\ Steady)' /\ \A s \in DevReqs : Follows(devreq[s])'
  <2>1. NoDevReq.pc = "idle" /\ NoDevReq.op = "none"
    BY DEF NoDevReq
  <2>2. \A s \in DevReqs : s # r => devreq[s] = NoDevReq
    BY <1>4, <2>1 DEF DevInv, OneDevReq
  <2>3. \A s \in DevReqs : s # r => devreq'[s] = NoDevReq
    BY <1>2, <2>2
  <2>4. OneDevReq'
    BY <2>3 DEF OneDevReq
  <2>5. Follows(p)' /\ (p.pc \notin {"put", "define"} => InSync(rec)')
    BY <1>4
  <2>6. Steady'
    BY <1>2, <2>5 DEF Steady
  <2>7. ASSUME NEW s \in DevReqs PROVE Follows(devreq[s])'
    <3>1. CASE s = r
      BY <3>1, <1>2, <2>5 DEF Follows
    <3>2. CASE s # r
      BY <3>2, <2>1, <2>3 DEF Follows
    <3> QED BY <3>1, <3>2
  <2> QED BY <2>4, <2>6, <2>7
<1> QED
  BY <1>3, <1>4, <1>5 DEF DevInv

\* What is known of the request under way.
LEMMA DevEntry ==
    ASSUME DevInv, NEW r \in DevReqs
    PROVE  /\ devreq \in [DevReqs -> DevReqSet] /\ devreq[r] \in DevReqSet
           /\ Asks(devreq[r]) /\ Proceeds(devreq[r])
           /\ rec \in RecSet /\ Len(rec.disks) <= MaxDisks /\ conf \in ConfSet /\ devfaults \in Nat
           /\ DisksThere /\ Provisioned(devreq[r])
           /\ ~overlap /\ devfaults = 0 => Follows(devreq[r]) /\ OneDevReq /\ Steady
BY DEF DevInv, DevTyped

\* Before the write, and while no other request is there, the definition is in step.
LEMMA InStep ==
    ASSUME DevInv, NEW r \in DevReqs, devreq[r].pc \notin {"idle", "put", "define"}, ~overlap, devfaults = 0
    PROVE  InSync(rec)
<1>1. NoDevReq.pc = "idle"
  BY DEF NoDevReq
<1>2. \A s \in DevReqs : s # r => devreq[s] = NoDevReq
  BY <1>1 DEF DevInv, OneDevReq
<1> QED
  BY <1>1, <1>2 DEF DevInv, Steady

\* A step that touches neither the record nor the definition, taken before the write.
LEMMA DevQuiet ==
    ASSUME DevInv, NEW r \in DevReqs, devreq[r].pc # "idle", NEW p \in DevReqSet, Asks(p), Proceeds(p),
           devreq' = [devreq EXCEPT ![r] = p], UNCHANGED <<rec, conf, drift, overlap>>,
           DOMAIN zvol \subseteq DOMAIN zvol', devfaults' \in Nat, devfaults' = 0 => devfaults = 0,
           devfaults' = 0 => devreq[r].pc \notin {"put", "define"}, Provisioned(p)',
           ASSUME ~overlap, devfaults = 0, Follows(devreq[r])
           PROVE  Follows(p)'
    PROVE  DevInv'
<1>1. rec' \in RecSet /\ Len(rec'.disks) <= MaxDisks /\ conf' \in ConfSet
  BY DevEntry
<1>3. DisksThere'
  BY DevEntry DEF DisksThere
<1>2. ASSUME ~overlap, devfaults' = 0
      PROVE  Follows(p)' /\ (p.pc \notin {"put", "define"} => InSync(rec)')
  <2>1. devfaults = 0 /\ devreq[r].pc \notin {"put", "define"}
    BY <1>2
  <2>2. InSync(rec)
    BY <1>2, <2>1, InStep
  <2>4. Follows(p)'
    BY <1>2, <2>1, DevEntry
  <2> QED BY <2>2, <2>4 DEF InSync, Rendered
<1> QED
  BY <1>1, <1>2, <1>3, DevActs

\* The empty entry.
LEMMA NoDevReqFacts ==
    /\ NoDevReq \in DevReqSet /\ Asks(NoDevReq) /\ Proceeds(NoDevReq) /\ Follows(NoDevReq)'
    /\ Provisioned(NoDevReq)' /\ NoDevReq.pc = "idle" /\ NoDevReq.op = "none"
<1>1. [disks |-> <<>>, devs |-> {}] \in RecSet
  BY DEF RecSet
<1>2. <<>> \in DevArgs
  BY DEF DevArgs
<1> QED
  BY <1>1, <1>2 DEF NoDevReq, DevReqSet, Asks, Proceeds, Follows, Provisioned

\* A request that ends before the write, or of a fault.
LEMMA DevEnds ==
    ASSUME DevInv, NEW r \in DevReqs, devreq[r].pc # "idle", DevEnd(r), UNCHANGED <<rec, conf, drift, overlap>>,
           DOMAIN zvol \subseteq DOMAIN zvol', devfaults' \in Nat, devfaults' = 0 => devfaults = 0,
           devfaults' = 0 => devreq[r].pc \notin {"put", "define"}
    PROVE  DevInv'
BY NoDevReqFacts, DevQuiet DEF DevEnd

\* A request comes: if another one is under way they overlap from now on.
LEMMA DevRequestStep ==
    ASSUME DevInv, NEW r \in DevReqs, NEW arg \in DevArgs,
           NEW op \in {"resize", "attachDisk", "detachDisk", "migrate", "attachDev", "detachDev", "power"},
           op \in {"resize", "detachDisk", "migrate"} => arg[1] \in Targets,
           op = "resize" => arg[2] \in Gib,
           op = "attachDisk" => arg[1] \in Datasets /\ arg[2] \in Gib,
           op \in {"attachDev", "detachDev"} => arg[1] \in HostDevs,
           op = "power" => arg \in PowerArgs,
           DevRequest(r, op, arg)
    PROVE  DevInv'
<1> DEFINE p == [NoDevReq EXCEPT !.op = op, !.arg = arg, !.pc = "read"]
<1>1. /\ p \in DevReqSet /\ p.op = op /\ p.arg = arg /\ p.pc = "read"
  BY NoDevReqFacts DEF DevReqSet
<1>2. devreq' = [devreq EXCEPT ![r] = p] /\ UNCHANGED <<rec, conf, zvol, drift, devfaults>> /\ devreq[r] = NoDevReq
  BY DEF DevRequest, devhost
<1>3. ~overlap' => ~overlap /\ \A s \in DevReqs : devreq[s] = NoDevReq
  BY DEF DevRequest, DevInv, DevTyped
<1>4. overlap' \in BOOLEAN
  BY Zenon DEF DevRequest
<1> HIDE DEF p
<1>5. Asks(p) /\ Proceeds(p)
  BY <1>1 DEF Asks, Proceeds
<1>6. devreq' \in [DevReqs -> DevReqSet] /\ devreq'[r] = p /\ \A s \in DevReqs : s # r => devreq'[s] = devreq[s]
  BY <1>1, <1>2, DevEntry
<1>7. DevTyped'
  BY <1>2, <1>4, <1>5, <1>6 DEF DevInv, DevTyped, Asks, Proceeds
<1>9. DisksThere' /\ \A s \in DevReqs : Provisioned(devreq[s])'
  <2>1. DisksThere /\ \A s \in DevReqs : Provisioned(devreq[s])
    BY DEF DevInv
  <2>2. DisksThere'
    BY <1>2, <2>1 DEF DisksThere
  <2>3. Provisioned(p)'
    BY <1>1 DEF Provisioned
  <2> QED BY <1>2, <1>6, <2>1, <2>2, <2>3 DEF Provisioned
<1>8. ASSUME ~overlap', devfaults' = 0 PROVE (OneDevReq /\ Steady)' /\ \A s \in DevReqs : Follows(devreq[s])'
  <2>1. \A s \in DevReqs : s # r => devreq'[s] = NoDevReq
    BY <1>3, <1>6, <1>8
  <2>2. OneDevReq'
    BY <2>1 DEF OneDevReq
  <2>3. ~overlap /\ devfaults = 0
    BY <1>2, <1>3, <1>8
  <2>5. InSync(rec)
    BY <1>3, <1>8, <2>3, NoDevReqFacts DEF DevInv, Steady
  <2>6. Steady'
    BY <1>2, <2>5 DEF Steady, InSync, Rendered
  <2>7. \A s \in DevReqs : Follows(devreq[s])'
    BY <1>1, <1>6, <2>1, NoDevReqFacts DEF Follows
  <2> QED BY <2>2, <2>6, <2>7
<1> QED
  BY <1>7, <1>8, <1>9 DEF DevInv

\* get_stored and the checks: the request has the record as it is, and the checks have passed.
LEMMA ReadRecordStep ==
    ASSUME DevInv, NEW r \in DevReqs, ReadRecord(r) PROVE DevInv'
<1> DEFINE q == devreq[r]
<1>1. /\ devreq \in [DevReqs -> DevReqSet] /\ q \in DevReqSet /\ Asks(q) /\ Proceeds(q)
      /\ rec \in RecSet /\ Len(rec.disks) <= MaxDisks /\ devfaults \in Nat
  BY DevEntry
<1>2. q.pc = "read" /\ UNCHANGED <<rec, conf, drift, overlap, zvol, devfaults>>
  BY DEF ReadRecord, DevAt, devhost, devhist
<1>3. CASE DevEnd(r)
  BY <1>1, <1>2, <1>3, DevEnds
<1>4. CASE ~Rejected(q.op, q.arg)
  <2> DEFINE pc == CASE q.op = "resize" -> "volsize" [] q.op = "attachDisk" -> "look"
                     [] q.op = "power" -> "virsh" [] OTHER -> "state"
  <2>1. devreq' = [devreq EXCEPT ![r].rec = rec, ![r].pc = pc]
    BY <1>4, Zenon DEF ReadRecord
  <2>2. /\ pc \in {"volsize", "look", "virsh", "state"} /\ (pc = "volsize" <=> q.op = "resize")
        /\ (pc = "look" <=> q.op = "attachDisk") /\ (pc = "virsh" <=> q.op = "power")
    OBVIOUS
  <2> HIDE DEF pc
  <2>3. PICK p : p = [q EXCEPT !.rec = rec, !.pc = pc]
    OBVIOUS
  <2>4. /\ p \in DevReqSet /\ p.op = q.op /\ p.arg = q.arg /\ p.rec = rec /\ p.pc = pc /\ p.running = q.running
    BY <1>1, <2>2, <2>3 DEF DevReqSet
  <2>5. devreq' = [devreq EXCEPT ![r] = p]
    BY <1>1, <2>1, <2>3
  <2>6. Len(rec.disks) \in Nat /\ MaxDisks \in Nat
    BY <1>1, DevAssumption DEF RecSet
  <2>7. /\ q.op \in {"resize", "detachDisk"} => q.arg[1] <= Len(rec.disks)
        /\ q.op = "attachDisk" => Len(rec.disks) < MaxDisks
    <3>1. CASE q.op = "resize"
      BY <1>1, <1>4, <2>6, <3>1 DEF Rejected, Asks, Targets
    <3>2. CASE q.op = "detachDisk"
      BY <1>1, <1>4, <2>6, <3>2 DEF Rejected, Asks, Targets
    <3>3. CASE q.op = "attachDisk"
      BY <1>4, <2>6, <3>3 DEF Rejected
    <3> QED BY <3>1, <3>2, <3>3
  <2>8. Asks(p)
    BY <1>1, <2>4 DEF Asks
  <2>9. Proceeds(p)
    <3>1. q.op # "none"
      BY <1>1, <1>2 DEF Proceeds
    <3> QED BY <1>1, <2>2, <2>4, <2>7, <3>1 DEF Proceeds
  <2>10. Follows(p)'
    BY <1>2, <2>2, <2>4 DEF Follows
  <2>11. Provisioned(p)'
    BY <1>2, <2>2, <2>4, DevEntry DEF Provisioned, DisksThere
  <2> QED
    BY <1>1, <1>2, <2>4, <2>5, <2>8, <2>9, <2>10, <2>11, DevQuiet
<1> QED
  BY <1>3, <1>4 DEF ReadRecord

\* live_state: nothing changes but where the request goes on.
LEMMA ReadStateStep ==
    ASSUME DevInv, NEW r \in DevReqs, NEW known \in BOOLEAN, ReadState(r, known) PROVE DevInv'
<1> DEFINE q == devreq[r]
<1> DEFINE up == known /\ live.power = "running"
<1>1. /\ devreq \in [DevReqs -> DevReqSet] /\ q \in DevReqSet /\ Asks(q) /\ Proceeds(q)
      /\ rec \in RecSet /\ Len(rec.disks) <= MaxDisks /\ devfaults \in Nat
  BY DevEntry
<1>2. q.pc = "state" /\ UNCHANGED <<rec, conf, drift, overlap, zvol>>
  BY DEF ReadState, DevAt, devhost
<1>3. devfaults' \in Nat /\ (devfaults' = 0 => devfaults = 0)
  BY <1>1 DEF ReadState
<1>4. CASE DevEnd(r)
  BY <1>2, <1>3, <1>4, DevEnds
<1>5. CASE q.op = "migrate" /\ DevTo(r, "look")
  <2>1. PICK p : p = [q EXCEPT !.pc = "look"]
    OBVIOUS
  <2>2. /\ p \in DevReqSet /\ p.op = q.op /\ p.arg = q.arg /\ p.rec = q.rec /\ p.pc = "look"
    BY <1>1, <2>1 DEF DevReqSet
  <2>3. devreq' = [devreq EXCEPT ![r] = p]
    BY <1>5, <2>1 DEF DevTo
  <2>4. Asks(p) /\ Proceeds(p)
    BY <1>1, <1>2, <1>5, <2>2 DEF Asks, Proceeds
  <2>5. ASSUME Follows(q) PROVE Follows(p)'
    BY <1>2, <1>5, <2>2, <2>5 DEF Follows
  <2>6. Provisioned(p)'
    BY <1>2, <1>5, <2>2, DevEntry DEF Provisioned
  <2> QED
    BY <1>2, <1>3, <2>2, <2>3, <2>4, <2>5, <2>6, DevQuiet
<1>6. CASE q.op # "migrate"
  <2> DEFINE pc == IF up /\ q.op # "resize" THEN "virsh" ELSE "put"
  <2>1. devreq' = [devreq EXCEPT ![r].running = up, ![r].pc = pc] /\ up \in BOOLEAN
    BY <1>6, Zenon DEF ReadState
  <2>2. pc = "put" \/ (pc = "virsh" /\ up /\ q.op # "resize")
    OBVIOUS
  <2>3. pc = "put" => ~up \/ q.op = "resize"
    OBVIOUS
  <2> HIDE DEF up, pc
  <2>4. PICK p : p = [q EXCEPT !.running = up, !.pc = pc]
    OBVIOUS
  <2>5. /\ p \in DevReqSet /\ p.op = q.op /\ p.arg = q.arg /\ p.rec = q.rec /\ p.pc = pc /\ p.running = up
    BY <1>1, <2>1, <2>2, <2>4 DEF DevReqSet
  <2>6. devreq' = [devreq EXCEPT ![r] = p]
    BY <1>1, <2>1, <2>4
  <2>7. Asks(p)
    BY <1>1, <2>5 DEF Asks
  <2>8. Proceeds(p)
    BY <1>1, <1>2, <1>6, <2>2, <2>5 DEF Proceeds
  <2>10. Provisioned(p)'
    BY <1>2, <2>2, <2>5, DevEntry DEF Provisioned
  <2>9. ASSUME ~overlap, devfaults = 0, Follows(q) PROVE Follows(p)'
    <3>1. q.op # "power"
      BY <1>1, <1>2 DEF Proceeds
    <3>2. p.pc \in {"put", "virsh"} /\ p.rec = rec
      BY <1>2, <2>2, <2>5, <2>9 DEF Follows
    <3>3. CASE q.op # "resize"
      <4>1. p.pc = "put" => ~p.running
        BY <3>3, <2>3, <2>5
      <4> QED BY <1>2, <2>5, <3>1, <3>2, <3>3, <4>1 DEF Follows
    <3>4. CASE q.op = "resize"
      <4>1. InSync(rec)
        BY <1>2, <2>9, InStep
      <4>2. Rendered(Edited(p)) = Rendered(rec)
        BY <3>2, <3>4, <1>1, <2>2, <2>5, <2>7, <2>8, EditRenders
      <4>3. InSync(Edited(p))
        BY <4>1, <4>2, RenderedFacts DEF InSync
      <4>4. InSync(Edited(p))'
        BY <1>2, <4>3 DEF InSync, Edited, Rendered
      <4> QED BY <1>2, <2>2, <2>5, <3>2, <3>4, <4>4 DEF Follows
    <3> QED BY <3>3, <3>4
  <2> QED
    BY <1>2, <1>3, <2>5, <2>6, <2>7, <2>8, <2>9, <2>10, DevQuiet
<1> QED
  BY <1>4, <1>5, <1>6 DEF ReadState

\* A step that only moves the request on, to where a disk that is to be attached is there.
LEMMA DevAdvances ==
    ASSUME DevInv, NEW r \in DevReqs, NEW pc \in {"state", "mkzvol"}, DevTo(r, pc),
           devreq[r].pc \in {"look", "mkzvol", "volsize"}, devreq[r].op \in {"attachDisk", "resize"},
           pc = "mkzvol" => devreq[r].op = "attachDisk",
           pc = "state" /\ devreq[r].op = "attachDisk" => devreq[r].arg[1] \in DOMAIN zvol',
           UNCHANGED <<rec, conf, drift, overlap, devfaults>>, DOMAIN zvol \subseteq DOMAIN zvol'
    PROVE  DevInv'
<1> DEFINE q == devreq[r]
<1>1. /\ devreq \in [DevReqs -> DevReqSet] /\ q \in DevReqSet /\ Asks(q) /\ Proceeds(q) /\ devfaults \in Nat
  BY DevEntry
<1>2. PICK p : p = [q EXCEPT !.pc = pc]
  OBVIOUS
<1>3. /\ p \in DevReqSet /\ p.op = q.op /\ p.arg = q.arg /\ p.rec = q.rec /\ p.pc = pc
  BY <1>1, <1>2 DEF DevReqSet
<1>4. devreq' = [devreq EXCEPT ![r] = p]
  BY <1>2 DEF DevTo
<1>5. Asks(p)
  BY <1>1, <1>3 DEF Asks
<1>6. Proceeds(p)
  BY <1>1, <1>3 DEF Proceeds
<1>7. ASSUME Follows(q) PROVE Follows(p)'
  BY <1>3, <1>7 DEF Follows
<1>8. Provisioned(p)'
  BY <1>3, DevEntry DEF Provisioned
<1> QED
  BY <1>1, <1>3, <1>4, <1>5, <1>6, <1>7, <1>8, DevQuiet

\* zfs list, zfs create and zfs set volsize: no dataset goes, and the one to attach is there.
LEMMA DatasetSteps ==
    ASSUME DevInv, NEW r \in DevReqs, LookForDataset(r) \/ MakeZvol(r) \/ SetVolsize(r) PROVE DevInv'
<1> DEFINE q == devreq[r]
<1>1. Proceeds(q) /\ devfaults \in Nat
  BY DevEntry
<1>2. UNCHANGED <<rec, conf, drift, overlap, devfaults>>
  BY DEF LookForDataset, MakeZvol, SetVolsize, devhost, devhist
<1>3. CASE LookForDataset(r)
  <2>1. q.pc = "look" /\ zvol' = zvol
    BY <1>3 DEF LookForDataset, DevAt, devhost
  <2>2. CASE DevEnd(r)
    BY <1>1, <1>2, <2>1, <2>2, DevEnds
  <2>3. CASE q.op # "migrate"
    <3>1. q.op = "attachDisk"
      BY <1>1, <2>1, <2>3 DEF Proceeds
    <3>2. \/ q.arg[1] \in DOMAIN zvol /\ DevTo(r, "state")
          \/ DevTo(r, "mkzvol")
      BY <1>3, <2>3 DEF LookForDataset
    <3> QED BY <1>2, <2>1, <3>1, <3>2, DevAdvances
  <2> QED BY <1>3, <2>2, <2>3 DEF LookForDataset
<1>4. CASE MakeZvol(r)
  <2>1. q.pc = "mkzvol" /\ q.op = "attachDisk"
    BY <1>1, <1>4 DEF MakeZvol, DevAt, Proceeds
  <2>2. CASE zvol' = zvol /\ DevEnd(r)
    BY <1>1, <1>2, <2>1, <2>2, DevEnds
  <2>3. CASE DOMAIN zvol' = DOMAIN zvol \cup {q.arg[1]} /\ DevTo(r, "state")
    BY <1>2, <2>1, <2>3, DevAdvances
  <2> QED BY <1>4, <2>2, <2>3 DEF MakeZvol
<1>5. CASE SetVolsize(r)
  <2>1. q.pc = "volsize" /\ q.op = "resize"
    BY <1>1, <1>5 DEF SetVolsize, DevAt, Proceeds
  <2>2. CASE zvol' = zvol /\ DevEnd(r)
    BY <1>1, <1>2, <2>1, <2>2, DevEnds
  <2>3. CASE DOMAIN zvol' = DOMAIN zvol /\ DevTo(r, "state")
    BY <1>2, <2>1, <2>3, DevAdvances
  <2> QED BY <1>5, <2>2, <2>3 DEF SetVolsize
<1> QED
  BY <1>3, <1>4, <1>5

\* virsh: the definition becomes what the record is about to be, or drifts.
LEMMA RunVirshStep ==
    ASSUME DevInv, NEW r \in DevReqs, RunVirsh(r) PROVE DevInv'
<1> DEFINE q == devreq[r]
<1> DEFINE D == q.rec.disks
<1>1. /\ devreq \in [DevReqs -> DevReqSet] /\ q \in DevReqSet /\ Asks(q) /\ Proceeds(q)
      /\ rec \in RecSet /\ Len(rec.disks) <= MaxDisks /\ conf \in ConfSet /\ devfaults \in Nat
  BY DevEntry
<1>2. q.pc = "virsh" /\ UNCHANGED <<rec, zvol, overlap, devfaults>>
  BY DEF RunVirsh, DevAt, devhist
<1>3. /\ q.op \in {"attachDisk", "detachDisk", "attachDev", "detachDev", "power"} /\ Len(D) \in Nat
      /\ MaxDisks \in Nat
  BY <1>1, <1>2, DevAssumption DEF Proceeds, DevReqSet, RecSet
<1>4. CASE ~VirshOk(q)
  <2>1. UNCHANGED <<conf, drift>> /\ DevEnd(r)
    BY <1>4 DEF RunVirsh
  <2> QED BY <1>1, <1>2, <2>1, DevEnds
<1>5. CASE VirshOk(q)
  <2>1. Virsh(q) /\ DevTo(r, "put") /\ drift' = drift \cup Drifts(q)
    BY <1>5 DEF RunVirsh
  <2>2. PICK p : p = [q EXCEPT !.pc = "put"]
    OBVIOUS
  <2>3. p \in DevReqSet /\ p.op = q.op /\ p.arg = q.arg /\ p.rec = q.rec /\ p.pc = "put" /\ p.running = q.running
    BY <1>1, <2>2 DEF DevReqSet
  <2>4. devreq' = [devreq EXCEPT ![r] = p]
    BY <2>1, <2>2 DEF DevTo
  <2>5. Asks(p)
    BY <1>1, <2>3 DEF Asks
  <2>6. Proceeds(p)
    BY <1>1, <1>2, <1>3, <2>3 DEF Proceeds
  <2>7. Edited(p) = Edited(q)
    BY <2>3 DEF Edited
  <2> DEFINE t == IF q.op = "attachDisk" THEN Next1(q) ELSE q.arg[1]
  <2> DEFINE ds == IF q.op = "attachDisk" THEN q.arg[1] ELSE "none"
  <2>8. \/ q.op \in {"attachDisk", "detachDisk"} /\ conf' = [conf EXCEPT !.disks[t] = ds]
        \/ q.op \in {"attachDev", "detachDev", "power"} /\ conf' = conf
    <3>1. CASE q.op \in {"attachDisk", "detachDisk"}
      BY <3>1, <2>1 DEF Virsh, VirshCmd
    <3>2. CASE q.op \in {"attachDev", "detachDev"}
      BY <3>2, <2>1 DEF Virsh, VirshCmd
    <3>3. CASE q.op = "power"
      <4>1. q.arg[1] \in {"start", "destroy", "suspend", "resume"}
        BY <1>1, <3>3 DEF Asks, PowerArgs
      <4> QED BY <3>3, <4>1, <2>1 DEF Virsh, VirshCmd
    <3> QED BY <1>3, <3>1, <3>2, <3>3
  <2>9. q.op \in {"attachDisk", "detachDisk"} => t \in Targets /\ ds \in Datasets \cup {"none"}
    <3>1. q.op = "attachDisk" => Len(D) < MaxDisks /\ q.arg[1] \in Datasets
      BY <1>1, <1>2 DEF Proceeds, Asks
    <3>2. q.op = "detachDisk" => q.arg[1] \in Targets
      BY <1>1 DEF Asks
    <3> QED BY <1>3, <3>1, <3>2 DEF Next1, Targets
  <2>10. conf' \in ConfSet
    BY <1>1, <2>8, <2>9 DEF ConfSet
  <2>11. /\ q.op \in {"attachDisk", "detachDisk"} =>
              /\ conf'.devs = conf.devs
              /\ \A u \in Targets : conf'.disks[u] = IF u = t THEN ds ELSE conf.disks[u]
         /\ q.op \in {"attachDev", "detachDev", "power"} => conf' = conf
    BY <1>1, <2>8, <2>9 DEF ConfSet
  <2>12. DisksThere' /\ Provisioned(p)'
    <3>1. DisksThere /\ Provisioned(q)
      BY DevEntry
    <3>2. q.op = "attachDisk" => q.arg[1] \in DOMAIN zvol
      BY <1>2, <3>1 DEF Provisioned
    <3>3. \A u \in Targets : conf'.disks[u] \in DOMAIN zvol \cup {"none"}
      BY <1>3, <2>11, <3>1, <3>2 DEF DisksThere
    <3>4. DisksThere'
      BY <1>2, <3>1, <3>3 DEF DisksThere
    <3> QED BY <1>2, <2>3, <3>1, <3>2, <3>4 DEF Provisioned
  <2>13. ASSUME ~overlap, devfaults' = 0
         PROVE  Follows(p)'
    <3>1. devfaults = 0 /\ Follows(q)
      BY <1>2, <2>13, DevEntry
    <3>2. q.rec = rec
      BY <1>2, <3>1 DEF Follows
    <3>3. InSync(q.rec)
      BY <1>2, <2>13, <3>1, <3>2, InStep
    <3>4. Edited(q) \in RecSet
      BY <1>1, <1>2, <1>3, EditedFacts
    <3>5. ASSUME "devs" \notin drift' PROVE conf'.devs = Edited(q).devs
      <4>1. "devs" \notin Drifts(q) /\ conf.devs = q.rec.devs
        BY <2>1, <3>3, <3>5 DEF InSync
      <4>2. q.op \in {"attachDisk", "detachDisk", "power"}
        BY <1>3, <4>1 DEF Drifts
      <4>3. Edited(q).devs = q.rec.devs
        BY <4>2, <1>1 DEF Edited, DevReqSet, RecSet
      <4> QED BY <2>11, <4>1, <4>2, <4>3
    <3>6. ASSUME "disks" \notin drift' PROVE conf'.disks = Rendered(Edited(q)).disks
      <4>1. "disks" \notin Drifts(q) /\ conf.disks = Rendered(q.rec).disks
        BY <2>1, <3>3, <3>6 DEF InSync
      <4>2. q.op \in {"attachDisk", "power", "attachDev", "detachDev"} \/ (q.op = "detachDisk" /\ q.arg[1] = Len(D))
        BY <1>3, <4>1 DEF Drifts
      <4>3. \A u \in Targets : conf.disks[u] = IF u <= Len(D) THEN D[u].ds ELSE "none"
        BY <4>1, RenderedFacts
      <4>4. \A u \in Targets : conf'.disks[u] = IF u <= Len(Edited(q).disks) THEN Edited(q).disks[u].ds ELSE "none"
        <5>1. CASE q.op \in {"power", "attachDev", "detachDev"}
          <6>1. Edited(q).disks = D
            BY <5>1, <1>1 DEF Edited, DevReqSet, RecSet
          <6> QED BY <5>1, <2>11, <4>3, <6>1
        <5>2. CASE q.op = "attachDisk"
          <6>1. SameDisks(q, Len(D) + 1) /\ Edited(q).disks[Len(D) + 1].ds = q.arg[1]
            BY <5>2, <1>1, <1>2, EditedFacts
          <6>2. t = Len(D) + 1 /\ ds = q.arg[1]
            BY <5>2 DEF Next1
          <6> QED BY <1>3, <2>11, <4>3, <5>2, <6>1, <6>2 DEF SameDisks, Targets
        <5>3. CASE q.op = "detachDisk" /\ q.arg[1] = Len(D)
          <6>1. SameDisks(q, Len(D) - 1)
            BY <5>3, <1>1, <1>2, EditedFacts
          <6>2. t = Len(D) /\ ds = "none"
            BY <5>3
          <6> QED BY <1>3, <2>11, <4>3, <5>3, <6>1, <6>2 DEF SameDisks, Targets
        <5> QED BY <4>2, <5>1, <5>2, <5>3
      <4>5. conf'.disks = [u \in Targets |-> IF u <= Len(Edited(q).disks) THEN Edited(q).disks[u].ds ELSE "none"]
        BY <2>10, <4>4 DEF ConfSet
      <4> QED BY <4>5 DEF Rendered
    <3>7. InSync(Edited(p))'
      BY <2>7, <3>5, <3>6 DEF InSync, Edited, Rendered
    <3> QED BY <1>2, <2>3, <3>2, <3>7 DEF Follows
  <2> QED
    BY <1>1, <1>2, <2>3, <2>4, <2>5, <2>6, <2>10, <2>12, <2>13, DevActs
<1> QED
  BY <1>4, <1>5

\* The write: the record becomes what the definition is, or is about to be.
LEMMA PutRecordStep ==
    ASSUME DevInv, NEW r \in DevReqs, PutRecord(r) PROVE DevInv'
<1> DEFINE q == devreq[r]
<1>1. /\ devreq \in [DevReqs -> DevReqSet] /\ q \in DevReqSet /\ Asks(q) /\ Proceeds(q)
      /\ rec \in RecSet /\ conf \in ConfSet /\ devfaults \in Nat
  BY DevEntry
<1>2. q.pc = "put" /\ rec' = Edited(q) /\ UNCHANGED <<conf, zvol, drift, overlap, devfaults>>
  BY DEF PutRecord, DevAt, devhost, devhist
<1>3. q.op \notin {"migrate", "none"}
  BY <1>1, <1>2 DEF Proceeds
<1>4. rec' \in RecSet /\ Len(rec'.disks) <= MaxDisks
  BY <1>1, <1>2, <1>3, EditedFacts
<1>5. DisksThere'
  <2>1. DisksThere /\ Provisioned(q)
    BY DevEntry
  <2>2. /\ \A i \in 1..Len(q.rec.disks) : q.rec.disks[i].ds \in DOMAIN zvol
        /\ q.op = "attachDisk" => q.arg[1] \in DOMAIN zvol
    BY <1>2, <2>1 DEF Provisioned
  <2>3. \A i \in 1..Len(rec'.disks) : rec'.disks[i].ds \in DOMAIN zvol
    BY <1>1, <1>2, <1>3, <2>1, <2>2, EditedFacts DEF DisksThere
  <2> QED BY <1>2, <2>1, <2>3 DEF DisksThere
<1>6. CASE q.running \/ q.op \in {"resize", "power"}
  <2>1. devreq' = [devreq EXCEPT ![r] = NoDevReq]
    BY <1>6 DEF PutRecord, DevEnd
  <2>2. ASSUME ~overlap, devfaults' = 0 PROVE InSync(rec)'
    <3>1. InSync(Edited(q))
      BY <1>2, <1>6, <2>2, DevEntry DEF Follows
    <3> QED BY <1>2, <3>1 DEF InSync, Rendered
  <2> QED
    BY <1>1, <1>2, <1>4, <1>5, <2>1, <2>2, NoDevReqFacts, DevActs
<1>7. CASE ~(q.running \/ q.op \in {"resize", "power"})
  <2>1. PICK p : p = [q EXCEPT !.pc = "define"]
    OBVIOUS
  <2>2. p \in DevReqSet /\ p.op = q.op /\ p.arg = q.arg /\ p.rec = q.rec /\ p.pc = "define"
    BY <1>1, <2>1 DEF DevReqSet
  <2>3. devreq' = [devreq EXCEPT ![r] = p]
    BY <1>7, <2>1 DEF PutRecord, DevTo
  <2>4. Asks(p)
    BY <1>1, <2>2 DEF Asks
  <2>5. Proceeds(p)
    BY <1>1, <1>2, <1>3, <1>7, <2>2 DEF Proceeds
  <2>6. ASSUME ~overlap, devfaults' = 0 PROVE Follows(p)'
    <3>1. rec' = Edited(p)
      BY <1>2, <2>2 DEF Edited
    <3> QED BY <1>2, <2>2, <3>1 DEF Follows, Edited
  <2>7. Provisioned(p)'
    BY <1>2, <2>2, DevEntry DEF Provisioned
  <2> QED
    BY <1>1, <1>2, <1>4, <1>5, <2>2, <2>3, <2>4, <2>5, <2>6, <2>7, DevActs
<1> QED
  BY <1>6, <1>7

\* virsh define renders the record that was written.
LEMMA DefineAgainStep ==
    ASSUME DevInv, NEW r \in DevReqs, DefineAgain(r) PROVE DevInv'
<1> DEFINE q == devreq[r]
<1>1. /\ q \in DevReqSet /\ Asks(q) /\ Proceeds(q)
      /\ rec \in RecSet /\ Len(rec.disks) <= MaxDisks /\ devfaults \in Nat
  BY DevEntry
<1>2. /\ q.pc = "define" /\ conf' = Rendered(Edited(q)) /\ UNCHANGED <<rec, zvol, overlap, devfaults>>
      /\ devreq' = [devreq EXCEPT ![r] = NoDevReq]
  BY DEF DefineAgain, DevAt, DevEnd, devhist
<1>3. conf' \in ConfSet
  BY <1>1, <1>2, EditedFacts, RenderedTyped DEF Proceeds
<1>4. DisksThere'
  <2>1. DisksThere /\ Provisioned(q) /\ q.op # "migrate"
    BY <1>1, <1>2, DevEntry DEF Proceeds
  <2>2. \A i \in 1..Len(Edited(q).disks) : Edited(q).disks[i].ds \in DOMAIN zvol
    BY <1>1, <1>2, <2>1, EditedFacts DEF Provisioned
  <2>3. Len(Edited(q).disks) \in Nat
    BY <1>1, <1>2, <2>1, EditedFacts DEF RecSet
  <2>4. \A t \in Targets : conf'.disks[t] \in DOMAIN zvol \cup {"none"}
    BY <1>2, <2>2, <2>3, RenderedFacts DEF Targets
  <2> QED BY <1>2, <2>1, <2>4 DEF DisksThere
<1>5. ASSUME ~overlap, devfaults' = 0 PROVE InSync(rec)'
  <2>1. rec = Edited(q)
    BY <1>2, <1>5, DevEntry DEF Follows
  <2> QED BY <1>2, <2>1 DEF InSync, Rendered
<1> QED
  BY <1>1, <1>2, <1>3, <1>4, <1>5, NoDevReqFacts, DevActs

\* Every step keeps the invariant.
LEMMA DevNextInv ==
    ASSUME DevInv, [DevNext]_devvars PROVE DevInv'
<1>1. CASE UNCHANGED devvars
  <2>1. /\ rec' = rec /\ conf' = conf /\ zvol' = zvol /\ devreq' = devreq /\ drift' = drift
        /\ overlap' = overlap /\ devfaults' = devfaults
    BY <1>1 DEF devvars
  <2>2. DevTyped'
    BY <2>1 DEF DevInv, DevTyped, Asks, Proceeds
  <2>5. DisksThere' /\ \A r \in DevReqs : Provisioned(devreq[r])'
    <3>1. DisksThere /\ \A r \in DevReqs : Provisioned(devreq[r])
      BY DEF DevInv
    <3> QED BY <2>1, <3>1 DEF DisksThere, Provisioned
  <2>3. ASSUME ~overlap, devfaults = 0 PROVE (OneDevReq /\ Steady)'
    BY <2>1, <2>3 DEF DevInv, OneDevReq, Steady, InSync, Rendered
  <2>4. ASSUME ~overlap, devfaults = 0, NEW r \in DevReqs PROVE Follows(devreq[r])'
    <3>1. Follows(devreq[r])
      BY <2>4 DEF DevInv
    <3> QED BY <2>1, <3>1 DEF Follows, InSync
  <2> QED BY <2>1, <2>2, <2>3, <2>4, <2>5 DEF DevInv
<1>2. ASSUME NEW r \in DevReqs, DevStep(r) \/ RequestEnds(r) PROVE DevInv'
  <2>1. CASE RequestEnds(r)
    <3>1. devreq[r].pc # "idle"
      <4>1. devreq[r] # NoDevReq
        BY <2>1 DEF RequestEnds
      <4> QED BY <4>1, DevEntry DEF Proceeds
    <3>2. devfaults' \in Nat /\ devfaults' # 0
      BY <2>1, DevEntry DEF RequestEnds
    <3> QED BY <2>1, <3>1, <3>2, DevEnds DEF RequestEnds, devhost
  <2>2. CASE DevStep(r)
    BY <2>2, ReadRecordStep, ReadStateStep, DatasetSteps, RunVirshStep, PutRecordStep, DefineAgainStep DEF DevStep
  <2> QED BY <1>2, <2>1, <2>2
<1>3. ASSUME NEW r \in DevReqs, NEW t \in Targets, NEW s \in Gib, DevRequest(r, "resize", <<t, s>>) PROVE DevInv'
  <2>1. <<t, s>> \in DevArgs /\ <<t, s>>[1] = t /\ <<t, s>>[2] = s
    BY DEF DevArgs
  <2> QED BY <1>3, <2>1, DevRequestStep
<1>4. ASSUME NEW r \in DevReqs, NEW d \in Datasets, NEW s \in Gib, DevRequest(r, "attachDisk", <<d, s>>) PROVE DevInv'
  <2>1. <<d, s>> \in DevArgs /\ <<d, s>>[1] = d /\ <<d, s>>[2] = s
    BY DEF DevArgs
  <2> QED BY <1>4, <2>1, DevRequestStep
<1>5. ASSUME NEW r \in DevReqs, NEW t \in Targets, DevRequest(r, "detachDisk", <<t>>) PROVE DevInv'
  <2>1. <<t>> \in DevArgs /\ <<t>>[1] = t
    BY DEF DevArgs
  <2> QED BY <1>5, <2>1, DevRequestStep
<1>6. ASSUME NEW r \in DevReqs, NEW t \in Targets, NEW d \in Datasets, DevRequest(r, "migrate", <<t, d>>) PROVE DevInv'
  <2>1. <<t, d>> \in DevArgs /\ <<t, d>>[1] = t
    BY DEF DevArgs
  <2> QED BY <1>6, <2>1, DevRequestStep
<1>7. ASSUME NEW r \in DevReqs, NEW u \in UsbDevs \cup PciDevs, NEW op \in {"attachDev", "detachDev"},
             DevRequest(r, op, <<u>>)
      PROVE  DevInv'
  <2>1. <<u>> \in DevArgs /\ <<u>>[1] = u /\ u \in HostDevs
    BY DEF DevArgs, HostDevs
  <2> QED BY <1>7, <2>1, DevRequestStep
<1>8. ASSUME NEW r \in DevReqs, NEW a \in {"start", "destroy", "suspend", "resume"}, DevRequest(r, "power", <<a>>)
      PROVE  DevInv'
  <2>1. <<a>> \in DevArgs /\ <<a>> \in PowerArgs
    BY DEF DevArgs, PowerArgs
  <2> QED BY <1>8, <2>1, DevRequestStep
<1> QED
  BY <1>1, <1>2, <1>3, <1>4, <1>5, <1>6, <1>7, <1>8 DEF DevNext

\* DefinitionFollows, for any disks, devices, sizes and limits: however requests overlap or fail, no
\* definition names a disk that was never provisioned; while they come one at a time and none is cut
\* off, the definition has the record's disks until one before the last is detached live, and its
\* devices until one is attached or detached live.
THEOREM DefinitionsFollowRecords == DevSpec => []DefinitionFollows
<1>1. DevInit => DevInv
  BY DevInitInv
<1>2. DevInv /\ [DevNext]_devvars => DevInv'
  BY DevNextInv
<1>3. DevInv => DefinitionFollows
  <2> SUFFICES ASSUME DevInv PROVE DefinitionFollows
    OBVIOUS
  <2>1. ~overlap /\ devfaults = 0 /\ (\A r \in DevReqs : devreq[r] = NoDevReq) => InSync(rec)
    BY NoDevReqFacts DEF DevInv, Steady
  <2>2. DOMAIN conf.disks = Targets
    BY DEF DevInv, DevTyped, ConfSet
  <2>3. Range(conf.disks) \subseteq DOMAIN zvol \cup {"none"}
    BY <2>2 DEF DevInv, DisksThere, Range
  <2> QED BY <2>1, <2>3 DEF DefinitionFollows
<1> QED
  BY <1>1, <1>2, <1>3, PTL DEF DevSpec
=============================================================================
