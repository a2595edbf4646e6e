------------------------------ MODULE VmProofs ------------------------------
(***************************************************************************)
(* OnlyOwnZvolsDestroyed, FailedCreateLeavesNothing and AgreeWhenSerial,   *)
(* for any VMs, disks, requests, faults and crashes.                       *)
(*                                                                         *)
(* VmInv.  A create has its VM to itself: nobody else knows the id until   *)
(* the record is written (Apart, DomainOk).  So at each step it is known   *)
(* what libvirt has under that id, and what the commands that a rollback   *)
(* has still to run will leave of it (DomainGoes).  The zvols that         *)
(* requests have made are there, are those of one request each and were    *)
(* not there when it began (ZvolsOk, Apart); a rollback still has each of  *)
(* its own to destroy, once (Mine, Once, All).                             *)
(*                                                                         *)
(* SerialInv.  On a VM that is not mixed at most one request is under way  *)
(* (OneAtATime, QueueOk).  With none, its record and its domain agree      *)
(* (Settled); with one, Knows says for each step what the domain is next   *)
(* to the record that was read or is being built.  No two domains share a  *)
(* name (NamesApart), so that a definition that libvirt refuses was        *)
(* refused before anything changed.                                        *)
(***************************************************************************)
EXTENDS VmLifecycle, FiniteSetTheorems, TLAPS

-----------------------------------------------------------------------------
(* The inductive invariant.                                                *)

\* A record with the fields of a request.
IsReq(q) == q = [pc |-> q.pc, op |-> q.op, v |-> q.v, arg |-> q.arg, vm |-> q.vm, was |-> q.was,
                 had |-> q.had, made |-> q.made, todo |-> q.todo, cur |-> q.cur, undo |-> q.undo, cause |-> q.cause,
                 lossy |-> q.lossy]

VmShape ==
    /\ vreq = [r \in VmReqs |-> vreq[r]] /\ \A r \in VmReqs : IsReq(vreq[r])
    /\ dom \in [VmIds -> Domain \cup {NoDomain}]
    /\ vrec \in [VmIds -> VmRecord \cup {NoVm}]
    /\ boot \in [pc : {"down", "run"}, queue : SUBSET VmIds]
    /\ boot.pc = "down" => \A r \in VmReqs : vreq[r] = NoReq

\* The steps of each operation.
CreateSteps == {"zvol", "mkzvol", "seed", "define", "rules", "start", "put", "undo"}
UpdateSteps == {"read", "stopped", "tpl", "rename", "zvol", "mkzvol", "seed", "oldseed", "define", "rules", "put"}
RightStep(op, pc) ==
    /\ op \in {"none", "create", "update", "delete", "power"}
    /\ op = "none" => pc = "idle"
    /\ op = "create" => pc \in CreateSteps
    /\ op = "update" => pc \in UpdateSteps
    /\ op = "delete" => pc \in {"read", "rules", "destroy", "undefine", "erase"}
    /\ op = "power"  => pc \in {"read", "virsh", "put"}

StepOk(q) ==
    /\ RightStep(q.op, q.pc)
    /\ q.op # "none" => q.v \in VmIds
    /\ q.op = "update" => q.arg[1] = "set" /\ q.arg[2] \in VmChanges
    /\ q.op = "power" => q.arg \in PowerActions
    /\ q.pc = "mkzvol" => q.cur \in VmNames
    /\ q.pc \notin {"idle", "read"} => q.vm \in VmRecord

ZvolsOk(q) ==
    /\ q.made \subseteq zvols /\ q.made \subseteq VmNames /\ IsFiniteSet(q.made)
    /\ q.had \subseteq zvols /\ q.made \cap q.had = {}

DomainOk(q) ==
    q.op = "create" =>
      /\ vrec[q.v] = NoVm /\ q.v \notin boot.queue
      /\ q.pc \in {"zvol", "mkzvol", "seed", "define"} => dom[q.v] = NoDomain
      /\ q.pc \in {"rules", "start"} => dom[q.v].defined /\ dom[q.v].power = "off"
      /\ q.pc = "put" => dom[q.v].defined

\* The commands of a rollback.
Cmds(q) == {<<"destroy">>, <<"undefine">>, <<"seed", q.vm.seed>>} \cup {<<"zvol", d>> : d \in VmNames}
Mine(q) == \A k \in 1..Len(q.undo), d \in VmNames : q.undo[k] = <<"zvol", d>> => d \in q.made
Once(q) == \A k, l \in 1..Len(q.undo), d \in VmNames :
              q.undo[k] = <<"zvol", d>> /\ q.undo[l] = <<"zvol", d>> => k = l
All(q)  == \A d \in q.made : \E k \in 1..Len(q.undo) : q.undo[k] = <<"zvol", d>>
DomainGoes(q) ==
    \/ dom[q.v] = NoDomain
    \/ Len(q.undo) >= 1 /\ q.undo[1] = <<"undefine">> /\ dom[q.v].power = "off"
    \/ /\ Len(q.undo) >= 2 /\ q.undo[1] = <<"destroy">> /\ q.undo[2] = <<"undefine">>
       /\ dom[q.v].defined

UndoOk(q) ==
    q.pc = "undo" =>
      /\ q.undo \in Seq(Cmds(q)) /\ Mine(q) /\ Once(q)
      /\ ~q.lossy => DomainGoes(q) /\ (q.cause \notin {"mkzvol", "tags"} => All(q))

ReqOk(q) == StepOk(q) /\ ZvolsOk(q) /\ DomainOk(q) /\ UndoOk(q)

Apart ==
    \A r, s \in VmReqs : r # s =>
      /\ vreq[r].made \cap vreq[s].made = {}
      /\ vreq[r].op = "create" /\ vreq[s].op # "none" => vreq[s].v # vreq[r].v

VmInv == VmShape /\ Apart /\ \A r \in VmReqs : ReqOk(vreq[r])

-----------------------------------------------------------------------------
(* What is known of a VM whose requests come one at a time and meet no     *)
(* failing command.                                                        *)

\* The domain d is the one that the record vm is about.
Match(vm, d) == /\ d.name = vm.name /\ d.disks = vm.disks /\ d.seed = vm.seed /\ d.defined
                /\ vm.tpl => d.power = "off"
Settled(v) == /\ vrec[v] = NoVm => dom[v] = NoDomain
              /\ vrec[v] # NoVm => Match(vrec[v], dom[v])
Free(v)    == \A r \in VmReqs : vreq[r].op # "none" => vreq[r].v # v

CreateKnows(q) ==
    /\ q.arg = <<"start">> => ~q.vm.tpl
    /\ q.pc = "start" => q.arg = <<"start">>
    /\ q.pc \in {"rules", "start", "put"} => Match(q.vm, dom[q.v])
    /\ q.pc = "undo" => DomainGoes(q)
UpdateKnows(q) ==
    /\ q.pc = "read" => Settled(q.v)
    /\ q.pc \in {"stopped", "tpl", "rename", "zvol", "mkzvol", "seed", "oldseed"}
         => Settled(q.v) /\ vrec[q.v] # NoVm /\ q.was = vrec[q.v]
    /\ q.pc \in {"zvol", "mkzvol", "seed", "oldseed"} => dom[q.v].power = "off"
    /\ q.pc = "define" => q.vm.name = dom[q.v].name /\ dom[q.v].defined
    /\ q.pc \in {"rename", "define"} /\ q.vm.tpl => dom[q.v].power = "off"
    /\ q.pc \in {"rules", "put"} => Match(q.vm, dom[q.v])
DeleteKnows(q) ==
    /\ q.pc = "read" => Settled(q.v)
    /\ q.pc = "undefine" => dom[q.v].power = "off"
    /\ q.pc = "erase" => dom[q.v] = NoDomain
PowerKnows(q) ==
    /\ q.pc \in {"read", "virsh"} => Settled(q.v)
    /\ q.pc = "virsh" => /\ vrec[q.v] # NoVm /\ q.vm = vrec[q.v]
                         /\ q.vm.tpl => q.arg \notin {<<"start">>, <<"resume">>}
    /\ q.pc = "put" => Match(q.vm, dom[q.v])
Knows(q) ==
    /\ q.op = "create" => CreateKnows(q)
    /\ q.op = "update" => UpdateKnows(q)
    /\ q.op = "delete" => DeleteKnows(q)
    /\ q.op = "power"  => PowerKnows(q)

NamesApart ==
    \A v, w \in VmIds : v # w /\ dom[v] # NoDomain /\ dom[w] # NoDomain => dom[v].name # dom[w].name
OneAtATime ==
    \A r, s \in VmReqs : r # s /\ vreq[r].op # "none" /\ vreq[s].op # "none" /\ vreq[r].v = vreq[s].v
                           => vreq[r].v \in mixed
QueueOk == \A v \in boot.queue \ mixed : Free(v) /\ ~vrec[v].tpl

SerialInv ==
    /\ NamesApart /\ OneAtATime /\ QueueOk
    /\ \A v \in VmIds \ mixed : Free(v) => Settled(v)
    /\ \A r \in VmReqs : vreq[r].op # "none" /\ vreq[r].v \notin mixed => Knows(vreq[r])

-----------------------------------------------------------------------------
(* The rollback as a sequence.                                             *)

\* SetToSeq lists each element of a finite set once.
LEMMA SetToSeqLists ==
    ASSUME NEW S, IsFiniteSet(S)
    PROVE  /\ SetToSeq(S) \in Seq(S)
           /\ \A k, l \in 1..Len(SetToSeq(S)) : SetToSeq(S)[k] = SetToSeq(S)[l] => k = l
           /\ \A x \in S : \E k \in 1..Len(SetToSeq(S)) : SetToSeq(S)[k] = x
<1> DEFINE n == Cardinality(S)
           f == SetToSeq(S)
<1>1. n \in Nat /\ ExistsBijection(1..n, S)
  BY FS_CardinalityType
<1>2. \E g \in [1..n -> S] : IsInjective(g)
  BY <1>1 DEF ExistsBijection, Bijection, Injection
<1>3. f \in [1..n -> S] /\ IsInjective(f)
  BY <1>2 DEF SetToSeq
<1> HIDE DEF f
<1>4. IsFiniteSet(1..n) /\ Cardinality(1..n) = n
  BY <1>1, FS_Interval
<1>5. f \in Injection(1..n, S)
  BY <1>3 DEF Injection
<1>6. f \in Surjection(1..n, S)
  BY <1>4, <1>5, FS_Injection
<1>7. f \in Seq(S) /\ Len(f) = n
  BY <1>1, <1>3
<1> QED
  BY <1>3, <1>6, <1>7 DEF IsInjective, Surjection, f

\* A sequence of commands that destroys each zvol of q.made once, and no other.
Lists(u, q) ==
    /\ u \in Seq(Cmds(q))
    /\ \A k \in 1..Len(u), d \in VmNames : u[k] = <<"zvol", d>> => d \in q.made
    /\ \A k, l \in 1..Len(u), d \in VmNames : u[k] = <<"zvol", d>> /\ u[l] = <<"zvol", d>> => k = l
    /\ \A d \in q.made : \E k \in 1..Len(u) : u[k] = <<"zvol", d>>

\* Commands on the domain and the seed ISO may precede and follow them.
LEMMA OthersAround ==
    ASSUME NEW q, NEW w, Lists(w, q), NEW p \in Seq(Cmds(q)),
           \A k \in 1..Len(p), d \in VmNames : p[k] # <<"zvol", d>>,
           q.made \subseteq VmNames
    PROVE  Lists(p \o w, q) /\ Lists(w \o p, q)
<1>1. Len(p) \in Nat /\ Len(w) \in Nat /\ w \in Seq(Cmds(q))
  BY DEF Lists
<1>2. ASSUME NEW a \in Seq(Cmds(q)), NEW b \in Seq(Cmds(q)), NEW u, u = a \o b,
             (a = p /\ b = w) \/ (a = w /\ b = p)
      PROVE  Lists(u, q)
  <2>1. /\ u \in Seq(Cmds(q)) /\ Len(u) = Len(a) + Len(b) /\ Len(a) \in Nat /\ Len(b) \in Nat
        /\ \A k \in 1..Len(u) : u[k] = IF k <= Len(a) THEN a[k] ELSE b[k - Len(a)]
    BY <1>2
  <2>2. /\ \A k \in 1..Len(a) : k \in 1..Len(u) /\ u[k] = a[k]
        /\ \A k \in 1..Len(b) : k + Len(a) \in 1..Len(u) /\ u[k + Len(a)] = b[k]
    <3>1. ASSUME NEW k \in 1..Len(b) PROVE k + Len(a) \in 1..Len(u) /\ u[k + Len(a)] = b[k]
      <4>1. k + Len(a) \in 1..Len(u) /\ ~(k + Len(a) <= Len(a)) /\ (k + Len(a)) - Len(a) = k
        BY <2>1
      <4> QED
        BY <4>1, <2>1
    <3> QED
      BY <2>1, <3>1
  <2>3. \A k \in 1..Len(u) : \/ k \in 1..Len(a) /\ u[k] = a[k]
                             \/ k - Len(a) \in 1..Len(b) /\ u[k] = b[k - Len(a)]
    BY <2>1
  <2>4. \A k \in 1..Len(u), d \in VmNames : u[k] = <<"zvol", d>> => d \in q.made
    <3>1. CASE a = p /\ b = w
      <4>1. \A k \in 1..Len(w), d \in VmNames : w[k] = <<"zvol", d>> => d \in q.made
        BY DEF Lists
      <4>2. \A k \in 1..Len(u), d \in VmNames : 
               u[k] = <<"zvol", d>> => k - Len(a) \in 1..Len(w) /\ u[k] = w[k - Len(a)]
        BY <2>3, <3>1
      <4> QED
        BY <4>1, <4>2
    <3>2. CASE a = w /\ b = p
      BY <2>3, <3>2 DEF Lists
    <3> QED
      BY <3>1, <3>2, <1>2
  <2>5. ASSUME NEW k \in 1..Len(u), NEW l \in 1..Len(u), NEW d \in VmNames,
               u[k] = <<"zvol", d>>, u[l] = <<"zvol", d>>
        PROVE  k = l
    <3>1. CASE a = p /\ b = w
      <4>1. /\ k - Len(a) \in 1..Len(w) /\ w[k - Len(a)] = <<"zvol", d>>
            /\ l - Len(a) \in 1..Len(w) /\ w[l - Len(a)] = <<"zvol", d>>
        BY <2>3, <2>5, <3>1
      <4>2. k - Len(a) = l - Len(a)
        BY <4>1 DEF Lists
      <4> QED
        BY <4>2, <2>1
    <3>2. CASE a = w /\ b = p
      <4>1. /\ k \in 1..Len(w) /\ w[k] = <<"zvol", d>> /\ l \in 1..Len(w) /\ w[l] = <<"zvol", d>>
        BY <2>3, <2>5, <3>2
      <4> QED
        BY <4>1 DEF Lists
    <3> QED
      BY <3>1, <3>2, <1>2
  <2>6. ASSUME NEW d \in q.made PROVE \E k \in 1..Len(u) : u[k] = <<"zvol", d>>
    <3>1. PICK k \in 1..Len(w) : w[k] = <<"zvol", d>>
      BY DEF Lists
    <3> QED
      BY <3>1, <2>2, <1>2
  <2> QED
    BY <2>1, <2>4, <2>5, <2>6 DEF Lists
<1>3. Lists(p \o w, q)
  BY <1>1, <1>2
<1>4. Lists(w \o p, q)
  BY <1>1, <1>2
<1> QED
  BY <1>3, <1>4

\* What create's rollback consists of, for each step that may fail.
LEMMA RollbackLists ==
    ASSUME NEW q, NEW pc, IsFiniteSet(q.made), q.made \subseteq VmNames,
           pc \in {"mkzvol", "tags", "seed", "define", "rules", "start", "put"},
           NEW u, u = Rollback(q, pc)
    PROVE  /\ pc \in {"mkzvol", "tags"} => u = <<>>
           /\ pc \notin {"mkzvol", "tags"} => Lists(u, q)
           /\ pc \in {"rules", "start"} => Len(u) >= 1 /\ u[1] = <<"undefine">>
           /\ pc = "put" => Len(u) >= 2 /\ u[1] = <<"destroy">> /\ u[2] = <<"undefine">>
<1> DEFINE Z == {<<"zvol", d>> : d \in q.made}
           w == SetToSeq(Z)
           e == IF q.vm.seed = "none" THEN <<>> ELSE <<<<"seed", q.vm.seed>>>>
           g == <<<<"undefine">>>>
           h == <<<<"destroy">>, <<"undefine">>>>
<1>1. IsFiniteSet(Z)
  <2> DEFINE f == [d \in q.made |-> <<"zvol", d>>]
  <2>1. f \in Surjection(q.made, Z)
    BY DEF Surjection
  <2> QED
    BY <2>1, FS_Surjection
<1>2. /\ w \in Seq(Z) /\ (\A k, l \in 1..Len(w) : w[k] = w[l] => k = l)
      /\ \A x \in Z : \E k \in 1..Len(w) : w[k] = x
  BY <1>1, SetToSeqLists
<1>u. u = CASE pc \in {"mkzvol", "tags"} -> <<>>
          [] pc = "seed"   -> w
          [] pc = "define" -> w \o e
          [] pc = "rules"  -> g \o w \o e
          [] pc = "start"  -> g \o w
          [] pc = "put"    -> h \o w
  BY DEF Rollback
<1> HIDE DEF w
<1>3. /\ w \in Seq(Cmds(q)) /\ Len(w) \in Nat
      /\ \A k \in 1..Len(w) : \E d \in q.made : w[k] = <<"zvol", d>>
  <2>1. Z \subseteq Cmds(q)
    BY DEF Cmds
  <2> QED
    BY <1>2, <2>1
<1>4. \A k \in 1..Len(w), d \in VmNames : w[k] = <<"zvol", d>> => d \in q.made
  BY <1>3
<1>5. \A d \in q.made : \E k \in 1..Len(w) : w[k] = <<"zvol", d>>
  BY <1>2
<1>6. Lists(w, q)
  BY <1>2, <1>3, <1>4, <1>5 DEF Lists
<1>7. /\ e \in Seq(Cmds(q)) /\ g \in Seq(Cmds(q)) /\ h \in Seq(Cmds(q))
      /\ Len(g) = 1 /\ g[1] = <<"undefine">> /\ Len(h) = 2 /\ h[1] = <<"destroy">> /\ h[2] = <<"undefine">>
  BY DEF Cmds
<1>8. /\ \A k \in 1..Len(e), d \in VmNames : e[k] # <<"zvol", d>>
      /\ \A k \in 1..Len(g), d \in VmNames : g[k] # <<"zvol", d>>
      /\ \A k \in 1..Len(h), d \in VmNames : h[k] # <<"zvol", d>>
  OBVIOUS
<1> HIDE DEF e, g, h
<1>9. Lists(w \o e, q) /\ Lists(g \o w, q) /\ Lists(h \o w, q)
  BY <1>6, <1>7, <1>8, OthersAround
<1>10. Lists((g \o w) \o e, q)
  BY <1>9, <1>7, <1>8, OthersAround
<1>11. /\ Len(g \o w) >= 1 /\ (g \o w)[1] = <<"undefine">>
       /\ Len((g \o w) \o e) >= 1 /\ ((g \o w) \o e)[1] = <<"undefine">>
       /\ Len(h \o w) >= 2 /\ (h \o w)[1] = <<"destroy">> /\ (h \o w)[2] = <<"undefine">>
  <2>1. ASSUME NEW a \in Seq(Cmds(q)), NEW b \in Seq(Cmds(q)), Len(a) >= 1
        PROVE  /\ a \o b \in Seq(Cmds(q)) /\ Len(a \o b) >= Len(a)
               /\ \A k \in 1..Len(a) : (a \o b)[k] = a[k]
    BY <2>1
  <2>2. /\ g \o w \in Seq(Cmds(q)) /\ Len(g \o w) >= 1 /\ (g \o w)[1] = <<"undefine">>
        /\ Len(h \o w) >= 2 /\ (h \o w)[1] = <<"destroy">> /\ (h \o w)[2] = <<"undefine">>
    <3>1. /\ g \o w \in Seq(Cmds(q)) /\ Len(g \o w) >= 1 /\ (g \o w)[1] = <<"undefine">>
      BY <1>3, <1>7
    <3>2. Len(h \o w) >= 2 /\ (h \o w)[1] = h[1] /\ (h \o w)[2] = h[2]
      <4>1. Len(h \o w) >= Len(h) /\ \A k \in 1..Len(h) : (h \o w)[k] = h[k]
        <5>1. Len(h) >= 1
          BY <1>7
        <5> QED
          BY <1>3, <1>7, <2>1, <5>1, Zenon
      <4>2. 1 \in 1..Len(h) /\ 2 \in 1..Len(h)
        BY <1>7
      <4> QED
        BY <4>1, <4>2, <1>7
    <3> QED
      BY <3>1, <3>2, <1>7
  <2> DEFINE x == g \o w
  <2> HIDE DEF x
  <2>3. x \in Seq(Cmds(q)) /\ Len(x) >= 1 /\ x[1] = <<"undefine">>
    BY <2>2 DEF x
  <2>4. Len(x \o e) >= 1 /\ (x \o e)[1] = <<"undefine">>
    BY <2>3, <1>7
  <2> QED
    BY <2>2, <2>4 DEF x
<1>12. CASE pc \in {"mkzvol", "tags"}
  BY <1>u, <1>12
<1>13. CASE pc = "seed"
  BY <1>u, <1>13, <1>6
<1>14. CASE pc = "define"
  BY <1>u, <1>14, <1>9
<1>15. CASE pc = "rules"
  BY <1>u, <1>15, <1>10, <1>11
<1>16. CASE pc = "start"
  BY <1>u, <1>16, <1>9, <1>11
<1>17. CASE pc = "put"
  BY <1>u, <1>17, <1>9, <1>11
<1> QED
  BY <1>12, <1>13, <1>14, <1>15, <1>16, <1>17

-----------------------------------------------------------------------------
(* What every step of a request has in common.                             *)

\* What the other requests rest on, across a step of request r.
OthersKept(r) ==
    /\ vreq' = [s \in VmReqs |-> vreq'[s]]
    /\ \A s \in VmReqs \ {r} :
         /\ IsReq(vreq'[s]) /\ vreq'[s].had \subseteq vreq[s].had \cap zvols'
         /\ vreq[s].made \subseteq zvols'
         /\ vreq'[s].pc = vreq[s].pc /\ vreq'[s].op = vreq[s].op /\ vreq'[s].v = vreq[s].v
         /\ vreq'[s].arg = vreq[s].arg /\ vreq'[s].vm = vreq[s].vm /\ vreq'[s].made = vreq[s].made
         /\ vreq'[s].was = vreq[s].was
         /\ vreq'[s].cur = vreq[s].cur /\ vreq'[s].undo = vreq[s].undo
         /\ vreq'[s].cause = vreq[s].cause /\ vreq'[s].lossy = vreq[s].lossy

\* A step touches the domain and the record of its own VM only.
OwnVm(v) ==
    /\ dom' \in [VmIds -> Domain \cup {NoDomain}] /\ vrec' \in [VmIds -> VmRecord \cup {NoVm}]
    /\ \A w \in VmIds \ {v} : dom'[w] = dom[w] /\ vrec'[w] = vrec[w]

\* Both.
Framed(r) == OthersKept(r) /\ OwnVm(vreq[r].v)

\* A step of a request, known by what it leaves the request with.
LEMMA ReqStep ==
    ASSUME VmInv, NEW r \in VmReqs, vreq[r].op # "none",
           OthersKept(r), OwnVm(vreq[r].v), boot' = boot,
           IsReq(vreq'[r]), vreq'[r].op \in {vreq[r].op, "none"},
           vreq'[r].op # "none" => vreq'[r].v = vreq[r].v,
           vreq'[r].made \subseteq vreq[r].made \cup (zvols' \ zvols),
           ReqOk(vreq[r])'
    PROVE  VmInv' /\ Framed(r)
<1>1. boot.pc = "run"
  BY DEF VmInv, VmShape, NoReq
<1>2. VmShape'
  BY <1>1 DEF VmInv, VmShape, OthersKept, OwnVm
<1>3. \A s \in VmReqs \ {r} : vreq[s].op = "create" => vreq[s].v # vreq[r].v /\ vreq[s].v \in VmIds
  BY DEF VmInv, Apart, ReqOk, StepOk
<1>4. ASSUME NEW s \in VmReqs, s # r
      PROVE  ReqOk(vreq[s])'
  <2>1. ReqOk(vreq[s])
    BY DEF VmInv
  <2>2. StepOk(vreq[s])'
    BY <1>4, <2>1 DEF ReqOk, StepOk, OthersKept
  <2>3. ZvolsOk(vreq[s])'
    BY <1>4, <2>1 DEF ReqOk, ZvolsOk, OthersKept
  <2>4. DomainOk(vreq[s])'
    BY <1>3, <1>4, <2>1 DEF ReqOk, DomainOk, OthersKept, OwnVm
  <2>5. UndoOk(vreq[s])'
    <3>1. CASE vreq[s].pc = "undo"
      <4>1. dom'[vreq[s].v] = dom[vreq[s].v]
        BY <1>3, <1>4, <2>1, <3>1 DEF ReqOk, StepOk, OwnVm, RightStep, CreateSteps, UpdateSteps
      <4>2. /\ vreq'[s].pc = vreq[s].pc /\ vreq'[s].v = vreq[s].v /\ vreq'[s].vm = vreq[s].vm
            /\ vreq'[s].made = vreq[s].made /\ vreq'[s].undo = vreq[s].undo
            /\ vreq'[s].cause = vreq[s].cause /\ vreq'[s].lossy = vreq[s].lossy
        BY <1>4 DEF OthersKept
      <4>3. /\ Cmds(vreq[s])' = Cmds(vreq[s]) /\ Mine(vreq[s])' = Mine(vreq[s])
            /\ Once(vreq[s])' = Once(vreq[s]) /\ All(vreq[s])' = All(vreq[s])
        BY <4>2 DEF Cmds, Mine, Once, All
      <4>4. DomainGoes(vreq[s])' = DomainGoes(vreq[s])
        BY <4>1, <4>2 DEF DomainGoes, NoDomain
      <4> QED
        BY <2>1, <4>2, <4>3, <4>4 DEF ReqOk, UndoOk
    <3>2. CASE vreq[s].pc # "undo"
      BY <1>4, <3>2 DEF UndoOk, OthersKept
    <3> QED
      BY <3>1, <3>2
  <2> QED
    BY <2>2, <2>3, <2>4, <2>5 DEF ReqOk
<1>5. Apart'
  <2>1. ASSUME NEW s \in VmReqs, s # r
        PROVE  /\ vreq'[r].made \cap vreq'[s].made = {}
               /\ vreq'[r].op = "create" /\ vreq'[s].op # "none" => vreq'[s].v # vreq'[r].v
               /\ vreq'[s].op = "create" /\ vreq'[r].op # "none" => vreq'[s].v # vreq'[r].v
    <3>1. /\ vreq'[s].made = vreq[s].made /\ vreq'[s].op = vreq[s].op /\ vreq'[s].v = vreq[s].v
      BY <2>1 DEF OthersKept
    <3>2. vreq[s].made \subseteq zvols /\ vreq[r].made \cap vreq[s].made = {}
      BY <2>1 DEF VmInv, Apart, ReqOk, ZvolsOk
    <3>3. /\ vreq[r].op = "create" /\ vreq[s].op # "none" => vreq[s].v # vreq[r].v
          /\ vreq[s].op = "create" => vreq[s].v # vreq[r].v
      BY <2>1 DEF VmInv, Apart
    <3> QED
      BY <3>1, <3>2, <3>3
  <2>2. ASSUME NEW s \in VmReqs, NEW t \in VmReqs, s # t, s # r, t # r
        PROVE  /\ vreq'[t].made \cap vreq'[s].made = {}
               /\ vreq'[t].op = "create" /\ vreq'[s].op # "none" => vreq'[s].v # vreq'[t].v
    BY <2>2 DEF VmInv, Apart, OthersKept
  <2> QED
    BY <2>1, <2>2 DEF Apart
<1> QED
  BY <1>2, <1>4, <1>5 DEF VmInv, Framed

\* No request, with nothing to undo, is in order.
LEMMA NoReqOk == IsReq(NoReq) /\ ReqOk(NoReq)
BY FS_EmptySet DEF IsReq, NoReq, NoVm, ReqOk, StepOk, ZvolsOk, DomainOk, UndoOk, RightStep

\* The other requests, when only vreq[r] is assigned and no zvol goes.
LEMMA OthersStay ==
    ASSUME VmInv, NEW r \in VmReqs, NEW x, vreq' = [vreq EXCEPT ![r] = x], zvols \subseteq zvols'
    PROVE  OthersKept(r) /\ vreq'[r] = x
<1>1. /\ vreq' = [s \in VmReqs |-> vreq'[s]] /\ vreq'[r] = x
      /\ \A s \in VmReqs \ {r} : vreq'[s] = vreq[s]
  BY DEF VmInv, VmShape
<1>2. \A s \in VmReqs : IsReq(vreq[s]) /\ vreq[s].made \subseteq zvols /\ vreq[s].had \subseteq zvols
  BY DEF VmInv, VmShape, ReqOk, ZvolsOk
<1> QED
  BY <1>1, <1>2 DEF OthersKept

\* The request ends, whatever became of its VM's domain and record.
LEMMA EndStep ==
    ASSUME VmInv, NEW r \in VmReqs, vreq[r].op # "none", vreq' = [vreq EXCEPT ![r] = NoReq],
           zvols' = zvols, OwnVm(vreq[r].v), boot' = boot
    PROVE  VmInv' /\ Framed(r)
<1>1. OthersKept(r) /\ vreq'[r] = NoReq
  BY OthersStay
<1>2. NoReq' = NoReq
  BY DEF NoReq, NoVm
<1>3. ReqOk(vreq[r])'
  BY <1>1, <1>2, FS_EmptySet DEF IsReq, NoReq, NoVm, ReqOk, StepOk, ZvolsOk, DomainOk, UndoOk, RightStep
<1>4. NoReq.op = "none" /\ NoReq.made = {} /\ IsReq(NoReq)
  BY DEF NoReq, NoVm, IsReq
<1> QED
  BY <1>1, <1>3, <1>4, ReqStep

\* A domain or a record that stays is within its own VM.
LEMMA SameVm ==
    ASSUME VmInv, dom' = dom, vrec' = vrec, NEW v
    PROVE  OwnVm(v)
BY DEF VmInv, VmShape, OwnVm

\* The request goes on, other than to a rollback, and no zvol goes.
LEMMA GoOn ==
    ASSUME VmInv, NEW r \in VmReqs, vreq[r].op # "none", NEW x, vreq' = [vreq EXCEPT ![r] = x],
           zvols \subseteq zvols', OwnVm(vreq[r].v), boot' = boot,
           IsReq(x), x.op = vreq[r].op, x.v = vreq[r].v, x.arg = vreq[r].arg, x.had = vreq[r].had,
           x.made \subseteq vreq[r].made \cup (zvols' \ zvols),
           x.made \subseteq VmNames, IsFiniteSet(x.made),
           RightStep(x.op, x.pc), x.pc # "undo", x.pc # "read", x.vm \in VmRecord,
           x.pc = "mkzvol" => x.cur \in VmNames,
           DomainOk(vreq[r])'
    PROVE  VmInv' /\ Framed(r)
<1>1. OthersKept(r) /\ vreq'[r] = x
  BY OthersStay
<1>2. ReqOk(vreq[r])
  BY DEF VmInv
<1>3. StepOk(vreq[r])'
  BY <1>1, <1>2 DEF ReqOk, StepOk
<1>4. ZvolsOk(vreq[r])'
  <2>1. x.made \subseteq zvols' /\ x.had \subseteq zvols' /\ x.made \cap x.had = {}
    BY <1>2 DEF ReqOk, ZvolsOk
  <2> QED
    BY <1>1, <2>1 DEF ZvolsOk
<1>5. UndoOk(vreq[r])'
  BY <1>1 DEF UndoOk
<1>6. ReqOk(vreq[r])'
  BY <1>3, <1>4, <1>5 DEF ReqOk
<1> QED
  BY <1>1, <1>6, ReqStep

\* A request other than create goes on; it makes no zvol of its own unless it says so.
LEMMA PlainStep ==
    ASSUME VmInv, NEW r \in VmReqs, vreq[r].op # "none", vreq[r].op # "create",
           NEW x, vreq' = [vreq EXCEPT ![r] = x], zvols' = zvols, OwnVm(vreq[r].v), boot' = boot,
           IsReq(x), x.op = vreq[r].op, x.v = vreq[r].v, x.arg = vreq[r].arg, x.had = vreq[r].had,
           x.made = vreq[r].made, RightStep(x.op, x.pc), x.pc # "undo", x.pc # "read", x.vm \in VmRecord,
           x.pc # "mkzvol"
    PROVE  VmInv' /\ Framed(r)
<1>1. OthersKept(r) /\ vreq'[r] = x
  BY OthersStay
<1>2. DomainOk(vreq[r])'
  BY <1>1 DEF DomainOk
<1>3. x.made \subseteq VmNames /\ IsFiniteSet(x.made)
  BY DEF VmInv, ReqOk, ZvolsOk
<1> QED
  BY <1>2, <1>3, GoOn

\* The error paths: create begins its rollback, the other requests end.
LEMMA FailStep ==
    ASSUME VmInv, NEW r \in VmReqs, vreq[r].op # "none", NEW pc, Failed(r, pc),
           vreq[r].pc = pc \/ (vreq[r].pc = "define" /\ pc = "tags"),
           pc \notin {"zvol", "undo"},
           dom' = dom, vrec' = vrec, zvols' = zvols, boot' = boot
    PROVE  /\ VmInv' /\ Framed(r)
           /\ vreq[r].op # "create" => vreq'[r] = NoReq
           /\ vreq[r].op = "create" => /\ vreq'[r].op = "create" /\ vreq'[r].v = vreq[r].v
                                       /\ vreq'[r].pc = "undo" /\ vreq'[r].arg = vreq[r].arg
                                       /\ vreq'[r].vm = vreq[r].vm /\ DomainGoes(vreq[r])'
<1> DEFINE q == vreq[r]
<1>1. ReqOk(q) /\ IsReq(q) /\ OwnVm(q.v)
  BY SameVm DEF VmInv, VmShape
<1>2. CASE q.op # "create"
  <2>1. vreq' = [vreq EXCEPT ![r] = NoReq]
    BY <1>2 DEF Failed
  <2>2. vreq'[r] = NoReq
    BY <2>1 DEF VmInv, VmShape
  <2> QED
    BY <1>2, <2>1, <2>2, <1>1, EndStep
<1>3. CASE q.op = "create"
  <2> DEFINE u == Rollback(q, pc)
             x == [q EXCEPT !.pc = "undo", !.cause = pc, !.undo = u]
  <2>1. vreq' = [vreq EXCEPT ![r] = x]
    BY <1>3 DEF Failed
  <2>2. pc \in {"mkzvol", "tags", "seed", "define", "rules", "start", "put"}
    BY <1>1, <1>3 DEF ReqOk, StepOk, CreateSteps, RightStep
  <2>3. /\ pc \in {"mkzvol", "tags"} => u = <<>>
        /\ pc \notin {"mkzvol", "tags"} => Lists(u, q)
        /\ pc \in {"rules", "start"} => Len(u) >= 1 /\ u[1] = <<"undefine">>
        /\ pc = "put" => Len(u) >= 2 /\ u[1] = <<"destroy">> /\ u[2] = <<"undefine">>
    BY <1>1, <2>2, RollbackLists DEF ReqOk, ZvolsOk
  <2>4. OthersKept(r) /\ vreq'[r] = x
    BY <2>1, OthersStay
  <2> HIDE DEF u
  <2>5. /\ IsReq(x) /\ x.op = q.op /\ x.v = q.v /\ x.arg = q.arg /\ x.had = q.had /\ x.vm = q.vm
        /\ x.made = q.made /\ x.pc = "undo" /\ x.cause = pc /\ x.undo = u /\ x.lossy = q.lossy
    <3> HIDE DEF q
    <3>1. ASSUME NEW y, y = x PROVE IsReq(y)
      BY <1>1, <3>1 DEF IsReq
    <3> QED
      BY <1>1, <3>1 DEF IsReq
  <2> HIDE DEF x
  <2>6. StepOk(vreq[r])'
    BY <1>1, <1>3, <2>4, <2>5 DEF ReqOk, StepOk, CreateSteps, RightStep
  <2>7. ZvolsOk(vreq[r])'
    BY <1>1, <2>4, <2>5 DEF ReqOk, ZvolsOk
  <2>8. DomainOk(vreq[r])'
    BY <1>1, <1>3, <2>4, <2>5 DEF ReqOk, DomainOk
  <2>f. /\ vreq'[r].made = q.made /\ vreq'[r].undo = u /\ vreq'[r].v = q.v /\ vreq'[r].vm = q.vm
    BY <2>4, <2>5
  <2>d. DomainGoes(vreq[r])'
    <3>1. /\ q.pc \in {"mkzvol", "seed", "define"} => dom[q.v] = NoDomain
          /\ q.pc \in {"rules", "start"} => dom[q.v].power = "off"
          /\ q.pc = "put" => dom[q.v].defined
      BY <1>1, <1>3 DEF ReqOk, DomainOk
    <3>2. \/ dom[q.v] = NoDomain
          \/ pc \in {"rules", "start"} /\ dom[q.v].power = "off"
          \/ pc = "put" /\ dom[q.v].defined
      <4>1. CASE pc = "tags"
        BY <1>1, <1>3, <3>1, <4>1 DEF ReqOk, StepOk, CreateSteps, RightStep
      <4>2. CASE pc # "tags"
        BY <3>1, <2>2, <4>2
      <4> QED
        BY <4>1, <4>2
    <3> QED
      BY <3>2, <2>3, <2>f DEF DomainGoes, NoDomain
  <2>9. UndoOk(vreq[r])'
    <3>0. /\ vreq'[r].made = q.made /\ vreq'[r].undo = u /\ vreq'[r].v = q.v /\ vreq'[r].vm = q.vm
      BY <2>4, <2>5
    <3>1. u \in Seq(Cmds(q)) /\ Cmds(vreq[r])' = Cmds(q)
      <4>1. u \in Seq(Cmds(q))
        <5>1. CASE pc \in {"mkzvol", "tags"}
          <6>1. \A S : <<>> \in Seq(S)
            OBVIOUS
          <6>2. u = <<>>
            BY <5>1, <2>3
          <6> QED
            BY <6>1, <6>2, Zenon
        <5>2. CASE pc \notin {"mkzvol", "tags"}
          BY <5>2, <2>3 DEF Lists
        <5> QED
          BY <5>1, <5>2
      <4>2. Cmds(vreq[r])' = Cmds(q)
        BY <3>0 DEF Cmds
      <4> QED
        BY <4>1, <4>2
    <3>2. Mine(vreq[r])' /\ Once(vreq[r])'
      <4>1. CASE pc \in {"mkzvol", "tags"}
        BY <4>1, <2>3, <3>0 DEF Mine, Once
      <4>2. CASE pc \notin {"mkzvol", "tags"}
        BY <4>2, <2>3, <3>0 DEF Lists, Mine, Once
      <4> QED
        BY <4>1, <4>2
    <3>3. pc \notin {"mkzvol", "tags"} => All(vreq[r])'
      BY <2>3, <3>0 DEF Lists, All
    <3> QED
      BY <2>4, <2>5, <2>d, <3>1, <3>2, <3>3 DEF UndoOk
  <2>10. ReqOk(vreq[r])'
    BY <2>6, <2>7, <2>8, <2>9 DEF ReqOk
  <2>11. VmInv' /\ Framed(r)
    BY <1>1, <1>3, <2>4, <2>5, <2>10, ReqStep
  <2> QED
    BY <1>3, <2>4, <2>5, <2>d, <2>11
<1> QED
  BY <1>2, <1>3

-----------------------------------------------------------------------------
(* One lemma per step that create and update share.                        *)

\* What the invariant says of a request that is under way.
Going(r) ==
    /\ vreq[r].op # "none" /\ vreq[r].v \in VmIds /\ IsReq(vreq[r]) /\ ReqOk(vreq[r])
    /\ RightStep(vreq[r].op, vreq[r].pc)
    /\ vreq[r].pc # "read" => vreq[r].vm \in VmRecord
    /\ vreq[r].made \subseteq VmNames /\ IsFiniteSet(vreq[r].made) /\ vreq[r].made \subseteq zvols
    /\ dom[vreq[r].v] \in Domain \cup {NoDomain} /\ vrec[vreq[r].v] \in VmRecord \cup {NoVm}

\* It follows from the invariant.
LEMMA UnderWay ==
    ASSUME VmInv, NEW r \in VmReqs, vreq[r].pc # "idle"
    PROVE  Going(r)
BY DEF VmInv, VmShape, ReqOk, StepOk, ZvolsOk, Going, RightStep

\* What follows a step is never the start or the rollback of a request.
LEMMA AfterOk ==
    ASSUME NEW q, NEW pc \in {"zvol", "seed", "define", "rules", "start"}
    PROVE  /\ After(q, pc) \in {"seed", "tpl", "rename", "define", "oldseed", "rules", "destroy", "start", "put"}
           /\ q.op = "create" => After(q, pc) \in {"seed", "define", "rules", "start", "put"}
           /\ pc = "zvol" => After(q, pc) \in {"seed", "tpl", "rename", "define"}
           /\ pc = "zvol" /\ q.op # "update" => After(q, pc) \in {"seed", "define"}
           /\ pc = "seed" /\ q.op = "create" => After(q, pc) = "define"
           /\ pc \in {"define", "rules", "start"} /\ q.op = "create" => After(q, pc) \in {"rules", "start", "put"}
           /\ pc \in {"rules", "start"} /\ q.op = "create" => After(q, pc) \in {"start", "put"}
BY DEF After, Rest, Rename

\* ensure_zvol looks for a dataset.
LEMMA LookForZvolKeeps ==
    ASSUME VmInv, NEW r \in VmReqs, NEW d \in VmNames, LookForZvol(r, d)
    PROVE  VmInv' /\ zvols' = zvols /\ Framed(r)
<1> DEFINE q == vreq[r]
           pc == IF d \in zvols THEN MoreDisks(q, q.todo \ {d}) ELSE "mkzvol"
           x == [q EXCEPT !.todo = @ \ {d}, !.cur = d, !.pc = pc]
<1>1. /\ q.pc = "zvol" /\ vreq' = [vreq EXCEPT ![r] = x] /\ boot' = boot
      /\ dom' = dom /\ vrec' = vrec /\ zvols' = zvols
  BY DEF LookForZvol, host, vmhist, bounds, VmInv, VmShape
<1>2. Going(r) /\ OwnVm(q.v)
  BY <1>1, UnderWay, SameVm
<1>3. /\ pc \in {"zvol", "mkzvol", "seed", "tpl", "rename", "define"}
      /\ q.op # "update" => pc \in {"zvol", "mkzvol", "seed", "define"}
  BY AfterOk DEF MoreDisks
<1> HIDE DEF pc
<1>4. /\ IsReq(x) /\ x.op = q.op /\ x.v = q.v /\ x.arg = q.arg /\ x.had = q.had
      /\ x.made = q.made /\ x.vm = q.vm /\ x.pc = pc /\ x.cur = d
  <2>1. IsReq(q)
    BY <1>2 DEF Going
  <2> HIDE DEF q
  <2>2. ASSUME NEW y, y = x PROVE IsReq(y)
    BY <2>1, <2>2 DEF IsReq
  <2> QED
    BY <2>1, <2>2 DEF IsReq
<1> HIDE DEF x
<1>5. vreq'[r] = x
  BY <1>1, OthersStay
<1>6. DomainOk(vreq[r])'
  BY <1>1, <1>2, <1>3, <1>4, <1>5 DEF DomainOk, Going, ReqOk
<1>7. VmInv' /\ Framed(r)
  BY <1>1, <1>2, <1>3, <1>4, <1>6, GoOn DEF Going, CreateSteps, RightStep, UpdateSteps
<1> QED
  BY <1>1, <1>7

\* zfs create -V: the dataset was not there, so it is nobody else's.
LEMMA CreateZvolKeeps ==
    ASSUME VmInv, NEW r \in VmReqs, CreateZvol(r)
    PROVE  VmInv' /\ zvols \subseteq zvols' /\ Framed(r)
<1> DEFINE q == vreq[r]
           pc == MoreDisks(q, q.todo)
           x == [q EXCEPT !.pc = pc, !.made = @ \cup {q.cur}]
<1>1. /\ q.pc = "mkzvol" /\ vreq' = [vreq EXCEPT ![r] = x] /\ boot' = boot
      /\ dom' = dom /\ vrec' = vrec /\ zvols' = zvols \cup {q.cur} /\ q.cur \notin zvols
  BY DEF CreateZvol, vmhist, bounds, VmInv, VmShape
<1>2. Going(r) /\ OwnVm(q.v) /\ q.cur \in VmNames
  BY <1>1, UnderWay, SameVm DEF VmInv, ReqOk, StepOk
<1>3. /\ pc \in {"zvol", "seed", "tpl", "rename", "define"}
      /\ q.op # "update" => pc \in {"zvol", "seed", "define"}
  BY AfterOk DEF MoreDisks
<1> HIDE DEF pc
<1>4. /\ IsReq(x) /\ x.op = q.op /\ x.v = q.v /\ x.arg = q.arg /\ x.had = q.had
      /\ x.made = q.made \cup {q.cur} /\ x.vm = q.vm /\ x.pc = pc
  <2>1. IsReq(q)
    BY <1>2 DEF Going
  <2> HIDE DEF q
  <2>2. ASSUME NEW y, y = x PROVE IsReq(y)
    BY <2>1, <2>2 DEF IsReq
  <2> QED
    BY <2>1, <2>2 DEF IsReq
<1> HIDE DEF x
<1>5. vreq'[r] = x
  BY <1>1, OthersStay
<1>6. DomainOk(vreq[r])'
  BY <1>1, <1>2, <1>3, <1>4, <1>5 DEF DomainOk, Going, ReqOk
<1>7. IsFiniteSet(x.made) /\ x.made \subseteq VmNames /\ x.made \subseteq q.made \cup (zvols' \ zvols)
  BY <1>1, <1>2, <1>4, FS_AddElement DEF Going
<1>8. VmInv' /\ Framed(r)
  BY <1>1, <1>2, <1>3, <1>4, <1>6, <1>7, GoOn DEF Going, CreateSteps, RightStep, UpdateSteps
<1> QED
  BY <1>1, <1>8

\* create_cloud_init_iso.
LEMMA WriteSeedKeeps ==
    ASSUME VmInv, NEW r \in VmReqs, WriteSeed(r)
    PROVE  VmInv' /\ zvols' = zvols /\ Framed(r)
<1> DEFINE q == vreq[r]
           pc == After(q, "seed")
           x == [q EXCEPT !.pc = pc, !.cur = q.vm.seed, !.vm = [q.vm EXCEPT !.seed = q.vm.name]]
<1>1. /\ q.pc = "seed" /\ vreq' = [vreq EXCEPT ![r] = x] /\ boot' = boot
      /\ dom' = dom /\ vrec' = vrec /\ zvols' = zvols
  <2>1. IsReq(q) /\ vreq = [s \in VmReqs |-> vreq[s]]
    BY DEF VmInv, VmShape
  <2>2. [q EXCEPT !.pc = pc, !.cur = q.vm.seed].vm = q.vm
    BY <2>1 DEF IsReq
  <2>3. x = [[q EXCEPT !.pc = pc, !.cur = q.vm.seed] EXCEPT !.vm = [q.vm EXCEPT !.seed = q.vm.name]]
    OBVIOUS
  <2>4. vreq' = [vreq EXCEPT ![r] = x]
    BY <2>1, <2>2, <2>3 DEF WriteSeed
  <2> QED
    BY <2>4 DEF WriteSeed, vmhist, bounds
<1>2. Going(r) /\ OwnVm(q.v) /\ q.vm \in VmRecord
  BY <1>1, UnderWay, SameVm DEF Going
<1>3. pc \in {"oldseed", "define"} /\ (q.op = "create" => pc = "define")
  BY DEF After
<1> HIDE DEF pc
<1>4. /\ IsReq(x) /\ x.op = q.op /\ x.v = q.v /\ x.arg = q.arg /\ x.had = q.had
      /\ x.made = q.made /\ x.vm = [q.vm EXCEPT !.seed = q.vm.name] /\ x.pc = pc
  <2>1. IsReq(q)
    BY <1>2 DEF Going
  <2> HIDE DEF q
  <2>2. ASSUME NEW y, y = x PROVE IsReq(y)
    BY <2>1, <2>2 DEF IsReq
  <2> QED
    BY <2>1, <2>2 DEF IsReq
<1>5. x.vm \in VmRecord
  BY <1>2, <1>4 DEF VmRecord
<1> HIDE DEF x
<1>6. vreq'[r] = x
  BY <1>1, OthersStay
<1>7. DomainOk(vreq[r])'
  BY <1>1, <1>2, <1>3, <1>4, <1>6 DEF DomainOk, Going, ReqOk
<1>8. VmInv' /\ Framed(r)
  BY <1>1, <1>2, <1>3, <1>4, <1>5, <1>7, GoOn DEF Going, CreateSteps, RightStep, UpdateSteps
<1> QED
  BY <1>1, <1>8

\* A step that only moves the request to pc, or fails.
LEMMA MoveTo ==
    ASSUME VmInv, NEW r \in VmReqs, vreq[r].pc # "idle", NEW pc, To(r, pc)
    PROVE  \E x : /\ vreq' = [vreq EXCEPT ![r] = x] /\ vreq'[r] = x /\ IsReq(x)
                  /\ x.op = vreq[r].op /\ x.v = vreq[r].v /\ x.arg = vreq[r].arg
                  /\ x.had = vreq[r].had /\ x.made = vreq[r].made /\ x.vm = vreq[r].vm
                  /\ x.cur = vreq[r].cur /\ x.was = vreq[r].was /\ x.pc = pc
<1> DEFINE q == vreq[r]
           x == [q EXCEPT !.pc = pc]
<1>1. vreq' = [vreq EXCEPT ![r] = x] /\ vreq'[r] = x
  BY DEF To, VmInv, VmShape
<1>2. /\ IsReq(x) /\ x.op = q.op /\ x.v = q.v /\ x.arg = q.arg /\ x.had = q.had
      /\ x.made = q.made /\ x.vm = q.vm /\ x.cur = q.cur /\ x.was = q.was /\ x.pc = pc
  <2>1. IsReq(q)
    BY DEF VmInv, VmShape
  <2> HIDE DEF q
  <2>2. ASSUME NEW y, y = x PROVE IsReq(y)
    BY <2>1, <2>2 DEF IsReq
  <2> QED
    BY <2>1, <2>2 DEF IsReq
<1> HIDE DEF x
<1> QED
  BY <1>1, <1>2

\* The same, for a request that is not a create, whatever the step did to its VM.
LEMMA PlainMove ==
    ASSUME VmInv, NEW r \in VmReqs, vreq[r].pc \notin {"idle", "read"}, vreq[r].op # "create",
           NEW pc, To(r, pc), zvols' = zvols, OwnVm(vreq[r].v), boot' = boot,
           RightStep(vreq[r].op, pc), pc \notin {"undo", "read", "mkzvol", "stopped"}
    PROVE  VmInv' /\ Framed(r)
<1>1. Going(r)
  BY UnderWay
<1>2. PICK x : /\ vreq' = [vreq EXCEPT ![r] = x] /\ vreq'[r] = x /\ IsReq(x)
               /\ x.op = vreq[r].op /\ x.v = vreq[r].v /\ x.arg = vreq[r].arg
               /\ x.had = vreq[r].had /\ x.made = vreq[r].made /\ x.vm = vreq[r].vm
               /\ x.cur = vreq[r].cur /\ x.pc = pc
  BY MoveTo
<1> QED
  BY <1>1, <1>2, PlainStep DEF Going

\* And for a create, with what it then knows of its domain.
LEMMA CreateMove ==
    ASSUME VmInv, NEW r \in VmReqs, vreq[r].op = "create", vreq[r].pc # "undo",
           NEW pc, To(r, pc), zvols' = zvols, OwnVm(vreq[r].v), boot' = boot,
           pc \in {"define", "rules", "start", "put"}, vrec' = vrec,
           pc = "define" => dom'[vreq[r].v] = NoDomain,
           pc # "define" => dom'[vreq[r].v].defined,
           pc \in {"rules", "start"} => dom'[vreq[r].v].power = "off"
    PROVE  VmInv' /\ Framed(r)
<1>0. vreq[r].pc # "idle" /\ vreq[r].pc # "read"
  BY DEF VmInv, ReqOk, StepOk, CreateSteps, RightStep
<1>1. Going(r)
  BY <1>0, UnderWay
<1>2. PICK x : /\ vreq' = [vreq EXCEPT ![r] = x] /\ vreq'[r] = x /\ IsReq(x)
               /\ x.op = vreq[r].op /\ x.v = vreq[r].v /\ x.arg = vreq[r].arg
               /\ x.had = vreq[r].had /\ x.made = vreq[r].made /\ x.vm = vreq[r].vm
               /\ x.cur = vreq[r].cur /\ x.pc = pc
  BY <1>0, MoveTo
<1>3. DomainOk(vreq[r])'
  BY <1>1, <1>2 DEF DomainOk, Going, ReqOk
<1> QED
  BY <1>0, <1>1, <1>2, <1>3, GoOn DEF Going, CreateSteps, RightStep

\* libvirt's commands on the domain of a VM.
LEMMA DomainCommands ==
    ASSUME NEW d \in Domain \cup {NoDomain}
    PROVE  /\ PowerOff(d) \in Domain \cup {NoDomain} /\ PowerOff(d).power = "off"
           /\ d.defined => PowerOff(d) = [d EXCEPT !.power = "off"] /\ PowerOff(d).defined
           /\ Undefine(d) \in Domain \cup {NoDomain}
           /\ d.power = "off" => Undefine(d) = NoDomain
           /\ d.defined => d \in Domain
           /\ d.power # "off" => d \in Domain
           /\ d \in Domain => [d EXCEPT !.power = "running"] \in Domain /\ [d EXCEPT !.power = "paused"] \in Domain
           /\ \A n \in VmNames : d \in Domain => [d EXCEPT !.name = n] \in Domain
<1>1. NoDomain.power = "off" /\ ~NoDomain.defined
  BY DEF NoDomain
<1>2. CASE d = NoDomain
  <2>1. d \notin Domain
    BY <1>2, VmAssumption DEF NoDomain, Domain
  <2> QED
    BY <1>1, <1>2, <2>1 DEF PowerOff, Undefine
<1>3. CASE d \in Domain
  <2>1. [d EXCEPT !.power = "off"] \in Domain /\ [d EXCEPT !.power = "off"].power = "off"
        /\ [d EXCEPT !.defined = FALSE] \in Domain /\ [d EXCEPT !.power = "off"].defined = d.defined
    BY <1>3 DEF Domain
  <2>2. /\ [d EXCEPT !.power = "running"] \in Domain /\ [d EXCEPT !.power = "paused"] \in Domain
        /\ \A n \in VmNames : [d EXCEPT !.name = n] \in Domain
    BY <1>3 DEF Domain
  <2> QED
    BY <1>1, <1>3, <2>1, <2>2 DEF PowerOff, Undefine
<1> QED
  BY <1>2, <1>3

\* A step that assigns the domain of its VM and leaves the record.
LEMMA OwnDomain ==
    ASSUME VmInv, NEW v \in VmIds, NEW d \in Domain \cup {NoDomain}, dom' = [dom EXCEPT ![v] = d],
           vrec' = vrec
    PROVE  OwnVm(v) /\ dom'[v] = d
BY DEF VmInv, VmShape, OwnVm

\* The errors.
LEMMA ErrorsKeep ==
    ASSUME VmInv, NEW r \in VmReqs, ZvolAppeared(r) \/ RejectTags(r) \/ StepFails(r)
    PROVE  VmInv' /\ zvols' = zvols /\ Framed(r)
<1>1. dom' = dom /\ vrec' = vrec /\ zvols' = zvols /\ boot' = boot
  BY DEF ZvolAppeared, RejectTags, StepFails, host, vmhist
<1>2. vreq[r].pc # "idle" => Going(r) /\ OwnVm(vreq[r].v)
  BY <1>1, UnderWay, SameVm
<1>3. CASE ZvolAppeared(r)
  <2>1. vreq[r].pc = "mkzvol" /\ Failed(r, "mkzvol")
    BY <1>3 DEF ZvolAppeared
  <2> QED
    BY <1>1, <1>2, <2>1, FailStep DEF Going
<1>4. CASE RejectTags(r)
  <2>1. vreq[r].pc = "define" /\ Failed(r, "tags")
    BY <1>4 DEF RejectTags
  <2> QED
    BY <1>1, <1>2, <2>1, FailStep DEF Going
<1>5. CASE StepFails(r)
  <2>1. vreq[r].pc \notin {"idle", "read", "zvol", "undo"}
    BY <1>5 DEF StepFails
  <2>2. CASE At(r, "delete", "rules")
    <3>1. To(r, "destroy")
      BY <1>5, <2>2 DEF StepFails
    <3> QED
      BY <1>1, <1>2, <2>1, <2>2, <3>1, PlainMove DEF At, RightStep
  <2>3. CASE ~At(r, "delete", "rules")
    <3>1. Failed(r, vreq[r].pc)
      BY <1>5, <2>3 DEF StepFails
    <3> QED
      BY <1>1, <1>2, <2>1, <3>1, FailStep DEF Going
  <2> QED
    BY <2>2, <2>3
<1> QED
  BY <1>1, <1>3, <1>4, <1>5

\* virsh define.
LEMMA DefineDomainKeeps ==
    ASSUME VmInv, NEW r \in VmReqs, DefineDomain(r)
    PROVE  VmInv' /\ zvols' = zvols /\ Framed(r)
<1> DEFINE q == vreq[r]
           d == [name |-> q.vm.name, disks |-> q.vm.disks, seed |-> q.vm.seed, defined |-> TRUE,
                 power |-> dom[q.v].power]
<1>1. q.pc = "define" /\ vrec' = vrec /\ zvols' = zvols /\ boot' = boot
  BY DEF DefineDomain, vmhist
<1>2. Going(r) /\ q.vm \in VmRecord
  BY <1>1, UnderWay DEF Going
<1>3. CASE CanDefine(q.v, q.vm)
  <2>1. dom' = [dom EXCEPT ![q.v] = d] /\ To(r, After(q, "define"))
    BY <1>3 DEF DefineDomain, Defined
  <2>2. d \in Domain
    <3>1. dom[q.v].power \in {"off", "running", "paused"}
      BY <1>2 DEF Going, Domain, NoDomain
    <3> QED
      BY <1>2, <3>1 DEF VmRecord, Domain
  <2> HIDE DEF d
  <2>3. OwnVm(q.v) /\ dom'[q.v] = d
    BY <1>1, <1>2, <2>1, <2>2, OwnDomain DEF Going
  <2>4. d.defined /\ d.power = dom[q.v].power
    BY DEF d
  <2>5. After(q, "define") \in {"rules", "start", "put"}
    BY DEF After
  <2>6. CASE q.op = "create"
    <3>1. dom[q.v].power = "off"
      BY <1>1, <1>2, <2>6 DEF Going, ReqOk, DomainOk, NoDomain
    <3> QED
      BY <1>1, <2>1, <2>3, <2>4, <2>5, <2>6, <3>1, CreateMove
  <2>7. CASE q.op # "create"
    <3>1. q.op = "update" /\ After(q, "define") = "rules"
      BY <1>1, <1>2, <2>7 DEF Going, RightStep, After
    <3>2. RightStep(q.op, "rules")
      BY <3>1 DEF RightStep, UpdateSteps
    <3> QED
      BY <1>1, <2>1, <2>3, <3>1, <3>2, PlainMove
  <2> QED
    BY <1>1, <2>6, <2>7
<1>4. CASE ~CanDefine(q.v, q.vm)
  <2>1. dom' = dom /\ Failed(r, "define")
    BY <1>4 DEF DefineDomain
  <2> QED
    BY <1>1, <1>2, <2>1, FailStep DEF Going
<1> QED
  BY <1>3, <1>4

\* No change of an update is the start of a create.
LEMMA NotStart == \A x : x[1] = "set" => x # <<"start">> /\ x # <<"badtags">>
OBVIOUS

\* The batch of rules.
LEMMA ApplyFirewallKeeps ==
    ASSUME VmInv, NEW r \in VmReqs, ApplyFirewall(r)
    PROVE  VmInv' /\ zvols' = zvols /\ Framed(r)
<1> DEFINE q == vreq[r]
<1>1. /\ q.pc = "rules" /\ dom' = dom /\ vrec' = vrec /\ zvols' = zvols /\ boot' = boot
      /\ To(r, After(q, "rules"))
  BY DEF ApplyFirewall, vmhist
<1>2. Going(r) /\ OwnVm(q.v)
  BY <1>1, UnderWay, SameVm
<1>3. CASE q.op = "create"
  <2>1. After(q, "rules") \in {"start", "put"}
    BY <1>3 DEF After
  <2>2. dom[q.v].defined /\ dom[q.v].power = "off"
    BY <1>1, <1>2, <1>3 DEF Going, ReqOk, DomainOk
  <2> QED
    BY <1>1, <1>2, <1>3, <2>1, <2>2, CreateMove
<1>4. CASE q.op # "create"
  <2>1. \/ q.op = "update" /\ After(q, "rules") = "put"
        \/ q.op = "delete" /\ After(q, "rules") = "destroy"
    <3>1. q.op = "update" => q.arg # <<"start">>
      BY <1>2, NotStart DEF Going, ReqOk, StepOk
    <3>2. q.op \in {"update", "delete"}
      BY <1>1, <1>2, <1>4 DEF Going, RightStep
    <3> QED
      BY <3>1, <3>2 DEF After
  <2>2. RightStep(q.op, After(q, "rules"))
    BY <2>1 DEF RightStep, UpdateSteps
  <2> QED
    BY <1>1, <1>2, <1>4, <2>1, <2>2, PlainMove
<1> QED
  BY <1>1, <1>3, <1>4

\* virsh start, of a VM that is created with start.
LEMMA StartNewKeeps ==
    ASSUME VmInv, NEW r \in VmReqs, StartNew(r)
    PROVE  VmInv' /\ zvols' = zvols /\ Framed(r)
<1> DEFINE q == vreq[r]
           d == [dom[q.v] EXCEPT !.power = "running"]
<1>1. q.pc = "start" /\ vrec' = vrec /\ zvols' = zvols /\ boot' = boot
  BY DEF StartNew, vmhist
<1>2. Going(r)
  BY <1>1, UnderWay
<1>3. CASE CanStart(q.v)
  <2>1. dom' = [dom EXCEPT ![q.v] = d] /\ To(r, "put")
    BY <1>3 DEF StartNew
  <2>2. dom[q.v] \in Domain /\ d \in Domain /\ d.defined
    <3>1. dom[q.v].defined /\ dom[q.v] \in Domain
      BY <1>2, <1>3, DomainCommands DEF CanStart, Going
    <3> QED
      BY <3>1 DEF Domain
  <2> HIDE DEF d
  <2>3. OwnVm(q.v) /\ dom'[q.v] = d
    BY <1>1, <1>2, <2>1, <2>2, OwnDomain DEF Going
  <2>4. CASE q.op = "create"
    BY <1>1, <2>1, <2>2, <2>3, <2>4, CreateMove
  <2> QED
    BY <1>1, <1>2, <2>4 DEF Going, RightStep, UpdateSteps
<1>4. CASE ~CanStart(q.v)
  <2>1. dom' = dom /\ Failed(r, "start")
    BY <1>4 DEF StartNew
  <2> QED
    BY <1>1, <1>2, <2>1, FailStep DEF Going
<1> QED
  BY <1>3, <1>4

\* The record is written.
LEMMA PutVmKeeps ==
    ASSUME VmInv, NEW r \in VmReqs, PutVm(r)
    PROVE  VmInv' /\ zvols' = zvols /\ Framed(r)
<1> DEFINE q == vreq[r]
<1>1. /\ q.pc = "put" /\ dom' = dom /\ zvols' = zvols /\ boot' = boot
      /\ vrec' = [vrec EXCEPT ![q.v] = q.vm] /\ vreq' = [vreq EXCEPT ![r] = NoReq]
  BY DEF PutVm, host, vmhist, End
<1>2. Going(r) /\ q.vm \in VmRecord
  BY <1>1, UnderWay DEF Going
<1>3. OwnVm(q.v)
  BY <1>1, <1>2 DEF OwnVm, VmInv, VmShape, Going
<1> QED
  BY <1>1, <1>2, <1>3, EndStep DEF Going

-----------------------------------------------------------------------------
(* The rollback of a create.                                               *)

\* The first command of a sequence and the others.
LEMMA HeadAndTail ==
    ASSUME NEW S, NEW u \in Seq(S), u # <<>>
    PROVE  /\ Len(u) \in Nat /\ Len(u) >= 1 /\ Head(u) = u[1] /\ u[1] \in S
           /\ Tail(u) \in Seq(S) /\ Len(Tail(u)) = Len(u) - 1
           /\ \A k \in 1..Len(Tail(u)) : k + 1 \in 1..Len(u) /\ Tail(u)[k] = u[k + 1]
OBVIOUS

\* The commands left of a rollback of which the first has been run, or failed.
LEMMA TailIsOk ==
    ASSUME NEW q, NEW x, q.undo \in Seq(Cmds(q)), q.undo # <<>>, Mine(q), Once(q), q.made \subseteq VmNames,
           x.undo = Tail(q.undo), x.vm = q.vm, x.made \subseteq q.made,
           \A d \in q.made \ x.made : q.undo[1] = <<"zvol", d>>,
           \A d \in q.made : q.undo[1] = <<"zvol", d>> => d \notin x.made \/ x.lossy
    PROVE  /\ x.undo \in Seq(Cmds(x)) /\ Mine(x) /\ Once(x)
           /\ All(q) /\ ~x.lossy => All(x)
<1> DEFINE u == q.undo
           t == x.undo
<1>1. /\ Len(u) \in Nat /\ Len(u) >= 1 /\ t \in Seq(Cmds(q)) /\ Len(t) = Len(u) - 1
      /\ \A k \in 1..Len(t) : k + 1 \in 1..Len(u) /\ t[k] = u[k + 1]
  <2> HIDE DEF Cmds
  <2>1. /\ Len(u) \in Nat /\ Len(u) >= 1 /\ Tail(u) \in Seq(Cmds(q)) /\ Len(Tail(u)) = Len(u) - 1
        /\ \A k \in 1..Len(Tail(u)) : k + 1 \in 1..Len(u) /\ Tail(u)[k] = u[k + 1]
    BY HeadAndTail
  <2> QED
    BY <2>1
<1>2. Cmds(x) = Cmds(q)
  BY DEF Cmds
<1>3. ASSUME NEW k \in 1..Len(t), NEW d \in VmNames, t[k] = <<"zvol", d>>
      PROVE  d \in x.made
  <2>1. k + 1 \in 1..Len(u) /\ u[k + 1] = <<"zvol", d>> /\ k + 1 # 1 /\ 1 \in 1..Len(u)
    BY <1>1, <1>3
  <2>2. d \in q.made
    BY <2>1 DEF Mine
  <2>3. u[1] # <<"zvol", d>>
    BY <2>1 DEF Once
  <2> QED
    BY <2>2, <2>3
<1>4. ASSUME NEW k \in 1..Len(t), NEW l \in 1..Len(t), NEW d \in VmNames,
             t[k] = <<"zvol", d>>, t[l] = <<"zvol", d>>
      PROVE  k = l
  <2>1. /\ k + 1 \in 1..Len(u) /\ u[k + 1] = <<"zvol", d>>
        /\ l + 1 \in 1..Len(u) /\ u[l + 1] = <<"zvol", d>>
    BY <1>1, <1>4
  <2>2. k + 1 = l + 1
    BY <2>1 DEF Once
  <2> QED
    BY <2>2
<1>5. ASSUME All(q), ~x.lossy, NEW d \in x.made
      PROVE  \E k \in 1..Len(t) : t[k] = <<"zvol", d>>
  <2>1. PICK k \in 1..Len(u) : u[k] = <<"zvol", d>>
    BY <1>5 DEF All
  <2>2. k # 1
    BY <1>5, <2>1
  <2>3. k - 1 \in 1..Len(t) /\ (k - 1) + 1 = k
    BY <1>1, <2>2
  <2> QED
    BY <1>1, <2>1, <2>3
<1> QED
  BY <1>1, <1>2, <1>3, <1>4, <1>5 DEF Mine, Once, All

\* What a request is left with by a command of its rollback, run or failed.
LEMMA UndoStep ==
    ASSUME VmInv, NEW r \in VmReqs, vreq[r].pc = "undo", vreq[r].undo # <<>>, boot' = boot,
           OthersKept(r), OwnVm(vreq[r].v), vrec' = vrec, NEW x, vreq'[r] = x, IsReq(x),
           x.pc = "undo", x.op = vreq[r].op, x.v = vreq[r].v, x.arg = vreq[r].arg, x.vm = vreq[r].vm,
           x.cause = vreq[r].cause, x.undo = Tail(vreq[r].undo), vreq[r].lossy => x.lossy,
           x.had \subseteq vreq[r].had \cap zvols', x.made = vreq[r].made \cap zvols',
           \A d \in vreq[r].made \ x.made : vreq[r].undo[1] = <<"zvol", d>>,
           \A d \in vreq[r].made : vreq[r].undo[1] = <<"zvol", d>> => d \notin x.made \/ x.lossy,
           x.lossy \/ (DomainGoes(vreq[r]) => DomainGoes(vreq[r])')
    PROVE  VmInv' /\ Framed(r)
<1> DEFINE q == vreq[r]
<1>1. Going(r) /\ ReqOk(q) /\ q.op = "create"
  BY UnderWay DEF Going, ReqOk, StepOk, RightStep, CreateSteps, UpdateSteps
<1>2. StepOk(vreq[r])'
  BY <1>1 DEF StepOk, ReqOk
<1>3. ZvolsOk(vreq[r])'
  <2>1. IsFiniteSet(x.made)
    BY <1>1, FS_Subset DEF Going
  <2> QED
    BY <1>1, <2>1 DEF ZvolsOk, ReqOk, Going
<1>4. DomainOk(vreq[r])'
  BY <1>1 DEF DomainOk, ReqOk
<1>5. UndoOk(vreq[r])'
  <2>1. q.undo \in Seq(Cmds(q)) /\ Mine(q) /\ Once(q) /\ q.made \subseteq VmNames /\ x.made \subseteq q.made
    BY <1>1 DEF ReqOk, UndoOk, Going
  <2>2. /\ x.undo \in Seq(Cmds(x)) /\ Mine(x) /\ Once(x)
        /\ All(q) /\ ~x.lossy => All(x)
    <3> HIDE DEF q
    <3> QED
      BY <2>1, TailIsOk DEF q
  <2>3. /\ Cmds(vreq[r])' = Cmds(x) /\ Mine(vreq[r])' = Mine(x) /\ Once(vreq[r])' = Once(x)
        /\ All(vreq[r])' = All(x)
    BY DEF Cmds, Mine, Once, All
  <2>4. ~x.lossy => DomainGoes(q) /\ (q.cause \notin {"mkzvol", "tags"} => All(q))
    BY <1>1 DEF ReqOk, UndoOk
  <2> QED
    BY <2>2, <2>3, <2>4 DEF UndoOk
<1>6. ReqOk(vreq[r])'
  BY <1>2, <1>3, <1>4, <1>5 DEF ReqOk
<1> QED
  BY <1>1, <1>6, ReqStep DEF Going

\* What a command of a rollback does to the domain of the VM.
Undone(d, c) == IF c[1] = "destroy" THEN PowerOff(d) ELSE IF c[1] = "undefine" THEN Undefine(d) ELSE d

\* A command of the rollback destroys, if anything, a zvol that this create made.
LEMMA RunUndoKeeps ==
    ASSUME VmInv, NEW r \in VmReqs, RunUndo(r)
    PROVE  /\ VmInv' /\ Framed(r)
           /\ \A d \in zvols \ zvols' : /\ vreq[r].op = "create" /\ vreq[r].pc = "undo"
                                        /\ d \in vreq[r].made /\ d \notin vreq[r].had
           /\ DomainGoes(vreq[r]) => DomainGoes(vreq[r])'
           /\ vreq'[r].op = "create" /\ vreq'[r].v = vreq[r].v /\ vreq'[r].pc = "undo"
           /\ vreq'[r].arg = vreq[r].arg /\ vreq'[r].vm = vreq[r].vm
<1> DEFINE q == vreq[r]
           c == Head(q.undo)
           busy == c[1] = "zvol" /\ InUse(c[2])
           x == [q EXCEPT !.had = @ \cap zvols', !.undo = Tail(@), !.lossy = @ \/ busy,
                          !.made = @ \ (zvols \ zvols')]
<1>1. q.pc = "undo" /\ q.undo # <<>> /\ vrec' = vrec /\ boot' = boot
  BY DEF RunUndo, vmhist
<1>2. Going(r) /\ ReqOk(q) /\ q.op = "create"
  BY <1>1, UnderWay DEF Going, ReqOk, StepOk, RightStep, CreateSteps, UpdateSteps
<1>3. q.undo \in Seq(Cmds(q)) /\ Mine(q) /\ Once(q) /\ q.made \cap q.had = {}
  BY <1>1, <1>2 DEF ReqOk, UndoOk, ZvolsOk
<1>4. c = q.undo[1] /\ c \in Cmds(q) /\ Len(q.undo) \in Nat /\ Len(q.undo) >= 1
  <2> HIDE DEF q, Cmds
  <2> QED
    BY <1>1, <1>3, HeadAndTail
<1>5. \A d \in VmNames : c = <<"zvol", d>> => d \in q.made
  <2>1. 1 \in 1..Len(q.undo)
    BY <1>4
  <2> QED
    BY <1>3, <1>4, <2>1 DEF Mine
<1>6. /\ zvols' = IF c[1] = "zvol" /\ ~busy THEN zvols \ {c[2]} ELSE zvols
      /\ dom' = [dom EXCEPT ![q.v] = Undone(@, c)]
  <2>1. dom = [dom EXCEPT ![q.v] = dom[q.v]]
    BY <1>2 DEF VmInv, VmShape, Going
  <2> QED
    BY <2>1 DEF RunUndo, Undone
<1>7. c[1] = "zvol" => c = <<"zvol", c[2]>> /\ c[2] \in VmNames
  BY <1>4 DEF Cmds
<1>8. \A d \in zvols \ zvols' : c = <<"zvol", d>> /\ d \in q.made /\ ~busy
  BY <1>5, <1>6, <1>7
<1>9. /\ vreq' = [s \in VmReqs |-> IF s = r THEN x ELSE [vreq[s] EXCEPT !.had = @ \cap zvols']]
  BY DEF RunUndo, Outlived
<1> HIDE DEF busy, c
<1>10. /\ IsReq(x) /\ x.op = q.op /\ x.v = q.v /\ x.arg = q.arg /\ x.had = q.had \cap zvols'
       /\ x.vm = q.vm /\ x.pc = "undo" /\ x.cause = q.cause /\ x.undo = Tail(q.undo)
       /\ x.lossy = (q.lossy \/ busy) /\ x.made = q.made \ (zvols \ zvols')
  <2>1. IsReq(q) /\ q.pc = "undo"
    BY <1>1, <1>2 DEF Going
  <2> HIDE DEF q
  <2>2. ASSUME NEW y, y = x PROVE IsReq(y)
    BY <2>1, <2>2 DEF IsReq
  <2> QED
    BY <2>1, <2>2 DEF IsReq
<1> HIDE DEF x
<1>11. OthersKept(r) /\ vreq'[r] = x
  <2>1. vreq'[r] = x /\ vreq' = [s \in VmReqs |-> vreq'[s]]
    BY <1>9
  <2>2. ASSUME NEW s \in VmReqs, s # r
        PROVE  /\ IsReq(vreq'[s]) /\ vreq'[s].had = vreq[s].had \cap zvols'
               /\ vreq'[s].pc = vreq[s].pc /\ vreq'[s].op = vreq[s].op /\ vreq'[s].v = vreq[s].v
               /\ vreq'[s].arg = vreq[s].arg /\ vreq'[s].vm = vreq[s].vm /\ vreq'[s].made = vreq[s].made
               /\ vreq'[s].was = vreq[s].was
               /\ vreq'[s].cur = vreq[s].cur /\ vreq'[s].undo = vreq[s].undo
               /\ vreq'[s].cause = vreq[s].cause /\ vreq'[s].lossy = vreq[s].lossy
    <3>1. IsReq(vreq[s]) /\ vreq'[s] = [vreq[s] EXCEPT !.had = @ \cap zvols']
      BY <1>9, <2>2 DEF VmInv, VmShape
    <3>2. ASSUME NEW y, NEW o, IsReq(o), y = [o EXCEPT !.had = @ \cap zvols']
          PROVE  /\ IsReq(y) /\ y.had = o.had \cap zvols' /\ y.pc = o.pc /\ y.op = o.op /\ y.v = o.v
                 /\ y.arg = o.arg /\ y.vm = o.vm /\ y.was = o.was /\ y.made = o.made /\ y.cur = o.cur /\ y.undo = o.undo
                 /\ y.cause = o.cause /\ y.lossy = o.lossy
      BY <3>2 DEF IsReq
    <3> DEFINE n == vreq'[s]
               o == vreq[s]
    <3>3. IsReq(o) /\ n = [o EXCEPT !.had = @ \cap zvols']
      BY <3>1
    <3> HIDE DEF n, o
    <3>4. /\ IsReq(n) /\ n.had = o.had \cap zvols' /\ n.pc = o.pc /\ n.op = o.op /\ n.v = o.v
          /\ n.arg = o.arg /\ n.vm = o.vm /\ n.was = o.was /\ n.made = o.made /\ n.cur = o.cur /\ n.undo = o.undo
          /\ n.cause = o.cause /\ n.lossy = o.lossy
      BY <3>3, <3>2
    <3> QED
      BY <3>4 DEF n, o
  <2>3. ASSUME NEW s \in VmReqs, s # r PROVE vreq[s].made \subseteq zvols'
    <3>1. vreq[s].made \subseteq zvols /\ vreq[s].made \cap q.made = {}
      BY <2>3 DEF VmInv, Apart, ReqOk, ZvolsOk
    <3> QED
      BY <3>1, <1>8
  <2> QED
    BY <2>1, <2>2, <2>3 DEF OthersKept
<1>12. OwnVm(q.v) /\ dom'[q.v] = Undone(dom[q.v], c)
  <2>1. Undone(dom[q.v], c) \in Domain \cup {NoDomain}
    BY <1>2, DomainCommands DEF Going, Undone
  <2> QED
    BY <1>1, <1>2, <1>6, <2>1, OwnDomain DEF Going
<1>13. DomainGoes(vreq[r]) => DomainGoes(vreq[r])'
  <2>1. /\ vreq'[r].v = q.v /\ vreq'[r].undo = Tail(q.undo)
        /\ Len(Tail(q.undo)) = Len(q.undo) - 1
        /\ Len(q.undo) >= 2 => Tail(q.undo)[1] = q.undo[2]
    <3>1. ASSUME NEW S, NEW u \in Seq(S), u # <<>>
          PROVE  Len(Tail(u)) = Len(u) - 1 /\ (Len(u) >= 2 => Tail(u)[1] = u[2])
      BY <3>1
    <3>2. Len(Tail(q.undo)) = Len(q.undo) - 1 /\ (Len(q.undo) >= 2 => Tail(q.undo)[1] = q.undo[2])
      <4> HIDE DEF q, Cmds
      <4> QED
        BY <3>1, <1>1, <1>3
    <3> QED
      BY <1>10, <1>11, <3>2
  <2>2. CASE dom[q.v] = NoDomain
    <3>1. Undone(NoDomain, c) = NoDomain
      BY DEF Undone, PowerOff, Undefine, NoDomain
    <3>2. dom'[vreq'[r].v] = NoDomain
      BY <1>12, <2>1, <2>2, <3>1
    <3> QED
      BY <3>2 DEF DomainGoes, NoDomain
  <2>3. CASE q.undo[1] = <<"undefine">> /\ dom[q.v].power = "off"
    <3>1. c[1] = "undefine"
      BY <1>4, <2>3
    <3>2. dom'[vreq'[r].v] = NoDomain
      BY <1>2, <1>12, <2>1, <2>3, <3>1, DomainCommands DEF Undone, Going
    <3> QED
      BY <3>2 DEF DomainGoes, NoDomain
  <2>4. CASE Len(q.undo) >= 2 /\ q.undo[1] = <<"destroy">> /\ q.undo[2] = <<"undefine">> /\ dom[q.v].defined
    <3>1. c[1] = "destroy"
      BY <1>4, <2>4
    <3>2. dom'[vreq'[r].v].power = "off"
      <4>1. PowerOff(dom[q.v]).power = "off"
        BY <1>2, DomainCommands DEF Going
      <4> QED
        BY <1>12, <2>1, <3>1, <4>1 DEF Undone
    <3>3. Len(Tail(q.undo)) >= 1 /\ Tail(q.undo)[1] = <<"undefine">>
      BY <1>4, <2>1, <2>4
    <3> QED
      BY <2>1, <3>2, <3>3 DEF DomainGoes
  <2> QED
    BY <2>2, <2>3, <2>4 DEF DomainGoes
<1>14. x.made = q.made \cap zvols' /\ (\A d \in q.made \ x.made : q.undo[1] = <<"zvol", d>>)
  BY <1>2, <1>4, <1>8, <1>10 DEF Going
<1>15. \A d \in q.made : q.undo[1] = <<"zvol", d>> => d \notin x.made \/ x.lossy
  <2>1. ASSUME NEW d \in q.made, q.undo[1] = <<"zvol", d>>, d \in x.made
        PROVE  x.lossy
    <3>1. c[1] = "zvol" /\ c[2] = d
      BY <1>4, <2>1
    <3>2. busy
      BY <1>6, <1>14, <2>1, <3>1
    <3> QED
      BY <1>10, <3>2
  <2> QED
    BY <2>1
<1>16. VmInv' /\ Framed(r)
  BY <1>1, <1>10, <1>11, <1>12, <1>13, <1>14, <1>15, UndoStep
<1> QED
  BY <1>1, <1>2, <1>3, <1>8, <1>10, <1>11, <1>13, <1>16

\* A command of the rollback that fails is remembered as lossy.
LEMMA UndoFailsKeeps ==
    ASSUME VmInv, NEW r \in VmReqs, UndoFails(r)
    PROVE  VmInv' /\ zvols' = zvols /\ Framed(r)
<1> DEFINE q == vreq[r]
           x == [q EXCEPT !.undo = Tail(@), !.lossy = TRUE]
<1>1. /\ q.pc = "undo" /\ q.undo # <<>> /\ vrec' = vrec /\ dom' = dom /\ zvols' = zvols /\ boot' = boot
      /\ vreq' = [vreq EXCEPT ![r] = x]
  BY DEF UndoFails, vmhist, host, VmInv, VmShape
<1>2. Going(r) /\ OwnVm(q.v)
  BY <1>1, UnderWay, SameVm
<1>3. OthersKept(r) /\ vreq'[r] = x
  BY <1>1, OthersStay
<1>4. /\ IsReq(x) /\ x.op = q.op /\ x.v = q.v /\ x.arg = q.arg /\ x.had = q.had /\ x.vm = q.vm
      /\ x.pc = "undo" /\ x.cause = q.cause /\ x.undo = Tail(q.undo) /\ x.lossy /\ x.made = q.made
  <2>1. IsReq(q) /\ q.pc = "undo"
    BY <1>1, <1>2 DEF Going
  <2> HIDE DEF q
  <2>2. ASSUME NEW y, y = x PROVE IsReq(y)
    BY <2>1, <2>2 DEF IsReq
  <2> QED
    BY <2>1, <2>2 DEF IsReq
<1> HIDE DEF x
<1>5. q.had \subseteq zvols /\ q.made \subseteq zvols
  BY <1>2 DEF Going, ReqOk, ZvolsOk
<1>6. VmInv' /\ Framed(r)
  BY <1>1, <1>2, <1>3, <1>4, <1>5, UndoStep
<1> QED
  BY <1>1, <1>6

-----------------------------------------------------------------------------
(* The steps that end a request, and those of update, delete and power.    *)

\* Steps that only end the request.
LEMMA EndsKeep ==
    ASSUME VmInv, NEW r \in VmReqs, ReturnError(r) \/ ReadMissing(r) \/ HangUp(r)
    PROVE  VmInv' /\ zvols' = zvols /\ Framed(r)
<1>1. /\ vrec' = vrec /\ dom' = dom /\ zvols' = zvols /\ boot' = boot
      /\ vreq' = [vreq EXCEPT ![r] = NoReq]
  BY DEF ReturnError, ReadMissing, HangUp, vmhist, host, End
<1>2. vreq[r].pc # "idle"
  BY DEF ReturnError, ReadMissing, HangUp, VmInv, ReqOk, StepOk, RightStep, CreateSteps, UpdateSteps
<1>3. Going(r) /\ OwnVm(vreq[r].v)
  BY <1>1, <1>2, UnderWay, SameVm
<1> QED
  BY <1>1, <1>3, EndStep DEF Going

\* The steps of an update, a delete or a power action, by where they lead.
LEMMA PlainSteps ==
    ASSUME VmInv, NEW r \in VmReqs,
           RemoveOldSeed(r) \/ RenameDomain(r) \/ DestroyDomain(r) \/ UndefineDomain(r)
             \/ EraseRecord(r) \/ PowerCommand(r)
    PROVE  VmInv' /\ zvols' = zvols /\ Framed(r)
<1> DEFINE q == vreq[r]
<1>1. /\ zvols' = zvols /\ boot' = boot
      /\ q.pc \in {"oldseed", "rename", "destroy", "undefine", "erase", "virsh"}
  BY DEF RemoveOldSeed, RenameDomain, DestroyDomain, UndefineDomain, EraseRecord, PowerCommand, vmhist, host
<1>2. Going(r) /\ q.op # "create" /\ q.vm \in VmRecord
  BY <1>1, UnderWay DEF Going, CreateSteps, RightStep
<1>3. dom' = dom /\ vrec' = vrec => OwnVm(q.v)
  BY SameVm
<1>4. CASE RemoveOldSeed(r)
  <2> DEFINE pc == Rest(q.vm, q.was)
  <2>1. q.pc = "oldseed" /\ To(r, pc) /\ dom' = dom /\ vrec' = vrec
    BY <1>4 DEF RemoveOldSeed
  <2>2. pc \in {"tpl", "rename", "define"}
    BY DEF Rest, Rename
  <2> HIDE DEF pc
  <2>3. RightStep(q.op, pc)
    BY <1>2, <2>1, <2>2 DEF RightStep, CreateSteps, UpdateSteps, Going
  <2> QED
    BY <1>1, <1>2, <1>3, <2>1, <2>2, <2>3, PlainMove
<1>5. CASE RenameDomain(r)
  <2>1. vrec' = vrec /\ q.pc = "rename"
    BY <1>5 DEF RenameDomain
  <2>2. CASE dom' = dom /\ End(r)
    BY <1>1, <1>2, <1>3, <2>1, <2>2, EndStep DEF End, Going
  <2>3. CASE dom[q.v].defined /\ dom' = [dom EXCEPT ![q.v].name = q.vm.name] /\ To(r, "define")
    <3> DEFINE d == [dom[q.v] EXCEPT !.name = q.vm.name]
    <3>1. d \in Domain
      BY <1>2, <2>3, DomainCommands DEF Going, VmRecord
    <3>2. dom' = [dom EXCEPT ![q.v] = d]
      BY <2>3
    <3> HIDE DEF d
    <3>3. OwnVm(q.v)
      BY <1>2, <2>1, <3>1, <3>2, OwnDomain DEF Going
    <3>4. RightStep(q.op, "define")
      BY <1>2, <2>1 DEF RightStep, CreateSteps, UpdateSteps, Going
    <3> QED
      BY <1>1, <1>2, <2>3, <3>3, <3>4, PlainMove
  <2> QED
    BY <1>5, <2>2, <2>3 DEF RenameDomain
<1>6. CASE DestroyDomain(r)
  <2>1. vrec' = vrec /\ To(r, "undefine") /\ q.pc = "destroy"
    BY <1>6 DEF DestroyDomain
  <2>2. OwnVm(q.v)
    <3>1. CASE dom' = [dom EXCEPT ![q.v] = PowerOff(@)]
      BY <1>2, <2>1, <3>1, OwnDomain, DomainCommands DEF Going
    <3> QED
      BY <1>3, <1>6, <2>1, <3>1 DEF DestroyDomain
  <2>3. RightStep(q.op, "undefine")
    BY <1>2, <2>1 DEF RightStep, CreateSteps, UpdateSteps, Going
  <2> QED
    BY <1>1, <1>2, <2>1, <2>2, <2>3, PlainMove
<1>7. CASE UndefineDomain(r)
  <2>1. vrec' = vrec /\ To(r, "erase") /\ q.pc = "undefine"
    BY <1>7 DEF UndefineDomain
  <2>2. OwnVm(q.v)
    <3>1. CASE dom' = [dom EXCEPT ![q.v] = Undefine(@)]
      BY <1>2, <2>1, <3>1, OwnDomain, DomainCommands DEF Going
    <3> QED
      BY <1>3, <1>7, <2>1, <3>1 DEF UndefineDomain
  <2>3. RightStep(q.op, "erase")
    BY <1>2, <2>1 DEF RightStep, CreateSteps, UpdateSteps, Going
  <2> QED
    BY <1>1, <1>2, <2>1, <2>2, <2>3, PlainMove
<1>8. CASE EraseRecord(r)
  <2>1. dom' = dom /\ vrec' = [vrec EXCEPT ![q.v] = NoVm] /\ vreq' = [vreq EXCEPT ![r] = NoReq]
    BY <1>8 DEF EraseRecord, End, host
  <2>2. OwnVm(q.v)
    BY <1>2, <2>1 DEF OwnVm, VmInv, VmShape
  <2> QED
    BY <1>1, <1>2, <2>1, <2>2, EndStep DEF Going
<1>9. CASE PowerCommand(r)
  <2>1. vrec' = vrec /\ q.pc = "virsh"
    BY <1>9 DEF PowerCommand
  <2>2. CASE dom' = dom /\ End(r)
    BY <1>1, <1>2, <1>3, <2>1, <2>2, EndStep DEF End, Going
  <2>3. CASE CanPower(q.v, q.arg) /\ dom' = [dom EXCEPT ![q.v] = Powered(@, q.arg)] /\ To(r, "put")
    <3>1. Powered(dom[q.v], q.arg) \in Domain \cup {NoDomain}
      <4>1. q.arg \in PowerActions
        BY <1>1, <1>2, <1>9 DEF Going, ReqOk, StepOk, RightStep, PowerCommand, UpdateSteps
      <4>2. q.arg \in {<<"start">>, <<"resume">>, <<"suspend">>} => dom[q.v] \in Domain
        BY <1>2, <2>3, DomainCommands DEF Going, CanPower, CanStart
      <4> QED
        BY <1>2, <4>1, <4>2, DomainCommands DEF Going, Powered, PowerActions
    <3>2. OwnVm(q.v)
      BY <1>2, <2>1, <2>3, <3>1, OwnDomain DEF Going
    <3>4. RightStep(q.op, "put")
      BY <1>2, <2>1 DEF RightStep, CreateSteps, UpdateSteps, Going
    <3> QED
      BY <1>1, <1>2, <2>3, <3>2, <3>4, PlainMove
  <2> QED
    BY <1>9, <2>2, <2>3 DEF PowerCommand
<1> QED
  BY <1>1, <1>4, <1>5, <1>6, <1>7, <1>8, <1>9

\* The record that an update builds.
LEMMA ChangedOk ==
    ASSUME NEW vm \in VmRecord, NEW c \in VmChanges
    PROVE  Changed(vm, c) \in VmRecord
<1>1. c \in VmChange
  BY VmAssumption
<1> DEFINE name == IF c.name = "keep" THEN vm.name ELSE c.name
           disks == IF c.disks = {} THEN vm.disks ELSE c.disks
           fw == IF c.fw = "keep" THEN vm.fw ELSE c.fw
           tpl == IF c.tpl = "keep" THEN vm.tpl ELSE c.tpl = "yes"
           auto == IF c.tpl = "yes" THEN FALSE ELSE IF c.auto = "keep" THEN vm.auto ELSE c.auto = "yes"
<1>2. Changed(vm, c) = [vm EXCEPT !.name = name, !.disks = disks, !.fw = fw, !.tpl = tpl, !.auto = auto]
  BY Zenon DEF Changed, VmRecord
<1>3. name \in VmNames /\ disks \in SUBSET VmNames /\ fw \in VmPolicies \cup {"off"}
  BY <1>1 DEF VmChange, VmRecord
<1>4. tpl \in BOOLEAN /\ auto \in BOOLEAN
  BY <1>1 DEF VmChange, VmRecord
<1> HIDE DEF name, disks, fw, tpl, auto
<1> QED
  BY <1>2, <1>3, <1>4 DEF VmRecord

\* A request that has read its record: new is what it goes on with.
LEMMA ReadStep ==
    ASSUME VmInv, NEW r \in VmReqs, vreq[r].pc # "idle", vreq[r].op # "create",
           NEW pc, NEW vm \in VmRecord, NEW was, NEW todo,
           vreq' = [vreq EXCEPT ![r] = [vreq[r] EXCEPT !.vm = vm, !.was = was, !.pc = pc, !.todo = todo]],
           dom' = dom, vrec' = vrec, zvols' = zvols, boot' = boot,
           RightStep(vreq[r].op, pc), pc # "undo", pc # "read", pc # "mkzvol"
    PROVE  VmInv' /\ Framed(r)
<1> DEFINE q == vreq[r]
           x == [q EXCEPT !.vm = vm, !.was = was, !.pc = pc, !.todo = todo]
<1>1. Going(r) /\ OwnVm(q.v)
  BY UnderWay, SameVm
<1>2. /\ IsReq(x) /\ x.op = q.op /\ x.v = q.v /\ x.arg = q.arg /\ x.had = q.had
      /\ x.made = q.made /\ x.vm = vm /\ x.pc = pc
  <2>1. IsReq(q)
    BY <1>1 DEF Going
  <2> HIDE DEF q
  <2>2. ASSUME NEW y, y = x PROVE IsReq(y)
    BY <2>1, <2>2 DEF IsReq
  <2> QED
    BY <2>1, <2>2 DEF IsReq
<1>3. vreq' = [vreq EXCEPT ![r] = x]
  OBVIOUS
<1> HIDE DEF x
<1> QED
  BY <1>1, <1>2, <1>3, PlainStep DEF Going

\* get_stored, the checks of update, and require_stopped.
LEMMA ReadsKeep ==
    ASSUME VmInv, NEW r \in VmReqs,
           ReadForUpdate(r) \/ RequireStopped(r) \/ ReadForDelete(r) \/ ReadForPower(r)
    PROVE  VmInv' /\ zvols' = zvols /\ Framed(r)
<1> DEFINE q == vreq[r]
<1>1. /\ dom' = dom /\ vrec' = vrec /\ zvols' = zvols /\ boot' = boot /\ q.pc \in {"read", "stopped", "tpl"}
  BY DEF ReadForUpdate, RequireStopped, ReadForDelete, ReadForPower, At, vmhist, host
<1>2. Going(r) /\ OwnVm(q.v) /\ q.op # "create" /\ IsReq(q)
  BY <1>1, UnderWay, SameVm DEF Going, RightStep, CreateSteps
<1>3. End(r) => VmInv' /\ Framed(r)
  BY <1>1, <1>2, EndStep DEF End, Going
<1>4. Exists(q.v) => vrec[q.v] \in VmRecord
  BY <1>2 DEF Going, Exists
<1>5. CASE ReadForUpdate(r)
  <2> DEFINE c == q.arg[2]
             vm == vrec[q.v]
             new == Changed(vm, c)
             pc == IF c.disks # {} \/ c.seed THEN "stopped" ELSE Rest(new, vm)
  <2>1. q.op = "update" /\ Exists(q.v) /\ c \in VmChanges
    BY <1>2, <1>5 DEF ReadForUpdate, At, Going, ReqOk, StepOk
  <2>2. new \in VmRecord
    BY <1>4, <2>1, ChangedOk
  <2>3. CASE vreq' = [vreq EXCEPT ![r].vm = new, ![r].was = vm, ![r].pc = pc]
    <3>1. RightStep(q.op, pc) /\ pc # "undo" /\ pc # "read" /\ pc # "mkzvol"
      BY <2>1 DEF RightStep, UpdateSteps, Rest, Rename
    <3> HIDE DEF new, pc, vm
    <3>2. vreq' = [vreq EXCEPT ![r] = [q EXCEPT !.vm = new, !.was = vm, !.pc = pc]]
      BY <2>3 DEF VmInv, VmShape
    <3>3. [q EXCEPT !.vm = new, !.was = vm, !.pc = pc] = [q EXCEPT !.vm = new, !.was = vm, !.pc = pc, !.todo = q.todo]
      <4> HIDE DEF q
      <4> QED
        BY <1>2 DEF IsReq
    <3>4. vreq' = [vreq EXCEPT ![r] = [q EXCEPT !.vm = new, !.was = vm, !.pc = pc, !.todo = q.todo]]
      BY <3>2, <3>3
    <3> DEFINE todo == q.todo
    <3> HIDE DEF todo
    <3>5. vreq' = [vreq EXCEPT ![r] = [vreq[r] EXCEPT !.vm = new, !.was = vm, !.pc = pc, !.todo = todo]]
      BY <3>4 DEF todo
    <3> QED
      BY <1>1, <1>2, <2>2, <3>1, <3>5, ReadStep
  <2> QED
    BY <1>1, <1>3, <1>5, <2>3 DEF ReadForUpdate
<1>6. CASE RequireStopped(r)
  <2> DEFINE first == q.pc = "stopped"
             pc == IF ~first THEN Rename(q.vm, q.was) ELSE IF q.arg[2].disks # {} THEN "zvol" ELSE "seed"
             todo == IF first THEN q.arg[2].disks ELSE {}
  <2>1. q.op = "update" /\ q.vm \in VmRecord
    BY <1>2, <1>6 DEF RequireStopped, Going, RightStep
  <2>2. CASE vreq' = [vreq EXCEPT ![r].pc = pc, ![r].todo = todo]
    <3>1. RightStep(q.op, pc) /\ pc # "stopped" /\ pc # "undo" /\ pc # "read" /\ pc # "mkzvol"
      BY <2>1 DEF RightStep, UpdateSteps, Rename
    <3> HIDE DEF pc, todo
    <3>2. vreq' = [vreq EXCEPT ![r] = [q EXCEPT !.pc = pc, !.todo = todo]]
      BY <2>2 DEF VmInv, VmShape
    <3>3. [q EXCEPT !.pc = pc, !.todo = todo] = [q EXCEPT !.vm = q.vm, !.was = q.was, !.pc = pc, !.todo = todo]
      <4> HIDE DEF q
      <4> QED
        BY <1>2 DEF IsReq
    <3> QED
      BY <1>1, <1>2, <2>1, <3>1, <3>2, <3>3, ReadStep
  <2> QED
    BY <1>1, <1>3, <1>6, <2>2 DEF RequireStopped
<1>7. CASE ReadForDelete(r)
  <2> DEFINE pc == IF vrec[q.v].fw # "off" THEN "rules" ELSE "destroy"
             vm == vrec[q.v]
  <2>1. q.op = "delete" /\ vm \in VmRecord
    BY <1>4, <1>7 DEF ReadForDelete, At
  <2>2. RightStep(q.op, pc) /\ pc # "stopped" /\ pc # "undo" /\ pc # "read" /\ pc # "mkzvol"
    BY <2>1 DEF RightStep
  <2>3. vreq' = [vreq EXCEPT ![r] = [q EXCEPT !.vm = vm, !.pc = pc]]
    BY <1>7 DEF ReadForDelete, VmInv, VmShape
  <2> HIDE DEF pc, vm
  <2>4. [q EXCEPT !.vm = vm, !.pc = pc] = [q EXCEPT !.vm = vm, !.was = q.was, !.pc = pc, !.todo = q.todo]
    <3> HIDE DEF q
    <3> QED
      BY <1>2 DEF IsReq
  <2> DEFINE was == q.was
             todo == q.todo
  <2> HIDE DEF was, todo
  <2>5. vreq' = [vreq EXCEPT ![r] = [vreq[r] EXCEPT !.vm = vm, !.was = was, !.pc = pc, !.todo = todo]]
    BY <2>3, <2>4 DEF was, todo
  <2> QED
    BY <1>1, <1>2, <2>1, <2>2, <2>5, ReadStep
<1>8. CASE ReadForPower(r)
  <2> DEFINE vm == vrec[q.v]
  <2>1. q.op = "power" /\ vm \in VmRecord
    BY <1>4, <1>8 DEF ReadForPower, At
  <2>2. CASE vreq' = [vreq EXCEPT ![r].pc = "virsh", ![r].vm = vm]
    <3>1. RightStep(q.op, "virsh")
      BY <2>1 DEF RightStep
    <3>2. vreq' = [vreq EXCEPT ![r] = [q EXCEPT !.pc = "virsh", !.vm = vm]]
      BY <2>2 DEF VmInv, VmShape
    <3> HIDE DEF vm
    <3>3. [q EXCEPT !.pc = "virsh", !.vm = vm] = [q EXCEPT !.vm = vm, !.was = q.was, !.pc = "virsh", !.todo = q.todo]
      <4> HIDE DEF q
      <4> QED
        BY <1>2 DEF IsReq
    <3> DEFINE was == q.was
               todo == q.todo
    <3> HIDE DEF was, todo
    <3>4. vreq' = [vreq EXCEPT ![r] = [vreq[r] EXCEPT !.vm = vm, !.was = was, !.pc = "virsh", !.todo = todo]]
      BY <3>2, <3>3 DEF was, todo
    <3> QED
      BY <1>1, <1>2, <2>1, <3>1, <3>4, ReadStep
  <2> QED
    BY <1>1, <1>3, <1>8, <2>2 DEF ReadForPower
<1> QED
  BY <1>1, <1>5, <1>6, <1>7, <1>8

-----------------------------------------------------------------------------
(* A request begins; the environment.                                      *)

\* A request begins: it has made nothing, and no create under way is for its VM.
LEMMA BeginKeeps ==
    ASSUME VmInv, NEW r \in VmReqs, NEW v \in VmIds, NEW op, NEW arg, NEW vm, Begin(r, op, v, arg, vm),
           op \in {"create", "update", "delete", "power"},
           op = "create" => vm \in VmRecord /\ vrec[v] = NoVm /\ dom[v] = NoDomain /\ ~Busy(v) /\ v \notin boot.queue,
           op # "create" => Exists(v), op = "update" => arg[1] = "set" /\ arg[2] \in VmChanges,
           op = "power" => arg \in PowerActions
    PROVE  VmInv' /\ zvols' = zvols
<1> DEFINE pc == IF op = "create" THEN "zvol" ELSE "read"
           x == [NoReq EXCEPT !.op = op, !.v = v, !.arg = arg, !.vm = vm, !.pc = pc,
                              !.todo = vm.disks, !.had = zvols]
<1>1. /\ dom' = dom /\ vrec' = vrec /\ zvols' = zvols /\ boot' = boot /\ boot.pc = "run"
      /\ vreq[r].pc = "idle" /\ vreq' = [vreq EXCEPT ![r] = x]
  BY DEF Begin, host
<1>2. OthersKept(r) /\ vreq'[r] = x
  BY <1>1, OthersStay
<1>3. /\ IsReq(x) /\ x.op = op /\ x.v = v /\ x.arg = arg /\ x.had = zvols
      /\ x.made = {} /\ x.vm = vm /\ x.pc = pc
  <2> HIDE DEF pc
  <2>1. ASSUME NEW y, y = x
        PROVE  /\ IsReq(y) /\ y.op = op /\ y.v = v /\ y.arg = arg /\ y.had = zvols
               /\ y.made = {} /\ y.vm = vm /\ y.pc = pc
    BY <2>1 DEF IsReq, NoReq
  <2> HIDE DEF x
  <2> QED
    BY <2>1
<1> HIDE DEF x
<1>4. ReqOk(vreq[r])'
  <2>1. StepOk(vreq[r])'
    BY <1>2, <1>3 DEF StepOk, RightStep, CreateSteps, UpdateSteps
  <2>2. ZvolsOk(vreq[r])'
    BY <1>1, <1>2, <1>3, FS_EmptySet DEF ZvolsOk
  <2>3. DomainOk(vreq[r])'
    BY <1>1, <1>2, <1>3 DEF DomainOk
  <2>4. UndoOk(vreq[r])'
    BY <1>2, <1>3 DEF UndoOk
  <2> QED
    BY <2>1, <2>2, <2>3, <2>4 DEF ReqOk
<1>5. ASSUME NEW s \in VmReqs, s # r
      PROVE  /\ vreq'[s] = vreq[s] /\ ReqOk(vreq[s])'
             /\ vreq[s].op = "create" => vreq[s].v # v
             /\ op = "create" => vreq[s].v # v
  <2>1. vreq'[s] = vreq[s] /\ ReqOk(vreq[s])
    BY <1>1, <1>5 DEF VmInv, VmShape
  <2>2. ReqOk(vreq[s])'
    <3>1. StepOk(vreq[s])' /\ ZvolsOk(vreq[s])' /\ DomainOk(vreq[s])'
      BY <1>1, <2>1 DEF ReqOk, StepOk, ZvolsOk, DomainOk
    <3>2. /\ Cmds(vreq[s])' = Cmds(vreq[s]) /\ Mine(vreq[s])' = Mine(vreq[s])
          /\ Once(vreq[s])' = Once(vreq[s]) /\ All(vreq[s])' = All(vreq[s])
      BY <2>1 DEF Cmds, Mine, Once, All
    <3>3. DomainGoes(vreq[s])' = DomainGoes(vreq[s])
      BY <1>1, <2>1 DEF DomainGoes, NoDomain
    <3>4. UndoOk(vreq[s])'
      BY <2>1, <3>2, <3>3 DEF ReqOk, UndoOk
    <3> QED
      BY <3>1, <3>4 DEF ReqOk
  <2>3. vreq[s].op = "create" => vrec[vreq[s].v] = NoVm
    BY <2>1 DEF ReqOk, DomainOk
  <2> QED
    BY <2>1, <2>2, <2>3 DEF Busy, Exists
<1>6. Apart'
  <2>1. ASSUME NEW s \in VmReqs, NEW t \in VmReqs, s # t, s # r, t # r
        PROVE  /\ vreq'[t].made \cap vreq'[s].made = {}
               /\ vreq'[t].op = "create" /\ vreq'[s].op # "none" => vreq'[s].v # vreq'[t].v
    BY <2>1, <1>5 DEF VmInv, Apart
  <2>2. ASSUME NEW s \in VmReqs, s # r
        PROVE  /\ vreq'[r].made \cap vreq'[s].made = {}
               /\ vreq'[r].op = "create" => vreq'[s].v # vreq'[r].v
               /\ vreq'[s].op = "create" => vreq'[s].v # vreq'[r].v
    BY <1>2, <1>3, <1>5, <2>2
  <2> QED
    BY <2>1, <2>2 DEF Apart
<1>7. VmShape'
  BY <1>1, <1>2, <1>3 DEF VmInv, VmShape, OthersKept
<1> QED
  BY <1>1, <1>2, <1>4, <1>5, <1>6, <1>7 DEF VmInv

\* create and the requests on a VM that has a record.
LEMMA BeginsKeep ==
    ASSUME VmInv, NEW r \in VmReqs, NEW v \in VmIds,
           \/ \E c \in VmCreates : Create(r, v, c[1], c[2])
           \/ \E c \in VmChanges : Request(r, "update", v, <<"set", c>>)
           \/ \E a \in PowerActions : Request(r, "power", v, a)
           \/ Request(r, "delete", v, <<>>)
    PROVE  VmInv' /\ zvols' = zvols
<1>1. ASSUME NEW c \in VmCreates, Create(r, v, c[1], c[2])
      PROVE  VmInv' /\ zvols' = zvols
  <2> DEFINE vm == [c[1] EXCEPT !.auto = @ /\ ~c[1].tpl]
  <2>1. vm \in VmRecord
    <3>1. c[1] \in VmRecord
      BY VmAssumption
    <3>2. (c[1].auto /\ ~c[1].tpl) \in BOOLEAN
      OBVIOUS
    <3> QED
      BY <3>1, <3>2 DEF VmRecord
  <2>2. Begin(r, "create", v, <<c[2]>>, vm) /\ vrec[v] = NoVm /\ dom[v] = NoDomain /\ ~Busy(v) /\ v \notin boot.queue
    BY <1>1 DEF Create
  <2> HIDE DEF vm
  <2> QED
    BY <2>1, <2>2, BeginKeeps
<1>2. ASSUME NEW c \in VmChanges, Request(r, "update", v, <<"set", c>>)
      PROVE  VmInv' /\ zvols' = zvols
  BY <1>2, BeginKeeps DEF Request
<1>3. ASSUME NEW a \in PowerActions, Request(r, "power", v, a)
      PROVE  VmInv' /\ zvols' = zvols
  BY <1>3, BeginKeeps DEF Request
<1>4. CASE Request(r, "delete", v, <<>>)
  BY <1>4, BeginKeeps DEF Request
<1> QED
  BY <1>1, <1>2, <1>3, <1>4

\* A step that is not a request's: a domain changes, and the creates under way
\* find theirs as they left it.
LEMMA DomainStep ==
    ASSUME VmInv, vreq' = vreq, zvols' = zvols, vrec' = vrec,
           dom' \in [VmIds -> Domain \cup {NoDomain}],
           boot' \in [pc : {"down", "run"}, queue : SUBSET VmIds], boot'.pc = boot.pc, boot'.queue \subseteq boot.queue,
           \A r \in VmReqs : vreq[r].op = "create" =>
             \/ dom'[vreq[r].v] = dom[vreq[r].v]
             \/ dom[vreq[r].v].defined /\ dom'[vreq[r].v].defined /\ dom[vreq[r].v].power # "off"
             \/ vreq[r].pc = "undo" /\ vreq[r].lossy
    PROVE  VmInv'
<1>1. VmShape' /\ Apart'
  BY DEF VmInv, VmShape, Apart
<1>2. ASSUME NEW r \in VmReqs PROVE ReqOk(vreq[r])'
  <2>1. ReqOk(vreq[r])
    BY DEF VmInv
  <2>2. StepOk(vreq[r])' /\ ZvolsOk(vreq[r])'
    BY <2>1 DEF ReqOk, StepOk, ZvolsOk
  <2>3. CASE vreq[r].op # "create"
    <3>1. DomainOk(vreq[r])' /\ UndoOk(vreq[r])'
      BY <2>1, <2>3 DEF ReqOk, DomainOk, UndoOk, StepOk, RightStep, UpdateSteps
    <3> QED
      BY <2>2, <3>1 DEF ReqOk
  <2>4. CASE vreq[r].op = "create" /\ dom'[vreq[r].v] = dom[vreq[r].v]
    BY <2>1, <2>2, <2>4 DEF ReqOk, DomainOk, UndoOk, DomainGoes
  <2>5. CASE /\ vreq[r].op = "create" /\ dom[vreq[r].v].defined /\ dom'[vreq[r].v].defined
             /\ dom[vreq[r].v].power # "off"
    <3>1. dom[vreq[r].v] # NoDomain
      BY <2>5 DEF NoDomain
    <3>2. DomainOk(vreq[r])'
      BY <2>1, <2>5, <3>1 DEF ReqOk, DomainOk
    <3>3. UndoOk(vreq[r])'
      BY <2>1, <2>5, <3>1 DEF ReqOk, UndoOk, DomainGoes
    <3> QED
      BY <2>2, <3>2, <3>3 DEF ReqOk
  <2>6. CASE vreq[r].op = "create" /\ vreq[r].pc = "undo" /\ vreq[r].lossy
    <3>1. DomainOk(vreq[r])'
      BY <2>1, <2>6 DEF ReqOk, DomainOk
    <3>2. UndoOk(vreq[r])'
      BY <2>1, <2>6 DEF ReqOk, UndoOk
    <3> QED
      BY <2>2, <3>1, <3>2 DEF ReqOk
  <2> QED
    BY <2>3, <2>4, <2>5, <2>6
<1> QED
  BY <1>1, <1>2 DEF VmInv

\* A guest halts, and start_autostart_vms starts one.
LEMMA GuestsKeep ==
    ASSUME VmInv, NEW v \in VmIds, NEW ok \in BOOLEAN, GuestHalts(v) \/ Autostart(v, ok)
    PROVE  VmInv' /\ zvols' = zvols
<1>1. /\ vreq' = vreq /\ zvols' = zvols /\ vrec' = vrec
      /\ dom \in [VmIds -> Domain \cup {NoDomain}] /\ dom[v] \in Domain \cup {NoDomain}
      /\ boot \in [pc : {"down", "run"}, queue : SUBSET VmIds]
  BY DEF GuestHalts, Autostart, VmInv, VmShape
<1>2. CASE GuestHalts(v)
  <2>1. dom[v].power = "running" /\ dom' = [dom EXCEPT ![v] = PowerOff(dom[v])] /\ boot' = boot
    BY <1>2 DEF GuestHalts, vmhist
  <2>2. PowerOff(dom[v]) \in Domain \cup {NoDomain} /\ (dom[v].defined => PowerOff(dom[v]).defined)
    BY <1>1, DomainCommands
  <2>3. ASSUME NEW r \in VmReqs, vreq[r].op = "create", vreq[r].v = v
        PROVE  dom[v].defined \/ (vreq[r].pc = "undo" /\ vreq[r].lossy)
    <3>1. ReqOk(vreq[r]) /\ vreq[r].pc \in CreateSteps
      BY <2>3 DEF VmInv, ReqOk, StepOk, RightStep
    <3>2. dom[v] # NoDomain
      BY <2>1 DEF NoDomain
    <3>3. CASE vreq[r].pc = "undo"
      BY <2>1, <2>3, <3>1, <3>2, <3>3 DEF ReqOk, UndoOk, DomainGoes
    <3>4. CASE vreq[r].pc # "undo"
      BY <2>1, <2>3, <3>1, <3>2, <3>4 DEF ReqOk, DomainOk, CreateSteps
    <3> QED
      BY <3>3, <3>4
  <2>4. VmInv'
    BY <1>1, <2>1, <2>2, <2>3, DomainStep
  <2> QED
    BY <1>1, <2>4
<1>3. CASE Autostart(v, ok)
  <2>1. v \in boot.queue /\ boot' = [boot EXCEPT !.queue = @ \ {v}] /\ (ok => CanStart(v))
        /\ dom' = IF ok THEN [dom EXCEPT ![v] = [dom[v] EXCEPT !.power = "running"]] ELSE dom
    BY <1>3 DEF Autostart
  <2>2. ok => [dom[v] EXCEPT !.power = "running"] \in Domain
    BY <1>1, <2>1, DomainCommands DEF CanStart
  <2>3. dom' \in [VmIds -> Domain \cup {NoDomain}] /\ \A w \in VmIds \ {v} : dom'[w] = dom[w]
    BY <1>1, <2>1, <2>2
  <2>4. \A r \in VmReqs : vreq[r].op = "create" => vreq[r].v # v /\ vreq[r].v \in VmIds
    BY <2>1 DEF VmInv, ReqOk, DomainOk, StepOk
  <2>5. /\ boot' \in [pc : {"down", "run"}, queue : SUBSET VmIds] /\ boot'.pc = boot.pc
        /\ boot'.queue \subseteq boot.queue
    BY <1>1, <2>1
  <2>6. VmInv'
    BY <1>1, <2>3, <2>4, <2>5, DomainStep
  <2> QED
    BY <1>1, <2>6
<1> QED
  BY <1>2, <1>3

\* The backend or the host goes down, and comes back: no request is under way.
LEMMA CrashesKeep ==
    ASSUME VmInv, BackendCrash \/ HostReboot \/ BackendStart
    PROVE  VmInv' /\ zvols' = zvols
<1>1. zvols' = zvols /\ vrec' = vrec /\ vrec \in [VmIds -> VmRecord \cup {NoVm}]
      /\ dom \in [VmIds -> Domain \cup {NoDomain}]
  BY DEF BackendCrash, HostReboot, BackendStart, Down, host, VmInv, VmShape
<1>2. vreq' = [r \in VmReqs |-> NoReq]
  <2>1. CASE BackendStart
    <3>1. vreq' = vreq /\ \A r \in VmReqs : vreq[r] = NoReq
      BY <2>1 DEF BackendStart, VmInv, VmShape
    <3> QED
      BY <3>1 DEF VmInv, VmShape
  <2> QED
    BY <2>1 DEF BackendCrash, HostReboot, Down
<1>3. dom' \in [VmIds -> Domain \cup {NoDomain}]
  <2>1. CASE HostReboot
    BY <1>1, <2>1, DomainCommands DEF HostReboot
  <2> QED
    BY <1>1, <2>1 DEF BackendCrash, BackendStart, host
<1>4. boot' \in [pc : {"down", "run"}, queue : SUBSET VmIds]
  BY DEF BackendCrash, HostReboot, BackendStart, Down
<1>5. \A r \in VmReqs : vreq'[r] = NoReq /\ NoReq' = NoReq
  BY <1>2 DEF NoReq, NoVm
<1>6. VmShape'
  BY <1>1, <1>2, <1>3, <1>4, <1>5, NoReqOk DEF VmShape
<1>7. Apart'
  BY <1>5 DEF Apart, NoReq
<1>8. ASSUME NEW r \in VmReqs PROVE ReqOk(vreq[r])'
  <2>1. vreq'[r] = NoReq /\ NoReq.pc = "idle" /\ NoReq.op = "none" /\ NoReq.made = {} /\ NoReq.had = {}
    BY <1>5, Zenon DEF NoReq
  <2> QED
    BY <2>1, FS_EmptySet DEF ReqOk, StepOk, ZvolsOk, DomainOk, UndoOk, RightStep
<1> QED
  BY <1>1, <1>6, <1>7, <1>8 DEF VmInv

-----------------------------------------------------------------------------
(* The invariant and the theorems.                                         *)

\* VmInv holds of a node that has been set up.
LEMMA VmInitOk == VmInit => VmInv
<1> SUFFICES ASSUME VmInit PROVE VmInv
  OBVIOUS
<1> DEFINE n == CHOOSE n \in VmNames : TRUE
           first == CHOOSE v \in VmIds : TRUE
<1>1. n \in VmNames
  BY VmAssumption
<1> HIDE DEF n, first
<1>2. PICK a \in BOOLEAN :
        LET vm == [NoVm EXCEPT !.name = n, !.disks = {n}, !.auto = a]
        IN  /\ vrec = [v \in VmIds |-> IF v = first THEN vm ELSE NoVm]
            /\ dom = [v \in VmIds |->
                        IF v = first
                        THEN [name |-> vm.name, disks |-> vm.disks, seed |-> "none",
                              defined |-> TRUE, power |-> "off"]
                        ELSE NoDomain]
  BY DEF VmInit, n, first
<1> DEFINE vm == [NoVm EXCEPT !.name = n, !.disks = {n}, !.auto = a]
<1>3. vm \in VmRecord /\ vm.name = n /\ vm.disks = {n}
  BY <1>1 DEF NoVm, VmRecord
<1>4. [name |-> n, disks |-> {n}, seed |-> "none", defined |-> TRUE, power |-> "off"] \in Domain
  BY <1>1 DEF Domain
<1>5. vrec \in [VmIds -> VmRecord \cup {NoVm}] /\ dom \in [VmIds -> Domain \cup {NoDomain}]
  BY <1>2, <1>3, <1>4
<1>6. /\ vreq = [r \in VmReqs |-> NoReq] /\ boot = [pc |-> "down", queue |-> {}]
  BY DEF VmInit
<1>7. VmShape
  BY <1>5, <1>6, NoReqOk DEF VmShape
<1>8. Apart
  BY <1>6 DEF Apart, NoReq
<1> QED
  BY <1>6, <1>7, <1>8, NoReqOk DEF VmInv

\* What a step may do to zvols.
OwnZvolsOnly ==
    \A d \in zvols \ zvols' : \E r \in VmReqs :
        /\ vreq[r].op = "create" /\ vreq[r].pc = "undo"
        /\ d \in vreq[r].made /\ d \notin vreq[r].had

\* Every step keeps the invariant, and only a rollback destroys zvols.
LEMMA VmNextOk == VmInv /\ [VmNext]_vmvars => VmInv' /\ (OwnZvolsOnly \/ UNCHANGED vmvars)
<1> SUFFICES ASSUME VmInv, [VmNext]_vmvars
             PROVE  VmInv' /\ (OwnZvolsOnly \/ UNCHANGED vmvars)
  OBVIOUS
<1>1. zvols \subseteq zvols' => OwnZvolsOnly
  BY DEF OwnZvolsOnly
<1>2. ASSUME NEW r \in VmReqs, RequestStep(r)
      PROVE  VmInv' /\ OwnZvolsOnly
  <2>1. ASSUME NEW v \in VmIds,
               \/ \E c \in VmCreates : Create(r, v, c[1], c[2])
               \/ \E c \in VmChanges : Request(r, "update", v, <<"set", c>>)
               \/ \E a \in PowerActions : Request(r, "power", v, a)
               \/ Request(r, "delete", v, <<>>)
        PROVE  VmInv' /\ OwnZvolsOnly
    BY <1>1, <2>1, BeginsKeep
  <2>2. ASSUME NEW d \in VmNames, LookForZvol(r, d)
        PROVE  VmInv' /\ OwnZvolsOnly
    BY <1>1, <2>2, LookForZvolKeeps
  <2>3. CASE CreateZvol(r)
    BY <1>1, <2>3, CreateZvolKeeps
  <2>4. CASE ZvolAppeared(r) \/ RejectTags(r) \/ StepFails(r)
    BY <1>1, <2>4, ErrorsKeep
  <2>5. CASE WriteSeed(r)
    BY <1>1, <2>5, WriteSeedKeeps
  <2>6. CASE DefineDomain(r)
    BY <1>1, <2>6, DefineDomainKeeps
  <2>7. CASE ApplyFirewall(r)
    BY <1>1, <2>7, ApplyFirewallKeeps
  <2>8. CASE StartNew(r)
    BY <1>1, <2>8, StartNewKeeps
  <2>9. CASE PutVm(r)
    BY <1>1, <2>9, PutVmKeeps
  <2>10. CASE RunUndo(r)
    <3>1. VmInv' /\ \A d \in zvols \ zvols' : /\ vreq[r].op = "create" /\ vreq[r].pc = "undo"
                                              /\ d \in vreq[r].made /\ d \notin vreq[r].had
      BY <2>10, RunUndoKeeps
    <3> QED
      BY <3>1 DEF OwnZvolsOnly
  <2>11. CASE UndoFails(r)
    BY <1>1, <2>11, UndoFailsKeeps
  <2>12. CASE ReturnError(r) \/ ReadMissing(r) \/ HangUp(r)
    BY <1>1, <2>12, EndsKeep
  <2>13. CASE RemoveOldSeed(r) \/ RenameDomain(r) \/ DestroyDomain(r) \/ UndefineDomain(r)
                \/ EraseRecord(r) \/ PowerCommand(r)
    BY <1>1, <2>13, PlainSteps
  <2>14. CASE ReadForUpdate(r) \/ RequireStopped(r) \/ ReadForDelete(r) \/ ReadForPower(r)
    BY <1>1, <2>14, ReadsKeep
  <2> QED
    BY <1>2, <2>1, <2>2, <2>3, <2>4, <2>5, <2>6, <2>7, <2>8, <2>9, <2>10, <2>11, <2>12, <2>13, <2>14
    DEF RequestStep
<1>3. ASSUME NEW v \in VmIds, NEW ok \in BOOLEAN, Autostart(v, ok)
      PROVE  VmInv' /\ OwnZvolsOnly
  BY <1>1, <1>3, GuestsKeep
<1>4. ASSUME NEW v \in VmIds, GuestHalts(v)
      PROVE  VmInv' /\ OwnZvolsOnly
  <2>1. TRUE \in BOOLEAN
    OBVIOUS
  <2> QED
    BY <1>1, <1>4, <2>1, GuestsKeep
<1>5. CASE BackendCrash \/ HostReboot \/ BackendStart
  BY <1>1, <1>5, CrashesKeep
<1>6. CASE UNCHANGED vmvars
  <2>1. /\ vreq' = vreq /\ dom' = dom /\ vrec' = vrec /\ zvols' = zvols /\ boot' = boot
    BY <1>6 DEF vmvars
  <2>2. VmInv'
    <3>1. \A r \in VmReqs : vreq[r].op = "create" => dom'[vreq[r].v] = dom[vreq[r].v]
      BY <2>1
    <3> QED
      BY <2>1, <3>1, DomainStep DEF VmInv, VmShape
  <2> QED
    BY <1>6, <2>2
<1> QED
  BY <1>2, <1>3, <1>4, <1>5, <1>6 DEF VmNext

\* Only the rollback of a create destroys zvols, and only ones that this create
\* made: with any number of requests at once, wherever a step fails, and however
\* often the backend or the host goes down (destroy_zvol in create's error paths).
THEOREM OwnZvolsDestroyed == VmSpec => OnlyOwnZvolsDestroyed
<1>1. VmInit => VmInv
  BY VmInitOk
<1>2. VmInv /\ [VmNext]_vmvars => VmInv' /\ (OwnZvolsOnly \/ UNCHANGED vmvars)
  BY VmNextOk
<1> QED
  BY <1>1, <1>2, PTL DEF VmSpec, OnlyOwnZvolsDestroyed, OwnZvolsOnly

\* A create that failed, and each command of whose rollback worked, has left
\* neither a domain nor a record, and no zvol that it made when the step that
\* failed is the seed ISO, the definition, the firewall, the start or the write.
THEOREM FailedVmsAreUndone == VmSpec => []FailedCreateLeavesNothing
<1>1. VmInit => VmInv
  BY VmInitOk
<1>2. VmInv /\ [VmNext]_vmvars => VmInv'
  BY VmNextOk
<1>3. VmInv => FailedCreateLeavesNothing
  <2> SUFFICES ASSUME VmInv, NEW r \in VmReqs, vreq[r].pc = "undo", vreq[r].undo = <<>>, ~vreq[r].lossy
               PROVE  /\ dom[vreq[r].v] = NoDomain /\ vrec[vreq[r].v] = NoVm
                      /\ vreq[r].cause \notin {"mkzvol", "tags"} => vreq[r].made = {}
    BY DEF FailedCreateLeavesNothing
  <2>1. DomainGoes(vreq[r]) /\ (vreq[r].cause \notin {"mkzvol", "tags"} => All(vreq[r]))
    BY DEF VmInv, ReqOk, UndoOk
  <2>2. Len(vreq[r].undo) = 0
    OBVIOUS
  <2>3. vreq[r].op = "create"
    BY DEF VmInv, ReqOk, StepOk, RightStep, UpdateSteps
  <2>4. vrec[vreq[r].v] = NoVm
    BY <2>3 DEF VmInv, ReqOk, DomainOk
  <2> QED
    BY <2>1, <2>2, <2>4 DEF DomainGoes, All
<1> QED
  BY <1>1, <1>2, <1>3, PTL DEF VmSpec

-----------------------------------------------------------------------------
(* SerialInv: the frames.                                                  *)

\* Two domains still have two names.
LEMMA NamesKept ==
    ASSUME NamesApart, NEW v \in VmIds, \A w \in VmIds \ {v} : dom'[w] = dom[w],
           \/ dom'[v] = NoDomain
           \/ dom[v] # NoDomain /\ dom'[v].name = dom[v].name
           \/ \A w \in VmIds \ {v} : dom[w].name # dom'[v].name
    PROVE  NamesApart'
<1>1. NoDomain' = NoDomain
  BY DEF NoDomain
<1>2. ASSUME NEW w \in VmIds, w # v, dom'[v] # NoDomain, dom[w] # NoDomain
      PROVE  dom'[v].name # dom[w].name
  BY <1>2 DEF NamesApart
<1> QED
  BY <1>1, <1>2 DEF NamesApart

\* What a request knows rests on its own fields and on its own VM.
LEMMA KnowsKept ==
    ASSUME NEW s \in VmReqs, Knows(vreq[s]),
           dom'[vreq[s].v] = dom[vreq[s].v], vrec'[vreq[s].v] = vrec[vreq[s].v],
           vreq'[s].pc = vreq[s].pc, vreq'[s].op = vreq[s].op, vreq'[s].v = vreq[s].v,
           vreq'[s].arg = vreq[s].arg, vreq'[s].vm = vreq[s].vm, vreq'[s].undo = vreq[s].undo,
           vreq'[s].was = vreq[s].was
    PROVE  Knows(vreq[s])'
<1>1. DomainGoes(vreq[s])' = DomainGoes(vreq[s])
  BY DEF DomainGoes, NoDomain
<1>3. Settled(vreq[s].v)' = Settled(vreq[s].v)
  BY DEF Settled, Match, NoVm, NoDomain
<1>4. CreateKnows(vreq[s])' = CreateKnows(vreq[s])
  BY <1>1 DEF CreateKnows, Match
<1>5. UpdateKnows(vreq[s])' = UpdateKnows(vreq[s])
  BY <1>3 DEF UpdateKnows, Match, NoVm
<1>6. DeleteKnows(vreq[s])' = DeleteKnows(vreq[s])
  BY <1>3 DEF DeleteKnows, NoDomain
<1>7. PowerKnows(vreq[s])' = PowerKnows(vreq[s])
  BY <1>3 DEF PowerKnows, Match, NoVm
<1> QED
  BY <1>4, <1>5, <1>6, <1>7 DEF Knows

\* A step of a request, by what it leaves its own VM in.
LEMMA SerialStep ==
    ASSUME VmInv, SerialInv, NEW r \in VmReqs, vreq[r].op # "none", Framed(r), NEW v, v = vreq[r].v,
           boot' = boot, mixed \subseteq mixed', NamesApart',
           vreq'[r].op \in {vreq[r].op, "none"}, vreq'[r].op # "none" => vreq'[r].v = v,
           v \notin mixed' /\ vreq'[r].op = "none" => Settled(v)',
           v \notin mixed' /\ vreq'[r].op # "none" => Knows(vreq[r])'
    PROVE  SerialInv'
<1>1. /\ \A s \in VmReqs \ {r} : /\ vreq'[s].pc = vreq[s].pc /\ vreq'[s].op = vreq[s].op
                                 /\ vreq'[s].v = vreq[s].v /\ vreq'[s].arg = vreq[s].arg
                                 /\ vreq'[s].vm = vreq[s].vm /\ vreq'[s].undo = vreq[s].undo
                                 /\ vreq'[s].was = vreq[s].was
      /\ \A w \in VmIds \ {v} : dom'[w] = dom[w] /\ vrec'[w] = vrec[w]
  BY DEF Framed, OthersKept, OwnVm
<1>2. v \in VmIds
  BY DEF VmInv, ReqOk, StepOk
<1>3. OneAtATime'
  <2>1. ASSUME NEW s \in VmReqs, s # r, vreq'[s].op # "none", vreq'[r].op # "none", vreq'[s].v = vreq'[r].v
        PROVE  vreq'[r].v \in mixed'
    BY <1>1, <2>1 DEF SerialInv, OneAtATime
  <2>2. ASSUME NEW s \in VmReqs, NEW t \in VmReqs, s # t, s # r, t # r,
               vreq'[s].op # "none", vreq'[t].op # "none", vreq'[s].v = vreq'[t].v
        PROVE  vreq'[s].v \in mixed'
    BY <1>1, <2>2 DEF SerialInv, OneAtATime
  <2> QED
    BY <2>1, <2>2 DEF OneAtATime
<1>4. ASSUME NEW w, w # v PROVE Free(w)' <=> Free(w)
  BY <1>1, <1>4 DEF Free
<1>5. QueueOk'
  <2>1. ASSUME NEW w \in boot.queue, w \notin mixed'
        PROVE  Free(w)' /\ ~vrec'[w].tpl
    <3>1. Free(w) /\ ~vrec[w].tpl
      BY <2>1 DEF SerialInv, QueueOk
    <3>2. w # v /\ w \in VmIds
      BY <3>1 DEF Free, VmInv, VmShape
    <3> QED
      BY <1>1, <1>4, <3>1, <3>2
  <2> QED
    BY <2>1 DEF QueueOk
<1>6. ASSUME NEW w \in VmIds, w \notin mixed', Free(w)' PROVE Settled(w)'
  <2>1. CASE w = v
    <3>1. vreq'[r].op = "none"
      BY <1>6, <2>1 DEF Free
    <3> QED
      BY <1>6, <2>1, <3>1
  <2>2. CASE w # v
    <3>1. Settled(w)
      BY <1>4, <1>6, <2>2 DEF SerialInv
    <3> QED
      BY <1>1, <2>2, <3>1 DEF Settled, Match, NoVm, NoDomain
  <2> QED
    BY <2>1, <2>2
<1>7. ASSUME NEW s \in VmReqs, vreq'[s].op # "none", vreq'[s].v \notin mixed' PROVE Knows(vreq[s])'
  <2>1. CASE s = r
    BY <1>7, <2>1
  <2>2. CASE s # r
    <3>1. vreq[s].v # v
      BY <1>1, <1>7, <2>2 DEF SerialInv, OneAtATime
    <3>2. Knows(vreq[s]) /\ vreq[s].v \in VmIds
      BY <1>1, <1>7, <2>2 DEF SerialInv, VmInv, ReqOk, StepOk
    <3> QED
      BY <1>1, <2>2, <3>1, <3>2, KnowsKept
  <2> QED
    BY <2>1, <2>2
<1> QED
  BY <1>3, <1>5, <1>6, <1>7 DEF SerialInv

-----------------------------------------------------------------------------
(* SerialInv: the steps of requests.                                       *)

\* Where a request is after To and after End.
LEMMA MovedOrEnded ==
    ASSUME VmInv, NEW r \in VmReqs, vreq[r].pc # "idle", NEW pc
    PROVE  /\ To(r, pc) => /\ vreq'[r].op = vreq[r].op /\ vreq'[r].v = vreq[r].v
                           /\ vreq'[r].arg = vreq[r].arg /\ vreq'[r].vm = vreq[r].vm /\ vreq'[r].pc = pc
                           /\ vreq'[r].was = vreq[r].was
           /\ End(r) => vreq'[r].op = "none"
<1>1. ASSUME To(r, pc)
      PROVE  /\ vreq'[r].op = vreq[r].op /\ vreq'[r].v = vreq[r].v
             /\ vreq'[r].arg = vreq[r].arg /\ vreq'[r].vm = vreq[r].vm /\ vreq'[r].pc = pc
             /\ vreq'[r].was = vreq[r].was
  BY <1>1, MoveTo
<1>2. ASSUME End(r) PROVE vreq'[r].op = "none"
  BY <1>2 DEF End, VmInv, VmShape, NoReq
<1> QED
  BY <1>1, <1>2

\* With the domains as they were, their names are apart.
LEMMA SameNames ==
    ASSUME SerialInv, dom' = dom
    PROVE  NamesApart'
BY DEF SerialInv, NamesApart, NoDomain

\* After a failing command, or a client that hung up, nothing is claimed of the VM.
LEMMA FaultsSerial ==
    ASSUME VmInv, SerialInv, NEW r \in VmReqs, Framed(r), StepFails(r) \/ UndoFails(r) \/ HangUp(r)
    PROVE  SerialInv'
<1>1. vreq[r].pc # "idle"
  <2>1. CASE HangUp(r)
    BY <2>1 DEF HangUp, VmInv, ReqOk, StepOk, RightStep, UpdateSteps
  <2> QED
    BY <2>1 DEF StepFails, UndoFails
<1>2. dom' = dom /\ boot' = boot /\ mixed' = mixed \cup {vreq[r].v}
  BY DEF StepFails, UndoFails, HangUp, Fault, host, vmhist
<1>3. Going(r)
  BY <1>1, UnderWay
<1>4. vreq'[r].op \in {vreq[r].op, "none"} /\ (vreq'[r].op # "none" => vreq'[r].v = vreq[r].v)
  <2>1. IsReq(vreq[r]) /\ vreq = [s \in VmReqs |-> vreq[s]]
    BY DEF VmInv, VmShape
  <2>2. CASE HangUp(r)
    BY <1>1, <2>2, MovedOrEnded DEF HangUp
  <2>3. CASE UndoFails(r)
    BY <2>1, <2>3 DEF UndoFails, IsReq
  <2>4. CASE StepFails(r)
    <3>1. CASE To(r, "destroy")
      BY <1>1, <3>1, MovedOrEnded
    <3>2. CASE Failed(r, vreq[r].pc)
      BY <2>1, <3>2 DEF Failed, IsReq, NoReq
    <3> QED
      BY <2>4, <3>1, <3>2 DEF StepFails
  <2> QED
    BY <2>2, <2>3, <2>4
<1>5. NamesApart'
  BY <1>2, SameNames
<1> QED
  BY <1>2, <1>3, <1>4, <1>5, SerialStep DEF Going

\* Provisioning: the disks and the seed ISO.
LEMMA DisksSerial ==
    ASSUME VmInv, SerialInv, NEW r \in VmReqs, Framed(r),
           (\E d \in VmNames : LookForZvol(r, d)) \/ CreateZvol(r) \/ WriteSeed(r) \/ RemoveOldSeed(r)
    PROVE  SerialInv'
<1> DEFINE q == vreq[r]
<1>1. /\ q.pc \in {"zvol", "mkzvol", "seed", "oldseed"}
      /\ dom' = dom /\ vrec' = vrec /\ boot' = boot /\ mixed' = mixed
  BY DEF LookForZvol, CreateZvol, WriteSeed, RemoveOldSeed, host, bounds, vmhist
<1>2. Going(r) /\ q.vm \in VmRecord /\ IsReq(q) /\ vreq = [s \in VmReqs |-> vreq[s]]
  BY <1>1, UnderWay DEF Going, VmInv, VmShape
<1>3. /\ vreq'[r].op = q.op /\ vreq'[r].v = q.v /\ vreq'[r].arg = q.arg /\ vreq'[r].was = q.was
      /\ vreq'[r].vm.name = q.vm.name /\ vreq'[r].vm.tpl = q.vm.tpl
      /\ q.op = "create" => vreq'[r].pc \in {"zvol", "mkzvol", "seed", "define"}
      /\ q.op = "update" => vreq'[r].pc \in {"zvol", "mkzvol", "seed", "oldseed", Rest(q.vm, q.was)}
  <2>1. CASE \E d \in VmNames : LookForZvol(r, d)
    <3>1. PICK d \in VmNames : LookForZvol(r, d)
      BY <2>1
    <3>2. /\ vreq'[r].op = q.op /\ vreq'[r].v = q.v /\ vreq'[r].arg = q.arg /\ vreq'[r].vm = q.vm
          /\ vreq'[r].was = q.was
          /\ vreq'[r].pc = IF d \in zvols THEN MoreDisks(q, q.todo \ {d}) ELSE "mkzvol"
      BY <1>2, <3>1 DEF LookForZvol, IsReq
    <3> QED
      BY <3>2 DEF MoreDisks, After
  <2>2. CASE CreateZvol(r)
    BY <1>1, <1>2, <2>2 DEF CreateZvol, MoreDisks, After, IsReq
  <2>3. CASE WriteSeed(r)
    BY <1>1, <1>2, <2>3 DEF WriteSeed, After, IsReq, VmRecord
  <2>4. CASE RemoveOldSeed(r)
    BY <1>1, <1>2, <2>4, MovedOrEnded DEF RemoveOldSeed, Going, RightStep, CreateSteps
  <2> QED
    BY <2>1, <2>2, <2>3, <2>4
<1>4. q.op = "create" \/ q.op = "update"
  BY <1>1, <1>2 DEF Going, RightStep
<1>5. ASSUME q.v \notin mixed' PROVE Knows(vreq[r])'
  <2>1. Knows(q)
    BY <1>1, <1>2, <1>5 DEF SerialInv, Going
  <2>2. CASE q.op = "create"
    BY <1>3, <2>1, <2>2 DEF Knows, CreateKnows
  <2>3. CASE q.op = "update"
    <3>1. Settled(q.v) /\ vrec[q.v] # NoVm /\ q.was = vrec[q.v] /\ dom[q.v].power = "off"
      BY <1>1, <2>1, <2>3 DEF Knows, UpdateKnows
    <3>2. (Settled(vreq[r].v) /\ vrec[vreq[r].v] # NoVm /\ vreq[r].was = vrec[vreq[r].v] /\ dom[vreq[r].v].power = "off")'
      BY <1>1, <1>3, <3>1 DEF Settled, Match, NoVm, NoDomain
    <3>3. Rest(q.vm, q.was) \in {"tpl", "rename", "define"}
      BY DEF Rest, Rename
    <3>4. Rest(q.vm, q.was) = "define" => q.vm.name = dom[q.v].name /\ dom[q.v].defined
      BY <3>1 DEF Rest, Rename, Settled, Match
    <3>5. UpdateKnows(vreq[r])'
      BY <1>1, <1>3, <2>3, <3>2, <3>3, <3>4 DEF UpdateKnows
    <3> QED
      BY <1>3, <2>3, <3>5 DEF Knows
  <2> QED
    BY <1>4, <2>2, <2>3
<1>6. NamesApart'
  BY <1>1, SameNames
<1> QED
  BY <1>1, <1>2, <1>3, <1>5, <1>6, SerialStep DEF Going

\* A step that fails without a fault: create goes back, and the others find the
\* VM as it was.
LEMMA FailSerial ==
    ASSUME VmInv, SerialInv, NEW r \in VmReqs, vreq[r].pc # "idle", NEW pc, Failed(r, pc),
           vreq[r].pc = pc \/ (vreq[r].pc = "define" /\ pc = "tags"), pc \notin {"zvol", "undo"},
           dom' = dom, vrec' = vrec, zvols' = zvols, boot' = boot, mixed' = mixed,
           vreq[r].op # "create" /\ vreq[r].v \notin mixed => Settled(vreq[r].v)
    PROVE  SerialInv'
<1> DEFINE q == vreq[r]
<1>1. Going(r)
  BY UnderWay
<1>2. /\ Framed(r)
      /\ q.op # "create" => vreq'[r] = NoReq
      /\ q.op = "create" => /\ vreq'[r].op = "create" /\ vreq'[r].v = q.v /\ vreq'[r].pc = "undo"
                            /\ vreq'[r].arg = q.arg /\ vreq'[r].vm = q.vm /\ DomainGoes(vreq[r])'
  BY <1>1, FailStep DEF Going
<1>3. NamesApart'
  BY SameNames
<1>4. CASE q.op # "create"
  <2>1. vreq'[r].op = "none"
    BY <1>2, <1>4 DEF NoReq
  <2>2. ASSUME NEW v, v = q.v, v \notin mixed' PROVE Settled(v)'
    <3>1. Settled(v)
      BY <1>4, <2>2
    <3> QED
      BY <3>1 DEF Settled, NoVm, NoDomain
  <2> QED
    BY <1>1, <1>2, <1>3, <2>1, <2>2, SerialStep DEF Going
<1>5. CASE q.op = "create"
  <2>1. ASSUME q.v \notin mixed' PROVE Knows(vreq[r])'
    <3>1. CreateKnows(q)
      BY <1>1, <1>5, <2>1 DEF SerialInv, Knows, Going
    <3> QED
      BY <1>2, <1>5, <3>1 DEF Knows, CreateKnows
  <2> QED
    BY <1>1, <1>2, <1>3, <1>5, <2>1, SerialStep DEF Going
<1> QED
  BY <1>4, <1>5

\* The dataset has appeared, and the tags are refused.
LEMMA RefusalsSerial ==
    ASSUME VmInv, SerialInv, NEW r \in VmReqs, ZvolAppeared(r) \/ RejectTags(r)
    PROVE  SerialInv'
<1>1. dom' = dom /\ vrec' = vrec /\ zvols' = zvols /\ boot' = boot /\ mixed' = mixed
  BY DEF ZvolAppeared, RejectTags, host, bounds, vmhist
<1>2. vreq[r].pc # "idle"
  BY DEF ZvolAppeared, RejectTags
<1>3. Going(r) /\ (vreq[r].v \notin mixed => Knows(vreq[r]))
  BY <1>2, UnderWay DEF Going, SerialInv
<1>4. CASE ZvolAppeared(r)
  <2>1. vreq[r].pc = "mkzvol" /\ Failed(r, "mkzvol")
    BY <1>4 DEF ZvolAppeared
  <2>2. vreq[r].op # "create" /\ vreq[r].v \notin mixed => Settled(vreq[r].v)
    BY <1>3, <2>1 DEF Going, RightStep, Knows, UpdateKnows
  <2> QED
    BY <1>1, <1>2, <2>1, <2>2, FailSerial
<1>5. CASE RejectTags(r)
  <2>1. vreq[r].pc = "define" /\ Failed(r, "tags") /\ vreq[r].arg = <<"badtags">>
    BY <1>5 DEF RejectTags
  <2>2. \A x : x[1] = "set" => x # <<"badtags">>
    BY NotStart
  <2>3. vreq[r].op = "create"
    BY <1>3, <2>1, <2>2 DEF Going, RightStep, ReqOk, StepOk
  <2> QED
    BY <1>1, <1>2, <2>1, <2>3, FailSerial
<1> QED
  BY <1>4, <1>5

\* virsh define: an update's domain has its name already, so it is not refused.
LEMMA DefineSerial ==
    ASSUME VmInv, SerialInv, NEW r \in VmReqs, Framed(r), DefineDomain(r)
    PROVE  SerialInv'
<1> DEFINE q == vreq[r]
           d == [name |-> q.vm.name, disks |-> q.vm.disks, seed |-> q.vm.seed, defined |-> TRUE,
                 power |-> dom[q.v].power]
<1>1. q.pc = "define" /\ vrec' = vrec /\ zvols' = zvols /\ boot' = boot /\ mixed' = mixed
  BY DEF DefineDomain, vmhist, bounds
<1>2. Going(r) /\ q.vm \in VmRecord /\ (q.v \notin mixed => Knows(q))
  BY <1>1, UnderWay DEF Going, SerialInv
<1>3. q.op = "create" \/ q.op = "update"
  BY <1>1, <1>2 DEF Going, RightStep
<1>4. CASE CanDefine(q.v, q.vm)
  <2>1. dom' = [dom EXCEPT ![q.v] = d] /\ To(r, After(q, "define"))
    BY <1>4 DEF DefineDomain, Defined
  <2>2. dom'[q.v] = d
    BY <1>2, <2>1 DEF VmInv, VmShape, Going
  <2>3. /\ d.name = q.vm.name /\ d.disks = q.vm.disks /\ d.seed = q.vm.seed /\ d.defined
        /\ d.power = dom[q.v].power
    OBVIOUS
  <2> HIDE DEF d
  <2>4. /\ vreq'[r].op = q.op /\ vreq'[r].v = q.v /\ vreq'[r].arg = q.arg /\ vreq'[r].vm = q.vm
        /\ vreq'[r].pc = After(q, "define")
    BY <1>1, <2>1, MovedOrEnded
  <2>5. NamesApart'
    <3>1. \A w \in VmIds \ {q.v} : dom[w].name # dom'[q.v].name /\ dom'[w] = dom[w]
      BY <1>4, <2>2, <2>3 DEF CanDefine, Framed, OwnVm
    <3> QED
      BY <1>2, <3>1, NamesKept DEF Going, SerialInv
  <2>6. ASSUME q.v \notin mixed' PROVE Knows(vreq[r])'
    <3>1. CASE q.op = "create"
      <4>1. dom[q.v].power = "off"
        BY <1>1, <1>2, <3>1 DEF Going, ReqOk, DomainOk, NoDomain
      <4>2. Match(q.vm, d)
        BY <2>3, <4>1 DEF Match
      <4>3. After(q, "define") \in {"rules", "start", "put"} /\ (After(q, "define") = "start" => q.arg = <<"start">>)
        BY DEF After
      <4> QED
        BY <1>1, <1>2, <2>2, <2>4, <2>6, <3>1, <4>2, <4>3 DEF Knows, CreateKnows, Match
    <3>2. CASE q.op = "update"
      <4>1. q.vm.tpl => dom[q.v].power = "off"
        BY <1>1, <1>2, <2>6, <3>2 DEF Knows, UpdateKnows
      <4>2. Match(q.vm, d)
        BY <2>3, <4>1 DEF Match
      <4>3. After(q, "define") = "rules"
        BY <3>2 DEF After
      <4> QED
        BY <2>2, <2>4, <3>2, <4>2, <4>3 DEF Knows, UpdateKnows, Match
    <3> QED
      BY <1>3, <3>1, <3>2
  <2> QED
    BY <1>1, <1>2, <2>4, <2>5, <2>6, SerialStep DEF Going
<1>5. CASE ~CanDefine(q.v, q.vm)
  <2>1. dom' = dom /\ Failed(r, "define")
    BY <1>5 DEF DefineDomain
  <2>2. q.op # "create" => q.v \in mixed
    <3> SUFFICES ASSUME q.op = "update", q.v \notin mixed PROVE CanDefine(q.v, q.vm)
      BY <1>3, <1>5
    <3>1. q.vm.name = dom[q.v].name /\ dom[q.v].defined
      BY <1>1, <1>2 DEF Knows, UpdateKnows
    <3>2. dom[q.v] # NoDomain
      BY <3>1 DEF NoDomain
    <3>3. ASSUME NEW w \in VmIds, w # q.v PROVE dom[w].name # q.vm.name
      <4>1. CASE dom[w] = NoDomain
        BY <1>2, <4>1, VmAssumption DEF NoDomain, VmRecord
      <4>2. CASE dom[w] # NoDomain
        BY <1>2, <3>1, <3>2, <3>3, <4>2 DEF SerialInv, NamesApart, Going
      <4> QED
        BY <4>1, <4>2
    <3> QED
      BY <3>1, <3>3 DEF CanDefine
  <2> QED
    BY <1>1, <2>1, <2>2, FailSerial
<1> QED
  BY <1>4, <1>5

\* The rules are applied; the domain is as it was.
LEMMA FirewallSerial ==
    ASSUME VmInv, SerialInv, NEW r \in VmReqs, Framed(r), ApplyFirewall(r)
    PROVE  SerialInv'
<1> DEFINE q == vreq[r]
<1>1. /\ q.pc = "rules" /\ dom' = dom /\ vrec' = vrec /\ boot' = boot /\ mixed' = mixed
      /\ To(r, After(q, "rules"))
  BY DEF ApplyFirewall, vmhist, bounds
<1>2. Going(r) /\ (q.v \notin mixed => Knows(q))
  BY <1>1, UnderWay DEF Going, SerialInv
<1>3. /\ vreq'[r].op = q.op /\ vreq'[r].v = q.v /\ vreq'[r].arg = q.arg /\ vreq'[r].vm = q.vm
      /\ vreq'[r].pc = After(q, "rules")
  BY <1>1, MovedOrEnded
<1>4. ASSUME q.v \notin mixed' PROVE Knows(vreq[r])'
  <2>1. CASE q.op = "create"
    <3>1. After(q, "rules") \in {"start", "put"} /\ (After(q, "rules") = "start" => q.arg = <<"start">>)
      BY <2>1 DEF After
    <3> QED
      BY <1>1, <1>2, <1>3, <1>4, <2>1, <3>1 DEF Knows, CreateKnows, Match
  <2>2. CASE q.op = "update"
    <3>1. After(q, "rules") = "put"
      BY <1>2, <2>2, NotStart DEF After, Going, ReqOk, StepOk
    <3> QED
      BY <1>1, <1>2, <1>3, <1>4, <2>2, <3>1 DEF Knows, UpdateKnows, Match
  <2>3. CASE q.op = "delete"
    <3>1. After(q, "rules") = "destroy"
      BY <2>3 DEF After
    <3> QED
      BY <1>3, <2>3, <3>1 DEF Knows, DeleteKnows
  <2> QED
    BY <1>1, <1>2, <2>1, <2>2, <2>3 DEF Going, RightStep
<1>5. NamesApart'
  BY <1>1, SameNames
<1> QED
  BY <1>1, <1>2, <1>3, <1>4, <1>5, SerialStep DEF Going

\* A VM that is created with start is not a template.
LEMMA StartSerial ==
    ASSUME VmInv, SerialInv, NEW r \in VmReqs, Framed(r), StartNew(r)
    PROVE  SerialInv'
<1> DEFINE q == vreq[r]
           d == [dom[q.v] EXCEPT !.power = "running"]
<1>1. q.pc = "start" /\ vrec' = vrec /\ zvols' = zvols /\ boot' = boot /\ mixed' = mixed
  BY DEF StartNew, vmhist, bounds
<1>2. Going(r) /\ (q.v \notin mixed => Knows(q))
  BY <1>1, UnderWay DEF Going, SerialInv
<1>3. q.op = "create"
  BY <1>1, <1>2 DEF Going, RightStep, UpdateSteps
<1>4. CASE CanStart(q.v)
  <2>1. dom' = [dom EXCEPT ![q.v] = d] /\ To(r, "put")
    BY <1>4 DEF StartNew
  <2>2. dom'[q.v] = d /\ dom[q.v] \in Domain
    BY <1>2, <1>4, <2>1, DomainCommands DEF VmInv, VmShape, Going, CanStart
  <2>3. /\ d.name = dom[q.v].name /\ d.disks = dom[q.v].disks /\ d.seed = dom[q.v].seed
        /\ d.defined = dom[q.v].defined /\ d # NoDomain /\ dom[q.v] # NoDomain
    <3>1. ASSUME NEW o \in Domain
          PROVE  LET n == [o EXCEPT !.power = "running"]
                 IN  n.name = o.name /\ n.disks = o.disks /\ n.seed = o.seed /\ n.defined = o.defined /\ n.power = "running"
      BY DEF Domain
    <3>2. NoDomain.power = "off" /\ ~NoDomain.defined /\ dom[q.v].defined
      BY <1>4 DEF NoDomain, CanStart
    <3> QED
      BY <2>2, <3>1, <3>2
  <2> HIDE DEF d
  <2>4. /\ vreq'[r].op = q.op /\ vreq'[r].v = q.v /\ vreq'[r].arg = q.arg /\ vreq'[r].vm = q.vm
        /\ vreq'[r].pc = "put"
    BY <1>1, <2>1, MovedOrEnded
  <2>5. NamesApart'
    BY <1>2, <2>2, <2>3, NamesKept DEF Going, SerialInv, Framed, OwnVm
  <2>6. ASSUME q.v \notin mixed' PROVE Knows(vreq[r])'
    BY <1>1, <1>2, <1>3, <2>2, <2>3, <2>4, <2>6 DEF Knows, CreateKnows, Match
  <2> QED
    BY <1>1, <1>2, <2>4, <2>5, <2>6, SerialStep DEF Going
<1>5. CASE ~CanStart(q.v)
  <2>1. dom' = dom /\ Failed(r, "start")
    BY <1>5 DEF StartNew
  <2> QED
    BY <1>1, <1>3, <2>1, FailSerial
<1> QED
  BY <1>4, <1>5

\* A request ends with its VM as it should be.
LEMMA EndSerial ==
    ASSUME VmInv, SerialInv, NEW r \in VmReqs, Framed(r), vreq[r].pc # "idle", End(r),
           boot' = boot, mixed' = mixed, NamesApart', NEW v, v = vreq[r].v, v \notin mixed => Settled(v)'
    PROVE  SerialInv'
<1>1. Going(r)
  BY UnderWay
<1>2. vreq'[r].op = "none"
  BY MovedOrEnded
<1> QED
  BY <1>1, <1>2, SerialStep DEF Going

\* The record is written, or erased; an error is returned; nothing was found.
LEMMA EndsSerial ==
    ASSUME VmInv, SerialInv, NEW r \in VmReqs, Framed(r),
           PutVm(r) \/ EraseRecord(r) \/ ReturnError(r) \/ ReadMissing(r)
    PROVE  SerialInv'
<1> DEFINE q == vreq[r]
<1>1. dom' = dom /\ boot' = boot /\ mixed' = mixed /\ End(r) /\ q.pc # "idle"
  BY DEF PutVm, EraseRecord, ReturnError, ReadMissing, host, bounds, vmhist
<1>2. Going(r) /\ (q.v \notin mixed => Knows(q))
  BY <1>1, UnderWay DEF Going, SerialInv
<1>3. NamesApart'
  BY <1>1, SameNames
<1>4. ASSUME NEW v, v = q.v, v \notin mixed PROVE Settled(v)'
  <2>1. Knows(q) /\ vrec = [w \in VmIds |-> vrec[w]] /\ v \in VmIds
    BY <1>2, <1>4 DEF VmInv, VmShape, Going
  <2>2. CASE PutVm(r)
    <3>1. q.pc = "put" /\ vrec'[v] = q.vm /\ q.vm \in VmRecord
      BY <1>2, <1>4, <2>1, <2>2 DEF PutVm, Going
    <3>2. Match(q.vm, dom[v])
      BY <1>2, <1>4, <2>1, <3>1 DEF Knows, CreateKnows, UpdateKnows, PowerKnows, Going, RightStep
    <3>3. q.vm # NoVm
      BY <3>1, VmAssumption DEF VmRecord, NoVm
    <3> QED
      BY <1>1, <3>1, <3>2, <3>3 DEF Settled, Match, NoVm
  <2>3. CASE EraseRecord(r)
    <3>1. q.pc = "erase" /\ vrec'[v] = NoVm
      BY <1>4, <2>1, <2>3 DEF EraseRecord
    <3>2. dom[v] = NoDomain
      BY <1>2, <1>4, <2>1, <3>1 DEF Knows, DeleteKnows, Going, RightStep, CreateSteps, UpdateSteps
    <3> QED
      BY <1>1, <3>1, <3>2 DEF Settled, NoVm, NoDomain
  <2>4. CASE ReturnError(r)
    <3>1. q.pc = "undo" /\ Len(q.undo) = 0 /\ vrec' = vrec
      BY <2>4 DEF ReturnError
    <3>2. q.op = "create"
      BY <1>2, <3>1 DEF Going, RightStep, UpdateSteps
    <3>3. dom[v] = NoDomain
      BY <1>4, <2>1, <3>1, <3>2 DEF Knows, CreateKnows, DomainGoes
    <3>4. vrec[v] = NoVm
      BY <1>2, <1>4, <3>2 DEF Going, ReqOk, DomainOk
    <3> QED
      BY <1>1, <3>1, <3>3, <3>4 DEF Settled, NoVm, NoDomain
  <2>5. CASE ReadMissing(r)
    <3>1. q.pc = "read" /\ vrec' = vrec
      BY <2>5 DEF ReadMissing
    <3>2. Settled(v)
      BY <1>2, <1>4, <2>1, <3>1 DEF Knows, UpdateKnows, DeleteKnows, PowerKnows, Going, RightStep, CreateSteps
    <3> QED
      BY <1>1, <3>1, <3>2 DEF Settled, NoVm, NoDomain
  <2> QED
    BY <2>2, <2>3, <2>4, <2>5
<1> QED
  BY <1>1, <1>2, <1>3, <1>4, EndSerial

\* A command of the rollback.
LEMMA RunUndoSerial ==
    ASSUME VmInv, SerialInv, NEW r \in VmReqs, RunUndo(r)
    PROVE  SerialInv'
<1> DEFINE q == vreq[r]
<1>1. q.pc = "undo" /\ boot' = boot /\ mixed' = mixed
  BY DEF RunUndo, bounds, vmhist
<1>2. /\ Framed(r)
      /\ DomainGoes(vreq[r]) => DomainGoes(vreq[r])'
      /\ vreq'[r].op = "create" /\ vreq'[r].v = vreq[r].v /\ vreq'[r].pc = "undo"
      /\ vreq'[r].arg = vreq[r].arg /\ vreq'[r].vm = vreq[r].vm
  BY RunUndoKeeps
<1>3. Going(r) /\ q.op = "create" /\ (q.v \notin mixed => Knows(q))
  BY <1>1, UnderWay DEF Going, RightStep, UpdateSteps, SerialInv
<1>4. NamesApart'
  <2>1. dom'[q.v] \in {dom[q.v], PowerOff(dom[q.v]), Undefine(dom[q.v])}
    BY <1>3 DEF RunUndo, VmInv, VmShape, Going
  <2>2. dom'[q.v] = NoDomain \/ (dom[q.v] # NoDomain /\ dom'[q.v].name = dom[q.v].name)
    <3>1. CASE dom[q.v] = NoDomain
      <4>1. PowerOff(NoDomain) = NoDomain /\ Undefine(NoDomain) = NoDomain
        BY DEF PowerOff, Undefine, NoDomain
      <4> QED
        BY <2>1, <3>1, <4>1
    <3>2. CASE dom[q.v] \in Domain
      <4>1. dom[q.v] # NoDomain
        BY <3>2, VmAssumption DEF Domain, NoDomain
      <4> QED
        BY <2>1, <3>2, <4>1 DEF PowerOff, Undefine, Domain
    <3> QED
      BY <1>3, <3>1, <3>2 DEF Going
  <2> QED
    BY <1>2, <1>3, <2>2, NamesKept DEF Framed, OwnVm, SerialInv, Going
<1>5. ASSUME q.v \notin mixed' PROVE Knows(vreq[r])'
  BY <1>1, <1>2, <1>3, <1>5 DEF Knows, CreateKnows
<1> QED
  BY <1>1, <1>2, <1>3, <1>4, <1>5, SerialStep DEF Going

\* The reads of update, delete and power, and require_stopped.
LEMMA ReadsSerial ==
    ASSUME VmInv, SerialInv, NEW r \in VmReqs, Framed(r),
           ReadForUpdate(r) \/ RequireStopped(r) \/ ReadForDelete(r) \/ ReadForPower(r)
    PROVE  SerialInv'
<1> DEFINE q == vreq[r]
<1>1. /\ dom' = dom /\ vrec' = vrec /\ boot' = boot /\ mixed' = mixed /\ q.pc \in {"read", "stopped", "tpl"}
  BY DEF ReadForUpdate, RequireStopped, ReadForDelete, ReadForPower, At, vmhist, host, bounds
<1>2. Going(r) /\ (q.v \notin mixed => Knows(q)) /\ IsReq(q) /\ vreq = [s \in VmReqs |-> vreq[s]]
  BY <1>1, UnderWay DEF Going, SerialInv, VmInv, VmShape
<1>3. q.v \notin mixed => Settled(q.v)
  BY <1>1, <1>2 DEF Knows, UpdateKnows, DeleteKnows, PowerKnows, Going, RightStep, CreateSteps
<1>4. NamesApart'
  BY <1>1, SameNames
<1>5. CASE End(r)
  <2>1. ASSUME NEW v, v = q.v, v \notin mixed PROVE Settled(v)'
    <3>1. Settled(v)
      BY <1>3, <2>1
    <3> QED
      BY <1>1, <3>1 DEF Settled, NoVm, NoDomain
  <2> QED
    BY <1>1, <1>4, <1>5, <2>1, EndSerial
<1>6. /\ Exists(q.v) => vrec[q.v] \in VmRecord
      /\ Exists(q.v) /\ q.v \notin mixed => Match(vrec[q.v], dom[q.v])
  BY <1>2, <1>3 DEF Going, Exists, Settled
<1>7. ASSUME vreq'[r].op = q.op, vreq'[r].v = q.v, q.v \notin mixed => Knows(vreq[r])'
      PROVE  SerialInv'
  BY <1>1, <1>2, <1>4, <1>7, SerialStep DEF Going
<1>8. CASE ReadForUpdate(r) /\ ~End(r)
  <2> DEFINE vm == vrec[q.v]
             c == q.arg[2]
             new == Changed(vm, c)
             pc == IF c.disks # {} \/ c.seed THEN "stopped" ELSE Rest(new, vm)
  <2>1. /\ q.op = "update" /\ q.pc = "read" /\ vm \in VmRecord /\ Exists(q.v)
        /\ vreq' = [vreq EXCEPT ![r].vm = new, ![r].was = vm, ![r].pc = pc]
    BY <1>2, <1>6, <1>8 DEF ReadForUpdate, At
  <2>2. /\ pc \in {"stopped", "tpl", "rename", "define"}
        /\ pc = "define" => new.name = vm.name
        /\ pc \in {"rename", "define"} /\ new.tpl => vm.tpl
    BY DEF Rest, Rename
  <2> HIDE DEF new, pc, vm
  <2>4. vreq'[r].op = q.op /\ vreq'[r].v = q.v /\ vreq'[r].vm = new /\ vreq'[r].was = vm /\ vreq'[r].pc = pc
    BY <1>2, <2>1 DEF IsReq
  <2>5. ASSUME q.v \notin mixed PROVE Knows(vreq[r])'
    <3>1. Match(vm, dom[q.v]) /\ Settled(q.v) /\ vrec[q.v] # NoVm
      BY <1>3, <1>6, <2>1, <2>5 DEF Exists, vm
    <3>2. (Settled(vreq[r].v) /\ vrec[vreq[r].v] # NoVm /\ vreq[r].was = vrec[vreq[r].v])'
      BY <1>1, <2>4, <3>1 DEF Settled, Match, NoVm, NoDomain, vm
    <3>3. UpdateKnows(vreq[r])'
      BY <1>1, <2>2, <2>4, <3>1, <3>2 DEF UpdateKnows, Match
    <3> QED
      BY <2>1, <2>4, <3>3 DEF Knows
  <2> QED
    BY <1>7, <2>4, <2>5
<1>9. CASE RequireStopped(r) /\ ~End(r)
  <2> DEFINE first == q.pc = "stopped"
             pc == IF ~first THEN Rename(q.vm, q.was) ELSE IF q.arg[2].disks # {} THEN "zvol" ELSE "seed"
             todo == IF first THEN q.arg[2].disks ELSE {}
  <2>1. /\ q.pc \in {"stopped", "tpl"} /\ q.op = "update"
        /\ dom[q.v].power = "off" /\ vreq' = [vreq EXCEPT ![r].pc = pc, ![r].todo = todo]
    <3>1. q.pc \in {"stopped", "tpl"} /\ q.op = "update"
      BY <1>2, <1>9 DEF RequireStopped, Going, RightStep, CreateSteps
    <3> QED
      BY <1>9, <3>1 DEF RequireStopped
  <2>2. pc \in {"zvol", "seed", "rename", "define"} /\ (pc = "define" => q.vm.name = q.was.name)
    BY DEF Rename
  <2> HIDE DEF pc, todo
  <2>3. vreq'[r].op = q.op /\ vreq'[r].v = q.v /\ vreq'[r].vm = q.vm /\ vreq'[r].was = q.was /\ vreq'[r].pc = pc
    BY <1>2, <2>1 DEF IsReq
  <2>4. ASSUME q.v \notin mixed PROVE Knows(vreq[r])'
    <3>1. Settled(q.v) /\ vrec[q.v] # NoVm /\ q.was = vrec[q.v]
      BY <1>2, <2>1, <2>4 DEF Knows, UpdateKnows
    <3>2. (Settled(vreq[r].v) /\ vrec[vreq[r].v] # NoVm /\ vreq[r].was = vrec[vreq[r].v])'
      BY <1>1, <2>3, <3>1 DEF Settled, Match, NoVm, NoDomain
    <3>3. pc = "define" => q.vm.name = dom[q.v].name /\ dom[q.v].defined
      BY <2>2, <3>1 DEF Settled, Match
    <3>4. UpdateKnows(vreq[r])'
      BY <1>1, <2>1, <2>2, <2>3, <3>2, <3>3 DEF UpdateKnows
    <3> QED
      BY <2>1, <2>3, <3>4 DEF Knows
  <2> QED
    BY <1>7, <2>3, <2>4
<1>10. CASE ReadForDelete(r)
  <2>1. /\ q.op = "delete" /\ vreq'[r].op = q.op /\ vreq'[r].v = q.v
        /\ vreq'[r].pc \in {"rules", "destroy"}
    BY <1>2, <1>10 DEF ReadForDelete, At, IsReq
  <2>2. Knows(vreq[r])'
    BY <2>1 DEF Knows, DeleteKnows
  <2> QED
    BY <1>7, <2>1, <2>2
<1>11. CASE ReadForPower(r) /\ ~End(r)
  <2> DEFINE vm == vrec[q.v]
  <2>1. /\ q.op = "power" /\ Exists(q.v) /\ ~(vm.tpl /\ q.arg \in {<<"start">>, <<"resume">>, <<"reboot">>})
        /\ vreq' = [vreq EXCEPT ![r].pc = "virsh", ![r].vm = vm]
    BY <1>11 DEF ReadForPower, At
  <2>2. /\ vreq'[r].op = q.op /\ vreq'[r].v = q.v /\ vreq'[r].arg = q.arg /\ vreq'[r].vm = vm
        /\ vreq'[r].pc = "virsh"
    <3> HIDE DEF vm
    <3> QED
      BY <1>2, <2>1 DEF IsReq
  <2>3. ASSUME q.v \notin mixed PROVE Knows(vreq[r])'
    BY <1>1, <1>3, <2>1, <2>2, <2>3 DEF Knows, PowerKnows, Settled, NoVm, NoDomain, Exists
  <2> QED
    BY <1>7, <2>2, <2>3
<1> QED
  BY <1>5, <1>8, <1>9, <1>10, <1>11

\* What a command leaves of a domain's name.
LEMMA NamesOfCommands ==
    ASSUME NEW d \in Domain \cup {NoDomain}
    PROVE  /\ PowerOff(d) = NoDomain \/ (d # NoDomain /\ PowerOff(d).name = d.name)
           /\ Undefine(d) = NoDomain \/ (d # NoDomain /\ Undefine(d).name = d.name)
<1>1. CASE d = NoDomain
  BY <1>1 DEF PowerOff, Undefine, NoDomain
<1>2. CASE d \in Domain
  <2>1. d # NoDomain
    BY <1>2, VmAssumption DEF Domain, NoDomain
  <2> QED
    BY <1>2, <2>1 DEF PowerOff, Undefine, Domain
<1> QED
  BY <1>1, <1>2

\* domrename.
LEMMA RenameSerial ==
    ASSUME VmInv, SerialInv, NEW r \in VmReqs, Framed(r), RenameDomain(r)
    PROVE  SerialInv'
<1> DEFINE q == vreq[r]
           d == [dom[q.v] EXCEPT !.name = q.vm.name]
<1>1. q.pc = "rename" /\ vrec' = vrec /\ boot' = boot /\ mixed' = mixed
  BY DEF RenameDomain, bounds, vmhist
<1>2. Going(r) /\ q.op = "update" /\ q.vm \in VmRecord /\ (q.v \notin mixed => UpdateKnows(q))
  BY <1>1, UnderWay DEF Going, SerialInv, Knows, RightStep, CreateSteps
<1>3. CASE dom' = dom /\ End(r)
  <2>1. ASSUME NEW v, v = q.v, v \notin mixed PROVE Settled(v)'
    <3>1. Settled(v)
      BY <1>1, <1>2, <2>1 DEF UpdateKnows
    <3> QED
      BY <1>1, <1>3, <3>1 DEF Settled, NoVm, NoDomain
  <2> QED
    BY <1>1, <1>3, <2>1, SameNames, EndSerial
<1>4. CASE /\ dom[q.v].defined /\ dom[q.v].power = "off" /\ \A w \in VmIds : dom[w].name # q.vm.name
           /\ dom' = [dom EXCEPT ![q.v].name = q.vm.name] /\ To(r, "define")
  <2>1. dom'[q.v] = d /\ dom[q.v] \in Domain
    BY <1>2, <1>4, DomainCommands DEF VmInv, VmShape, Going
  <2>2. d.name = q.vm.name /\ d.defined /\ d.power = "off"
    BY <1>4, <2>1 DEF Domain
  <2> HIDE DEF d
  <2>3. vreq'[r].op = q.op /\ vreq'[r].v = q.v /\ vreq'[r].vm = q.vm /\ vreq'[r].pc = "define"
    BY <1>1, <1>4, MovedOrEnded
  <2>4. NamesApart'
    BY <1>2, <1>4, <2>1, <2>2, NamesKept DEF Framed, OwnVm, SerialInv, Going
  <2>5. Knows(vreq[r])'
    BY <1>2, <2>1, <2>2, <2>3 DEF Knows, UpdateKnows
  <2> QED
    BY <1>1, <1>2, <2>3, <2>4, <2>5, SerialStep DEF Going
<1> QED
  BY <1>3, <1>4 DEF RenameDomain

\* virsh destroy and undefine.
LEMMA DestroySerial ==
    ASSUME VmInv, SerialInv, NEW r \in VmReqs, Framed(r), DestroyDomain(r) \/ UndefineDomain(r)
    PROVE  SerialInv'
<1> DEFINE q == vreq[r]
<1>1. q.pc \in {"destroy", "undefine"} /\ boot' = boot
  BY DEF DestroyDomain, UndefineDomain, vmhist
<1>2. Going(r) /\ q.op = "delete" /\ (q.v \notin mixed => DeleteKnows(q))
  BY <1>1, UnderWay DEF Going, SerialInv, Knows, RightStep, CreateSteps, UpdateSteps
<1>3. mixed \subseteq mixed' /\ (q.v \notin mixed' => mixed' = mixed)
  BY DEF DestroyDomain, UndefineDomain, Fault, bounds
<1>4. vreq'[r].op = q.op /\ vreq'[r].v = q.v
  <2>1. To(r, "undefine") \/ To(r, "erase")
    BY DEF DestroyDomain, UndefineDomain
  <2> QED
    BY <1>1, <2>1, MovedOrEnded
<1>5. dom'[q.v] \in {dom[q.v], PowerOff(dom[q.v]), Undefine(dom[q.v])} /\ dom[q.v] \in Domain \cup {NoDomain}
  BY <1>2 DEF DestroyDomain, UndefineDomain, VmInv, VmShape, Going
<1>6. NamesApart'
  <2>1. dom'[q.v] = NoDomain \/ (dom[q.v] # NoDomain /\ dom'[q.v].name = dom[q.v].name)
    BY <1>5, NamesOfCommands
  <2> QED
    BY <1>2, <2>1, NamesKept DEF Framed, OwnVm, SerialInv, Going
<1>7. ASSUME q.v \notin mixed' PROVE Knows(vreq[r])'
  <2>1. CASE DestroyDomain(r)
    <3>1. dom' = [dom EXCEPT ![q.v] = PowerOff(@)] /\ To(r, "undefine")
      BY <1>7, <2>1 DEF DestroyDomain, Fault
    <3>2. dom'[q.v].power = "off" /\ vreq'[r].pc = "undefine"
      BY <1>1, <1>2, <1>5, <3>1, DomainCommands, MovedOrEnded DEF VmInv, VmShape, Going
    <3> QED
      BY <1>2, <1>4, <3>2 DEF Knows, DeleteKnows
  <2>2. CASE UndefineDomain(r)
    <3>1. dom' = [dom EXCEPT ![q.v] = Undefine(@)] /\ To(r, "erase") /\ q.pc = "undefine"
      BY <1>7, <2>2 DEF UndefineDomain, Fault
    <3>2. dom[q.v].power = "off"
      BY <1>2, <1>3, <1>7, <3>1 DEF DeleteKnows
    <3>3. dom'[q.v] = NoDomain /\ vreq'[r].pc = "erase"
      BY <1>1, <1>2, <1>5, <3>1, <3>2, DomainCommands, MovedOrEnded DEF VmInv, VmShape, Going
    <3> QED
      BY <1>2, <1>4, <3>3 DEF Knows, DeleteKnows, NoDomain
  <2> QED
    BY <2>1, <2>2
<1> QED
  BY <1>1, <1>2, <1>3, <1>4, <1>6, <1>7, SerialStep DEF Going

\* A command that changes only what the domain does leaves it in line with the
\* record, unless it starts a template.
LEMMA PoweredMatches ==
    ASSUME NEW d \in Domain, NEW vm, Match(vm, d), NEW a \in PowerActions,
           vm.tpl => a \notin {<<"start">>, <<"resume">>},
           a = <<"suspend">> => d.power = "running"
    PROVE  Match(vm, Powered(d, a)) /\ Powered(d, a).name = d.name
<1>1. CASE a \in {<<"start">>, <<"resume">>}
  <2>1. Powered(d, a) = [d EXCEPT !.power = "running"]
    BY <1>1 DEF Powered
  <2> QED
    BY <1>1, <2>1 DEF Match, Domain
<1>2. CASE a = <<"suspend">>
  <2>1. Powered(d, a) = [d EXCEPT !.power = "paused"]
    BY <1>2 DEF Powered
  <2> QED
    BY <1>2, <2>1 DEF Match, Domain
<1>3. CASE a \in {<<"shutdown">>, <<"reboot">>, <<"reset">>}
  <2>1. Powered(d, a) = d
    BY <1>3 DEF Powered
  <2> QED
    BY <2>1
<1>4. CASE a = <<"destroy">>
  <2>1. Powered(d, a) = [d EXCEPT !.power = "off"]
    BY <1>4 DEF Powered, PowerOff, Match
  <2> QED
    BY <2>1 DEF Match, Domain
<1> QED
  BY <1>1, <1>2, <1>3, <1>4 DEF PowerActions

\* The command of a power action.
LEMMA PowerSerial ==
    ASSUME VmInv, SerialInv, NEW r \in VmReqs, Framed(r), PowerCommand(r)
    PROVE  SerialInv'
<1> DEFINE q == vreq[r]
           d == Powered(dom[q.v], q.arg)
<1>1. q.pc = "virsh" /\ vrec' = vrec /\ boot' = boot /\ mixed' = mixed
  BY DEF PowerCommand, bounds, vmhist
<1>2. Going(r) /\ q.op = "power" /\ (q.v \notin mixed => PowerKnows(q)) /\ q.arg \in PowerActions
  BY <1>1, UnderWay DEF Going, SerialInv, Knows, RightStep, CreateSteps, UpdateSteps, ReqOk, StepOk
<1>3. CASE dom' = dom /\ End(r)
  <2>1. ASSUME NEW v, v = q.v, v \notin mixed PROVE Settled(v)'
    <3>1. Settled(v)
      BY <1>1, <1>2, <2>1 DEF PowerKnows
    <3> QED
      BY <1>1, <1>3, <3>1 DEF Settled, NoVm, NoDomain
  <2> QED
    BY <1>1, <1>3, <2>1, SameNames, EndSerial
<1>4. CASE CanPower(q.v, q.arg) /\ dom' = [dom EXCEPT ![q.v] = Powered(@, q.arg)] /\ To(r, "put")
  <2>1. dom'[q.v] = d
    BY <1>2, <1>4 DEF VmInv, VmShape, Going
  <2>2. dom[q.v] \in Domain /\ (q.arg = <<"suspend">> => dom[q.v].power = "running")
    <3>1. dom[q.v].defined \/ dom[q.v].power # "off"
      BY <1>2, <1>4 DEF CanPower, CanStart, PowerActions
    <3>2. dom[q.v] \in Domain
      BY <1>2, <3>1 DEF Going, VmInv, VmShape, NoDomain
    <3>3. ASSUME q.arg = <<"suspend">> PROVE dom[q.v].power = "running"
      <4>1. q.arg # <<"start">> /\ q.arg # <<"resume">>
        BY <3>3
      <4> QED
        BY <1>4, <3>3, <4>1 DEF CanPower
    <3> QED
      BY <3>2, <3>3
  <2>3. d = NoDomain \/ (dom[q.v] # NoDomain /\ d.name = dom[q.v].name)
    <3>1. dom[q.v] # NoDomain
      BY <2>2, VmAssumption DEF Domain, NoDomain
    <3>2. CASE q.arg = <<"destroy">>
      BY <2>2, <3>2, NamesOfCommands DEF Powered
    <3>3. CASE q.arg \in {<<"shutdown">>, <<"reboot">>, <<"reset">>}
      BY <3>1, <3>3 DEF Powered
    <3>4. CASE q.arg \in {<<"start">>, <<"resume">>, <<"suspend">>}
      BY <2>2, <3>1, <3>4 DEF Powered, Domain
    <3> QED
      BY <1>2, <3>2, <3>3, <3>4 DEF PowerActions
  <2>4. NamesApart'
    BY <1>2, <2>1, <2>3, NamesKept DEF Framed, OwnVm, SerialInv, Going
  <2>5. vreq'[r].op = q.op /\ vreq'[r].v = q.v /\ vreq'[r].vm = q.vm /\ vreq'[r].pc = "put"
    BY <1>1, <1>4, MovedOrEnded
  <2>6. ASSUME q.v \notin mixed' PROVE Knows(vreq[r])'
    <3>1. Match(q.vm, dom[q.v]) /\ (q.vm.tpl => q.arg \notin {<<"start">>, <<"resume">>})
      BY <1>1, <1>2, <2>6 DEF PowerKnows, Settled
    <3>2. Match(q.vm, d)
      BY <1>2, <2>2, <3>1, PoweredMatches
    <3> HIDE DEF d
    <3> QED
      BY <1>2, <2>1, <2>5, <3>2 DEF Knows, PowerKnows, Match
  <2> QED
    BY <1>1, <1>2, <2>4, <2>5, <2>6, SerialStep DEF Going
<1> QED
  BY <1>3, <1>4 DEF PowerCommand

\* A request begins on a VM that is free, or the VM is mixed from then on.
LEMMA BeginSerial ==
    ASSUME VmInv, SerialInv, NEW r \in VmReqs, NEW v \in VmIds, NEW op, NEW arg, NEW vm,
           Begin(r, op, v, arg, vm), op \in {"create", "update", "delete", "power"},
           op = "create" /\ arg = <<"start">> => ~vm.tpl
    PROVE  SerialInv'
<1> DEFINE pc == IF op = "create" THEN "zvol" ELSE "read"
<1>1. /\ dom' = dom /\ vrec' = vrec /\ boot' = boot
      /\ mixed' = IF Busy(v) \/ v \in boot.queue THEN mixed \cup {v} ELSE mixed
      /\ vreq[r].pc = "idle" /\ vreq[r].op = "none"
  BY DEF Begin, host, VmInv, ReqOk, StepOk, RightStep, CreateSteps, UpdateSteps
<1>2. /\ vreq'[r].op = op /\ vreq'[r].v = v /\ vreq'[r].arg = arg /\ vreq'[r].vm = vm /\ vreq'[r].pc = pc
      /\ \A s \in VmReqs \ {r} : vreq'[s] = vreq[s]
  BY DEF Begin, NoReq, VmInv, VmShape
<1>3. ASSUME v \notin mixed'
      PROVE  v \notin mixed /\ Free(v) /\ v \notin boot.queue /\ \A s \in VmReqs : vreq[s].v # v
  BY <1>1, <1>3 DEF Busy, Free
<1>4. NamesApart'
  BY <1>1, SameNames
<1>5. OneAtATime'
  <2>1. ASSUME NEW s \in VmReqs, s # r, vreq'[s].v = v PROVE v \in mixed'
    BY <1>2, <1>3, <2>1
  <2>2. ASSUME NEW s \in VmReqs, NEW t \in VmReqs, s # t, s # r, t # r,
               vreq'[s].op # "none", vreq'[t].op # "none", vreq'[s].v = vreq'[t].v
        PROVE  vreq'[s].v \in mixed'
    BY <1>1, <1>2, <2>2 DEF SerialInv, OneAtATime
  <2> QED
    BY <1>2, <2>1, <2>2 DEF OneAtATime
<1>6. QueueOk'
  <2>1. ASSUME NEW w \in boot.queue, w \notin mixed' PROVE Free(w)' /\ ~vrec[w].tpl
    <3>1. Free(w) /\ ~vrec[w].tpl /\ w # v
      BY <1>1, <1>3, <2>1 DEF SerialInv, QueueOk
    <3> QED
      BY <1>2, <3>1 DEF Free
  <2> QED
    BY <1>1, <2>1 DEF QueueOk
<1>7. ASSUME NEW w \in VmIds, w \notin mixed', Free(w)' PROVE Settled(w)'
  <2>1. Free(w)
    BY <1>1, <1>2, <1>7 DEF Free
  <2>2. Settled(w)
    BY <1>1, <1>7, <2>1 DEF SerialInv
  <2> QED
    BY <1>1, <2>2 DEF Settled, NoVm, NoDomain
<1>8. ASSUME NEW s \in VmReqs, vreq'[s].op # "none", vreq'[s].v \notin mixed' PROVE Knows(vreq[s])'
  <2>1. CASE s = r
    <3>1. Settled(v)
      BY <1>2, <1>3, <1>8, <2>1 DEF SerialInv
    <3>2. op # "create" => Settled(vreq[r].v)'
      BY <1>1, <1>2, <3>1 DEF Settled, NoVm, NoDomain
    <3> QED
      BY <1>2, <2>1, <3>2 DEF Knows, CreateKnows, UpdateKnows, DeleteKnows, PowerKnows
  <2>2. CASE s # r
    <3>1. Knows(vreq[s])
      BY <1>1, <1>2, <1>8, <2>2 DEF SerialInv
    <3> QED
      BY <1>1, <1>2, <2>2, <3>1, KnowsKept
  <2> QED
    BY <2>1, <2>2
<1> QED
  BY <1>4, <1>5, <1>6, <1>7, <1>8 DEF SerialInv

\* Requests that begin.
LEMMA BeginsSerial ==
    ASSUME VmInv, SerialInv, NEW r \in VmReqs, NEW v \in VmIds,
           \/ \E c \in VmCreates : Create(r, v, c[1], c[2])
           \/ \E c \in VmChanges : Request(r, "update", v, <<"set", c>>)
           \/ \E a \in PowerActions : Request(r, "power", v, a)
           \/ Request(r, "delete", v, <<>>)
    PROVE  SerialInv'
<1>1. ASSUME NEW c \in VmCreates, Create(r, v, c[1], c[2])
      PROVE  SerialInv'
  <2> DEFINE vm == [c[1] EXCEPT !.auto = @ /\ ~c[1].tpl]
  <2>1. c[1] \in VmRecord
    BY VmAssumption
  <2>2. vm.tpl = c[1].tpl
    BY <2>1 DEF VmRecord
  <2>3. Begin(r, "create", v, <<c[2]>>, vm) /\ ~(c[1].tpl /\ c[2] = "start")
    BY <1>1 DEF Create, ValidCreate
  <2> HIDE DEF vm
  <2>4. <<c[2]>> = <<"start">> => ~vm.tpl
    BY <2>2, <2>3
  <2> QED
    BY <2>3, <2>4, BeginSerial
<1>2. ASSUME NEW c \in VmChanges, Request(r, "update", v, <<"set", c>>)
      PROVE  SerialInv'
  BY <1>2, BeginSerial DEF Request
<1>3. ASSUME NEW a \in PowerActions, Request(r, "power", v, a)
      PROVE  SerialInv'
  BY <1>3, BeginSerial DEF Request
<1>4. CASE Request(r, "delete", v, <<>>)
  BY <1>4, BeginSerial DEF Request
<1> QED
  BY <1>1, <1>2, <1>3, <1>4
-----------------------------------------------------------------------------
(* SerialInv: the environment.                                             *)

\* A domain that is off is still the record's, under the same name.
LEMMA OffMatches ==
    ASSUME NEW d \in Domain \cup {NoDomain}, NEW vm
    PROVE  /\ Match(vm, d) => Match(vm, PowerOff(d))
           /\ PowerOff(d).power = "off"
           /\ d.defined => PowerOff(d).defined /\ PowerOff(d).name = d.name
           /\ PowerOff(d) = NoDomain \/ (d # NoDomain /\ PowerOff(d).name = d.name)
           /\ d = NoDomain => PowerOff(d) = NoDomain
<1>1. CASE d.defined
  <2>1. d \in Domain /\ d # NoDomain /\ PowerOff(d) = [d EXCEPT !.power = "off"]
    BY <1>1 DEF NoDomain, PowerOff
  <2>2. /\ PowerOff(d).name = d.name /\ PowerOff(d).disks = d.disks /\ PowerOff(d).seed = d.seed
        /\ PowerOff(d).defined = d.defined /\ PowerOff(d).power = "off"
    BY <2>1 DEF Domain
  <2> QED
    BY <1>1, <2>1, <2>2 DEF Match
<1>2. CASE ~d.defined
  BY <1>2 DEF PowerOff, Match, NoDomain
<1> QED
  BY <1>1, <1>2

\* So a VM that is settled stays so.
LEMMA OffSettles ==
    ASSUME VmInv, NEW v \in VmIds, Settled(v), dom'[v] = PowerOff(dom[v]), vrec'[v] = vrec[v]
    PROVE  Settled(v)'
<1>1. dom[v] \in Domain \cup {NoDomain}
  BY DEF VmInv, VmShape
<1>2. CASE vrec[v] = NoVm
  BY <1>1, <1>2, OffMatches DEF Settled, NoVm, NoDomain
<1>3. CASE vrec[v] # NoVm
  <2>1. Match(vrec[v], PowerOff(dom[v]))
    BY <1>1, <1>3, OffMatches DEF Settled
  <2> QED
    BY <1>3, <2>1 DEF Settled, Match, NoVm
<1> QED
  BY <1>2, <1>3

\* A step that is not a request's, by what it does to one domain.
LEMMA GuestSerial ==
    ASSUME VmInv, SerialInv, NEW v \in VmIds, vreq' = vreq, vrec' = vrec, mixed \subseteq mixed',
           boot'.queue \subseteq boot.queue, \A w \in VmIds \ {v} : dom'[w] = dom[w],
           \/ dom'[v] = NoDomain
           \/ dom[v] # NoDomain /\ dom'[v].name = dom[v].name,
           v \notin mixed' /\ Free(v) => Settled(v)',
           \A s \in VmReqs : vreq[s].op # "none" /\ vreq[s].v = v /\ v \notin mixed' => Knows(vreq[s])'
    PROVE  SerialInv'
<1>1. NamesApart'
  BY NamesKept DEF SerialInv
<1>2. OneAtATime'
  BY DEF SerialInv, OneAtATime
<1>3. ASSUME NEW w PROVE Free(w)' <=> Free(w)
  BY DEF Free
<1>4. QueueOk'
  BY <1>3 DEF SerialInv, QueueOk
<1>5. ASSUME NEW w \in VmIds, w \notin mixed', Free(w)' PROVE Settled(w)'
  <2>1. CASE w = v
    BY <1>3, <1>5, <2>1
  <2>2. CASE w # v
    <3>1. Settled(w)
      BY <1>3, <1>5 DEF SerialInv
    <3> QED
      BY <2>2, <3>1 DEF Settled, Match, NoVm, NoDomain
  <2> QED
    BY <2>1, <2>2
<1>6. ASSUME NEW s \in VmReqs, vreq'[s].op # "none", vreq'[s].v \notin mixed' PROVE Knows(vreq[s])'
  <2>1. CASE vreq[s].v = v
    BY <1>6, <2>1
  <2>2. CASE vreq[s].v # v
    <3>1. Knows(vreq[s]) /\ vreq[s].v \in VmIds
      BY <1>6 DEF SerialInv, VmInv, ReqOk, StepOk
    <3> QED
      BY <2>2, <3>1, KnowsKept
  <2> QED
    BY <2>1, <2>2
<1> QED
  BY <1>1, <1>2, <1>4, <1>5, <1>6 DEF SerialInv

\* A guest that halts contradicts nothing that a request knows.
LEMMA HaltSerial ==
    ASSUME VmInv, SerialInv, NEW v \in VmIds, GuestHalts(v)
    PROVE  SerialInv'
<1> DEFINE e == PowerOff(dom[v])
<1>1. /\ vreq' = vreq /\ vrec' = vrec /\ mixed' = mixed /\ boot' = boot /\ dom[v].power = "running"
      /\ \A w \in VmIds \ {v} : dom'[w] = dom[w]
      /\ dom'[v] = e /\ dom[v] \in Domain \cup {NoDomain}
  BY DEF GuestHalts, bounds, vmhist, VmInv, VmShape
<1>2. e = NoDomain \/ (dom[v] # NoDomain /\ e.name = dom[v].name)
  BY <1>1, OffMatches
<1>3. e.power = "off" /\ (dom[v].defined => e.defined /\ e.name = dom[v].name)
  BY <1>1, OffMatches
<1>4. \A vm : Match(vm, dom[v]) => Match(vm, e)
  BY <1>1, OffMatches
<1>5. Settled(v) => Settled(v)'
  BY <1>1, OffSettles
<1>6. dom[v] # NoDomain
  BY <1>1 DEF NoDomain
<1> HIDE DEF e
<1>7. ASSUME NEW s \in VmReqs, vreq[s].op # "none", vreq[s].v = v, v \notin mixed' PROVE Knows(vreq[s])'
  <2> DEFINE q == vreq[s]
  <2>1. Knows(q) /\ vreq'[s] = q
    BY <1>1, <1>7 DEF SerialInv
  <2>2. Settled(q.v) => Settled(vreq[s].v)'
    BY <1>1, <1>5, <1>7 DEF Settled, NoVm, NoDomain
  <2>3. \A vm : Match(vm, dom[q.v]) => Match(vm, dom'[q.v])
    BY <1>1, <1>4, <1>7
  <2>4. CASE q.op = "create"
    <3>1. CreateKnows(q)
      BY <2>1, <2>4 DEF Knows
    <3>2. DomainGoes(q) => DomainGoes(vreq[s])'
      BY <1>1, <1>3, <1>6, <1>7 DEF DomainGoes
    <3>3. CreateKnows(vreq[s])'
      BY <2>1, <2>3, <3>1, <3>2 DEF CreateKnows, Match
    <3> QED
      BY <2>1, <2>4, <3>3 DEF Knows
  <2>5. CASE q.op = "update"
    <3>1. UpdateKnows(q)
      BY <2>1, <2>5 DEF Knows
    <3>2. q.pc \in {"rules", "put"} => Match(q.vm, dom'[q.v])
      BY <2>3, <3>1 DEF UpdateKnows
    <3>3. q.pc = "define" => q.vm.name = dom'[q.v].name /\ dom'[q.v].defined
      BY <1>1, <1>3, <1>7, <3>1 DEF UpdateKnows
    <3>4. dom'[q.v].power = "off"
      BY <1>1, <1>3, <1>7
    <3>5. /\ q.pc = "read" => Settled(vreq[s].v)'
          /\ q.pc \in {"stopped", "tpl", "rename", "zvol", "mkzvol", "seed", "oldseed"}
               => (Settled(vreq[s].v) /\ vrec[vreq[s].v] # NoVm /\ vreq[s].was = vrec[vreq[s].v])'
      BY <1>1, <2>1, <2>2, <3>1 DEF UpdateKnows, NoVm
    <3>6. UpdateKnows(vreq[s])'
      BY <2>1, <3>2, <3>3, <3>4, <3>5 DEF UpdateKnows, Match
    <3> QED
      BY <2>1, <2>5, <3>6 DEF Knows
  <2>6. CASE q.op = "delete"
    <3>1. DeleteKnows(q)
      BY <2>1, <2>6 DEF Knows
    <3>2. DeleteKnows(vreq[s])'
      BY <1>1, <1>3, <1>6, <1>7, <2>1, <2>2, <3>1 DEF DeleteKnows
    <3> QED
      BY <2>1, <2>6, <3>2 DEF Knows
  <2>7. CASE q.op = "power"
    <3>1. PowerKnows(q)
      BY <2>1, <2>7 DEF Knows
    <3>2. PowerKnows(vreq[s])'
      BY <1>1, <2>1, <2>2, <2>3, <3>1 DEF PowerKnows, Match, NoVm
    <3> QED
      BY <2>1, <2>7, <3>2 DEF Knows
  <2>8. q.op \in {"create", "update", "delete", "power"}
    BY <1>7 DEF VmInv, ReqOk, StepOk, RightStep
  <2> QED
    BY <2>4, <2>5, <2>6, <2>7, <2>8
<1>8. v \notin mixed' /\ Free(v) => Settled(v)'
  BY <1>1, <1>5 DEF SerialInv
<1> QED
  BY <1>1, <1>2, <1>7, <1>8, GuestSerial

\* start_autostart_vms starts a VM that is no template and has no request, or
\* the VM is mixed from then on.
LEMMA AutostartSerial ==
    ASSUME VmInv, SerialInv, NEW v \in VmIds, NEW ok \in BOOLEAN, Autostart(v, ok)
    PROVE  SerialInv'
<1> DEFINE e == [dom[v] EXCEPT !.power = "running"]
<1>1. /\ vreq' = vreq /\ vrec' = vrec /\ mixed \subseteq mixed' /\ v \in boot.queue
      /\ ok => CanStart(v)
      /\ dom' = IF ok THEN [dom EXCEPT ![v] = e] ELSE dom
      /\ boot' = [boot EXCEPT !.queue = @ \ {v}]
      /\ dom \in [VmIds -> Domain \cup {NoDomain}]
      /\ boot \in [pc : {"down", "run"}, queue : SUBSET VmIds]
  BY DEF Autostart, Fault, VmInv, VmShape
<1>2. boot'.queue \subseteq boot.queue
  BY <1>1
<1>3. ASSUME v \notin mixed'
      PROVE  v \notin mixed /\ Free(v) /\ ~vrec[v].tpl /\ Settled(v)
  BY <1>1, <1>3 DEF SerialInv, QueueOk
<1>4. ASSUME NEW s \in VmReqs, vreq[s].op # "none", vreq[s].v = v, v \notin mixed' PROVE Knows(vreq[s])'
  BY <1>3, <1>4 DEF Free
<1>5. CASE ~ok
  <2>1. dom' = dom /\ (v \notin mixed' => Settled(v)')
    BY <1>1, <1>3, <1>5 DEF Settled, NoVm, NoDomain
  <2>2. NamesApart'
    BY <2>1, SameNames
  <2>3. OneAtATime'
    BY <1>1 DEF SerialInv, OneAtATime
  <2>4. \A w : Free(w)' <=> Free(w)
    BY <1>1 DEF Free
  <2>5. QueueOk'
    BY <1>1, <1>2, <2>4 DEF SerialInv, QueueOk
  <2>6. ASSUME NEW w \in VmIds, w \notin mixed', Free(w)' PROVE Settled(w)'
    <3>1. Settled(w)
      BY <1>1, <2>4, <2>6 DEF SerialInv
    <3> QED
      BY <1>1, <2>1, <3>1 DEF Settled, NoVm, NoDomain
  <2>7. ASSUME NEW s \in VmReqs, vreq'[s].op # "none", vreq'[s].v \notin mixed' PROVE Knows(vreq[s])'
    <3>1. Knows(vreq[s])
      BY <1>1, <2>7 DEF SerialInv
    <3> QED
      BY <1>1, <2>1, <3>1, KnowsKept
  <2> QED
    BY <2>2, <2>3, <2>5, <2>6, <2>7 DEF SerialInv
<1>6. CASE ok
  <2>1. dom'[v] = e /\ \A w \in VmIds \ {v} : dom'[w] = dom[w]
    BY <1>1, <1>6
  <2>2. dom[v] \in Domain /\ dom[v] # NoDomain /\ dom[v].defined
    BY <1>1, <1>6 DEF CanStart, NoDomain
  <2>3. /\ e.name = dom[v].name /\ e.disks = dom[v].disks /\ e.seed = dom[v].seed
        /\ e.defined = dom[v].defined
    BY <2>2 DEF Domain
  <2> HIDE DEF e
  <2>4. ASSUME v \notin mixed' PROVE Settled(v)'
    <3>1. vrec[v] # NoVm /\ Match(vrec[v], dom[v]) /\ ~vrec[v].tpl
      BY <1>3, <2>2, <2>4 DEF Settled
    <3> QED
      BY <1>1, <2>1, <2>3, <3>1 DEF Settled, Match, NoVm
  <2> QED
    BY <1>1, <1>2, <1>4, <2>1, <2>2, <2>3, <2>4, GuestSerial
<1> QED
  BY <1>5, <1>6

\* The backend or the host goes down, and comes back: a VM with a request under
\* way is mixed, the others are as they were or off.
LEMMA CrashesSerial ==
    ASSUME VmInv, SerialInv, BackendCrash \/ HostReboot \/ BackendStart
    PROVE  SerialInv'
<1>1. /\ vrec' = vrec /\ mixed \subseteq mixed'
      /\ dom \in [VmIds -> Domain \cup {NoDomain}]
  BY DEF BackendCrash, HostReboot, BackendStart, Down, bounds, VmInv, VmShape
<1>2. \A r \in VmReqs : vreq'[r].op = "none"
  <2>1. CASE BackendStart
    <3>1. vreq' = vreq /\ \A r \in VmReqs : vreq[r] = NoReq
      BY <2>1 DEF BackendStart, VmInv, VmShape
    <3> QED
      BY <3>1 DEF NoReq
  <2>2. CASE BackendCrash \/ HostReboot
    BY <2>2 DEF BackendCrash, HostReboot, Down, NoReq
  <2> QED
    BY <2>1, <2>2
<1>3. ASSUME NEW v \in VmIds, v \notin mixed' PROVE Free(v) /\ Settled(v)
  <2>1. Free(v)
    <3>1. CASE BackendStart
      BY <3>1 DEF BackendStart, VmInv, VmShape, NoReq, Free
    <3>2. CASE BackendCrash \/ HostReboot
      BY <1>3, <3>2 DEF BackendCrash, HostReboot, Down, Busy, Free
    <3> QED
      BY <3>1, <3>2
  <2> QED
    BY <1>1, <1>3, <2>1 DEF SerialInv
<1>4. (\A v \in VmIds : dom'[v] = dom[v]) \/ (\A v \in VmIds : dom'[v] = PowerOff(dom[v]))
  BY DEF BackendCrash, HostReboot, BackendStart, host
<1>5. ASSUME NEW v \in VmIds
      PROVE  dom'[v] = NoDomain \/ (dom[v] # NoDomain /\ dom'[v].name = dom[v].name)
  <2>1. dom[v] \in Domain \cup {NoDomain}
    BY <1>1
  <2> QED
    BY <1>4, <2>1, OffMatches
<1>6. NamesApart'
  BY <1>5 DEF SerialInv, NamesApart, NoDomain
<1>7. ASSUME NEW v \in VmIds, v \notin mixed' PROVE Settled(v)'
  <2>1. Settled(v)
    BY <1>3, <1>7
  <2>2. CASE dom'[v] = dom[v]
    BY <1>1, <2>1, <2>2 DEF Settled, NoVm, NoDomain
  <2>3. CASE dom'[v] = PowerOff(dom[v])
    BY <1>1, <2>1, <2>3, OffSettles
  <2> QED
    BY <1>4, <2>2, <2>3
<1>8. QueueOk'
  <2>1. \A v : Free(v)'
    BY <1>2 DEF Free
  <2>2. \A v \in boot'.queue : ~vrec[v].tpl
    BY DEF BackendCrash, HostReboot, BackendStart, Down
  <2> QED
    BY <1>1, <2>1, <2>2 DEF QueueOk
<1>9. OneAtATime'
  BY <1>2 DEF OneAtATime
<1> QED
  BY <1>2, <1>6, <1>7, <1>8, <1>9 DEF SerialInv

-----------------------------------------------------------------------------
(* SerialInv: the invariant and the theorem.                               *)

\* SerialInv holds of a node that has been set up: its one VM is as recorded.
LEMMA SerialInitOk == VmInit => SerialInv
<1> SUFFICES ASSUME VmInit PROVE SerialInv
  OBVIOUS
<1> DEFINE n == CHOOSE n \in VmNames : TRUE
           first == CHOOSE v \in VmIds : TRUE
<1>1. n \in VmNames
  BY VmAssumption
<1> HIDE DEF n, first
<1>2. PICK a \in BOOLEAN :
        LET vm == [NoVm EXCEPT !.name = n, !.disks = {n}, !.auto = a]
        IN  /\ vrec = [v \in VmIds |-> IF v = first THEN vm ELSE NoVm]
            /\ dom = [v \in VmIds |->
                        IF v = first
                        THEN [name |-> vm.name, disks |-> vm.disks, seed |-> "none",
                              defined |-> TRUE, power |-> "off"]
                        ELSE NoDomain]
  BY DEF VmInit, n, first
<1> DEFINE vm == [NoVm EXCEPT !.name = n, !.disks = {n}, !.auto = a]
           d == [name |-> vm.name, disks |-> vm.disks, seed |-> "none", defined |-> TRUE, power |-> "off"]
<1>3. vm.name = n /\ vm.disks = {n} /\ vm.seed = "none" /\ vm.tpl = FALSE
  BY DEF NoVm
<1>4. vm # NoVm
  BY <1>1, <1>3, VmAssumption DEF NoVm
<1>5. Match(vm, d)
  BY <1>3 DEF Match
<1>6. /\ \A v \in VmIds : v # first => vrec[v] = NoVm /\ dom[v] = NoDomain
      /\ first \in VmIds => vrec[first] = vm /\ dom[first] = d
  BY <1>2
<1> HIDE DEF vm, d
<1>7. \A v \in VmIds : Settled(v)
  BY <1>4, <1>5, <1>6 DEF Settled
<1>8. NamesApart
  BY <1>6 DEF NamesApart
<1>9. boot.queue = {} /\ \A r \in VmReqs : vreq[r].op = "none"
  BY DEF VmInit, NoReq
<1> QED
  BY <1>7, <1>8, <1>9 DEF SerialInv, OneAtATime, QueueOk

\* Every step of a request keeps SerialInv.
LEMMA RequestSerial ==
    ASSUME VmInv, SerialInv, NEW r \in VmReqs, RequestStep(r)
    PROVE  SerialInv'
<1>1. ASSUME NEW v \in VmIds,
             \/ \E c \in VmCreates : Create(r, v, c[1], c[2])
             \/ \E c \in VmChanges : Request(r, "update", v, <<"set", c>>)
             \/ \E a \in PowerActions : Request(r, "power", v, a)
             \/ Request(r, "delete", v, <<>>)
      PROVE  SerialInv'
  BY <1>1, BeginsSerial
<1>2. ASSUME NEW d \in VmNames, LookForZvol(r, d)
      PROVE  SerialInv'
  BY <1>2, LookForZvolKeeps, DisksSerial
<1>3. CASE CreateZvol(r)
  BY <1>3, CreateZvolKeeps, DisksSerial
<1>4. CASE ZvolAppeared(r) \/ RejectTags(r)
  BY <1>4, RefusalsSerial
<1>5. CASE StepFails(r)
  BY <1>5, ErrorsKeep, FaultsSerial
<1>6. CASE WriteSeed(r)
  BY <1>6, WriteSeedKeeps, DisksSerial
<1>7. CASE DefineDomain(r)
  BY <1>7, DefineDomainKeeps, DefineSerial
<1>8. CASE ApplyFirewall(r)
  BY <1>8, ApplyFirewallKeeps, FirewallSerial
<1>9. CASE StartNew(r)
  BY <1>9, StartNewKeeps, StartSerial
<1>10. CASE PutVm(r)
  BY <1>10, PutVmKeeps, EndsSerial
<1>11. CASE RunUndo(r)
  BY <1>11, RunUndoKeeps, RunUndoSerial
<1>12. CASE UndoFails(r)
  BY <1>12, UndoFailsKeeps, FaultsSerial
<1>13. CASE ReturnError(r) \/ ReadMissing(r)
  BY <1>13, EndsKeep, EndsSerial
<1>14. CASE HangUp(r)
  BY <1>14, EndsKeep, FaultsSerial
<1>15. CASE RemoveOldSeed(r)
  BY <1>15, PlainSteps, DisksSerial
<1>16. CASE RenameDomain(r)
  BY <1>16, PlainSteps, RenameSerial
<1>17. CASE DestroyDomain(r) \/ UndefineDomain(r)
  BY <1>17, PlainSteps, DestroySerial
<1>18. CASE EraseRecord(r)
  BY <1>18, PlainSteps, EndsSerial
<1>19. CASE PowerCommand(r)
  BY <1>19, PlainSteps, PowerSerial
<1>20. CASE ReadForUpdate(r) \/ RequireStopped(r) \/ ReadForDelete(r) \/ ReadForPower(r)
  BY <1>20, ReadsKeep, ReadsSerial
<1> QED
  BY <1>1, <1>2, <1>3, <1>4, <1>5, <1>6, <1>7, <1>8, <1>9, <1>10, <1>11, <1>12, <1>13, <1>14, <1>15,
     <1>16, <1>17, <1>18, <1>19, <1>20
  DEF RequestStep

\* Every step keeps SerialInv.
LEMMA SerialNextOk == VmInv /\ SerialInv /\ [VmNext]_vmvars => SerialInv'
<1> SUFFICES ASSUME VmInv, SerialInv, [VmNext]_vmvars PROVE SerialInv'
  OBVIOUS
<1>1. ASSUME NEW r \in VmReqs, RequestStep(r) PROVE SerialInv'
  BY <1>1, RequestSerial
<1>2. ASSUME NEW v \in VmIds, NEW ok \in BOOLEAN, Autostart(v, ok) PROVE SerialInv'
  BY <1>2, AutostartSerial
<1>3. ASSUME NEW v \in VmIds, GuestHalts(v) PROVE SerialInv'
  BY <1>3, HaltSerial
<1>4. CASE BackendCrash \/ HostReboot \/ BackendStart
  BY <1>4, CrashesSerial
<1>5. CASE UNCHANGED vmvars
  <2>1. vreq' = vreq /\ vrec' = vrec /\ mixed' = mixed /\ boot' = boot /\ dom' = dom
    BY <1>5 DEF vmvars
  <2>2. NamesApart' /\ OneAtATime'
    BY <2>1, SameNames DEF SerialInv, OneAtATime
  <2>3. QueueOk'
    BY <2>1 DEF SerialInv, QueueOk, Free
  <2>4. ASSUME NEW w \in VmIds, w \notin mixed', Free(w)' PROVE Settled(w)'
    <3>1. Settled(w)
      BY <2>1, <2>4 DEF SerialInv, Free
    <3> QED
      BY <2>1, <3>1 DEF Settled, NoVm, NoDomain
  <2>5. ASSUME NEW s \in VmReqs, vreq'[s].op # "none", vreq'[s].v \notin mixed' PROVE Knows(vreq[s])'
    <3>1. Knows(vreq[s])
      BY <2>1, <2>5 DEF SerialInv
    <3> QED
      BY <2>1, <3>1, KnowsKept
  <2> QED
    BY <2>2, <2>3, <2>4, <2>5 DEF SerialInv
<1> QED
  BY <1>1, <1>2, <1>3, <1>4, <1>5 DEF VmNext

\* As long as the requests on a VM come one at a time and none of its commands
\* fails, the record and the domain agree between them, and a template does not
\* run (create, update, delete and power of kvm.rs, which write the record last).
\* Requests on other VMs, guests that halt, autostart and crashes change nothing.
THEOREM VmsAgreeWhenSerial == VmSpec => []AgreeWhenSerial
<1>1. VmInit => VmInv /\ SerialInv
  BY VmInitOk, SerialInitOk
<1>2. VmInv /\ SerialInv /\ [VmNext]_vmvars => VmInv' /\ SerialInv'
  BY VmNextOk, SerialNextOk
<1>3. VmInv /\ SerialInv => AgreeWhenSerial
  <2> SUFFICES ASSUME VmInv, SerialInv, NEW v \in VmIds, v \notin mixed, ~Busy(v)
               PROVE  /\ vrec[v] = NoVm <=> dom[v] = NoDomain
                      /\ vrec[v] # NoVm => /\ dom[v].name = vrec[v].name /\ dom[v].disks = vrec[v].disks
                                           /\ dom[v].seed = vrec[v].seed /\ dom[v].defined
                                           /\ vrec[v].tpl => dom[v].power = "off"
    BY DEF AgreeWhenSerial
  <2>1. Settled(v)
    BY DEF SerialInv, Busy, Free
  <2> QED
    BY <2>1 DEF Settled, Match, NoDomain
<1> QED
  BY <1>1, <1>2, <1>3, PTL DEF VmSpec
=============================================================================
