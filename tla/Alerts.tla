-------------------------------- MODULE Alerts --------------------------------
(***************************************************************************)
(* Threshold alerts (services/alerts.rs, api/alerts.rs), the tick that      *)
(* evaluates them (state.rs), and the channels that carry what they fire    *)
(* (services/notification.rs, api/notifications.rs).                        *)
(*                                                                          *)
(* An evaluation lists the rules once and then walks through them; requests *)
(* change and delete rules meanwhile.  The breach state lives in memory, by *)
(* rule and subject, and outlives an update of the rule.  A change of the   *)
(* metric is one of the threshold: from then on the values are compared     *)
(* with something else.  NoSample stands for a guest that has none; such a  *)
(* tick, like one of a disabled rule or of a rule that is pinned to another *)
(* guest, neither adds to the streak nor ends it.  Time advances with the   *)
(* evaluations.                                                             *)
(***************************************************************************)
EXTENDS Integers, FiniteSets, Sequences

CONSTANTS RuleIds, Subjects, Channels,
          Values,                   \* of a metric
          Thresholds, Sustains, Cooldowns,   \* threshold, sustain_ticks, cooldown_secs of a request
          Pins,                     \* the subjects of a rule: all of them, or one guest_id
          MaxEvals, MaxRuleEdits

\* all are numbers without a sign
ASSUME AlertAssumption ==
    /\ Sustains \subseteq Nat /\ Cooldowns \subseteq Nat /\ Values \subseteq Nat /\ Thresholds \subseteq Nat
    /\ Pins \subseteq SUBSET Subjects

VARIABLES rules,      \* records: [RuleIds -> rule or NoRule]
          breach,     \* [RuleIds \X Subjects -> BreachState]
          eval,       \* the evaluation under way
          deleting,   \* rules whose record is gone and whose breach state is still kept
          channels,   \* records: channel -> enabled and subscribed
          spawned,    \* deliveries on their own tasks
          seen,       \* history: the values observed per rule and subject, newest first, each
                      \* with the threshold that the rule had
          firedAt,    \* history: evaluations at which a rule fired for a subject, since
                      \* the state of the rule was last forgotten
          updating,   \* rules whose update has read the record
          created,    \* ids new_id has handed out
          tick, edits

alvars == <<rules, breach, eval, deleting, channels, spawned, seen, firedAt, updating, created, tick, edits>>

Watched == RuleIds \X Subjects
NoSample == -1
NoRule == [enabled |-> FALSE, threshold |-> 0, sustain |-> 0, cooldown |-> 0,
           pin |-> {}, made |-> FALSE]
NoBreach == [ticks |-> 0, last |-> -1]
IdleEval == [pc |-> "idle", left |-> {}, copy |-> [r \in RuleIds |-> NoRule],
             sample |-> [s \in Subjects |-> NoSample]]

\* what create and update may store, after validate_rule
Rule == [enabled : BOOLEAN, threshold : Thresholds, sustain : Sustains, cooldown : Cooldowns,
         pin : Pins, made : {TRUE}]

AlInit ==
    /\ rules = [r \in RuleIds |-> NoRule]
    /\ breach = [p \in Watched |-> NoBreach]
    /\ eval = IdleEval
    /\ deleting = {}
    /\ channels = [c \in Channels |-> TRUE]
    /\ spawned = {}
    /\ seen = [p \in Watched |-> <<>>]
    /\ firedAt = [p \in Watched |-> {}]
    /\ updating = {} /\ created = {} /\ tick = 0 /\ edits = 0

\* create, under a fresh id
CreateRule(r, rule) ==
    /\ r \notin created
    /\ created' = created \cup {r}
    /\ rules' = [rules EXCEPT ![r] = rule]
    /\ UNCHANGED <<breach, eval, deleting, channels, spawned, seen, firedAt, updating, tick, edits>>

\* update reads the record
BeginUpdateRule(r) ==
    /\ rules[r].made /\ r \notin updating
    /\ edits < MaxRuleEdits /\ edits' = edits + 1
    /\ updating' = updating \cup {r}
    /\ UNCHANGED <<rules, breach, eval, deleting, channels, spawned, seen, firedAt, created, tick>>

\* and puts the whole record with its changes, also when it has been deleted meanwhile
PutRule(r, rule) ==
    /\ r \in updating
    /\ updating' = updating \ {r}
    /\ rules' = [rules EXCEPT ![r] = rule]
    /\ UNCHANGED <<breach, eval, deleting, channels, spawned, seen, firedAt, created, tick, edits>>

\* delete removes the record, then the breach state
DeleteRule(r) ==
    /\ rules[r].made /\ r \notin deleting
    /\ rules' = [rules EXCEPT ![r] = NoRule]
    /\ deleting' = deleting \cup {r}
    /\ UNCHANGED <<breach, eval, channels, spawned, seen, firedAt, updating, created, tick, edits>>

ForgetBreach(r) ==
    /\ r \in deleting
    /\ deleting' = deleting \ {r}
    /\ breach' = [p \in Watched |-> IF p[1] = r THEN NoBreach ELSE breach[p]]
    /\ firedAt' = [p \in Watched |-> IF p[1] = r THEN {} ELSE firedAt[p]]
    /\ UNCHANGED <<rules, eval, channels, spawned, seen, updating, created, tick, edits>>

\* a channel is enabled, disabled or changes its events
EditChannel(c) ==
    /\ edits < MaxRuleEdits /\ edits' = edits + 1
    /\ channels' = [channels EXCEPT ![c] = ~@]
    /\ UNCHANGED <<rules, breach, eval, deleting, spawned, seen, firedAt, updating, created, tick>>

-----------------------------------------------------------------------------
\* the samples of this tick, and list: the enabled rules as they are now; matching_subjects
BeginEvaluate(sample) ==
    /\ eval.pc = "idle" /\ tick < MaxEvals
    /\ tick' = tick + 1
    /\ eval' = [pc |-> "walk", sample |-> sample, copy |-> rules,
                left |-> {p \in Watched : rules[p[1]].enabled /\ p[2] \in rules[p[1]].pin}]
    /\ UNCHANGED <<rules, breach, deleting, channels, spawned, seen, firedAt, updating, created, edits>>

\* observe returns None: the pair is skipped
SkipNoSample(p) ==
    /\ eval.pc = "walk" /\ p \in eval.left /\ eval.sample[p[2]] = NoSample
    /\ eval' = [eval EXCEPT !.left = @ \ {p}]
    /\ UNCHANGED <<rules, breach, deleting, channels, spawned, seen, firedAt, updating, created, tick, edits>>

\* mistake: a value below the threshold leaves the streak as it is
Streak_NotReset(b, breached) == IF breached THEN b.ticks + 1 ELSE b.ticks

\* consecutive evaluations at or above the threshold
Streak(b, breached) == IF breached THEN b.ticks + 1 ELSE 0

\* cooldown_elapsed, when the chain has fired before
CooledDown(b, rule) == b.last < 0 \/ tick - b.last >= rule.cooldown

\* sustain_ticks.max(1)
Needed(rule) == IF rule.sustain = 0 THEN 1 ELSE rule.sustain

\* record_and_maybe_fire, up to the release of the breach lock
Record(p) ==
    /\ eval.pc = "walk" /\ p \in eval.left /\ eval.sample[p[2]] # NoSample
    /\ LET rule == eval.copy[p[1]]
           value == eval.sample[p[2]]
           breached == value >= rule.threshold
           ticks == Streak(breach[p], breached)
           fires == breached /\ ticks >= Needed(rule) /\ CooledDown(breach[p], rule)
       IN /\ breach' = [breach EXCEPT ![p].ticks = ticks,
                                      ![p].last = IF fires THEN tick ELSE @]
          /\ seen' = [seen EXCEPT ![p] = <<[value |-> value, threshold |-> rule.threshold]>> \o @]
          /\ firedAt' = [firedAt EXCEPT ![p] = IF fires THEN @ \cup {tick} ELSE @]
          /\ eval' = [eval EXCEPT !.left = @ \ {p}, !.pc = IF fires THEN "notify" ELSE "walk"]
    /\ UNCHANGED <<rules, deleting, channels, spawned, updating, created, tick, edits>>

\* notify: one detached delivery for every channel that is enabled and subscribed
Notify ==
    /\ eval.pc = "notify"
    /\ spawned' = spawned \cup {c \in Channels : channels[c]}
    /\ eval' = [eval EXCEPT !.pc = "walk"]
    /\ UNCHANGED <<rules, breach, deleting, channels, seen, firedAt, updating, created, tick, edits>>

\* the channels cannot be read: logged, nothing is delivered
NotifyFails ==
    /\ eval.pc = "notify"
    /\ eval' = [eval EXCEPT !.pc = "walk"]
    /\ UNCHANGED <<rules, breach, deleting, channels, spawned, seen, firedAt, updating, created, tick, edits>>

\* deliver succeeds, or fails and is logged; the evaluation does not wait for it
Deliver(c) ==
    /\ c \in spawned
    /\ spawned' = spawned \ {c}
    /\ UNCHANGED <<rules, breach, eval, deleting, channels, seen, firedAt, updating, created, tick, edits>>

EndEvaluate ==
    /\ eval.pc = "walk" /\ eval.left = {}
    /\ eval' = IdleEval
    /\ UNCHANGED <<rules, breach, deleting, channels, spawned, seen, firedAt, updating, created, tick, edits>>

AlNext ==
    \/ \E r \in RuleIds : (\E rule \in Rule : CreateRule(r, rule) \/ PutRule(r, rule))
                            \/ BeginUpdateRule(r) \/ DeleteRule(r) \/ ForgetBreach(r)
    \/ \E c \in Channels : EditChannel(c) \/ Deliver(c)
    \/ \E sample \in [Subjects -> Values \cup {NoSample}] : BeginEvaluate(sample)
    \/ \E p \in Watched : SkipNoSample(p) \/ Record(p)
    \/ Notify \/ NotifyFails \/ EndEvaluate

AlSpec == AlInit /\ [][AlNext]_alvars

-----------------------------------------------------------------------------
(* When a rule fires for a subject, as many of the latest values it has     *)
(* observed there as sustain_ticks asks for were at or above the threshold  *)
(* that the rule had when it observed them, the latest at or above the      *)
(* present one, and the alerts of a rule whose state was not forgotten, as  *)
(* delete does, are cooldown_secs apart, also while an update or a delete   *)
(* races with the evaluation (alerts.rs record_and_maybe_fire).  Evaluations*)
(* that observe nothing do not count, and an update keeps the streak.       *)
AlertIsSustained ==
    [][\A p \in Watched : tick \in firedAt'[p] \ firedAt[p] =>
         LET rule == eval.copy[p[1]] IN
         /\ Len(seen'[p]) >= Needed(rule)
         /\ \A i \in 1..Needed(rule) : seen'[p][i].value >= seen'[p][i].threshold
         /\ seen'[p][1].threshold = rule.threshold
         /\ \A k \in firedAt[p] : tick - k >= rule.cooldown
      ]_alvars
=============================================================================
