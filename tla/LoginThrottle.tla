---------------------------- MODULE LoginThrottle ----------------------------
(***************************************************************************)
(* Backoff of POST /auth/login: src/src/services/login_throttle.rs and the *)
(* login handler of src/src/api/auth.rs that applies it.                   *)
(*                                                                         *)
(* Failures are counted per source address and per account name; the       *)
(* stricter bucket decides how long an attempt is delayed before the       *)
(* password is looked at, or that it is rejected with 429.  The decision   *)
(* is taken under the throttle's mutex, the delay and the verification     *)
(* happen outside, and the outcome is recorded under the mutex again.      *)
(*                                                                         *)
(* Time is kept as ages: seconds since a bucket's last failure, counted up *)
(* to one past the quiet window, after which nothing more changes.         *)
(***************************************************************************)
EXTENDS Integers, FiniteSets

CONSTANTS IPs, Accounts,
          Attempts,             \* login requests that may be in progress at once
          MaxShift,             \* doublings until the delay stops growing
          MaxDelay,             \* MAX_DELAY
          MaxSleep,             \* MAX_ENFORCED_SLEEP
          QuietWindow,          \* QUIET_WINDOW
          MaxEntries            \* MAX_ENTRIES

ASSUME ThrottleAssumption ==
    /\ {MaxShift, MaxDelay, MaxSleep, QuietWindow, MaxEntries} \subseteq Nat
    /\ IPs \cap Accounts = {}
    /\ 0 < MaxDelay /\ MaxDelay < QuietWindow

\* Arithmetic that the provers lack: one second, doubled so often, is a second or more.
ASSUME DoublingAssumption == \A n \in 0..MaxShift : 2 ^ n \in Nat /\ 2 ^ n >= 1

VARIABLES bucket,               \* per_ip and per_account, one function
          attempt               \* the requests in progress

tvars == <<bucket, attempt>>

Keys == IPs \cup Accounts
Pairs == IPs \X Accounts

(* Failures beyond MaxShift + 1 no longer change the delay: the count       *)
(* stops there.  A missing bucket has none.                                *)
NoBucket == [failures |-> 0, age |-> QuietWindow + 1]

Smaller(a, b) == IF a <= b THEN a ELSE b
Larger(a, b)  == IF a >= b THEN a ELSE b

-----------------------------------------------------------------------------
(* Bucket arithmetic.                                                      *)

RequiredDelay(failures) ==
    Smaller(2 ^ Smaller(Larger(failures - 1, 0), MaxShift), MaxDelay)

Quiet(b) == b.age > QuietWindow

CurrentDelay(b) == IF Quiet(b) THEN 0 ELSE RequiredDelay(b.failures)

\* Bucket::new for a missing bucket, Bucket::record_failure for another.
RecordFailure(b) ==
    [failures |-> IF Quiet(b) THEN 1 ELSE Smaller(b.failures, MaxShift) + 1, age |-> 0]

Tracked(kind) == {k \in kind : bucket[k] # NoBucket}

\* Evicting a quiet bucket and keeping it are the same to every later step but
\* the size of the map, so they are kept apart by NoBucket alone.
Evicted_LiveToo(kind, key) ==
    IF Cardinality(Tracked(kind)) >= MaxEntries /\ bucket[key] = NoBucket
    THEN kind
    ELSE {}

\* When the map is full and the key is new, quiet buckets are dropped.
Evicted(kind, key) ==
    IF Cardinality(Tracked(kind)) >= MaxEntries /\ bucket[key] = NoBucket
    THEN {k \in kind : Quiet(bucket[k])}
    ELSE {}

\* record_failure on both maps.
AfterFailure(ip, account) ==
    [k \in Keys |->
        CASE k \in {ip, account} -> RecordFailure(bucket[k])
          [] k \in (Evicted(IPs, ip) \cup Evicted(Accounts, account)) \ {ip, account} -> NoBucket
          [] OTHER -> bucket[k]]

\* The stricter of the two buckets decides.
Penalty(b, ip, account) == Larger(CurrentDelay(b[ip]), CurrentDelay(b[account]))

-----------------------------------------------------------------------------
(* Requests.                                                               *)

NoAttempt == [pc |-> "idle"]

TInit == /\ bucket = [k \in Keys |-> NoBucket]
         /\ attempt = [a \in Attempts |-> NoAttempt]

\* The decision: reject and count a failure, or sleep for the penalty.
Reject(a, ip, account) ==
    /\ attempt[a] = NoAttempt
    /\ Penalty(bucket, ip, account) > MaxSleep
    /\ bucket' = AfterFailure(ip, account)
    /\ UNCHANGED attempt

Admit(a, ip, account) ==
    /\ attempt[a] = NoAttempt
    /\ Penalty(bucket, ip, account) <= MaxSleep
    /\ attempt' = [attempt EXCEPT
                     ![a] = [pc |-> "sleep", pair |-> <<ip, account>>,
                             left |-> Penalty(bucket, ip, account)]]
    /\ UNCHANGED bucket

Wake(a) == /\ attempt[a].pc = "sleep"
           /\ attempt[a].left = 0
           /\ attempt' = [attempt EXCEPT ![a].pc = "verify"]
           /\ UNCHANGED bucket

\* AuthService::login has answered.  A missing second factor counts as nothing.
Succeed(a) == /\ attempt[a].pc = "verify"
              /\ attempt' = [attempt EXCEPT ![a] = NoAttempt]
              /\ bucket' = [k \in Keys |-> IF k \in {attempt[a].pair[1], attempt[a].pair[2]}
                                           THEN NoBucket ELSE bucket[k]]

NeedsSecondFactor(a) == /\ attempt[a].pc = "verify"
                        /\ attempt' = [attempt EXCEPT ![a] = NoAttempt]
                        /\ UNCHANGED bucket

\* A wrong password is counted; the answer is 429 once the penalty is past the cap.
Fail(a) ==
    LET ip == attempt[a].pair[1]
        account == attempt[a].pair[2]
    IN  /\ attempt[a].pc = "verify"
        /\ attempt' = [attempt EXCEPT ![a] = NoAttempt]
        /\ bucket' = AfterFailure(ip, account)

\* A second passes.  (Sleepers whose time is up are scheduled first.)
Tick == /\ \A a \in Attempts : attempt[a].pc = "sleep" => attempt[a].left > 0
        /\ bucket' = [k \in Keys |-> [bucket[k] EXCEPT !.age = Smaller(@ + 1, QuietWindow + 1)]]
        /\ attempt' = [a \in Attempts |->
                          IF attempt[a].pc = "sleep" THEN [attempt[a] EXCEPT !.left = @ - 1]
                                                     ELSE attempt[a]]

TNext == \/ \E a \in Attempts : \/ \E p \in Pairs : Reject(a, p[1], p[2]) \/ Admit(a, p[1], p[2])
                                \/ Wake(a)
                                \/ Succeed(a)
                                \/ NeedsSecondFactor(a)
                                \/ Fail(a)
         \/ Tick

TSpec == TInit /\ [][TNext]_tvars

-----------------------------------------------------------------------------
(* Properties.                                                             *)

\* "live attackers keep their penalty": a full map never makes a bucket that
\* is not quiet forget failures, only a success on its own key does; and a
\* source or an account with such a bucket is never admitted without delay.
PenaltyHolds ==
    [][/\ \A k \in Keys :
             \/ Quiet(bucket[k])
             \/ bucket'[k].failures >= bucket[k].failures
             \/ \E a \in Attempts : /\ attempt[a].pc = "verify" /\ attempt'[a] = NoAttempt
                                    /\ k \in {attempt[a].pair[1], attempt[a].pair[2]}
       /\ \A a \in Attempts : attempt[a] = NoAttempt /\ attempt'[a] # NoAttempt =>
             LET p == attempt'[a].pair
             IN  (\E k \in {p[1], p[2]} : bucket[k].failures > 0 /\ ~Quiet(bucket[k]))
                    => attempt'[a].left >= 1]_tvars
=============================================================================
