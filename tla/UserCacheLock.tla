--------------------------- MODULE UserCacheLock ---------------------------
(***************************************************************************)
(* The std::sync::RwLock around AuthService.users in                       *)
(* src/src/services/auth.rs, and who waits for whom on it.                 *)
(*                                                                         *)
(* Requests run on threads of the runtime and block their thread on this   *)
(* lock.  authenticate takes a read guard and drops it; login takes a      *)
(* write guard to set last_login_at, without holding `mutate';             *)
(* delete_user takes a read guard and, while it holds it, calls            *)
(* admin_count(), which takes another one - but only for an administrator, *)
(* because && evaluates admin_count() last.                                *)
(*                                                                         *)
(* The lock is the standard library's: as on Linux, read() waits while a   *)
(* writer holds the lock or is waiting for it.                             *)
(***************************************************************************)
EXTENDS Integers

CONSTANTS Authenticates, Logins, Deletes,  \* the requests, by what they call
          Admins                           \* those deletions whose target is an administrator

Threads == Authenticates \cup Logins \cup Deletes

VARIABLES guards,               \* read guards each thread holds
          writer,               \* the thread that holds the write guard
          waiting,              \* threads blocked in write()
          pc                    \* where each request is

kvars == <<guards, writer, waiting, pc>>

NoThread == "no thread"

LockInit == /\ guards = [t \in Threads |-> 0]
            /\ writer = NoThread
            /\ waiting = {}
            /\ pc = [t \in Threads |-> "start"]

-----------------------------------------------------------------------------
(* std::sync::RwLock.                                                      *)

Readable == writer = NoThread /\ waiting = {}

Read(t) == /\ Readable
           /\ guards' = [guards EXCEPT ![t] = @ + 1]
           /\ UNCHANGED <<writer, waiting>>

ReleaseReads(t, n) == /\ guards' = [guards EXCEPT ![t] = @ - n]
                      /\ UNCHANGED <<writer, waiting>>

\* write() announces itself, and gets the lock when nobody holds it.
Announce(t) == /\ t \notin waiting
               /\ waiting' = waiting \cup {t}
               /\ UNCHANGED <<guards, writer>>

Write(t) == /\ t \in waiting
            /\ writer = NoThread
            /\ \A u \in Threads : guards[u] = 0
            /\ writer' = t
            /\ waiting' = waiting \ {t}
            /\ UNCHANGED guards

ReleaseWrite(t) == /\ writer = t
                   /\ writer' = NoThread
                   /\ UNCHANGED <<guards, waiting>>

To(t, from, next) == pc[t] = from /\ pc' = [pc EXCEPT ![t] = next]

-----------------------------------------------------------------------------
\* authenticate: read the user, drop the guard.
Authenticate(t) == \/ To(t, "start", "held") /\ Read(t)
                   \/ To(t, "held", "done") /\ ReleaseReads(t, 1)

\* A write section: wait for the guard, change the map, drop the guard.
WriteSection(t) == \/ To(t, "writing", "wrote") /\ Write(t)
                   \/ To(t, "wrote", "done") /\ ReleaseWrite(t)

\* login, once the password is verified: set last_login_at.
LoginWrites(t) == (To(t, "start", "writing") /\ Announce(t)) \/ WriteSection(t)

\* The async mutex `mutate' admits one deletion at a time.
MutateFree == \A d \in Deletes : pc[d] \in {"start", "done"}

\* delete_user: look the target up and, if it is an administrator, count the
\* administrators with the first guard still held.
LookUpTarget(t) ==
    \/ MutateFree /\ To(t, "start", "held") /\ Read(t)
    \/ t \notin Admins /\ To(t, "held", "remove") /\ ReleaseReads(t, 1)
    \/ t \in Admins /\ To(t, "held", "counted") /\ Read(t)
    \/ To(t, "counted", "remove") /\ ReleaseReads(t, 2)

\* ... then delete the file and remove the user from the map.
DeleteUser(t) == \/ LookUpTarget(t)
                 \/ To(t, "remove", "writing") /\ Announce(t)
                 \/ WriteSection(t)

-----------------------------------------------------------------------------
LockStep(t) == \/ t \in Authenticates /\ Authenticate(t)
               \/ t \in Logins /\ LoginWrites(t)
               \/ t \in Deletes /\ DeleteUser(t)

AllDone == (\A t \in Threads : pc[t] = "done") /\ UNCHANGED kvars

LockNext == (\E t \in Threads : LockStep(t)) \/ AllDone

LockSpec == LockInit /\ [][LockNext]_kvars

(* A thread that can run runs, and read() and write() are not starved: the *)
(* requests are finitely many here, so strong fairness asks only that a    *)
(* released lock is handed on.                                             *)
LockFairSpec == LockSpec /\ \A t \in Threads : SF_kvars(LockStep(t))

-----------------------------------------------------------------------------
(* Properties.                                                             *)

\* Every request that waits for the user map gets it: "Delete a user account
\* and revoke its sessions" returns, and so do logins and authentications.
EveryRequestReturns == \A t \in Threads : <>(pc[t] = "done")
=============================================================================
