# A TLA+ verification of DaygleVE-backend

DaygleVE-backend is the control plane of a single-host virtualisation appliance:
an axum HTTP server, written in async Rust, that creates and operates KVM
machines, LXC containers, bridges, ZFS storage, backups and certificates on the
host it runs on. It has no database. Every record is a JSON file under the state
directory, read and written whole by `JsonStore`; host changes are made by
commands (`virsh`, `lxc-*`, `ip`, `zfs`), run directly or through a privileged
broker. Requests run concurrently on one runtime, there are few locks, and the
process can be restarted at any time. What can go wrong is therefore mostly

* a *read, await, write* of a record that another request has changed meanwhile;
* a step on the host that succeeds where the record of it fails, or the reverse;
* a crash, or a client that disconnects, between two such steps;
* a cached decision that is stale when it is used.

This directory models the parts of the system where these matter, one module per
component, checks them on small instances with TLC and proves most of the safety
properties with TLAPS, for every value of the constants.

Paths below are relative to the repository (`src/services/auth.rs` and so on);
`PROJECT.json` maps each definition to the lines it translates.

## 1. Inventory

For each component: the state it keeps, its operations, whom it interacts with,
what is hard about it, and what makes it correct.

**Operations journal** (`services/operations.rs`, `state.rs`).
State: `operations/<id>.json`, one record per operation with a status (Queued,
Running, Succeeded, Failed, NeedsReview), progress, result id and findings.
Operations: `run` (synchronous, inside the request), `enqueue` (a detached
worker), `mark_running`, `update_progress`, `set_result_id`, `succeed`, `fail`,
`recover_interrupted` at startup. Every mutating handler of every other component
goes through it. Hard: crashes, dropped requests, failing writes after the work
is done, lock-free read-modify-writes. Correct when no outcome is invented, lost
or overwritten, the host is not touched before the record says so, and nothing
claims to run after a restart.

**Reconciliation and quarantine** (`services/operations.rs`, and the
`reconcile_with_host` / `repair_missing_from_host` functions of `kvm.rs`,
`lxc.rs`, `network.rs`). State: findings in the journal, `consumed-approvals/`,
`quarantine/`. Operations: dry run, repair with an approval, quarantine, adopt or
release. Interacts with ordinary creates and deletes only through the records and
the host. Hard: everything is read at a different time, without a lock. Correct
when an approval is used once, a successful repair did what it says, and an
adopted resource is managed.

**Accounts, second factor, sessions** (`services/auth.rs`, `api/auth.rs`,
`api/users.rs`). State: `users/<id>.json`, the `users` cache, the `tokens` map,
the `mutate` mutex. Operations: create, update, delete, change password, set up /
confirm / disable the second factor, login, logout, authenticate. Hard: two
copies of the truth, a login that holds no lock, requests dropped while they hold
one. Correct when cache and files agree, an administrator remains, names are
unique, changed passwords end sessions, recovery codes work once.

**User cache lock** (`services/auth.rs`). A `std::sync::RwLock` that blocks
runtime threads. Hard: nested read guards with a writer waiting. Correct when
every request returns.

**Login throttle** (`services/login_throttle.rs`, `api/auth.rs`). State: failure
buckets per address and per account. Operations: current penalty, record failure,
record success, evict. Hard: decision and outcome are separate steps; the maps
are bounded; saturating arithmetic. Correct when penalties bind, sleeps are
bounded and a full map does not forget attackers.

**JSON record store** (`services/store.rs`). State: the files. `put` writes a
temporary file and renames it. Hard: two puts of one record share the temporary
name. Correct when a reader sees one of the versions written, whole.

**Backups** (`services/backup.rs`). State: plans, artifacts, the in-memory
`running` set. Operations: plan CRUD, run now, scheduler tick, full and incremental
runs, retention, restore of an artifact or of a base with its increment.
Hard: the running set must be emptied on every path; `delete_plan` checks and then
deletes; any step of a run may fail with snapshots taken and files written.
Correct when a plan runs once at a time, a run leaves no snapshot behind, and the
newest artifact is whole.

**Power and snapshot schedules** (`services/schedule.rs`,
`services/snapshot_schedule.rs`). State: schedule records. `run_due` lists,
executes for a long time and writes whole records back. Correct when nothing due
is stuck behind a failing schedule, and retention, which goes by the names that start
with `auto-`, keeps what was just captured.

**Virtual machines** (`services/kvm.rs`, `api/vms.rs`). State: records, libvirt
domains, zvols, seed ISOs, nftables rules, snapshots. Operations: create, delete,
clone, update, power, autostart, attach, detach, resize, migrate, snapshot, restore
and rollback. Hard: several host steps with a rollback of their own each;
whole-record writes after slow commands; no lock. Correct when the rollback of a
failed create or clone takes back what it made and destroys nothing of others, record
and domain agree between requests that do not overlap, and a snapshot is of one moment.

**Consoles** (`kvm.rs`, `lxc.rs`, `api/vms.rs`, `api/containers.rs`,
`command.rs`). State: the ticket maps and the open bridges. Correct when a ticket
opens one bridge, to the guest it was minted for, while it is valid.

**Containers** (`services/lxc.rs`, `api/containers.rs`). State: records by id, and
LXC configurations, rootfs datasets and snapshots by name. Hard and correct as for
virtual machines, with two records that may claim one name.

**Bridges and VLANs** (`services/network.rs`). State: records and host links.

**Broker and command runner** (`broker/*`, `services/command.rs`). A policy of
allowed commands, and a framed stream between an unprivileged server and a root
helper, with timeouts on both sides. Correct when sessions end, and when a command's
success is never reported for a stream that was cut short.

**API tokens** (`services/api_token.rs`, `auth/mod.rs`) and **access control**
(`services/acl.rs`, `auth/mod.rs`). State: token files without a cache; grants on
disk and in a cache, under a mutex. Hard: a whole-record `last_used` update races
with revocation; disk first, cache second. Correct when what is revoked stays so for the
requests that come later.

**ACME certificates** (`services/acme.rs`, `main.rs`). State: configuration,
certificate and key files, challenge tokens, the live listener. Hard: two plain
file writes, a scheduler that runs before the listener exists, a boot that fails on a
torn pair. Correct when no certificate is vouched for with the key of another.

**Alerts and notifications** (`services/alerts.rs`, `notification.rs`). State:
rules, in-memory breach state, channels. Hard: rules change while an evaluation
walks over its copy. Correct when an alert that fires was sustained.

**Host firewall** (`services/firewall.rs`). State: the record, the batch file, the
chain in the kernel. Hard: apply first, save second; a dropped request releases the
lock while its `nft` goes on. Correct when an update that is reported is on the host
and every start brings back the rules that were accepted and saved.

**Image library** (`services/library.rs`). State: files, partial files, the
download history. Hard: overlapping uploads of one name, bodies that fail or grow
too large, a bounded history. Correct when only whole files are listed and an
accepted download shows how it ended.

**Pools, storage and shares, metrics, audit, devices, TOTP, configuration**: see
section 7.

The hazards of all of them, at the line where they bite, are listed under
"hazards" in `PROJECT.json` with the properties that cover them.

## 2. Modules

| Module | Models | Checked by |
|---|---|---|
| `OperationLifecycle` | what the journal promises a polling client (abstract) | refinement, run `Progress` |
| `OperationJournal` | the journal and its recovery | `Progress` |
| `OperationJournalProofs` | theorems about `OperationJournal` | TLAPS |
| `AuthSessions` | accounts, second factor, sessions | `HostServices`, `Progress`, `AuthDropLosesAdmin` |
| `AuthSessionsProofs` | theorems about `AuthSessions` | TLAPS |
| `UserCacheLock` | the RwLock of the user map | `UserLockAdmin` |
| `Reconciliation` | dry run, approval, repair, quarantine, decision | `Reconcile`, `ReconcileReplay` |
| `ReconciliationProofs` | theorems about `Reconciliation` | TLAPS |
| `VmLifecycle` | create, update, delete, power, autostart of VMs | `Guests`, `CreateRollback` |
| `VmProofs` | theorems about `VmLifecycle` | TLAPS |
| `VmDevices` | disks, USB and PCI devices of a VM | `Guests`, `StartFromRecord` |
| `VmSnapshots` | snapshots and clones of VMs | `Guests`, `Progress`, `SnapshotRace` |
| `Containers` | containers and their snapshots | `Guests` |
| `Consoles` | console tickets and bridges | `Guests` |
| `GuestsProofs` | theorems about `VmDevices`, `VmSnapshots`, `Containers` and `Consoles` | TLAPS |
| `LoginThrottle` | the throttle and the login handler around it | `HostServices` |
| `Backups` | plans, runs, retention, restore | `HostServices` |
| `AccessControl` | grants and authorization | `HostServices` |
| `AcmeCertificates` | issuance, installation, renewal, boot | `HostServices` |
| `Alerts` | rules, evaluation, channels | `HostServices` |
| `HostFirewall` | update and restart of the input filter | `HostServices`, `FirewallRace` |
| `ImageLibrary` | uploads, downloads, deletion | `HostServices`, `Progress` |
| `BrokerPolicy` | what the broker accepts, and what the backend sends | through `BrokerSession` |
| `BrokerSession` | one connection between backend and broker | `Progress` |
| `Schedules` | power and snapshot schedules | `Progress` |
| `ApiTokens` | API tokens and the extractor that uses them | `TokenRevoke` |
| `RetentionProofs` | theorems about `Backups` and `Schedules` | TLAPS |
| `AccessProofs` | theorems about `AccessControl` and `LoginThrottle` | TLAPS |
| `HostServicesProofs` | theorems about `HostFirewall`, `AcmeCertificates`, `ImageLibrary`, `Alerts` and `BrokerSession` | TLAPS |

`MC<Module>` extends a module for TLC and adds symmetry sets and the values of
structured constants; a run whose constants a cfg can express names the module itself.
`MCGuests`, `MCHostServices` and `MCProgress` put components
that share no state into one run: the variable `focus`, chosen initially, names the
component a behaviour is about, and the others stay in their initial state. The journal
and the accounts are among these components: `Progress` has the journal and the requests
on one account, `HostServices` the accounts among each other. The
reachable states are the disjoint union of those of the components, each exactly as
if it were run alone. `MCReconciliation` uses the same device for two instances of
one module.

Conventions. A definition named `<D>_<mistake>` stands before the definition `D`
and is `D` with a mistake of the kind a change to that code could introduce; it
is used nowhere, and substituting it for `D` makes one property fail. That shows
that the property depends on the code it is about. The bounds on crashes, faults
(failing reads, writes and commands), drops (abandoned requests), drift (changes
of the host by hand), requests and generated ids are constants, counted in
variables and named in the guards. Every store access and every host command is a
step of its own unless nothing can observe the state in between. A variable marked
"history" is read by properties only.

### OperationJournal

`store` is the directory of records, `task[o]` the future that carries operation
`o` (its `pc` is the await it stands at, `snap` the record its pending
read-modify-write has read), `effect[o]` what the host workflow has really done,
which the code cannot see. `Begin` and `Enqueue` are `run` and `enqueue` up to
their first record; `AbandonSubmit` is a request dropped while that record is
written. `ReadRecord` followed by a `Write...` is one of the journal's updates;
`JournalFault` is a failing one, with the three different things the code does
then (give up, record a failure, log). The host workflow is opaque: it touches
the host, then ends well or badly, with or without having undone its work.
`DropRequest` is axum dropping a synchronous operation with its request. `Crash`,
`Boot`, `RecoverOne`, `RecoverFault` and `Serve` are a restart; `AppState::new`
recovers before the listener is bound, so nothing is served in between.

The names, messages and timestamps of a record are left out; progress is kept to
the values a job reports, because `update_progress` may not touch a finished
record. `set_reconciliation_mode` and `set_findings` are the same update as
`set_result_id` and are represented by it.

### AuthSessions

`disk` and `cache` are the two copies of the accounts, `lock` the `mutate` mutex,
`areq[r]` a request with the step it is at (`BeginRequest` starts one). A mutation takes the lock, reads the
cache and checks (`CreateUser`, `UpdateUser`, `DeleteUser`, `ChangePassword`,
`TwoFactorSetup`, `TwoFactorConfirm`), writes the file (`PutRecord`, `PutFails`),
updates the cache (`Publish`) and may revoke sessions (`Revoke`). Login is
`Login`, `SecondFactor`, possibly `SpendRecoveryCode` or `RejectRecoveryCode`
(these take the lock), `Mint`, `InsertToken`. `DropAuthRequest` abandons a request
where it waits: for the lock, for the file, or just after the file is written.
Passwords and second-factor secrets are numbered in the order they are made;
TOTP codes and Argon2 hashes are right or wrong. An enrolment has one recovery
code instead of ten, which is what makes its being spent twice visible.
`cred`, `born` and `spent` are history: what a session rests on, and how often a
code let someone in.

### UserCacheLock

Threads hold read guards, hold the write guard, or wait for it. The lock is the
standard library's futex lock, which makes a new reader wait while a writer
waits. `authenticate` is one read section, the end of `login` one write section,
`delete_user` a lookup and a write section; the lookup of an administrator takes
a second read guard inside the first.

### LoginThrottle

One bucket per address and per account: failures, up to the count after which
the delay stops growing, and age, up to one second past the quiet window. `Reject`
and `Admit` are the decision under the mutex; `Wake`, `Succeed`,
`NeedsSecondFactor` and `Fail` what follows outside it; `Tick` is a second.
The doubling, its cap and the saturation are computed as in the code.

### Reconciliation

`rec` and `host` are the names that have a record and that exist on the host;
`recAware` and `hostAware` the bridges that are VLAN aware in each. A run `p`
reads the records and then the host of one kind after the other (`ReadRecords`,
`ReadHost`), persists what is unmanaged (`CheckQuarantine`, `PutQuarantine`) and,
if it is a repair, goes through the findings (`BeginRepair`, `Define`,
`SkipFinding`). A repair request is `CheckApproval`, `SpendApproval`,
`EnqueueRepair`, three steps because the code has an await between them.
A decision is `BeginDecision`, `FindBridge`, `RecordBridge`, `MarkDecision`.
Creates and deletes of ordinary requests and changes of the host by hand
interleave with all of it. How a run is journalled is left to `OperationJournal`:
here a crash turns an active run into `lost`.

### VmLifecycle, VmDevices, VmSnapshots

`VmLifecycle` has, for each VM id, the record (`vrec`), the libvirt domain (`dom`)
and its nftables rules (`chain`), and the zvols and seed ISOs that exist. A create
goes through `LookForZvol`, `CreateZvol`, `WriteSeed`, `DefineDomain`,
`ApplyFirewall`, `StartNew` and `PutVm`; `StepFails` is a failing command at any of
them, and `Rollback` gives the undo steps that the code's error branch at that place
contains (`RunUndo`, `UndoFails`). `RejectTags` is the validation that comes after
the provisioning, and returns without a rollback. An update is a `VmChange`: one that
combines any of its fields, name, disks, firewall, cloud-init, autostart and the template
flag, which it may set or take away; `Rest` and `Rename` give the order of the steps that
are left, by comparing the record it builds with the one it has read (`was`). Update,
delete and power read the record, run their commands and write the record back; `HangUp` drops their handler. `BackendCrash`, `HostReboot`,
`BackendStart` and `Autostart` are restarts. `mixed` remembers the VMs on which
requests overlapped or were cut off: the code promises nothing for these, and the
property about record and domain excepts them. An id that `new_id` returns is fresh:
no record, domain, request or entry of the autostart queue has it. Of a request, `had`
is history: the zvols that are there since before it began (`Outlived` takes out those
that a rollback has destroyed, since a dataset made again under the name is another
one).

`VmDevices` is one VM: the record's disks and devices (`rec`), the persistent
definition (`conf`) and the running domain (`live`). It keeps what the target name
of a disk depends on, its position in the record, and which commands change the
live domain, the definition or both. `drift` is history: "disks" once a disk before the
last was detached live, after which record and definition count targets differently,
"devs" once a device was changed live, which the definition does not learn. Power starts
the definition as it is; the next change to the stopped guest defines it anew and clears
`drift`.

`VmSnapshots` numbers the `zfs snapshot` commands: each captures the disks it names at
one moment. `PoolOf` says where a disk lies; a command on disks of several pools may
capture those of some pools and fail for the rest, as the comment at kvm.rs:1574
describes. Snapshots, clones (a dataset with an `origin`), promotion, RAM files, freeze
and thaw are steps, a freeze or a thaw that fails included (`frozen` is "left" after a
failed thaw or a hang-up); `CleanUpTag` and `DestroyCopy` / `DestroyBase` are the
clean-up after a failed capture and a failed clone. `RecordClone` is the record of the
clone, whose failure returns without a teardown. A copy that was promoted cannot be
destroyed while the source disk is a clone of it.

### Containers

Records are kept by id, LXC's configuration, rootfs and snapshots by name, as in the
code, so that two records may claim one name. The command that creates a container
and the ones after it may fail, and `LxcDestroy` and `DestroyRemnant` are the
teardown of a failed quota or configuration. Each of the two is best effort and may fail
in its turn (`lossy`, `left`); a start or a put that fails has no teardown and leaves a
container without a record. `ctmixed` is what `mixed` is for VMs.

### Consoles

Guests get the lowest free display number when they start, and lose it when they
stop. A ticket holds the number resolved when it was minted; redeeming it
(`Redeem`, `Consumed`) removes it, whether it is still valid or not, and attaches a
bridge to whoever listens there if it is. `issued` and the time a bridge was opened are
history.

### Backups

One plan, created once, as the code gives every plan a new id, and its artifacts.
`EnterRunning` is the check and insertion under the
mutex of the running set, by the scheduler or by hand; `Queue`, `QueueFails` and
`QueueLost` what becomes of the operation; a worker resolves the sources, snapshots
and streams one dataset after the other, puts the artifact, applies retention,
destroys its snapshots and advances the plan, and each of these may fail with the
code's own continuation. An incremental run looks for its base first (`FindBases`). Updates
and deletes of the plan read and write in separate steps. A restore takes a full artifact
or a base and its increment: it verifies the streams, goes on only with a target that
exists and when forced (a missing one makes the `zfs list` before it an error), receives
the full stream and then the delta (`ReceiveDelta`), and any of this may fail
(`RestoreFails`); an increment without its base is refused.

### Schedules

The evaluator copies the records (`ReadSchedules`), fires the due ones one after the
other (`Fire`, `FireFails`), prunes after a capture (`Prune`) and writes each copy
back (`Advance`); requests create, update and delete records meanwhile. Snapshots have
numbers for names: the tick, for one that the evaluator takes, and any number of
`ManualNames` for one that a request names with the prefix `auto-`, which nothing
reserves (`ManualSnapshot`, `DeleteSnapshot`). `Prune` goes by the names alone, as the
code does. The two
services are the same code over stores of their own; `kind` says which one a
behaviour is about. A cron expression is a period of the clock.

### BrokerPolicy, BrokerSession

`BrokerPolicy` translates `validate_request`: for each program the subcommands and
the kinds of arguments accepted, with an argument abstracted to its kind. `Surface`
is the set of commands that the services send. `BrokerSession` is one connection:
the client task with its stdin pump, the broker task with its stdin feeder, the
child, and the frames on the way in both directions. Either process may go away,
the child may hang, the source may never deliver. `TimeOut` is the deadline of an exec
or a stream, and for a console the idle window: it fires only while no output is waiting.
`JoinFeeder` and `AbortFeeder` are how the task ends its feeder, and `Closed` comes after
that. The child closes its stdout only by exiting. A command that the policy refuses ends
at `Validate`.

### AccessControl, ApiTokens

`AccessControl` has the grants twice, on disk and in the cache; the three mutations
take `mutate`, change the disk and then the cache. `Extract` is the extractor, which
copies the caller's grants; `Require` and `Forbidden` are `require_at` on that copy, after
the handler has awaited its body: role permissions and the grants that cover the path. `ApiTokens` has no cache and no lock:
`ListTokens` copies the record, `TouchLastUsed` writes the copy back, at most once an
hour, and `Admit` answers.

### AcmeCertificates

The scheduler and the trigger are issuers; `TryLock` is `try_lock` on the mutex
`issuing`. An issuance places an order, answers or skips authorizations, finalizes,
clears its tokens, writes certificate and key (`WriteCert`, `WriteKey`), reloads the
listener and records the outcome. A write empties the file first (`EmptyCert`, `FillCert`,
`EmptyKey`, `FillKey`), so that a failure or a crash leaves it `Partial`. Every issuance
has a number and the files hold the number that wrote them, so a mixed pair is visible;
`meta.num` is the certificate that `meta.json` describes. `ReloadListener` may fail, which
the code logs. The start is `AcmeBoot`, with which the scheduler runs already, `ChoosePair`,
`ReadBootCert`, `ReadBootKey` and `SetReloadHandle`; `BootFails` is `main` ending with an
error on a pair that does not match.

### Alerts

`BeginEvaluate` copies the rules, `Record` handles one rule and subject under the
breach lock, `Notify` and `Deliver` dispatch outside it. Update and delete are two
steps each; an update changes threshold, sustain, cooldown and the guest a rule is pinned
to, and keeps the streak. A guest without a sample is skipped, and neither counts nor
resets. `seen`, each observed value with the threshold of the time, and `firedAt` are
history.

### HostFirewall

`fwSaved` is the record, `fwHost` the chain, `fwBatch` the batch file. An update takes
`apply_lock` (`fwLock`), writes the batch, has nft load it, saves. `ClientLeaves`
drops the request while nft runs: the lock is free, and `fwLate` is the nft that the
broker still runs, on the batch as it was or as the next update has written it.
`fwRaced` is history: a late nft ran after the nft of the update under way.

### ImageLibrary

A job streams its body, counted in chunks, into a partial file and renames it. Bodies
may fail, be empty or exceed the limit; downloads follow redirects up to a limit,
and their outcome is kept in a bounded list (`PruneFetches`). `LibHangUp` drops an
upload; a rename that had begun may still be carried out.

## 3. Runs

Passing runs, with what TLC explores:

| Run | Distinct states | What it shows |
|---|---|---|
| `Progress` | 133,809 | journal: success is real, the record precedes the host, updates are not lost, nothing is left over after a restart, outcomes are final, the journal implements `OperationLifecycle`, and operations resolve; accounts: a change of password ends older sessions, a recovery code works once, requests finish; broker sessions end and a successful stream was whole; due schedules are dealt with and retention keeps the capture; accepted downloads show their outcome; frozen guests are thawed |
| `HostServices` | 1.2 million | cache and files of the accounts agree at rest, an administrator remains, names stay unique; one run of a plan at a time, the newest artifact is whole, no stray snapshots; no certificate is vouched for with the key of another; a start brings the saved rules back and a reported update is on the host; listed images are whole; penalties bind; revoked grants admit no later request; alerts are sustained |
| `Guests` | 1.4 million | rollbacks of create and clone undo what they cover and destroy only their own disks; record and host agree between requests that do not overlap; the definition follows the record through device changes; a listed snapshot is of one moment; a ticket opens one console, and in time |
| `Reconcile` | 1.3 million | a repair that succeeded did everything it lists; what is marked Adopted has a record |

Violation runs, each a disagreement between a comment of the code and what the
code does (see "findings"):

| Run | Property | What TLC shows |
|---|---|---|
| `AuthDropLosesAdmin` | `AdminRemains` | a demotion dropped between file and cache lets the other administrator be demoted too; after a restart there is none |
| `UserLockAdmin` | `EveryRequestReturns` | deleting an administrator and a login wait for each other for ever |
| `ReconcileReplay` | `SingleUse` | two concurrent requests both spend one approval |
| `SnapshotRace` | `WinnerKeepsSnapshot` | of two concurrent snapshots of one name the loser destroys the winner's |
| `TokenRevoke` | `RevokedTokenIsGone` | the last-used write-back restores a token revoked meanwhile |
| `CreateRollback` | `CreateIsUndone` | a create whose tags are refused leaves its zvols and its seed ISO, a failing start leaves the seed ISO |
| `StartFromRecord` | `StartsFromRecord` | a device attached to a running guest is not there after its next start |
| `FirewallRace` | `UpdateTakesEffect` | the nft of a dropped request runs after that of the next update, which is reported as done |

Why the bounds are enough. In `Progress`, the journal has two operations, two crashes
and one fault: operations share nothing but the process, so two are enough for every
interleaving of one with another, two crashes give a crash during the recovery from a
crash, and each fault ends its task or the boot. One account with two requests, a
password, an enrolment, a crash, a fault and a drop gives every pair of racing
operations on the mutex. A stream has two chunks, so that it can be cut in the middle.
Two schedules fire every two ticks over four, with a retention of one, and a request
takes a snapshot whose name sorts between two captures. The library has two downloads
and a history of one. The VM has two disks in two pools, so that a capture can succeed
in one and fail in the other, and two requests.

In `HostServices`, three accounts and two names give two concurrent removals with a
third account to restore the role, and a name freed and taken again. The throttle has two
addresses against maps of size one, delays 1, 2, 3 with a cap of 1 on sleeping and a quiet
window of 4: below the cap, above it, saturated, forgotten. `Backups` has two datasets,
two workers, two runs and three requests, so that retention, a failing second stream,
an incremental run, its restore and overlapping runs occur. `AccessControl` has two
entries and two requests, one fault and one crash. `AcmeCertificates` has two issuers and
two issuances, a certificate that expires within the run, and a crash. `Alerts` has a rule
with two thresholds over two values, which fires at once or needs two of them, over three
evaluations with a cooldown of two and one edit. `HostFirewall` has two updates, a rule
that nft refuses, a fault and a restart. `ImageLibrary` has an upload and two downloads of
one name, bodies below and above the limit, and a history of one.

In `Guests`, there are three VM ids, one taken at the start, so that two creates that
share a disk name can race; two requests, one failing command and one crash: every
place of a create can fail, with a disk that existed before, one that did not and one
that another create has made meanwhile, and its rollback can race with another request.
`VmDevices` has one VM with up to two disks and three requests, two of them at once
(boundary: the last and the other disk, a device on a running and on a stopped guest).
`VmSnapshots` has a VM with two disks of one pool, the least for a snapshot to be of two
moments, and three requests on one tag, two of them at once. `Containers` has two ids and
two names, so that two records can claim one name, and two faults, so that a teardown can
fail too. `Consoles` has two VMs, so that a display number changes hands, and two tickets
with a lifetime shorter than the run.

In `Reconcile`, a VM and a container go through a dry run, a repair and a second attempt
on the same approval, with two changes by hand and a crash; and two decisions, on one
quarantine record or on two records of one resource, race with a worker, a fault and a
crash.

The accounts of `HostServices` have no dropped requests because `AdminRemains` and
`CacheMatchesDisk` do not survive one; that is the finding of
`AuthDropLosesAdmin`. `Reconcile` has one repair request at a time for the
same reason (`ReconcileReplay`).

`CHECK_DEADLOCK FALSE` is set because the bounds use up every id, crash and
request, so that the instance comes to rest.

## 4. Fairness

`FairSpec` assumes weak fairness of the steps of every existing future and of
boot and recovery: the runtime polls every ready future, host commands are
bounded by `COMMAND_TIMEOUT`, and the service manager restarts the backend.
Nothing is assumed of crashes, faults, drops and new requests. Even so an
operation may stay Running, when its request was dropped or its last journal
write failed; `OperationsResolve` says that there is no other case.

`AFairSpec` assumes weak fairness of a request's own steps. `RequestsFinish` has the
mutex's fairness as its hypothesis, `MutexIsFair`: strong fairness of waiting for it.
`tokio::sync::Mutex` queues its waiters, so one that finds the lock free again and again
gets it.

`LockFairSpec` assumes strong fairness of each of finitely many threads, which
favours the code; the deadlock it exhibits is not one that fairness can prevent.

`MCProgress` assumes these for the journal and the accounts, and weak fairness, for the
component in focus, of: each task of the broker and of its client, which reads on while
frames come, and the broker's timer, but not of the child, the source of the pump or the
backend's patience; the evaluator and the clock; the steps of a download, which
`FETCH_TIMEOUT` bounds; the steps of a snapshot request, whose commands have a timeout.
The timer of a console is enabled only while nothing is waiting to be read, so a console
that goes on for ever is possible; `SessionEnds` says that it then has output again and
again. Faults, hang-ups, edits and new requests get none. The
fairness condition of a component names it in `focus`, so that it says nothing about
behaviours of the others.

The other specifications state safety only.

## 5. Proofs

`OperationJournalProofs` proves, for every set `Ops` and all bounds:

| Theorem | States |
|---|---|
| `Invariance` | the inductive invariant `IInv` always holds |
| `TypeCorrect` | `TypeOK` |
| `SuccessIsAlwaysReal` | `SuccessIsReal` |
| `AlwaysRecordedBeforeHost` | `RecordedBeforeHost` |
| `NoLostUpdate` | `SnapshotsAreFresh` |
| `RecoveryIsComplete` | `NothingLeftOver` |
| `OutcomesAreFinal` | `TerminalIsFinal` |
| `JournalImplementsLifecycle` | `ImplementsLifecycle` |

The only assumption is `JournalAssumption`: the two bounds are natural numbers.

None of the safety properties is inductive by itself. That a record may be marked
Succeeded depends on `ok` having been set by a workflow that ran to its end; that
a write does not overwrite an outcome depends on the record still being Running;
that recovery misses nothing depends on no future existing before the server
serves. `TaskMatchesRecord` ties the place a future has reached to what its record
says, and `RecoveryCoversActive` ties what recovery has left to do to the records
that are active. With these two the conjunction `IInv` is inductive.

The argument is local: an operation's own steps change only its own record, task
and effect (`OnlyOp`), and a step that keeps the facts about that one operation
(`OpInv`) keeps the invariant (`LocalStep`). The lemmas `SubmitStep`, `ReadStep`,
`WriteStep`, `WorkStep` then treat one action each in terms of one operation;
`RestartStep` and `RecoverStep` treat the steps of the process as a whole. Lemmas
on the record functions (`MarkRunningType`, `KeepStatus`, `OutcomeType`) keep
their definitions out of the invariance proof. `OutcomesAreFinal` follows from
`OnlyActiveIsWritten`: under `IInv`, no step writes a record that is terminal.
The refinement theorem shows that the journal starts where `OperationLifecycle`
does and that every step is a step of it or leaves statuses and effects alone.

`AuthSessionsProofs` proves, for every set of users, names, requests and tokens
and all bounds:

| Theorem | States |
|---|---|
| `AuthInvariance` | the inductive invariant `AInv` always holds |
| `AuthTypeCorrect` | `ATypeOK` |
| `CacheAgreesUntilDropped` | `CacheMatchesDisk`, until a request is dropped |
| `AnAdminRemains` | `AdminRemains`, until a request is dropped |
| `NamesStayUnique` | `UniqueNames`, until a request is dropped |
| `CodesAreSpentOnce` | `RecoveryCodeOnce`, dropped requests included |
| `ResetAlwaysRevokes` | `ResetRevokes`, dropped requests included |

"Until a request is dropped" is `drops = 0`: `AuthDropLosesAdmin` shows that
nothing stronger is true. Failing writes, crashes and any number of concurrent
requests are covered. The assumption, `AuthAssumption`, is that the bounds are
natural numbers, that there are a user id and a name, and that the values standing
for "no user", "no token" and "nobody" are not among the users, tokens and requests.

`AInv` adds to the types that the mutex is held by exactly the request that is
between its checks and its last write (`LockDiscipline`); that no stored, logged-in
or requested user is unknown and no password is newer than the last one made
(`NothingUnknown`); that a record about to be written leaves no session out of date
unless it is going to revoke (`RevocationFollows`), so that an outdated session
always has its revoker (`SessionsAreCurrent`); and `Coherent`: the cache is good,
what the holder of the mutex will make of it is good, and the files are one of the
two. The checks of `update_user`, `delete_user` and `create_user` are used in
`ChangeIsGood`, `RemoveIsGood` and `AddIsGood`, and only there. The steps are
grouped by what they do with the mutex: `TakeLock`, the steps of its holder
(`PutRecordStep`, `PublishStep`, `RevokeStep`, `ReleaseStep`), and `FreeStep`.

Recovery codes need an invariant of their own, `CodeInv`, because a dropped request
leaves cache and files apart: an account may exist in three copies, in the cache, in
the files and in a request that is about to write it. Every copy that still holds a
code, or may yet be given one, is of an enrolment that is not spent (`CopiesSound`),
copies of one enrolment are of one user (`EnrolmentsOwned`), and a request on its way
to let someone in holds the only right to spend (`SpendsOnce`).

`ReconciliationProofs` proves, for any resources, runs, requests, decisions and bounds:

| Theorem | States |
|---|---|
| `AdoptedStaysManaged` | `AdoptedIsManaged` |
| `RepairsAreComplete` | `SuccessMeansRepaired` |

`ReconcileAssumption` says that the three kinds of resources are disjoint. A decision
under way names a quarantine record that is not free, so nobody writes over it
(`DecisionStands`); the one about to be marked Adopted stands for a bridge whose record
is written, and ordinary requests erase records of VMs and containers only
(`ErasesNoBridge`). For repairs, every finding of a run is still to do, in hand or done
(`Covered`).

`VmProofs` proves, for any VMs, names, disks, requests, faults and crashes:

| Theorem | States |
|---|---|
| `OwnZvolsDestroyed` | `OnlyOwnZvolsDestroyed` |
| `FailedVmsAreUndone` | `FailedCreateLeavesNothing` |
| `VmsAgreeWhenSerial` | `AgreeWhenSerial` |

`VmAssumption` types the constants: what is asked of create is a record whose seed ISO,
if any, is named after it; what is asked of update is one of the changes the code knows.
The first two rest on `VmInv`. A create has its VM to itself, since nobody knows the id
before the record is written; so at each of its steps it is known what libvirt has under
that id (`DomainOk`), and what the commands still to be run by a rollback will leave of
it (`DomainGoes`). Zvols that requests have made exist, are those of one request each and
were not there when it began (`ZvolsOk`, `Apart`); a rollback has each of them still to
destroy, exactly once (`Mine`, `Once`, `All`), except after a failed zvol creation or
refused tags, where the code has no rollback. `FailedVmsAreUndone` says of those two only
that no domain and no record is left; what they leave otherwise is the finding of
`CreateRollback`. The third rests on `SerialInv` besides:
on a VM that is not `mixed` at most one request is under way, and for each step of each
operation `Knows` says how the domain stands to the record read or being built. It also
needs that no two domains share a name, which libvirt guarantees command by command.
Both invariants were checked by TLC on the instance of `Guests` before they were proved.
There is one lemma per action; `ReqStep` and `SerialStep` reduce an action to what it
does to its own request and VM. The first proof failed on a create that took the id of a
VM still in the autostart queue and on a zvol destroyed and made again: both are now
excluded or accounted for in the model (see `VmLifecycle` above).

`GuestsProofs` proves, for any guests, tickets, containers, names, disks, devices, requests
and bounds:

| Theorem | States |
|---|---|
| `TicketsOpenOnce` | `TicketOpensOnce` |
| `FailedCreatesAreTornDown` | `FailedCtLeavesNothing` |
| `ContainersHaveRecords` | `CtAgreeWhenSerial` |
| `SnapshotsAreOneMoment` | `ListedIsOneMoment`, for VMs that share no disk |
| `FailedClonesAreUndone` | `FailedCloneLeavesNothing`, for VMs that share no disk |
| `DefinitionsFollowRecords` | `DefinitionFollows` |

For consoles and containers the assumptions keep the values for "none" out of guests,
names and limits and say that there is an id, a name and a limit. A ticket that was not
issued has opened nothing (`FreshIsUnused`); one that is held has opened nothing either and
expires `TICKET_TTL` after it was issued (`HeldIsUnused`); one that has opened a bridge did
so in time, for its guest, and is gone (`UsedIsGone`). A failed container create is
`TornDown`: as far as `lxc-destroy` and the `zfs destroy` after it have not failed
themselves. For containers the invariant says besides at every step of the one request under way how far records,
containers and datasets are out of step: only under its own name, and only between
`lxc-create` and the record, or between `lxc-destroy` and the record.

For snapshots, `SnapInv` says more than the property: all the snapshots that a VM has
under one name in one pool are of one moment even when the set is incomplete (`OneMoment`):
a deletion may have stopped half way, and the next snapshot of that name then fails in that
pool as a whole. Of
clones it says which of a disk and its copy is a clone of the other, before and after a
promote (`OriginOk`), that a VM is cloned by one request at a time, as the model has one
copy of each disk (`ClonesApart`), and which copies and bases a clone or its teardown is
done with (`CloneOk`): a copy is then gone, or the source disk has become a clone of it
(`Undone`). That no two VMs share a disk (`DisksApart`) is a hypothesis of the two
theorems and not an assumption of the module, because the code does not see to it:
`attach_disk` takes a dataset that exists. Without it the claim is false. Give one VM the
disks a and b, a second one a and a third one b: a snapshot t of the second and a snapshot
t of the third are taken at two moments, and the first VM then lists t as its own.
The assumptions are that "none" names no VM and no dataset, that "base" is not a tag, that
every VM has a disk, and that copies have names of their own.

For disks and devices, `DevInv` says that every disk that the record, the definition or a
request past its look-up names exists (`DisksThere`, `Provisioned`), whatever overlaps or
fails; and that while requests come one at a time and none fails half way there is one
request at most (`OneDevReq`), record and definition agree, as far as nothing was changed
live that the definition does not learn of (`InSync`), when it is not between its two
writes (`Steady`), and at every step of it what virsh changed already is what the record it is
about to write says (`Follows`). The assumptions are a dataset, room for one disk, sizes
from 1, and that no USB device is a PCI device. The first attempt at this proof found that
the cases by which the model chose what a virsh command does could overlap; the command is
now read off first (`VirshCmd`), which changes no behaviour.

Both invariants were checked by TLC before they were proved, `SnapInv` with two VMs and
`DevInv` with two requests at once.

`RetentionProofs` proves, for any disks, workers, schedules, retention and bounds:

| Theorem | States |
|---|---|
| `RunsNeverOverlap` | `OneRunAtATime` |
| `SnapshotsAreCleaned` | `NoStraySnapshots` |
| `NewestStays` | `NewestArtifactIsWhole` |
| `CapturesSurvive` | `CaptureSurvivesPrune` |

The running set is the lock of a plan (`OneRun`), so the run under way has the highest
id ever given (`IsLatest`). Of that run the invariant says which streams are on disk
(`StreamsSoFar`) and which snapshots are still to be destroyed (`SnapshotsAreOwned`).
Retention takes only artifacts that a newer one has replaced (`ErasesOlder`): it keeps
one at least, because every plan that is stored or handed to a worker says so
(`PlansKeep`, `RunsKeep`). A scheduled snapshot is named by the tick that took it and
the clock does not go back, so of the snapshots that no request has named none sorts after
the capture (`ShotsArePast`), and a retention that keeps any keeps it unless requests have
named as many as are kept with later names (`CaptureIsFor` says which schedule's retention
follows it). The assumptions are that the bounds and the retention counts are natural numbers.

`AccessProofs` proves, for any accounts, entries, requests, addresses and bounds:

| Theorem | States |
|---|---|
| `RevokedStaysRevoked` | `RevokeIsFinal` |
| `PenaltiesHold` | `PenaltyHolds` |

An entry reported gone is in neither the files nor the cache and its id is not handed
out again (`RevokedIsGone`). The mutex keeps a grant on its way into the cache and a
revoke apart; the order of the two halves of a revoke, files first, keeps a restart from
bringing it back (`InForce`). A request that copied its grants after the report has none of
them in its copy (`CopyIsInForce`); one that copied them before may still be let through.
For the throttle: a count stops where a further failure
leaves it, an evicted bucket is quiet, and one that is not quiet asks for a second or
more. `ThrottleAssumption` says that the constants are natural numbers with the maximal
delay below the quiet window, as in the code. `DoublingAssumption` says that powers of
two up to the maximal shift are natural numbers not below 1: the provers have no theory
of exponentiation; it is true for every value, and TLC evaluates it on the instance.

`HostServicesProofs` proves, for any rules, requests, tasks, names and bounds:

| Theorem | States |
|---|---|
| `FwInvariance` | the inductive invariant `FwInv` of the firewall always holds |
| `FilterAlwaysAccepted` | `FilterIsTheAcceptedOne` |
| `PairsAreFromOneIssuance` | `PairFromOneIssuance` |
| `ListedIsWhole` | `ListedFilesAreWhole` |
| `AlertsAreSustained` | `AlertIsSustained` |
| `StreamsAreWhole` | `StreamOkIsWhole` |

The assumptions are that the values for "nobody" are not requests or issuers and that
limits, sustain and cooldown counts are natural numbers.

Firewall: the property is about the two steps that promise something, a start and the
save of an update. `OneUpdate` says that an update under way holds the lock,
`UpdateOwnsBatch` that the batch file is then its own, `LoadedIsSaved` that what is about
to be saved was accepted and is on the host unless a late nft came in between (`fwRaced`),
and `SavedIsGood` that a restart loads what nft has accepted before. That the exception is
real is the finding of `FirewallRace`.
Certificates: the one task past `try_lock` is the only writer of the files
(`OneIssuance`). `Vouches` is what is kept: the certificate that `meta.json` describes is
on disk with its key or is not on disk. A pair that a crash or a failing write has mixed
is not vouched for, since the record is written last; `TaskOk` says at each step of an
installation which file is already of its number.
Images: nothing is locked, and what makes a listed file whole is in each
job alone (`WrittenSoFar`). Alerts: a streak counts values that were seen, each
at or above the threshold of its time (`StreakIsSeen`), a rule still to be walked over is
in the copy (`LeftHasRule`), and the breach state remembers the latest alert (`LastIsLatest`), both
by rule id, so an old copy of the rules does no harm. Broker: the terminal frame is the
last on the wire (`OnlyLastEnds`) and reports success only for a child that exited with
0 and whose pipe was read to the end (`OkIsEarned`); what the child wrote is in the
sink, on the wire or in the pipe (`AllAccounted`).

Only model-checked: the liveness properties (`OperationsResolve`, `RequestsFinish`,
`SessionEnds`, `DueIsNotStuck`, `DownloadOutcomeIsListed`, `GuestThaws`), which need
fairness and are beyond the prover. Every safety invariant of a passing run is a theorem.

## 6. Plan

Next, in this order:

1. Composition of `Schedules` with `VmSnapshots`, and of `Backups` with the journal,
   whose opaque workflow it is.
2. A store module: put as create, write and rename with a shared temporary name,
   refining the atomic register that the other modules assume.

## 7. Not modelled

* TOTP and hashing arithmetic; parsing of sysfs and command output (GPU, PCI, USB);
  configuration, error formatting, name validation and routing: no state that other
  parts decide on, or arithmetic without interleaving.
* Metrics sampling. Its stream tickets are the code of the console tickets again.
* The audit log, which is append-only and whose failures are ignored by design.
* Resource pools and shares: records that are read and written whole and that nothing
  else decides on; storage calls are single zfs commands.
* VLAN records; delivery of notifications over SMTP and HTTP.
* Timestamps, messages, descriptions, tags as text, and the inventory counts of a
  reconciliation.
* The store's temporary file, see the plan.

Things the models contain, and reach, that no passing property speaks about. Some
contradict a comment; the notes in "hazards" name the line.

* Records restored by a concurrent write-back of a schedule or a VM.
* A snapshot that a request has named with the prefix `auto-` is pruned like a scheduled
  one, or sorts after the capture and has that deleted, although snapshot_schedule.rs:6-8
  and 27 say that manual snapshots are never touched.
* A thaw that fails is logged; kvm.rs:1565 says that it must be retried.
* A clone whose record cannot be written (kvm.rs:510) is not torn down, and copies that were
  promoted before another disk failed stay, although kvm.rs:442-443 speak of any failure.
* A container whose start or put fails (lxc.rs:293, 296) is left without a record.
* After a live detach of a disk that is not the last, the definition counts targets as
  before and the record anew: a second live detach addresses another disk.
* `resize_disk` compares with the record: a dataset that was attached and is larger than it
  says can be shrunk, although kvm.rs:1006 says that shrinking is rejected.
* After a crash or a failing write between certificate and key, `main` does not start
  (`BootFails`); a renewal whose reload fails is reported as a success.
* A request that copied its grants before a revoke passes after it.
* An update of an alert rule keeps the streak that was counted against the old threshold.
* A dropped firewall update leaves the host ahead of the record until the next start.
* The throttle's maps grow past `MAX_ENTRIES` while every bucket is live.
* A late console ticket shows whichever guest has the display number by then.
* A migration of a disk or rootfs never gets past the existence check of its target, and a
  restore into a missing dataset fails in the same way, since `run_optional` returns an
  error when `zfs list` does not find it.
* A backup run that cannot resolve its sources, or read its plan (backup.rs:534), is tried
  again at every tick; backup.rs:539-540 say that a failing plan must not be.
* A plan whose request is dropped, or whose worker cannot mark its operation as running,
  stays in the running set until a restart.
* `BrokerPolicy` accepts neither `virsh suspend`, `virsh domstats` nor `zfs set volsize`,
  which the services send; through the broker these commands fail.
