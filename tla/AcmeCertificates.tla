--------------------------- MODULE AcmeCertificates ---------------------------
(***************************************************************************)
(* The node's own certificate (services/acme.rs, api/security.rs, main.rs): *)
(* configuration, issuance by HTTP-01, installation of the pair of files,   *)
(* the renewal scheduler, and the listener that serves the pair.            *)
(*                                                                          *)
(* Issuance is started by the scheduler and by POST /security/acme/issue;   *)
(* the mutex `issuing` is only tried, and a second issuance returns at      *)
(* once.  cert.pem, key.pem and meta.json are written one after the other,  *)
(* each with a plain write that empties the file first: a failure or a      *)
(* crash in between leaves a part of it.  Every issuance has a number;      *)
(* cert.pem and key.pem hold the number of the issuance that wrote them,    *)
(* meta.json that of the one whose dates it records.                        *)
(*                                                                          *)
(* The scheduler starts before main has loaded the pair and handed over the *)
(* reload handle, so a start takes steps of its own.                        *)
(***************************************************************************)
EXTENDS Integers, FiniteSets

CONSTANTS Domains,        \* domains of the configuration
          Issuers,        \* tasks that may run an issuance: the scheduler and triggers
          MaxIssued,      \* issuances of the authority
          LifeTime,       \* ticks a certificate is valid, minus renewal_days
          MaxAcmeTime, MaxAcmeCrashes, MaxConfigs

VARIABLES acmeOn,       \* config.json says enabled
          certFile, keyFile,   \* issuance that wrote the file, NoPem, or Partial
          meta,         \* meta.json: the issuance it describes, when renewal is due, last_error
          challenges,   \* tokens the well-known route answers
          issuing,      \* holder of the mutex, or NoIssuer
          issuer,       \* tasks under way
          listener,     \* what TLS serves: issuance, or NoPem for another source
          reload,       \* main has handed over the reload handle
          stage,        \* how far main has come
          bootCert,     \* cert.pem as main has read it
          issuedCount, acmeNow, acmeCrashes, configs

acmevars == <<acmeOn, certFile, keyFile, meta, challenges, issuing, issuer, listener,
              reload, stage, bootCert, issuedCount, acmeNow, acmeCrashes, configs>>

NoIssuer == "nobody"
NoPem   == 0
Partial  == -1

\* the free mutex is held by no task
ASSUME AcmeAssumption == NoIssuer \notin Issuers

\* CertMeta::default, also what an unreadable meta.json is taken for: due at once
NoMeta == [num |-> NoPem, due |-> 0, error |-> FALSE]

IdleIssuer == [pc |-> "idle", left |-> {}, tokens |-> {}, num |-> 0, ok |-> FALSE, meta |-> NoMeta]

AcmeInit ==
    /\ acmeOn = FALSE
    /\ certFile = NoPem /\ keyFile = NoPem
    /\ meta = NoMeta
    /\ challenges = {}
    /\ issuing = NoIssuer
    /\ issuer = [i \in Issuers |-> IdleIssuer]
    /\ listener = NoPem /\ reload = FALSE
    /\ stage = "down" /\ bootCert = NoPem
    /\ issuedCount = 0 /\ acmeNow = 1 /\ acmeCrashes = 0 /\ configs = 0

pems == <<certFile, keyFile, meta>>
serving == <<listener, reload, stage, bootCert>>
counters == <<issuedCount, acmeNow, acmeCrashes, configs>>
AcmeAt(i, pc) == stage # "down" /\ issuer[i].pc = pc
AcmeTo(i, pc) == issuer' = [issuer EXCEPT ![i].pc = pc]

\* cert_installed
Installed == certFile # NoPem /\ keyFile # NoPem

\* update_config, validate_config: enabling needs directory, contact, domains and terms
UpdateConfig(on) ==
    /\ stage = "up" /\ configs < MaxConfigs /\ configs' = configs + 1
    /\ acmeOn' = on
    /\ UNCHANGED <<pems, challenges, issuing, issuer, serving, issuedCount, acmeNow, acmeCrashes>>

\* should_renew: the renewal window has been reached, or nothing was ever issued
RenewalDue == meta.due = 0 \/ acmeNow >= meta.due

\* start_scheduler: one pass of the loop that finds work
SchedulerTick(i) ==
    /\ AcmeAt(i, "idle") /\ i = "scheduler"
    /\ acmeOn /\ (~Installed \/ RenewalDue)
    /\ AcmeTo(i, "lock")
    /\ UNCHANGED <<acmeOn, pems, challenges, issuing, serving, counters>>

\* trigger_issue: the configuration is checked, the task is spawned
TriggerIssue(i) ==
    /\ AcmeAt(i, "idle") /\ i # "scheduler" /\ stage = "up" /\ acmeOn
    /\ AcmeTo(i, "lock")
    /\ UNCHANGED <<acmeOn, pems, challenges, issuing, serving, counters>>

\* mistake: the second issuance does not look at the mutex
TryLock_Ignored(i) ==
    /\ AcmeAt(i, "lock")
    /\ issuing' = i
    /\ AcmeTo(i, "account")
    /\ UNCHANGED <<acmeOn, pems, challenges, serving, counters>>

\* run_issuance: try_lock
TryLock(i) ==
    /\ AcmeAt(i, "lock")
    /\ IF issuing = NoIssuer
       THEN issuing' = i /\ AcmeTo(i, "account")
       ELSE AcmeTo(i, "idle") /\ UNCHANGED issuing
    /\ UNCHANGED <<acmeOn, pems, challenges, serving, counters>>

\* load_or_create_account, new_order, authorizations
PlaceOrder(i) ==
    /\ AcmeAt(i, "account")
    /\ issuer' = [issuer EXCEPT ![i].pc = "authz", ![i].left = Domains]
    /\ UNCHANGED <<acmeOn, pems, challenges, issuing, serving, counters>>

\* the authority, or a file operation, fails before any challenge is answered
OrderFails(i) ==
    /\ AcmeAt(i, "account")
    /\ AcmeTo(i, "record")
    /\ UNCHANGED <<acmeOn, pems, challenges, issuing, serving, counters>>

\* an authorization that is valid already needs nothing
AuthorizationValid(i, d) ==
    /\ AcmeAt(i, "authz") /\ d \in issuer[i].left
    /\ issuer' = [issuer EXCEPT ![i].left = @ \ {d}]
    /\ UNCHANGED <<acmeOn, pems, challenges, issuing, serving, counters>>

\* a pending one: its HTTP-01 answer is put in the map
AnswerChallenge(i, d) ==
    /\ AcmeAt(i, "authz") /\ d \in issuer[i].left
    /\ challenges' = challenges \cup {<<i, d>>}
    /\ issuer' = [issuer EXCEPT ![i].left = @ \ {d}, ![i].tokens = @ \cup {<<i, d>>}]
    /\ UNCHANGED <<acmeOn, pems, issuing, serving, counters>>

\* one in an unexpected state, or without an HTTP-01 challenge: return from the loop
AuthorizationUnexpected(i) ==
    /\ AcmeAt(i, "authz") /\ issuer[i].left # {}
    /\ AcmeTo(i, "record")
    /\ UNCHANGED <<acmeOn, pems, challenges, issuing, serving, counters>>

\* set_challenge_ready, poll_order_ready, finalize with a fresh key, poll_certificate; the
\* authority fetches the answers from the route, once it is served
Finalize(i) ==
    /\ AcmeAt(i, "authz") /\ issuer[i].left = {} /\ issuedCount < MaxIssued
    /\ issuer[i].tokens # {} => stage = "up"
    /\ issuedCount' = issuedCount + 1
    /\ issuer' = [issuer EXCEPT ![i].pc = "clear", ![i].num = issuedCount + 1]
    /\ UNCHANGED <<acmeOn, pems, challenges, issuing, serving, acmeNow, acmeCrashes, configs>>

\* any of these fails, or ORDER_POLL_ATTEMPTS run out
FinalizeFails(i) ==
    /\ AcmeAt(i, "authz") /\ issuer[i].left = {}
    /\ AcmeTo(i, "clear")
    /\ UNCHANGED <<acmeOn, pems, challenges, issuing, serving, counters>>

\* the served tokens are cleared, then an error returns
ClearTokens(i) ==
    /\ AcmeAt(i, "clear")
    /\ challenges' = challenges \ issuer[i].tokens
    /\ AcmeTo(i, IF issuer[i].num = 0 THEN "record" ELSE "cert")
    /\ UNCHANGED <<acmeOn, pems, issuing, serving, counters>>

\* install_cert: parse_cert_validity, then the chain and the key; each write empties its file
EmptyCert(i) ==
    /\ AcmeAt(i, "cert")
    /\ certFile' = Partial
    /\ AcmeTo(i, "fillcert")
    /\ UNCHANGED <<acmeOn, keyFile, meta, challenges, issuing, serving, counters>>

FillCert(i) ==
    /\ AcmeAt(i, "fillcert")
    /\ certFile' = issuer[i].num
    /\ AcmeTo(i, "key")
    /\ UNCHANGED <<acmeOn, keyFile, meta, challenges, issuing, serving, counters>>

EmptyKey(i) ==
    /\ AcmeAt(i, "key")
    /\ keyFile' = Partial
    /\ AcmeTo(i, "fillkey")
    /\ UNCHANGED <<acmeOn, certFile, meta, challenges, issuing, serving, counters>>

FillKey(i) ==
    /\ AcmeAt(i, "fillkey")
    /\ keyFile' = issuer[i].num
    /\ AcmeTo(i, "reload")
    /\ UNCHANGED <<acmeOn, certFile, meta, challenges, issuing, serving, counters>>

\* the chain does not parse, or a write fails before or after it has emptied its file
InstallFails(i) ==
    /\ stage # "down" /\ issuer[i].pc \in {"cert", "fillcert", "key", "fillkey"}
    /\ AcmeTo(i, "record")
    /\ UNCHANGED <<acmeOn, pems, challenges, issuing, serving, counters>>

\* rustls takes a pair that is whole and whose key is the certificate's
Loadable(c, k) == c = k /\ c > NoPem

\* reload_from_pem_file, when main has handed over the handle; an error is only logged, and
\* the listener keeps what it serves
ReloadListener(i) ==
    /\ AcmeAt(i, "reload")
    /\ \/ reload /\ Loadable(certFile, keyFile) /\ listener' = certFile
       \/ listener' = listener
    /\ issuer' = [issuer EXCEPT ![i].pc = "record", ![i].ok = TRUE]
    /\ UNCHANGED <<acmeOn, pems, challenges, issuing, reload, stage, bootCert, counters>>

\* run_issuance reads meta.json and changes it by the outcome; the write empties the file
RecordOutcome(i) ==
    /\ AcmeAt(i, "record")
    /\ issuer' = [issuer EXCEPT ![i].pc = "fillmeta",
                     ![i].meta = IF issuer[i].ok
                                 THEN [num |-> issuer[i].num, due |-> acmeNow + LifeTime, error |-> FALSE]
                                 ELSE [meta EXCEPT !.error = TRUE]]
    /\ meta' = NoMeta
    /\ UNCHANGED <<acmeOn, certFile, keyFile, challenges, issuing, serving, counters>>

Release(i) ==
    /\ issuing' = IF issuing = i THEN NoIssuer ELSE issuing
    /\ issuer' = [issuer EXCEPT ![i] = IdleIssuer]

\* the rest of the write; the guard is dropped
WriteMeta(i) ==
    /\ AcmeAt(i, "fillmeta")
    /\ meta' = issuer[i].meta
    /\ Release(i)
    /\ UNCHANGED <<acmeOn, certFile, keyFile, challenges, serving, counters>>

\* the directory cannot be resolved, or meta.json cannot be written
RecordFails(i) ==
    /\ stage # "down" /\ issuer[i].pc \in {"account", "record", "fillmeta"}
    /\ Release(i)
    /\ UNCHANGED <<acmeOn, pems, challenges, serving, counters>>

-----------------------------------------------------------------------------
\* The process ends: its memory is gone, the files stay as they are.
ProcessEnds ==
    /\ stage' = "down" /\ bootCert' = NoPem
    /\ challenges' = {} /\ issuing' = NoIssuer
    /\ issuer' = [i \in Issuers |-> IdleIssuer]
    /\ listener' = NoPem /\ reload' = FALSE
    /\ UNCHANGED <<acmeOn, pems, issuedCount, acmeNow, configs>>

AcmeCrash ==
    /\ stage # "down" /\ acmeCrashes < MaxAcmeCrashes
    /\ acmeCrashes' = acmeCrashes + 1
    /\ ProcessEnds

Boot(from, to) ==
    /\ stage = from /\ stage' = to
    /\ UNCHANGED <<acmeOn, pems, challenges, issuing, issuer, counters>>

\* AppState::new: the scheduler runs from here on
AcmeBoot == Boot("down", "new") /\ UNCHANGED <<listener, reload, bootCert>>

\* installed_tls_paths; without them main serves another pair, or plain HTTP
ChoosePair ==
    /\ Boot("new", IF acmeOn /\ Installed THEN "cert" ELSE "up")
    /\ UNCHANGED <<listener, reload, bootCert>>

\* from_pem_file reads cert.pem, then key.pem
ReadBootCert == Boot("cert", "key") /\ bootCert' = certFile /\ UNCHANGED <<listener, reload>>

ReadBootKey ==
    /\ Loadable(bootCert, keyFile)
    /\ Boot("key", "loaded")
    /\ listener' = bootCert /\ UNCHANGED <<reload, bootCert>>

\* a pair that does not load ends main, and with it the process
BootFails ==
    /\ stage = "key" /\ ~Loadable(bootCert, keyFile)
    /\ ProcessEnds /\ UNCHANGED acmeCrashes

\* set_reload_handle, then the listener is bound
SetReloadHandle == Boot("loaded", "up") /\ reload' = TRUE /\ UNCHANGED <<listener, bootCert>>

BootStep == AcmeBoot \/ ChoosePair \/ ReadBootCert \/ ReadBootKey \/ BootFails \/ SetReloadHandle

AcmeTick ==
    /\ acmeNow < MaxAcmeTime
    /\ acmeNow' = acmeNow + 1
    /\ UNCHANGED <<acmeOn, pems, challenges, issuing, issuer, serving, issuedCount, acmeCrashes, configs>>

IssuerStep(i) ==
    \/ TryLock(i) \/ PlaceOrder(i) \/ OrderFails(i)
    \/ \E d \in Domains : AuthorizationValid(i, d) \/ AnswerChallenge(i, d)
    \/ AuthorizationUnexpected(i) \/ Finalize(i) \/ FinalizeFails(i) \/ ClearTokens(i)
    \/ EmptyCert(i) \/ FillCert(i) \/ EmptyKey(i) \/ FillKey(i) \/ InstallFails(i)
    \/ ReloadListener(i) \/ RecordOutcome(i) \/ WriteMeta(i) \/ RecordFails(i)

AcmeNext ==
    \/ \E on \in BOOLEAN : UpdateConfig(on)
    \/ \E i \in Issuers : SchedulerTick(i) \/ TriggerIssue(i) \/ IssuerStep(i)
    \/ AcmeCrash
    \/ BootStep
    \/ AcmeTick

AcmeSpec == AcmeInit /\ [][AcmeNext]_acmevars

-----------------------------------------------------------------------------
(* The certificate that meta.json describes, whose dates the status shows   *)
(* and the scheduler trusts, is on disk with its own key, or cert.pem is no *)
(* longer that certificate: a scheduled renewal and a trigger never mix     *)
(* their files ("Serializes issuance so a manual trigger and the scheduler  *)
(* never overlap", acme.rs issuing), and an installation that fails or is   *)
(* killed between or inside its writes is never vouched for.                *)
PairFromOneIssuance ==
    meta.num # NoPem /\ certFile = meta.num => keyFile = certFile
=============================================================================
