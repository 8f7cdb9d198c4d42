# TLA+ verification of the pico-hsm-api-connector gateway

The gateway serves clients over mTLS. Each connection carries JSON requests,
one per line, for one of six HSM operations. A request is authorized against a
table, written to a hash-chained audit log, executed through PKCS#11, written to
the log again, and answered. This project models the gateway's logic in TLA+,
checks it with TLC on small instances, and proves its safety properties with
TLAPS for all sizes, the refinement of the request contract included.

## Inventory

| Part | State | Operations | Hard because |
|---|---|---|---|
| Audit log (`src/src/audit.rs`) | the file; `last_hash_b64`; two mutexes | `open`, `append`, `verify_chain` | `append` locks twice, not once; writes fail half way; nothing is synced; restarts depend on the chain |
| Authorization table (`config.rs`) | `grants`, `peer_keys` | `load`, `from_str`, `add_permission`, `is_authorized`, `is_peer_key_authorized` | trimming on one side of a comparison only; later entries replace earlier ones; must be all or nothing |
| HSM client (`hsm.rs`) | PKCS#11 context, `slot`, PIN; sessions, login and session objects in the token | `connect` and six functions, each with its own session | the login belongs to the application, not to the session; no lock; the token can go at any time |
| Request processing (`server.rs`) | per connection: CN, the request in hand | `handle_connection`, `process_line`, `execute`, `seal_response`, `check_integrity` | many tasks share log and HSM; each step can fail alone; a crash between any two |
| Wire protocol (`protocol.rs`) | none | `Request`, `Response`, accessors | - |
| Certificate policy (`server.rs:66-94, 398-408`) | none | checked once per connection | truncated day counts, time passing between handshake, check and use |
| Ciphertext integrity (`server.rs:293-330`) | none | seal after encryption, check before decryption | what the seal does not bind |
| Start and accept loop (`main.rs`) | the process, its threads | environment, table, log, HSM, TLS, bind, accept | any error ends the process; worker threads are shared and some HSM calls occupy them |
| Example client (`examples/client_rust`) | signature and ciphertext it got | six requests with assertions | runs beside others |

Connections are tokio tasks. They share one `AuditLog`, one `HsmClient` and one
read-only table through `Arc`s. HSM calls run on blocking threads or, for the
seal and its check, on the task's own thread. No lock orders requests.

What makes each part correct:

- *Audit log*: the chain the gateway wrote is a chain it accepts; entries once
  written stay; the gateway comes up again after every stop.
- *Table*: decisions are those of the file, no more and no less; the integrity
  key is nobody's; no derivation without an allowlist.
- *HSM client*: concurrent calls do not disturb each other except by a clean
  failure, and leave no session, login or derived key behind.
- *Integrity*: exactly what the gateway encrypted, for the same label and with
  the same IV, passes the check before a decryption.
- *Process*: limits hold at their edges; a restart enforces expiry and the
  clients file; busy threads delay requests but do not lock up, and neither
  does a client that stops in its handshake.
- *Request processing*: no HSM operation without authorization and a logged
  intent; the log tells what was answered; every request comes to an answer.

`PROJECT.json` lists the hazards behind these, each at its line.

## Modules

| Module | Models | Checked by |
|---|---|---|
| `AuditLog` | `audit.rs` | `MCAuditLog`, proofs in `AuditLogProofs` |
| `AuthzTable` | the table and its two questions (`config.rs:170-188`) | used by the two below |
| `Authz` | loading `clients.yaml` (`config.rs:69-168`) | `MCAuthz`, proofs in `AuthzProofs` |
| `HsmClient` | `hsm.rs` and the PKCS#11 rules it meets | `MCHsmClient`, proofs in `HsmClientProofs` |
| `Gateway` | `server.rs`, with one instance each of `AuditLog` and `HsmClient`, and `AuthzTable` | `MCGateway`, proofs in `GatewayProofs` |
| `Pipeline` | the contract of a request, abstractly; `Gateway` implements it | `MCGateway`, refinement proved in `GatewayProofs` |
| `Sealing` | requests and responses (`protocol.rs`), sealing and checking (`server.rs:176-347`) at the level of bytes, with `AuthzTable` | `MCSealing`, proofs in `SealingProofs` |
| `Client` | `examples/client_rust`, beside the clients of `Sealing` | `MCSealing`, proofs in `ClientProofs` |
| `Service` | `main.rs`, the certificate policy, tokio's threads, time | `MCService`, proofs in `ServiceProofs` |

**AuditLog.** `append` is three steps, because it takes and releases three
locks in turn: `Begin` copies the last hash (line 98), `WriteOk` writes the line
(112-118), `Publish` stores the new hash (119). Steps of different callers
interleave freely. `WriteFails` and `WriteTorn` are the error returns of
`write_all`, before the first byte and after some. The file is a sequence of
lines and the flag `newline`: bytes written behind an unterminated line run into
it, and the joint line is `Junk`. `Crash`, `CrashMidWrite` and `PowerLoss` end
the process; power loss removes any suffix, since `flush` on a file does
nothing and nothing syncs. `Open` is a start of the gateway: `verify_chain`
accepts, or it refuses, or the file cannot be opened or read (a fault); in the
last two cases the process ends and is started again. The hash is ideal: the hash
of an entry is the history below it. `overlapped` and `torn` are history
variables, read by properties only.

**Authz.** The loader is sequential, so the nondeterminism is the file: each
step reads a client or a permission entry of any content. A string is a text
and whether white space surrounds it; `trim` removes the white space. `entries`
and `heads` record the permission and client entries of the file so far, for the
properties to compare with.

**HsmClient.** A call opens a session, logs in, runs the PKCS#11 calls of its
`Program` one by one and drops the session. The token side: a login while
logged in is refused, closing the last session logs out, a session object goes
with its session, removal closes all sessions. There may be a token in each
slot: `Connect` takes any slot that has one, and tokens come and go in all of
them; what is in the slot that was taken is used, whichever token it is, as in
the code. `DeviceFails` lets any call fail at any point. `alone` in a call is history: no other session was open beside it.

**Gateway.** A task is at one of: `closed`, `ready`, `log` (inside `append`),
`run` (inside `execute`), `executed`, `answer`. `ReceiveDenied` and
`ReceiveCleared` are steps 1 to 3 of `process_line` up to the audit access they
lead to, `AfterAppend` is what the code does with the result of each of its
`append` calls, `Plan` the HSM calls of `execute` in order, `AfterHsm` what each
result leads to. A request is a record of what the conditions tell apart: it
parses, its operation, label and peer key, and whether its base64, its
mechanisms, its IV and its seal are good. Requests of an ended connection are
not cut off: as in the code, a task notices when it writes the answer. `Answer`
is the client taking the bytes; it may never happen. Lines of
white space, which are skipped without an answer, are left out.

**Pipeline.** Four variables: how far a request is, its answer, the outcomes the
log shows for it, and whether the log is reliable (no line was ever cut). A
request is refused, or its intent appears, it uses the HSM, its outcome appears
and it is answered. `Gateway` maps `conn` to the phase and reads the view off the
file, so that each of its steps (the three of an append, every PKCS#11 call) is
a step of `Pipeline` or none. The contract is what the code keeps, not all that
`audit.rs:3-6` asks for: "if an entry cannot be written ... the caller must
reject the request and perform NO HSM operation". That holds for the intent.
The results of the appends of a refusal and of a closing entry are dropped
(`let _`, `server.rs:128, 140, 147, 164-170`), and the answer goes out without
them: a request can be answered `ok` and stand in the log as a lone intent,
which `audit.rs:11-12` reads as an unknown outcome. `Settle` allows this, and
says so; a check of the result there could not undo what the HSM did, which is
why it is no finding. `LogAgreesWithAnswer` is about answers whose closing entry
was written.

**Sealing.** Labels, IVs and texts are sequences of bytes, and
`integrity_payload` concatenates them with their lengths as the code does, so a
request that cuts the same bytes differently is a possible request. A client
combines whatever labels, IVs, ciphertexts and signatures it likes; signatures
are those the gateway gave out, to anybody, for anything. ECDSA and AES are
ideal. `issued` is what the gateway has given out; `gen` counts replacements of
the integrity key. IVs are fresh: that two random 16-byte IVs are equal is
neglected. A label names a secret key and, per peer, a derived key (`AesKey`),
as `find_key_by_label` and `derive_aes_key` have it. The HSM calls are atomic
here. `HsmFails` stands for their failures in `HsmClient` but one: `LoginRefused`,
a login refused while the task of another client is in a call, which is no fault
and not bounded. `IntentFails` is the intent that cannot be written. The cause of
an answer that is not `ok` is kept in it (`why`) for the properties; clients see
the status only.

**Client.** The example's `main`: `Ask` is the request of a step, `Asserted` its
assertion, `panicked` an assertion that failed, with the response it failed on,
`failed` an error return.

**Service.** A task is `accepted`, past `tls`, `ready` for a line, in the
blocking `pool`, waiting to `resume`, or in an HSM call on a `worker`. Every
step of a task but the calls themselves needs a free worker; `Accept` does not,
since `main` runs on its own thread. A `Handshake` takes its client: the task may
stay `accepted` for ever, or the client gives up. Time is a counter of ticks, a day is `Day`
ticks. The operator edits the clients file at any time. `since` is history.

## Runs

Passing:

- `audit_log` (2 callers, 2 bodies, 3 lines, 2 faults; 45 thousand states). Two
  callers are enough for an overlap, three lines for a fork with a line behind
  it, two faults for a torn write followed by a crash. Only an overlap or a cut
  line can spoil the chain; links never dangle; terminated lines stay; an
  unspoilt log reopens.
- `authz` (3 permission entries of up to 2 clients over 108 possible entries; 62
  thousand states). Three entries make a list that is replaced and then
  replaced again or kept. Each rejected list fails one check only, so no check
  hides another.
- `hsm_client` (2 threads, 6 functions, a good label and one that names no or
  two objects, 2 slots with or without a token; 256 thousand states). A third
  thread only adds more refused logins; the proofs cover any number.
  `NothingIsLeft` is where an error path that forgets its session would show:
  the session keeps the login, and every later call would be refused.
- `gateway` (2 connections, one request each, granted or refused depending on
  the client, 1 fault; 136 thousand states). `ImplementsPipeline` is the
  refinement; `AnswersGetReady` says that every line read comes to an answer,
  also when the other client never reads its own.
- `gateway_inputs` (1 connection, 13 kinds of line, among them a granted one of
  each operation, 3 kinds of certificate, 2 slots, 1 fault; 97 thousand states).

- `sealing` (the example client and one other with two requests of any kind, two
  labels, one a prefix of the other, 2 IVs, 3 ciphertexts of two lengths, one
  peer, one failure or replaced key; 2.6 million states). A seal does not cover
  the peer, so a second one, which `sealing_replay` has, adds no case here. Two
  requests are what it takes to get something and use it; the labels and lengths
  are such that bytes can move across every boundary. Only what was sealed is decrypted, and
  what was sealed is accepted. An assertion of the example fails only if
  something failed, or on the answer of a login that was refused because of the
  other client (`DemoPasses`): beside other clients the example can panic with a
  healthy HSM. Its two probes hold even then (`ProbesHold`).
- `service` (2 connections on 1 worker, days of 2 ticks, certificates of one, one
  and a half and two days, with and without CN, default, small and negative
  limits; 94 thousand states). One worker is the hardest case for liveness; half
  days are where truncation shows, and a negative limit is where it turns round;
  3 ticks let a certificate expire before,
  while and after it is checked, and before a restart.

Violations, each a disagreement of the code with what the repository says:

- `audit_race`: two overlapping appends fork the chain. The gateway does not
  start again, and takes its own log for a tampered one (`audit.rs:73`).
- `gateway_torn`: after a write that tore, the next intent is unreadable
  although its append succeeded, and the HSM is used (`README.md:182`).
- `gateway_final`: a decryption is `denied` because another request was logged
  in at that moment, and would succeed on retry
  (`docs/18-client-integration.md:151`).
- `sealing_replay`: a ciphertext of `derive_and_encrypt` for one peer is
  decrypted with the key of another (`server.rs:320`, `README.md:111`).
- `service_days`: a certificate valid half a day beyond the maximum is served
  (`README.md:147`, `docs/18-client-integration.md:33`).

Each property of a passing run has a mutant in `PROJECT.json`: an operator that
changes the model as a plausible bug would, under which TLC finds the property
violated.

Bounds: `MaxLines`, `MaxFaults`, `MaxRequests`, `MaxPerms` and `MaxTime` stand in guards of
the next-state relations. Runs with such a bound do not check for deadlock, as
the bound itself ends behaviours; `hsm_client` has none and does, and so does
`service`, whose process can always be restarted.

## Fairness

- `Open` in `AuditLog` is weakly fair: the unit file has `Restart=always`
  (`contrib/pico-hsm-api-connector.service:14`).
- The next step of each call in `HsmClient` and of each task in `Gateway` is
  weakly fair: the runtime polls every task that is ready and the operating
  system schedules every thread. That PKCS#11 and file calls return is an
  assumption; the code sets no timeout. Not among these steps is `Answer`:
  `write_all` (`server.rs:108`) waits for the client to take the bytes, without a
  timeout, so the promise ends where the answer is ready to be written.
- In `Service`, HSM calls return (weak fairness), and a task that is ready again
  and again while a worker is free is polled (strong fairness per task): tokio's
  run queue passes nobody over for ever. The handshake is not fair: it waits for
  the client without a timeout (`main.rs:135`), so `WorkersSuffice` begins behind
  it. That no weaker assumption about the
  threads is needed is the point of `WorkersSuffice`: with a lock held across an
  await, its mutant, requests hang under the same fairness.
- Nothing is assumed of clients, which may stop in a handshake, before a request
  or before reading an answer, nor of faults, device errors or tokens.

## Proofs

All for every value of the constants, from the `ASSUME`s of the modules alone:

- bounds are naturals, so every result holds for any bound;
- the token's content is a function, and the placeholder for no slot is no slot;
- labels, IVs and ciphertexts of `Sealing` are byte strings;
- texts and permission entries of `Authz`, lines of `Gateway`, certificates and
  environments of `Service` have the fields the code reads;
- there are finitely many connections in `Service` (it counts the occupied
  workers);
- the table of `Gateway` and of `Sealing` grants nothing with the integrity
  label. The code loads it with `from_str`, and `IntegrityKeyReserved` proves of
  `Authz` that no file passes with such a grant;
- the example has the permissions it asks for and not the one of its denied
  probe, and ciphertexts and IVs of the token are not empty (`ClientConstants`).

`AuditLogProofs`. `IInv` is `TypeOK`, `SequentialInv` and `TreeInv`.
`ChainIntact` is not inductive: it says nothing of the hash in memory, and a
step from a state with the wrong one breaks the chain. `SequentialInv` adds that
without overlap at most one append is in progress and `last` is the hash of the
last line, or one behind it between write and store. `TreeInv` adds to
`LinksNeverDangle` that every hash held in memory, by the log or by a caller, is
in the file. Theorems: `TypeCorrect`, `ChainStaysIntact`, `LogStaysATree`, the
action property `LogIsAppendOnly`, and `OwnLogAlwaysOpens`: `open` never refuses a
log written without overlap or cut line, which is `RestartsAfterStop` but for the
fairness of `Open`. The steps are proved without the bound
`MaxLines` (`Steps`), so that `GatewayProofs` can use them: there the bound stands
in another guard.

`AuthzProofs`. The invariant relates the table to `entries`, the file so far.
`GrantsFollow`: a grant is in the table exactly if an entry names it.
`AllowlistsFollow`: the derive grants are those with an allowlist, and each has
the one of the last entry that names it. `DeriveHasAllowlist` and
`IntegrityKeyNeverGranted` are not inductive on their own; they follow from these
two and `EntriesAccepted`, that every entry read passed the checks of
`add_permission`. `ClientsInTurn` says that the client entries accepted so far
have different CNs, all of them in `seen`, and that each permission stands in the
client entry of its CN, without which a CN read again could not be told to be a
duplicate. Strings that differ in white space only are where
the lemmas are needed: the trimmed list of an entry is compared with untrimmed
requests (`TrimmedHolds` and those behind it). Theorems: `TypeCorrect`,
`DecidesByFile`, `LastAllowlistWins`, `IntegrityKeyReserved`, `NoWildcards`,
`ClientsStayWhole`.

`HsmClientProofs`. `IInv` is `TypeOK`, `HolderInv`, `DeriveInv` and `AloneInv`.
Holders of the token are the calls that work and those with a derived key;
`HolderInv` says they are one call, logged in, with its session open - a call
that failed behind its derivation still holds its key until it drops the
session, so working calls alone would not be inductive. `DeriveInv` says that
only derive calls have a derivation in front of them. `AloneInv` says that a
call that is alone when about to log in meets nobody logged in. Theorems:
`TypeCorrect`, `LoginExcludes`, `WorkStaysLoggedIn`, `CallsLeaveNothing`,
`DerivedKeysStayLocal`, `BusyMeansOverlap`.

`SealingProofs`. `PayloadInjective` is about `integrity_payload` alone: a length
in front of each part tells where it ends, so equal payloads have equal parts;
`PrefixedInjective` is the step for one part. `IInv` is `TypeOK`,
`SealsAreIssued`, `IssuedAreSealed`, `TurnedDown` and `OnlyIssuedIsDecrypted`.
The last is not inductive by itself, because whether a request passes the check
depends on which signatures exist: `SealsAreIssued` says that a signature with
the integrity key is the seal of an encryption that was given out - it holds
because clients get no signature with that key, which `TypeOK` carries - and
`PayloadInjective` then makes it an encryption of the same label, IV and
ciphertext. For the converse, `IssuedAreSealed` and `TurnedDown`: a request that
was turned down has a signature other than the one the present key gives its
payload, also when the key is replaced under it. `NoReplayWithOneKey` says when
the claim that `sealing_replay` refutes is true: under `OneKeyPerLabel`, a
condition on the clients file alone (no label serves plain encryption and
derivation, or derivation with two peer keys). It needs `UsesAreCleared`, that
each encryption given out and each request with an AES key at hand was authorized
for some client. Theorems: `PayloadInjective`, `TypeCorrect`,
`DecryptsOnlyIssued`, `AcceptsIssued`, `NoReplayWithOneKey`.

`ClientProofs` is about `DemoSpec`, which the run `sealing` checks. `DemoIInv` is
the `IInv` of `SealingProofs` and

- `FaultsCount`: without a fault the integrity key is the first;
- `SentCounted`: whoever has a request on the way has sent it, so that a refused
  login of the example needs a request of another client;
- `IvsFresh`: no IV is used twice by encryptions given out or about to be sealed.
  The decryption of the example returns its own secret because no other
  encryption has its IV (`OneSource`); this is not inductive without the tasks
  that have an IV and have not sealed yet;
- `Fits`: for each of the six steps, what the example has kept from earlier
  answers (`Holds`), and where its request is and what the answer can be
  (`Asked1` to `Asked6`). `DemoPasses` looks at the end only; whether an assertion
  fails there is decided when the request is cleared, checked or decrypted.
  `Excused` is the answer it may fail on.

What others do leaves all this alone, since signatures and encryptions are only
added and faults and requests only counted (`Grown`, `AsksKept`, `FitsGrows`). A flipped bit changes the
payload (`FlippedDiffers`, `PayloadInjective`), so that the tampered ciphertext
fails the check with any integrity key (`FlippedFails`). Theorems:
`ExamplePasses`; the action property `ProbesAlwaysHold`; `ExampleKeepsSealing`,
the invariants of `Sealing` beside the example.

`ServiceProofs`. `Proper` says of a task what its past guarantees: behind the
handshake its certificate had not expired when the process started, and in
service it passed the policy with the limits the process has. `TableIsFromFile`
says that the loaded table holds only CNs that were in the file since.
`RestartEnforces` needs both; an edit of the file after the load makes them
differ. The policy compares truncated day counts; `WholeDays` and its companions
say what a comparison of `num_days` with a limit means in ticks, for negative
differences and negative limits too. Theorems: `TypeCorrect`, with the bound on HSM calls on workers,
`PolicyKeepsLimits`, `RestartAlwaysEnforces`.

`GatewayProofs` composes. It takes `AuditLogProofs` and `HsmClientProofs` as
instances and shows that every step of the gateway is a step of each, or leaves
it alone (`LogMoves`, `HsmMoves`), so that their invariants hold in it and are
part of `IInv`. The rest of `IInv`:

- `TypeOK` and `Connected`: a running process has a slot;
- `TasksFit`: what a task knows. In `append`, the entry being written is the one
  of its request (`LogFits`); in `execute`, the request is cleared and valid, what
  is left of the plan is all of it or its last call, and a good result of the
  integrity check means a valid seal (`RunFits`). `HsmOnlyForAllowed` looks at
  tasks inside an HSM call only, and needs this of the steps before it;
- `LogFitsTasks`: what the file shows, unless a line was cut. Every line parses
  and is about a request that was read (`FileFits`), so nothing is there about
  the next one; and of each request the file shows nothing, the intent, or the
  intent and a closing entry, exactly as far as its task has come (`Traced`).
  `IntentBeforeHsm` and `LogAgreesWithAnswer` are two of its cases, and not
  inductive without the others.

A step of one task changes neither what another task knows nor what the file
shows of it (`UntouchedFits`, `ShowsOther`); these two lemmas carry the
interleaving. Theorems: `TypeCorrect`, `OnlyAllowedReachHsm`, `IntentComesFirst`,
`RefusalsLeaveNoIntent`, `LogAgrees`; `LogPromisesHold` and `HsmPromisesHold`, the
invariants of the two components in the composition; and `KeepsPipeline`, the
refinement. For the last, `Ans` and `View` name the mapping for one connection,
`PipelineSteps` states the actions of `Pipeline` in its terms, and one lemma per
handler (`ReadyMaps`, `ReceiveMaps`, `AppendWritesMaps`, `AppendReturnsMaps`,
`HsmMaps`, `CloseMaps`, `ExitMaps`) shows which of them the handler is. That the
intent is in the view when the HSM is entered, and not in it when the request is
rejected, is `Traced`.

Only model-checked: the liveness properties (`RestartsAfterStop`, `CallsReturn`,
`AnswersGetReady`, `WorkersSuffice`), since the prover does not reason about
fairness.

## Not modelled

- TLS, certificate parsing, JSON and YAML syntax, base64, PEM: libraries; a line,
  a file or a certificate is accepted or not.
- Cryptography: signatures, AES and hashes are ideal.
- Edits of the audit file by others.
- Which token is in a slot: the code takes what it finds there.
- A PKCS#11 call that never returns: the code has no timeout, and the fairness
  assumption excludes it.
- Lines of white space; certificate times outside chrono's range; file
  descriptors as such (`accept` may fail at any time, which ends the process).
- The Python, Go, Node and shell examples, which make the requests of the Rust
  one.

## Plan

Done: all modules, and proofs of every safety invariant, action property and
refinement the passing runs check. Liveness stays with TLC.
