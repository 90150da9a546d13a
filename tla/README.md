# Verification of apw-cli

TLA+ models of apw-cli, the TLC runs that check them on small instances, and
TLAPS proofs of what matters most for every size. `PROJECT.json` ties each
definition to the source lines it stands for, each run to the properties it
checks and each property to a mutation of the model that breaks it.

## The system

`apw` is a command-line tool (Rust, `rust/src`) that gets a credential from a
macOS app (Swift, `native-app`). The app can serve requests as a *broker* on a
UNIX socket, or be run once per request. If the native app has nothing, the
caller can opt into an external password manager. The v1.x predecessor (daemon,
browser extension, native host, SRP session) is archived under `legacy/`; its
configuration store and arithmetic are still in `rust/src/utils.rs`.

### Inventory

| Component | State it keeps | Operations | Talks to | What is hard |
|---|---|---|---|---|
| Broker socket and start-up (`BrokerServer.run`, `native_app_launch`, `native_app_install`) | socket file and its mode, listening brokers, backlog, status file, app bundle | launch, install, unlink, bind, chmod, listen, accept, crash | CLI through `connect`; file system | racing launches; unlink without a check; chmod through a path; probes that find a full backlog |
| Credential request path (`send_request`, `BrokerServer.handleRequest`/`dispatch`, the approval prompts, `native_app_login`) | progress of each request on both sides, the prompt, the user's decision | connect with retries, write, read, direct execution, dispatch, prompt, timeout, reply, fallback decision | broker socket, the user, external fallback | client timeout against a late approval; late completion of an old prompt; broker death mid-request; prompting twice |
| External provider fallback (`external_provider_login`) | `config.json`, managed preferences, `fallback-provider-session.json` | read configuration, reserve an invocation, run the provider (once or twice) | provider CLIs, configuration store | unlocked counter; torn `fs::write`; sessions without a date |
| Configuration and session store (`write_config`, `read_config`, `clear_config`, `secrets.rs`) | `config.json`, keychain entries | save a session, metadata write, start-up, logout, read | every v1.x process; `security` | read-modify-write without a lock; two stores changed one after the other; crashes between them |
| Bounded children (`run_bounded_command`, `run_external_provider_command_with_stdin`) | child, reader threads, output limits | spawn, feed, poll, kill, join | app executable, providers | deadline against pipes a grandchild keeps open |
| Provider lookup and item matching (`load_*_credential`, `pass_pick_entry`, host matching) | listing, item | find, get | password managers' CLIs | order of listings; paths from a drawn tree |
| Legacy daemon, browser bridge (`BrowserBridge`, WebSocket and UDP loops) | transport, active connection, pending requests, snapshot | attach, enqueue, complete, time out, disconnect, persist | extension, client, configuration store | replaced connections, late answers, persists out of order |
| Legacy daemon, native host and direct helper | framed pipe, child | write/read frame, attach, restart | helper, client | frames without ids; cancelled partial reads |
| Legacy extension (`bridge-controller.js`) | WebSocket, native port, queue, timer | connect, queue, reply, reconnect | daemon, native host | late events of replaced sockets |
| Legacy client (`client.rs`, `srp.rs`) | SRP session | challenge, verify, queries with retry, logout | daemon, configuration store | retries of what was done; a key that is set before it is agreed |
| Doctor and diagnostic bundle (`doctor.rs`, `bundle.rs`) | report, staging directory, archive | run checks, probe programs, collect, audit, archive | programs, file system | hanging programs; aborting half-way |
| Host registration, logs, CLI parsing, automation, updates, Deno archive, packaging, CI | files or nothing | | | |

What makes each of the modelled components correct:

- *Socket*: a reachable socket has mode 0600; racing launches leave a broker;
  a displaced broker gets no more connections.
- *Requests*: a credential only after this request's approval; fallback only by
  opt-in, only while the user has decided nothing and no prompt is up (a prompt
  that AuthenticationServices itself ended with no results counts as that); at
  most one prompt; every command ends; the broker never gets stuck on one client.
- *Fallback*: the limit holds for logins one after the other and never refuses
  early.
- *Store*: a key is read only with the name it was agreed under and with no date
  later than its own authentication; a key that a logout deleted is not used
  again; a session saved undisturbed stays readable, with its key or a later one
  of its name.
- *Bridge daemon*: a client gets the answer to its own request or an error;
  requests wait only for the active connection (for one that has closed, until
  its handler detaches it); every request is answered; the native mode's status
  on disk is the daemon's, unless a command has removed the file or written an
  older copy back.
- *Helper daemon and session*: one helper, killed when it is not kept; answers
  in step with requests; only keys agreed with the helper are stored and used.
- *Children, lookup, doctor*: a timeout leaves nothing of the process group;
  accepted output is complete; the released item is the best match; a bundle
  is made only of files whose visited fields passed the audit; the command ends.

## Modules

| Module | Models | State and actions |
|---|---|---|
| `BrokerSocket` | `BrokerServer.run` to the accept loop, `native_app_launch`, `native_app_install`, `socket_running` | `stage[b]` is the position of broker process `b` in `run()`; `sockFile` is the broker whose inode is at the path; `launch[b]` the launcher that spawned it; `backlog`/`busy` the kernel's queue and the accepted peer. One action per system call whose effect others can see. |
| `BrokerIPC` | one CLI command against the brokers | EXTENDS `BrokerSocket`. `pc[c]` is the position in `send_request`/`native_app_login`, `req[c]` the request at its host, `picker`/`decision`/`asked` the prompt. Reading an answer may end in a refusal of its size or JSON, direct execution in a failing spawn or `try_wait`. Each of its steps is a socket step or leaves the socket alone. |
| `CredentialRelease` | the promise of the request path, without processes | abstract specification; `BrokerIPC!Promise` instantiates it with `Outcome`. |
| `ExternalFallback` | `external_provider_login` | `user` and `managed` are the two configurations, merged key by key; `counter` is the state file, `NoCount` also stands for a truncated one; `session` the `createdAt` that invocations are charged to. `reserved`, `started`, `torn`, `overlap` are history. |
| `ConfigStore` | `write_config`, `read_config`, `clear_config`, keychain | `file` is config.json, `keychain` the key stored under each name; `name[p]`/`key[p]` what a process's manager holds and is saving, `old[p]` the copy it has read. `nameOf`, `prior`, `ended`, `safe` are history. |
| `HelperWire` | the JSON a helper or peer answers with, and the envelope the daemon makes of it (`parse_helper_response_shape`, `send_envelope_to_client`, `parse_response_envelope`) | operators only. |
| `BridgeDaemon` | `BrowserBridge`, the browser and the native mode of the daemon | EXTENDS `HelperWire`. `handler[c]` is the task of connection `c`, `outbound[c]` its channel, `pending` the registered oneshot senders, `serving`/`result` the call the UDP task waits for. What happens under one lock is one step; `persist_snapshot` is two (copy, write). `held[p]` is the copy of config.json that another command is about to save; `unsaved` and `spoiled` (history) say that the daemon's last write failed, or that a command has undone it. |
| `HelperDaemon` | the direct, launchd and auto modes: launch, probe, serve | EXTENDS `HelperWire`. `live` are the helper processes, `stdin`/`stdout` the frames in the pipes of the current one, `current` the datagram being served. `dirty` (history) says that a frame was given up, by a timeout or because its length was refused. |
| `Srp` | the arithmetic of `srp.rs` and `powermod` | operators over constants `N`, `G`, `K` and abstract digests, and the helper's side (external). The generator is assumed to have an inverse, as it has modulo a prime. |
| `LegacySession` | `ApplePasswordManager` | EXTENDS `HelperDaemon`, `Srp`. `sess[c]` is `SRPSession`, `call[c]` the `send_message` under way, `hs`/`derived` the helper's side. |
| `BoundedChild` | the three ways the CLI runs a program | `procs` are the processes that hold the pipes (the child, what it forked in its group, what left the group), `reader` the reader threads. |
| `ProviderLookup` | the four `load_*_credential`, the checks of the doctor | EXTENDS `BoundedChild`. `caller` is the command, `stage` its position; picking an item is a set of operators. |
| `DiagnosticBundle` | `write_diagnostic_bundle` | EXTENDS `ProviderLookup`. `staged` and `archive` are the files and what is in them. Its specification is that of all commands of the two modules. |
| `*Proofs` | theorems of the module they extend; those of `HelperDaemon` are in `LegacySessionProofs`, those of `BoundedChild` and `ProviderLookup` in `DiagnosticBundleProofs`, where the specification is | |
| `MC*` | symmetry sets and small inputs for TLC | |

Definitions called "Mutant" are deliberate faults; no specification uses them.

Abstractions shared by the modules:

- A timeout may fire whenever its owner waits; durations are not compared. The
  one consequence to know is that the models include slower and faster users,
  brokers and clients than any machine has.
- Messages and names are model values; envelopes are their status code.
- Every step that can fail has a failing variant; a process dies between any
  two steps (`Crash`, `BrokerDeath`, `Interrupt`, `Killed`).
- Peers, helpers, password managers and other programs are external: they may
  answer, be silent, answer late or twice where nothing in the code prevents it,
  and vanish. They are marked so in the map.
- SHA-256 is a tuple where it is compared and a constant operator where it is a
  number; AES-GCM opens a box under the key that sealed it.
- In `ConfigStore` a session is a name and a key. `ApplePasswordManager::new`
  takes the name over from a session it can read and makes one up only without
  one, so an authentication agrees a new key, under a new or a saved name. Each
  `createdAt` is known by the key it was saved with; the age of a file without
  a session is not tracked.
  `read_config` is modelled for `require_auth: false`, the only value its
  callers pass. The content of `config.json` that is not about the session is
  the one bit `prov`: an external provider is configured, and its validation
  may fail at any read.

## Runs

| Run | Instance | Checks |
|---|---|---|
| `socket` | 2 brokers, 1 client, backlog 1 | `SocketTypeOK`, `ReachableIsSafe`, `SettledReachable`, `SocketInv`, `DisplacedStays`, and under fairness `LaunchConverges` |
| `ipc` | 1 broker, 2 clients, each may be `status` or an opted-in login | `CredentialOnlyIfApproved`, `FallbackOnlyUndecided`, `AskedAtMostOnce`, `IPCInv`, and the refinement `Promise` |
| `ipc_takeover` | 2 brokers (one in demo mode), 1 client | `IPCTypeOK`, `OneHostPerRequest`, and under fairness `ExchangeBounded`, `EveryCommandEnds` |
| `ipc_demo` (violated) | 1 demo broker, 1 client, fair | `EveryExchangeBounded`: the demo alert has no limit |
| `fallback` | 2 logins, limit 2, 2 calls each, 3 dates | `FallbackTypeOK`, `SequentialLimit`, `RefusedOnlyWhenSpent` |
| `fallback_limit` (violated) | 2 logins, limit 1 | `WithinSessionLimit`: both reserve the same invocation |
| `fallback_minimal` (violated) | 1 login | `DocumentedConfigWorks`: the documented file is read as the legacy format |
| `config` | 2 processes, 2 names, 2 keys, with and without a keychain | `ConfigTypeOK`, `SessionKeepsAge`, `SavedSessionStays`, `ConfigInv`, `LoggedOutStaysOut` |
| `config_meta` (violated) | 1 process, 1 name, 1 key | `MetadataKeepsSession`: a metadata write deletes the session's key |
| `bridge` | 2 requests, 2 connections, 2 bodies of answers, browser and native mode, in native mode a command that saves or clears config.json, fair | `OwnAnswer`, `PendingOnActive`, `NativeStatusOnDisk`, `OnlyActiveDetaches`, `RequestAnswered` |
| `session` | 1 client (successive processes), 3 datagrams, 2 users, 2 PINs, 2 URLs, 1 retry, modes auto and disabled, N = 23, fair | `SessionAgreed`, `RightPinAgrees`, `InStep`, `OneHelper`, `DaemonAnswers` |
| `provider` | output cap 1, listings of 2 of 5 items, stores of 3 of 8 entries, payloads of one string, fair | `GroupKilled`, `CompleteOutput`, `BestItemReleased`, `PickedEntryExists`, `BundleFailsClosed`, `CommandEnds` |

Why these bounds. All races in this code are between two parties over one file,
socket or counter, so two of each kind reach every order of a pair. Two brokers
with a backlog of 1 give takeover, displacement and a full queue. Two clients at
one broker give a queued request, a stale completion during the other's prompt
and a status probe in between. Two provider calls and a limit of 2 make the
limit fall between the calls of one login and between two logins; three dates
let a session be replaced twice. Two names and two keys are a saved session and
its replacement, under the same name or under another, while a stale copy of the
first is in someone's hands; the key that a file held from the beginning is one
of them. `ConnectRetries`
is 1 or 2 instead of 10: the attempts are identical. The theorems below have no
bounds.

The other commands save and clear only in native mode (`SavingModes`), because no
property is about the file in browser mode and the daemon's steps do not depend
on it. Two connections are a connection and its successor, and two requests the
one that timed out and the one that gets its answer by mistake. Three datagrams are
challenge, verification and a query, or a query sent twice and its successor;
`SendRetries` is 1 where the code's default is 0, so that the loop is exercised.
N = 23 with the digests of `MCLegacySession` has a server key below `k * g^x`,
so the subtraction wraps. A cap of 1 has outputs below, at and above it; two
items have both orders of a better and a worse match; three entries on two
levels have a row that goes back up.

Deadlock checking is off where the system may stop: every launch, request or
login done. `config` never stops and is checked for deadlock.

### Fairness

`SocketFairSpec` assumes weak fairness of each launcher and of each broker's
start-up steps: local code that blocks on nothing. `IPCFairSpec` assumes it of
the client's steps and of the hosts' steps, which include their timeouts: the
CLI's socket timeouts and child deadline, the broker's socket timeouts and the
picker's own. Nothing is assumed of the user (who may never answer), of crashes,
of new connections or of installs. The demo alert has no timeout in the code,
so none is assumed, which is why `ExchangeBounded` excludes demo hosts and
`ipc_demo` fails. `EveryCommandEnds` still holds with a demo broker, because the
client's timeout does not depend on the broker.

`BridgeFairSpec` assumes weak fairness of the UDP task (its result or its 30 s
timer), `SessionSpec` of the daemon's serving step, `DoctorSpec` of the CLI's own
steps, of its threads and of the passing of time. Nothing is assumed of peers,
helpers or programs. `DaemonAnswers` excludes a full stdin pipe, because
`write_frame` has no timeout; `CommandEnds` excludes a process that outlives the
child and keeps its output open, because the readers are joined without a
deadline, and a tar that hangs.

## Proofs

Every safety property that a passing run checks, invariant or action property,
is also a theorem. The theorems have no bounds: they hold for any number of
brokers, clients, logins, processes, names, keys, connections, requests and
datagrams, any listing, any finite password store, and any group and digests.

| Module | Theorem | Statement | Rests on |
|---|---|---|---|
| `BrokerSocketProofs` | `SocketTypeCorrect`, `SocketInvariant`, `ReachableSafe`, `RaceLeavesBroker`, `DisplacedForGood` | `SocketTypeOK`, `SocketInv`, `ReachableIsSafe`, `SettledReachable`, `DisplacedStays` | `SocketInv` |
| `BrokerIPCProofs` | `IPCUsesSocket` | `IPCSpec` implements `SocketSpec` | step lemmas |
| | `IPCTypeCorrect`, `IPCInvariant`, `CredentialApproved`, `FallbackUndecided`, `AskedOnce`, `OneHost` | the safety properties of the runs `ipc` and `ipc_takeover` | `SocketInv`, `IPCInv` |
| | `IPCImplementsRelease` | `IPCSpec` implements `CredentialRelease` | `IPCInv` |
| `ExternalFallbackProofs` | `FallbackTypeCorrect`, `LimitNotEarly` | `FallbackTypeOK`, `RefusedOnlyWhenSpent` | `FallbackInv` |
| | `LimitHolds` | `SequentialLimit` | `SequentialInv` |
| `ConfigStoreProofs` | `ConfigTypeCorrect`, `ConfigInvariant`, `SessionAge`, `SavedSession`, `LogoutFinal` | all five properties of the run `config` | `ConfigInv` |
| `BridgeDaemonProofs` | `BridgeTypeCorrect`, `OwnAnswerCorrect` | `BridgeTypeOK`, `OwnAnswer` | `OwnInv` |
| | `PendingOnActiveCorrect`, `OnlyActiveDetachesCorrect` | `PendingOnActive`, `OnlyActiveDetaches` | `PendingOnActive` itself |
| | `NativeStatusCorrect` | `NativeStatusOnDisk` | `NativeInv` |
| `LegacySessionProofs` | `OneHelperCorrect`, `SessionAgreedCorrect`, `InStepCorrect` | `OneHelper`, `SessionAgreed`, `InStep` | `HelperInv`, `AgreedInv`, `StepInv` |
| | `RightPinCorrect` | `RightPinAgrees` | `PinInv`, `KeyAgreement` |
| `SrpProofs` | `PowerModComputes` | `powermod`, by squaring, is repeated multiplication modulo `N` | induction on the exponent |
| | `KeyAgreement` | with the same PIN, client and helper compute the same key, also where `B - k g^x` wraps | `PowerModComputes` |
| `DiagnosticBundleProofs` | `GroupKilledCorrect`, `CompleteOutputCorrect` | `GroupKilled`, `CompleteOutput` | `ChildInv` |
| | `BundleFailsClosedCorrect` | `BundleFailsClosed` | `BundleInv` |
| | `BestItemCorrect` | `BestItemReleased` | `PickInv` |
| | `PickedEntryCorrect` | `PickedEntryExists` | `EntryInv` |

The assumptions are the named ones of the modules: the constants have their
types; `NoOne`, `Probe`, `None` and `Garbled` are none of the brokers, clients,
names or keys; limits are natural numbers; the generator of the group has an inverse
modulo `N` (`group_prime` is a prime) and digests that are used as
numbers are natural numbers; a password store is finite and its entries have
names. TLC evaluates all of them on the instances of the runs.

The inductive invariants, and why the properties alone are not inductive:

- `SocketInv`. "Reachable implies safe" is kept by `listen` only if the mode was
  set before (`SafeFromChmod`), and "a settled race leaves a broker" only if a
  missing file is always accounted for by a process that will still bind
  (`PathAccounted`).
- `IPCInv`. "Credential implies approved" needs that an answer of the host is
  justified (`AnswerJustified`), which needs that a prompt belongs to its
  request only (`PromptHistory`); "fallback only if undecided" needs that the
  error codes that allow it are produced only before a prompt or by a prompt that
  ended without the user, and that no host is left that could still prompt
  (`CommandProgress`).
- `FallbackInv`. A refusal is justified because no count, in the file or in a
  login's hands, exceeds the reservations of its session.
- `SequentialInv`. As long as no two logins have overlapped, what was started is
  covered by the count in the file, or by the count the one active login has
  read, plus one allowance for every torn write (`LimitInv`); and a date that
  was replaced is not charged again.
- `ConfigInv`. That name, key and date fit is kept only because a key being saved
  is in no file or copy yet (`UnsavedInv`), and because what a file says of its
  key holds for each key that can come under its name in the keychain
  (`StoreInv`). A deleted key stays out because no file, copy or write that is
  still used holds it, or names the user it was left behind under (`EndedInv`).
  `SafeInv` lists what may be under way while a saved session is undisturbed.
- `OwnInv`. An answer is completed by its id, so a client gets its own answer
  only if an id is never given to two calls, wherever the call may be: in a
  channel, registered, with the peer, or with the UDP task (`IdsUnique`); and
  what the oneshot holds already belongs to the call waited for (`ResultOwn`).
- `NativeInv`. In native mode the status on disk is the status in memory
  because connections follow one another, so that the copy a handler is about to
  write cannot have become stale (`NativeHandlers`); and a command's copy does no
  harm if it was read after the daemon's last write (`FreshCopies`). In browser
  mode the first does not hold.
- `HelperInv`. The only helper that may run is the one spawned last, and none
  runs while a backend is being chosen or after the daemon has cleaned up.
- `AgreedInv`. A stored key is one the helper has agreed to only if the proof it
  was accepted on was computed from such a key, on its whole way: in the pipe,
  in an envelope, and in what a client may send again.
- `StepInv`. Frames carry no ids. An answer is in step because, until a frame is
  given up, the pipes hold nothing but the frame being served (`PipeInv`), and
  because a socket is used for one message only (`SentInv`).
- `PinInv`. Both sides' keys are the ones `Srp` defines for the user names, salt,
  exponents and public keys they hold; `KeyAgreement` does the rest. Its
  arithmetic is the identity `g^(b(a + ux)) = (A v^u)^b`, carried through the
  modular subtraction, for which `g` has to be invertible.
- `ChildInv`. What a reader has seen when it ends decides whether output may be
  accepted: it stopped above the cap, or nobody was left to write.
- `BundleInv`. Each stage of the bundle fixes which files are staged, all of them
  audited, and that the earlier archive is untouched until they are complete.
- `PickInv`, `EntryInv`. What is picked already is the best of what was listed
  while it is being fetched. For the items this rests on the first hit being the
  least index of a set of hits. For the entries of `pass` it rests on facts about
  the tree that is printed: the order of the rows is total and they are listed
  in it, all rows between a directory and a row under it are under it, so the
  stack holds exactly the names above a row (`StackIsPath`); and a row whose
  successor is not deeper is an entry, and every entry is such a row.

Inductions over numbers (`SrpProofs`, the stack of `pass_pick_entry`, the least
index) are made over a set: the set of numbers for which the claim fails has no
least element, the order of the naturals being well-founded. The library's own
induction theorems take a predicate as a parameter, which the provers cannot
instantiate.

Only model-checked: the liveness properties (`LaunchConverges`,
`ExchangeBounded`, `EveryCommandEnds`, `RequestAnswered`, `DaemonAnswers`,
`CommandEnds`). They need fairness, that is `ENABLED`, which is out of the
prover's reach. The two implementations proved, `IPCUsesSocket` and
`IPCImplementsRelease`, are accordingly of specifications without fairness.

## Findings

Each is a run that violates a statement of the repository.

1. `ipc_demo`: the comment above the accept loop promises a bounded exchange;
   the demo alert waits without a limit inside it.
2. `fallback_limit`: two concurrent logins exceed the documented maximum of
   provider invocations.
3. `fallback_minimal`: the two-key `config.json` of `docs/INSTALLATION.md` is
   read as the legacy format and loses its provider.
4. `config_meta`: an `allow_empty` write deletes the key of a session in the
   keychain; the tests that say it is preserved run with the keychain off.

Seen while modelling, without a run: `docs/ENTERPRISE.md:10` calls the limit one
"per broker request", where the code counts it per `createdAt` over all
requests, and a configuration without a `createdAt` starts a new count at each
login; `write_config` treats `config.json` as absent while its external provider
does not validate, so the next write saves a configuration without session and
provider. Further:

- `write_config` and `clear_config` do not lock. A logout that overlaps a
  re-authentication under the same name deletes the new key. A
  re-authentication that dies or fails between the keychain and the rename leaves
  its new key under the date of the old one. A metadata write that read an
  inline session before a logout writes it back after it. `clear_config` after a
  stale read removes a session saved meanwhile. A command that read the file
  before the daemon's write puts an old `bridge_status` back.
- Managed preferences are merged key by key (`utils.rs:453`): a managed provider
  without a managed path is run with the path of the user's file.

- `removeStaleSocket` (`BrokerCore.swift:404`) removes any socket, also a live
  one: of two concurrent launches one broker loses its address.
- The bridge's browser handler returns through `?` on a receive error, a ping or
  a failed send, before the `mark_error` after its loop: the status stays
  "attached" until the next connection. A peer's "attached" message writes that
  status from any connection. Requests that timed out stay in `pending` until
  the next attach or disconnect.
- A helper that answers `{ok: false, code: 0}` gets an "ok" envelope without a
  payload. A live helper that reports ProcessNotRunning is recorded as a failed
  launch, which locks clients out until the daemon is restarted.
- The client gives up after 5 s, the daemon works on a datagram for up to 30 s.
  An answer of the direct helper that comes after that is taken for the answer
  to the next request (`InStep` holds only until then).
- `ensure_helper_stays_alive` with a failing poll and a failing `recv_from` leave
  the helper running.
- `docs/SECURITY_POSTURE_AND_TESTING.md:67` speaks of a wall-clock limit; once
  the child has exited the readers are joined without one. The doctor's probes
  leave a program that hangs running.
- `docs/SECURITY_POSTURE_AND_TESTING.md:101` says every string of the bundle is
  scanned; `walk_strings` leaves out what is under `remediation`, `hint`, `id`
  and `name`, and random strings in a path pass. `BundleFailsClosed` states what
  the code does, not what that sentence says. A tar that fails leaves no earlier archive behind.
- KeePassXC's first match is taken without comparing hosts, and the last resort
  of `pass_pick_entry` is a substring.
- The field names of requests differ between `daemon.rs` (`request_id`) and
  `bridge-controller.js` (`requestId`), and a replaced WebSocket's close event
  (`bridge-controller.js:176`) is handled as if it were the current one's.

## Plan

Done: `BrokerSocket`, `BrokerIPC`/`CredentialRelease`, `ExternalFallback`,
`ConfigStore`, in this order because they carry what the shipped tool promises,
from the socket up; then `BoundedChild`, `ProviderLookup` and `DiagnosticBundle`,
and the archived daemon and client: `BridgeDaemon`, `HelperDaemon`,
`LegacySession`.

Proofs: every safety property of the passing runs.

Left: the extension's side of the bridge (`bridge-controller.js`: its
queue, reconnect timer and native port), and the composition of the daemon's
metadata writes with `ConfigStore`: `BridgeDaemon` has the status field of
config.json with all its writers, `ConfigStore` the session fields.

## Not modelled

Cryptography as such (digests and AES-GCM are abstract), and the conversions
between numbers, hexadecimal and base64; the string heuristics of the bundle's
audit (character classes, entropy: a classification of strings here); parsing of
URLs and of property lists; host registration, log rotation and the bootstrap
credentials file (file I/O without interaction); the status and preflight
reports of the v1.x client and daemon (they only read); command-line parsing,
logging, localisation and formatting; the extension and the native host's own
program (peers of `BridgeDaemon` that may do anything); AppleScript and App
Intents (thin adapters over the request path); in-app updates (the logic is in
the Sparkle framework); the Deno archive; packaging, release and CI scripts.
