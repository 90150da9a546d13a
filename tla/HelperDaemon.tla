----------------------------- MODULE HelperDaemon -----------------------------
(***************************************************************************)
(* The v1.x daemon in direct, launchd and auto mode (daemon.rs): it starts *)
(* Apple's helper as a child, probes it, and then serves UDP datagrams one *)
(* after the other: write a frame to the helper's stdin, read a frame from *)
(* its stdout, answer the client.  Frames carry no request id; an answer   *)
(* belongs to a request only by its place in the pipe.                     *)
(***************************************************************************)
EXTENDS Naturals, Sequences, FiniteSets, HelperWire

CONSTANTS
  PipeCap,   \* frames that fit into the helper's stdin
  Modes      \* runtime modes the daemon is started in

VARIABLES
  dmode,     \* resolve_runtime_mode's result
  dry,       \* --dry-run
  dphase,    \* the daemon: launch, probe, alive, bind, recv, write, read,
             \* stopped (it cleaned up), lost (it returned at once)
  tries,     \* the backends still to be tried
  launched,  \* how many helpers were spawned; the last one is current
  live,      \* the helpers that run
  stdin,     \* frames the current helper has not read
  stdout,    \* frames the daemon has not read
  current,   \* the datagram being served (a set of at most one)
  dirty,     \* a frame was given up, so the pipe may be out of step (history)
  inbox,     \* datagrams the UDP socket holds
  open,      \* client sockets that still wait
  replies,   \* envelopes in client sockets
  launch,    \* last_launch_status in config.json
  auth       \* user and key in config.json (a set of at most one)

daemonVars == <<dmode, dry, dphase, tries, launched, live, stdin, stdout,
                current, dirty, inbox, open, replies, launch, auth>>

Probe == [kind |-> "capabilities"]
NoData == [kind |-> "none"]
NoFrame == [to |-> NoData, data |-> NoData]
Garbage == [to |-> Probe, data |-> [kind |-> "garbage"],
            body |-> [object |-> FALSE, ok |-> "none", payload |-> FALSE,
                      code |-> [form |-> "other", status |-> "GenericError"]]]

\* backend_selection.
BackendSelection(mode) ==
  CASE mode = "direct" -> <<"direct">>
    [] mode = "launchd" -> <<"launchd_compatible">>
    [] mode = "auto" -> <<"direct", "launchd_compatible">>
    [] mode = "disabled" -> <<>>

\* resolve_runtime_mode: auto means the native host from macOS 26 on, and
\* start_daemon leaves the native and browser modes to BridgeDaemon.
ResolveRuntimeMode(mode, macos) ==
  IF mode = "auto" /\ macos >= 26 THEN "native" ELSE mode

HelperModes ==
  {ResolveRuntimeMode(m, v) : m \in {"auto", "direct", "launchd", "disabled"},
                              v \in {15, 26}} \ {"native"}

ASSUME DaemonAssumption == PipeCap \in Nat \ {0} /\ Modes \subseteq HelperModes

DaemonInit ==
  /\ dmode \in Modes
  /\ dry \in BOOLEAN
  /\ dphase = "launch"
  /\ tries = BackendSelection(dmode)
  /\ launched = 0
  /\ live = {}
  /\ stdin = <<>> /\ stdout = <<>>
  /\ current = {} /\ inbox = {} /\ open = {} /\ replies = {}
  /\ dirty = FALSE
  /\ launch = "none"

CurrentLives == launched \in live

\* write_config with allow_empty: the session in the file stays, or is lost
\* with the keychain entry that metadata writes delete (see ConfigStore),
\* also when the file cannot be written after that.
PersistLaunch(status) ==
  launch' \in {launch, status} /\ auth' \in {auth, {}}

--------------------------------------------------------------------------------
(***************************************************************************)
(* Start-up: start_daemon, probe_helper_launch, start_daemon_inner.        *)
(***************************************************************************)

\* No backend is left, or none is allowed (disabled).  read_manifest failing
\* ends the daemon before this point, without a trace.
GiveUp ==
  /\ dphase = "launch" /\ tries = <<>>
  /\ PersistLaunch(IF dmode = "disabled" THEN "disabled" ELSE "failed")
  /\ dphase' = "stopped"
  /\ UNCHANGED <<dmode, dry, tries, launched, live, stdin, stdout, current,
                 dirty, inbox, open, replies>>

NoManifest ==
  /\ dphase = "launch" /\ launched = 0
  /\ dphase' = "stopped"
  /\ UNCHANGED <<dmode, dry, tries, launched, live, stdin, stdout, current,
                 dirty, inbox, open, replies, launch, auth>>

SpawnFails ==
  /\ dphase = "launch" /\ tries # <<>>
  /\ tries' = Tail(tries)
  /\ UNCHANGED <<dmode, dry, dphase, launched, live, stdin, stdout, current,
                 dirty, inbox, open, replies, launch, auth>>

\* The helper is spawned with new pipes and sent the capabilities probe.
Spawn ==
  /\ dphase = "launch" /\ tries # <<>>
  /\ launched' = launched + 1
  /\ live' = live \cup {launched + 1}
  /\ stdin' = <<Probe>> /\ stdout' = <<>>
  /\ dphase' = "probe"
  /\ UNCHANGED <<dmode, dry, tries, current, dirty, inbox, open, replies,
                 launch, auth>>

\* probe_helper_readiness succeeds: a dry run kills the helper and records
\* the success, otherwise the helper is kept.
ProbeOk ==
  /\ dphase = "probe" /\ stdout # <<>> /\ HelperOk(Head(stdout).body)
  /\ stdout' = Tail(stdout)
  /\ tries' = <<>>
  /\ dphase' = IF dry THEN "stopped" ELSE "alive"
  /\ live' = IF dry THEN live \ {launched} ELSE live
  /\ IF dry THEN PersistLaunch("ok") ELSE UNCHANGED <<launch, auth>>
  /\ UNCHANGED <<dmode, dry, launched, stdin, current, dirty, inbox, open,
                 replies>>

\* Mutant: a helper whose probe fails is left running.
ProbeFailsNoKill ==
  /\ dphase = "probe"
  /\ stdout # <<>> => ~HelperOk(Head(stdout).body)
  /\ tries' = Tail(tries)
  /\ dphase' = "launch"
  /\ UNCHANGED <<dmode, dry, launched, live, stdin, stdout, current, dirty,
                 inbox, open, replies, launch, auth>>

\* Mutant: a probe that times out is taken for a slow success.
ProbeTimeoutAccepted ==
  /\ dphase = "probe" /\ ~dry
  /\ stdout # <<>> => ~HelperOk(Head(stdout).body)
  /\ dphase' = "alive"
  /\ UNCHANGED <<dmode, dry, tries, launched, live, stdin, stdout, current,
                 dirty, inbox, open, replies, launch, auth>>

\* The helper has exited, its answer is refused, or 5 s pass: it is killed
\* and reaped before the next backend is tried.
ProbeFails ==
  /\ dphase = "probe"
  /\ stdout # <<>> => ~HelperOk(Head(stdout).body)
  /\ live' = live \ {launched}
  /\ tries' = Tail(tries)
  /\ dphase' = "launch"
  /\ UNCHANGED <<dmode, dry, launched, stdin, stdout, current, dirty, inbox,
                 open, replies, launch, auth>>

\* ensure_helper_stays_alive: 40 polls.  A helper that has exited ends the
\* daemon through "?", before anything is written; so does a failing poll,
\* and then the helper is left behind.
StaysAlive ==
  /\ dphase = "alive"
  /\ \/ CurrentLives /\ dphase' = "bind"
     \/ ~CurrentLives /\ dphase' = "stopped"
     \/ dphase' = "lost"
  /\ UNCHANGED <<dmode, dry, tries, launched, live, stdin, stdout, current,
                 dirty, inbox, open, replies, launch, auth>>

\* The UDP socket cannot be bound or the configuration not be written:
\* terminate_helper.
StartFails ==
  /\ dphase = "bind"
  /\ live' = live \ {launched}
  /\ auth' \in {auth, {}}
  /\ dphase' = "stopped"
  /\ UNCHANGED <<dmode, dry, tries, launched, stdin, stdout, current, dirty,
                 inbox, open, replies, launch>>

\* The launch is recorded and a session of an earlier helper is cleared.
StartServing ==
  /\ dphase = "bind"
  /\ launch' = "ok" /\ auth' = {}
  /\ dphase' = "recv"
  /\ UNCHANGED <<dmode, dry, tries, launched, live, stdin, stdout, current,
                 dirty, inbox, open, replies>>

--------------------------------------------------------------------------------
(***************************************************************************)
(* The loop of start_daemon_inner.                                         *)
(***************************************************************************)

\* send_envelope_to_client, and what the client's socket takes of it: an
\* envelope for a socket that was closed goes nowhere.
Reply(d, code, frame) ==
  /\ replies' = IF d.sock \in open
                THEN replies \cup {[sock |-> d.sock, code |-> code,
                                    data |-> frame.data, to |-> frame.to]}
                ELSE replies
  /\ current' = {}
  /\ dphase' = "recv"

\* The error arm: a helper that has exited turns any error into
\* ProcessNotRunning, and ProcessNotRunning (also one a live helper reports)
\* is recorded as a failed launch.
ServeError(d, error) ==
  LET code == IF CurrentLives THEN error ELSE "ProcessNotRunning" IN
    /\ Reply(d, ParseResponseEnvelope(Envelope(code, FALSE)), NoFrame)
    /\ IF code = "ProcessNotRunning" THEN PersistLaunch("failed")
                                     ELSE UNCHANGED <<launch, auth>>

\* recv_from: a datagram; one that is too large is refused at once.
Receive(d) ==
  /\ dphase = "recv" /\ d \in inbox
  /\ inbox' = inbox \ {d}
  /\ \/ current' = {d} /\ dphase' = "write" /\ UNCHANGED replies
     \/ Reply(d, "InvalidParam", NoFrame)
  /\ UNCHANGED <<dmode, dry, tries, launched, live, stdin, stdout, dirty,
                 open, launch, auth>>

\* write_frame: blocks while the pipe is full (there is no timeout here),
\* fails once the helper is gone.
WriteFrame ==
  /\ dphase = "write"
  /\ CurrentLives /\ Len(stdin) < PipeCap
  /\ \E d \in current : stdin' = Append(stdin, d.msg)
  /\ dphase' = "read"
  /\ UNCHANGED <<dmode, dry, tries, launched, live, stdout, current, dirty,
                 inbox, open, replies, launch, auth>>

WriteFails ==
  /\ dphase = "write" /\ ~CurrentLives
  /\ \E d \in current : ServeError(d, "ProcessNotRunning")
  /\ UNCHANGED <<dmode, dry, tries, launched, live, stdin, stdout, dirty,
                 inbox, open>>

\* read_frame, parse_helper_payload and parse_helper_response_shape.
ReadFrame ==
  /\ dphase = "read" /\ stdout # <<>>
  /\ stdout' = Tail(stdout)
  /\ LET frame == Head(stdout) IN
       \E d \in current :
         IF HelperOk(frame.body)
         THEN /\ Reply(d, ParseResponseEnvelope(Envelope("Success", TRUE)),
                       frame)
              /\ UNCHANGED <<launch, auth>>
         ELSE ServeError(d, HelperCode(frame.body))
  /\ UNCHANGED <<dmode, dry, tries, launched, live, stdin, dirty, inbox,
                 open>>

\* The length of the frame is zero, or more than MAX_HELPER_PAYLOAD: then its
\* body stays in the pipe, and the next read starts in it.
ReadBadLength ==
  /\ dphase = "read" /\ stdout # <<>>
  /\ \/ stdout' = Tail(stdout) /\ UNCHANGED dirty
     \/ stdout' = <<Garbage>> \o Tail(stdout) /\ dirty' = TRUE
  /\ \E d \in current : ServeError(d, "ProtoInvalidResponse")
  /\ UNCHANGED <<dmode, dry, tries, launched, live, stdin, inbox, open>>

\* The pipe ends.
ReadEof ==
  /\ dphase = "read" /\ stdout = <<>> /\ ~CurrentLives
  /\ \E d \in current : ServeError(d, "ProcessNotRunning")
  /\ UNCHANGED <<dmode, dry, tries, launched, live, stdin, stdout, dirty,
                 inbox, open>>

\* Mutant: the daemon waits for the helper without a timeout.
ReadNeverTimesOut ==
  /\ dphase = "read" /\ FALSE
  /\ UNCHANGED daemonVars

\* 30 s pass.  The answer may still come, and then it is read as the answer
\* to the next request; if part of it was already read, the next read starts
\* in the middle of the frame.
ReadTimesOut ==
  /\ dphase = "read"
  /\ \/ stdout = <<>> /\ UNCHANGED stdout
     \/ stdout # <<>> /\ stdout' = <<Garbage>> \o Tail(stdout)
  /\ dirty' = TRUE
  /\ \E d \in current : ServeError(d, "CommunicationTimeout")
  /\ UNCHANGED <<dmode, dry, tries, launched, live, stdin, inbox, open>>

\* recv_from fails: the daemon returns and leaves the helper behind.
ReceiveFails ==
  /\ dphase = "recv"
  /\ dphase' = "lost"
  /\ UNCHANGED <<dmode, dry, tries, launched, live, stdin, stdout, current,
                 dirty, inbox, open, replies, launch, auth>>

--------------------------------------------------------------------------------
(***************************************************************************)
(* The helper's side of the pipe (external).                               *)
(***************************************************************************)

\* The current helper reads the next frame and answers it.
HelperAnswers(data, body) ==
  /\ CurrentLives /\ stdin # <<>>
  /\ stdin' = Tail(stdin)
  /\ stdout' = Append(stdout, [to |-> Head(stdin), data |-> data,
                               body |-> body])
  /\ UNCHANGED <<dmode, dry, dphase, tries, launched, live, current, dirty,
                 inbox, open, replies, launch, auth>>

HelperExits ==
  /\ CurrentLives
  /\ live' = live \ {launched}
  /\ UNCHANGED <<dmode, dry, dphase, tries, launched, stdin, stdout, current,
                 dirty, inbox, open, replies, launch, auth>>

ServeStep ==
  \/ WriteFrame \/ WriteFails \/ ReadFrame \/ ReadBadLength \/ ReadEof \/ ReadTimesOut

DaemonStep ==
  \/ GiveUp \/ NoManifest \/ SpawnFails \/ Spawn \/ ProbeOk \/ ProbeFails
  \/ StaysAlive \/ StartFails \/ StartServing
  \/ \E d \in inbox : Receive(d)
  \/ ServeStep
  \/ ReceiveFails

--------------------------------------------------------------------------------
(***************************************************************************)
(* Properties.                                                             *)
(***************************************************************************)

\* The daemon never has two helpers, and a start-up that fails or a dry run
\* leaves none behind: every backend that is tried is killed and reaped
\* before the next one or the exit (probe_helper_launch, terminate_helper).
OneHelper ==
  /\ Cardinality(live) <= 1
  /\ dphase = "stopped" => live = {}

\* Every datagram the daemon takes is answered, also when the helper is
\* silent or dies, unless the helper has stopped draining its stdin:
\* write_frame is outside the timeout.
DaemonAnswers ==
  dphase \in {"write", "read"} ~> (dphase = "recv" \/ Len(stdin) = PipeCap)
================================================================================
