----------------------------- MODULE BridgeDaemon -----------------------------
(***************************************************************************)
(* The v1.x daemon in browser and in native mode (daemon.rs): clients send *)
(* UDP datagrams that one task serves one after the other; each request is *)
(* forwarded to a peer (the browser extension over a WebSocket, or the     *)
(* native host over a UNIX socket) by a handler task per connection.  The  *)
(* tasks share BridgeState under a mutex.  What is done under one lock is  *)
(* one step; the configuration is written after the lock is released, and  *)
(* other commands of the user save and remove the same file.               *)
(*                                                                         *)
(* The peers are external: they may connect, answer what they were sent    *)
(* (late, twice, or never), report a status, send rubbish and vanish.      *)
(***************************************************************************)
EXTENDS Naturals, Sequences, FiniteSets, HelperWire

CONSTANTS
  Requests,   \* the datagrams clients send
  MaxConns,   \* bound: how many connections the peers open
  Bodies,     \* the JSON values a peer puts into an answer
  Commands,   \* other processes that save to config.json
  SavingModes \* bound: the daemon's modes in which they are considered

ASSUME BridgeAssumption == MaxConns \in Nat /\ Bodies \subseteq JsonBodies

Conns == 1..MaxConns
NoConn == 0
NoAnswer == [code |-> "none", of |-> {}]

VARIABLES
  mode,       \* RuntimeMode: "browser" or "native"
  phase,      \* the UDP task: boot, attachWait, recv, await, stopped
  accepting,  \* the accept loop runs
  seqno,      \* BRIDGE_REQUEST_SEQUENCE: the last id given out
  snapshot,   \* BridgeState.snapshot: its status
  active,     \* active_connection_id; transport is its channel
  pending,    \* BridgeState.pending: ids and whose oneshot sender waits
  serving,    \* the call the UDP task waits for (a set of at most one)
  result,     \* what its oneshot channel holds (a set of at most one)
  handler,    \* per connection: the position of its task and its locals
  outbound,   \* per connection: the mpsc channel of requests to its peer
  seen,       \* per connection: the requests its peer has been sent
  file,       \* bridge_status in config.json
  unsaved,    \* the daemon's last write of it has failed (history)
  held,       \* per command: the bridge_status it has read and will save, and
              \* whether it read it after the daemon's last write
  spoiled,    \* since the daemon's last write config.json was removed, or an
              \* earlier bridge_status was written back (history)
  answer      \* what each client was sent

bridgeVars == <<mode, phase, accepting, seqno, snapshot, active, pending,
                serving, result, handler, outbound, seen, file, unsaved,
                held, spoiled, answer>>

diskVars == <<file, unsaved, held, spoiled>>

Calls == [id : Nat, req : Requests]
BridgeStatuses == {"waiting", "attached", "disconnected", "error"}
FileStatuses == BridgeStatuses \cup {"none"}
NoCopy == [status |-> "none", kind |-> "none"]
Results == [code : Statuses, of : SUBSET Requests]
Positions == {"none", "hello", "loop", "persist", "write", "closed"}

\* A handler that is not in the middle of mark_status or attach.
At(pc) == [pc |-> pc, then |-> pc, taken |-> {},
           copy |-> "waiting"]

\* The locals of a handler that has released the lock and has yet to persist
\* the snapshot, to fail the requests it took out, and to go on at then.
MustPersist(then, taken) == [At("persist") EXCEPT !.then = then,
                                                  !.taken = taken]

Running == phase \in {"attachWait", "recv", "await"}

BridgeInit ==
  /\ mode \in {"browser", "native"}
  /\ phase = "boot"
  /\ accepting = FALSE
  /\ seqno = 0
  /\ snapshot = "waiting"
  /\ active = NoConn
  /\ pending = {} /\ serving = {} /\ result = {}
  /\ handler = [c \in Conns |-> At("none")]
  /\ outbound = [c \in Conns |-> <<>>]
  /\ seen = [c \in Conns |-> {}]
  /\ file \in {"attached", "error"}
  /\ unsaved = FALSE
  /\ held = [p \in Commands |-> NoCopy]
  /\ spoiled = FALSE
  /\ answer = [r \in Requests |-> NoAnswer]

--------------------------------------------------------------------------------
(***************************************************************************)
(* Start-up: start_browser_daemon_inner and start_native_daemon_inner.     *)
(***************************************************************************)

\* A socket cannot be bound, the preflight fails, or the configuration
\* cannot be written.
BootFails ==
  /\ phase = "boot"
  /\ phase' = "stopped"
  /\ UNCHANGED <<mode, accepting, seqno, snapshot, active, pending, serving,
                 result, handler, outbound, seen, diskVars, answer>>

\* The daemon renames a configuration with the given bridge_status into place:
\* what commands have read of the file before is out of date.
WriteStatus(status) ==
  /\ file' = status
  /\ unsaved' = FALSE
  /\ held' = [p \in Commands |->
       IF held[p].kind = "fresh" THEN [held[p] EXCEPT !.kind = "old"] ELSE held[p]]
  /\ spoiled' = FALSE

\* persist_native_waiting, and its counterpart in browser mode.
PersistWaiting == WriteStatus("waiting")

\* The sockets are bound and "waiting" is on disk before anyone can attach.
\* A dry run ends here; otherwise the accept loop is spawned, and in native
\* mode the UDP task first waits for a native host.
Boot(dryRun) ==
  /\ phase = "boot"
  /\ PersistWaiting
  /\ phase' = IF dryRun THEN "stopped"
              ELSE IF mode = "browser" THEN "recv" ELSE "attachWait"
  /\ accepting' = ~dryRun
  /\ UNCHANGED <<mode, seqno, snapshot, active, pending, serving, result,
                 handler, outbound, seen, answer>>

\* The 50 ms poll of start_native_daemon_inner finds an attached host, or
\* gives up after 5 s (perhaps just after one attached): the accept loop is
\* aborted and the daemon exits.
AttachWaitEnds ==
  /\ phase = "attachWait"
  /\ \/ snapshot = "attached" /\ phase' = "recv"
     \/ phase' = "stopped"
  /\ accepting' = (phase' = "recv")
  /\ UNCHANGED <<mode, seqno, snapshot, active, pending, serving, result,
                 handler, outbound, seen, diskVars, answer>>

--------------------------------------------------------------------------------
(***************************************************************************)
(* BrowserBridge: the operations on the shared state.                      *)
(***************************************************************************)

\* fail_pending: every oneshot sender of calls gets an error; only the one
\* the UDP task waits for still has a receiver.
FailPending(calls) ==
  result' = IF serving \cap calls # {}
            THEN {[code |-> "ProcessNotRunning", of |-> {}]} ELSE result

\* Mutant: attach keeps the requests that wait for the old connection.
AttachKeepsPending(c) ==
  /\ active' = c
  /\ snapshot' = "attached"
  /\ UNCHANGED <<pending, result>>
  /\ handler' = [handler EXCEPT ![c] = MustPersist("loop", {})]

\* attach: the connection becomes the active one, whatever was active
\* before, and the requests sent to its predecessor fail at once.
Attach(c) ==
  /\ active' = c
  /\ snapshot' = "attached"
  /\ pending' = {}
  /\ FailPending(pending)
  /\ handler' = [handler EXCEPT ![c] = MustPersist("loop", {})]

\* Mutant: mark_status does not compare the connection with the active one.
MarkAnyone(c, status, then) ==
  /\ active' = NoConn
  /\ pending' = {}
  /\ snapshot' = status
  /\ handler' = [handler EXCEPT ![c] = MustPersist(then, pending)]

\* Mutant: mark_status copies the snapshot for the file before it changes it.
MarkCopiesFirst(c, status, then) ==
  IF active = c
  THEN /\ active' = NoConn
       /\ pending' = {}
       /\ snapshot' = status
       /\ handler' = [handler EXCEPT
            ![c] = [MustPersist(then, pending) EXCEPT !.pc = "write",
                                                      !.copy = snapshot]]
  ELSE /\ handler' = [handler EXCEPT ![c] = At(then)]
       /\ UNCHANGED <<active, pending, snapshot>>

\* mark_status, as mark_error and mark_disconnected use it: only the active
\* connection changes anything; it takes the pending requests out, persists
\* and then fails them (the step Persisted).
Mark(c, status, then) ==
  IF active = c
  THEN /\ active' = NoConn
       /\ pending' = {}
       /\ snapshot' = status
       /\ handler' = [handler EXCEPT ![c] = MustPersist(then, pending)]
  ELSE /\ handler' = [handler EXCEPT ![c] = At(then)]
       /\ UNCHANGED <<active, pending, snapshot>>

\* persist_snapshot, first half: copy the snapshot under the lock.
PersistCopy(c) ==
  /\ Running /\ handler[c].pc = "persist"
  /\ handler' = [handler EXCEPT ![c].pc = "write", ![c].copy = snapshot]
  /\ UNCHANGED <<mode, phase, accepting, seqno, snapshot, active, pending,
                 serving, result, outbound, seen, diskVars, answer>>

\* persist_snapshot, second half: write the copy (a failure is only
\* logged); then fail_pending for what mark_status took out.
Persisted(c) ==
  /\ Running /\ handler[c].pc = "write"
  /\ \/ WriteStatus(handler[c].copy)
     \/ unsaved' = TRUE /\ UNCHANGED <<file, held, spoiled>>
  /\ FailPending(handler[c].taken)
  /\ handler' = [handler EXCEPT ![c] = At(handler[c].then)]
  /\ UNCHANGED <<mode, phase, accepting, seqno, snapshot, active, pending,
                 serving, outbound, seen, answer>>

--------------------------------------------------------------------------------
(***************************************************************************)
(* The connections: run_browser_bridge_accept_loop with                    *)
(* handle_browser_bridge_connection (a task per WebSocket), and            *)
(* run_native_host_accept_loop (one connection at a time).                 *)
(***************************************************************************)

\* A peer connects.  The native accept loop comes back to accept only when
\* the previous connection has ended.  The WebSocket handshake or the check
\* of the peer's user may fail.
Accept(c) ==
  /\ Running /\ accepting
  /\ handler[c].pc = "none"
  /\ \A d \in Conns : d < c => handler[d].pc # "none"
  /\ mode = "native" => \A d \in Conns : handler[d].pc \in {"none", "closed"}
  /\ \E pc \in {"hello", "closed"} :
       handler' = [handler EXCEPT ![c] = At(pc)]
  /\ UNCHANGED <<mode, phase, accepting, seqno, snapshot, active, pending,
                 serving, result, outbound, seen, diskVars, answer>>

\* accept itself fails: the browser loop ends for good (the native loop
\* logs and tries again, which changes nothing).
AcceptFails ==
  /\ Running /\ accepting /\ mode = "browser"
  /\ accepting' = FALSE
  /\ UNCHANGED <<mode, phase, seqno, snapshot, active, pending, serving,
                 result, handler, outbound, seen, diskVars, answer>>

\* No hello: 5 s pass, the stream ends, or the frame cannot be decoded.
HelloFails(c) ==
  /\ Running /\ handler[c].pc = "hello"
  /\ handler' = [handler EXCEPT ![c] = At("closed")]
  /\ UNCHANGED <<mode, phase, accepting, seqno, snapshot, active, pending,
                 serving, result, outbound, seen, diskVars, answer>>

\* The first message is not a hello: the browser handler calls mark_error,
\* which a connection that never attached does not pass; both then drop it.
HelloIsOther(c) ==
  /\ Running /\ handler[c].pc = "hello" /\ mode = "browser"
  /\ Mark(c, "error", "closed")
  /\ UNCHANGED <<mode, phase, accepting, seqno, serving, result, outbound,
                 seen, diskVars, answer>>

Hello(c) ==
  /\ Running /\ handler[c].pc = "hello"
  /\ Attach(c)
  /\ UNCHANGED <<mode, phase, accepting, seqno, serving, outbound, seen,
                 diskVars, answer>>

\* The outbound arm of select!: the head of the channel goes to the peer.
SendOutbound(c) ==
  /\ Running /\ handler[c].pc = "loop" /\ outbound[c] # <<>>
  /\ outbound' = [outbound EXCEPT ![c] = Tail(@)]
  /\ seen' = [seen EXCEPT ![c] = @ \cup {Head(outbound[c])}]
  /\ UNCHANGED <<mode, phase, accepting, seqno, snapshot, active, pending,
                 serving, result, handler, diskVars, answer>>

\* The browser handler returns through "?": nothing is marked, and the status
\* stays as it was.
DropConnection(c) ==
  /\ handler' = [handler EXCEPT ![c] = At("closed")]
  /\ UNCHANGED <<active, pending, snapshot>>

\* A write to the extension fails.
SendFails(c) ==
  /\ Running /\ mode = "browser"
  /\ handler[c].pc = "loop" /\ outbound[c] # <<>>
  /\ outbound' = [outbound EXCEPT ![c] = Tail(@)]
  /\ DropConnection(c)
  /\ UNCHANGED <<mode, phase, accepting, seqno, serving, result, seen,
                 diskVars, answer>>

\* write_native_host_frame fails (or the frame is too large for it): the
\* native loop marks the host disconnected.
WriteNativeFails(c) ==
  /\ Running /\ mode = "native"
  /\ handler[c].pc = "loop" /\ outbound[c] # <<>>
  /\ outbound' = [outbound EXCEPT ![c] = Tail(@)]
  /\ Mark(c, "disconnected", "closed")
  /\ UNCHANGED <<mode, phase, accepting, seqno, serving, result, seen,
                 diskVars, answer>>

\* The sender of the channel is gone (this connection was replaced or marked
\* itself down) and the channel is drained: the browser handler returns.
OutboundClosed(c) ==
  /\ Running /\ mode = "browser"
  /\ handler[c].pc = "loop" /\ outbound[c] = <<>> /\ active # c
  /\ handler' = [handler EXCEPT ![c] = At("closed")]
  /\ UNCHANGED <<mode, phase, accepting, seqno, snapshot, active, pending,
                 serving, result, outbound, seen, diskVars, answer>>

\* The extension closes the connection.
PeerGone(c) ==
  /\ Running /\ handler[c].pc = "loop" /\ mode = "browser"
  /\ Mark(c, "disconnected", "closed")
  /\ UNCHANGED <<mode, phase, accepting, seqno, serving, result, outbound,
                 seen, diskVars, answer>>

\* A receive error, or a message that cannot be decoded (a ping, too).
PeerFault(c) ==
  /\ Running /\ handler[c].pc = "loop" /\ mode = "browser"
  /\ DropConnection(c)
  /\ UNCHANGED <<mode, phase, accepting, seqno, serving, result, outbound,
                 seen, diskVars, answer>>

\* read_native_host_frame fails: the host has closed its end, perhaps in the
\* middle of a frame, the length is zero or too large, or a read fails.
ReadNativeFails(c) ==
  /\ Running /\ handler[c].pc = "loop" /\ mode = "native"
  /\ Mark(c, "disconnected", "closed")
  /\ UNCHANGED <<mode, phase, accepting, seqno, serving, result, outbound,
                 seen, diskVars, answer>>

\* The host's frame is not one of its messages.
NativeMalformed(c) ==
  /\ Running /\ handler[c].pc = "loop" /\ mode = "native"
  /\ Mark(c, "error", "closed")
  /\ UNCHANGED <<mode, phase, accepting, seqno, serving, result, outbound,
                 seen, diskVars, answer>>

\* The peer reports that it is in error or disconnected.  The native loop
\* then breaks, the browser handler stays in its loop.
PeerStatus(c) ==
  /\ Running /\ handler[c].pc = "loop"
  /\ \E status \in {"error", "disconnected"} :
       Mark(c, status, IF mode = "native" THEN "closed" ELSE "loop")
  /\ UNCHANGED <<mode, phase, accepting, seqno, serving, result, outbound,
                 seen, diskVars, answer>>

\* The peer reports "attached": the browser handler writes that status
\* without asking whether its connection is the active one.
PeerSaysAttached(c) ==
  /\ Running /\ handler[c].pc = "loop" /\ mode = "browser"
  /\ handler' = [handler EXCEPT
       ![c] = [At("write") EXCEPT
                 !.then = "loop",
                 !.copy = "attached"]]
  /\ UNCHANGED <<mode, phase, accepting, seqno, snapshot, active, pending,
                 serving, result, outbound, seen, diskVars, answer>>

\* What a response message of the peer about the call m means to the
\* requester: its payload, a missing payload (an error, or in native mode
\* JSON null, which parse_helper_response_shape refuses), or an error.
Responses(m) ==
  {[code |-> HelperCode(b), of |-> IF HelperOk(b) THEN {m.req} ELSE {}] :
      b \in Bodies}
    \cup {[code |-> code, of |-> {}] :
            code \in {"ProtoInvalidResponse", "GenericError"}}

\* complete_response: the sender registered under the id gets the answer if
\* its receiver still waits; an unknown id is ignored.
Respond(c) ==
  /\ Running /\ handler[c].pc = "loop"
  /\ \E m \in seen[c] : \E response \in Responses(m) :
       /\ pending' = {e \in pending : e.id # m.id}
       /\ result' = IF \E e \in pending : e.id = m.id /\ e \in serving
                    THEN {response} ELSE result
  /\ UNCHANGED <<mode, phase, accepting, seqno, snapshot, active, serving,
                 handler, outbound, seen, diskVars, answer>>

--------------------------------------------------------------------------------
(***************************************************************************)
(* The UDP task.                                                           *)
(***************************************************************************)

\* The daemon's answer to the client, as the client reads it; which error it
\* is makes no difference here.
Reply(r, code, of) ==
  answer' = [answer EXCEPT
    ![r] = IF ParseResponseEnvelope(Envelope(code, of # {})) = "Success"
           THEN [code |-> "Success", of |-> of]
           ELSE [code |-> "failure", of |-> {}]]

\* A datagram that is too large or is not JSON.
RejectRequest(r) ==
  /\ phase = "recv" /\ answer[r] = NoAnswer
  /\ \E code \in {"InvalidParam", "InvalidMessageFormat"} : Reply(r, code, {})
  /\ UNCHANGED <<mode, phase, accepting, seqno, snapshot, active, pending,
                 serving, result, handler, outbound, seen, diskVars>>

\* The channel of the active connection accepts messages as long as its
\* handler has not returned.
ChannelOpen == active # NoConn /\ handler[active].pc # "closed"

\* enqueue_request when nobody is attached, or when the handler is gone (the
\* entry put into pending is taken out again).  The id is used up.
RefuseRequest(r) ==
  /\ phase = "recv" /\ answer[r] = NoAnswer
  /\ ~ChannelOpen
  /\ seqno' = seqno + 1
  /\ Reply(r, "ProcessNotRunning", {})
  /\ UNCHANGED <<mode, phase, accepting, snapshot, active, pending, serving,
                 result, handler, outbound, seen, diskVars>>

\* Mutant: the sequence number of the request is not advanced.
EnqueueSameId(r) ==
  LET call == [id |-> seqno, req |-> r] IN
    /\ phase = "recv" /\ answer[r] = NoAnswer
    /\ ChannelOpen
    /\ pending' = pending \cup {call}
    /\ outbound' = [outbound EXCEPT ![active] = Append(@, call)]
    /\ serving' = {call}
    /\ result' = {}
    /\ phase' = "await"
    /\ UNCHANGED <<mode, accepting, seqno, snapshot, active, handler, seen,
                   diskVars, answer>>

\* enqueue_request: register the sender and put the request on the channel
\* under one lock, then wait.
Enqueue(r) ==
  LET call == [id |-> seqno + 1, req |-> r] IN
    /\ phase = "recv" /\ answer[r] = NoAnswer
    /\ ChannelOpen
    /\ seqno' = seqno + 1
    /\ pending' = pending \cup {call}
    /\ outbound' = [outbound EXCEPT ![active] = Append(@, call)]
    /\ serving' = {call}
    /\ result' = {}
    /\ phase' = "await"
    /\ UNCHANGED <<mode, accepting, snapshot, active, handler, seen,
                   diskVars, answer>>

\* The oneshot channel holds a result: it becomes the client's envelope.
Answered ==
  /\ phase = "await"
  /\ \E call \in serving, res \in result : Reply(call.req, res.code, res.of)
  /\ phase' = "recv"
  /\ serving' = {} /\ result' = {}
  /\ UNCHANGED <<mode, accepting, seqno, snapshot, active, pending, handler,
                 outbound, seen, diskVars>>

\* Mutant: enqueue_request waits for the receiver without a timeout.
NeverTimesOut ==
  /\ phase = "await" /\ FALSE
  /\ UNCHANGED bridgeVars

\* 30 s without a result: the client is told, the entry stays in pending.
TimesOut ==
  /\ phase = "await" /\ result = {}
  /\ \E call \in serving : Reply(call.req, "CommunicationTimeout", {})
  /\ phase' = "recv"
  /\ serving' = {}
  /\ UNCHANGED <<mode, accepting, seqno, snapshot, active, pending, result,
                 handler, outbound, seen, diskVars>>

\* recv_from fails: the daemon exits.
RecvFails ==
  /\ phase = "recv"
  /\ phase' = "stopped"
  /\ UNCHANGED <<mode, accepting, seqno, snapshot, active, pending, serving,
                 result, handler, outbound, seen, diskVars, answer>>

--------------------------------------------------------------------------------
(***************************************************************************)
(* The other commands on config.json, while the daemon is up.              *)
(***************************************************************************)

otherVars == <<mode, phase, accepting, seqno, snapshot, active, pending, serving,
               result, handler, outbound, seen, unsaved, answer>>

\* write_config of verify_challenge, first half: it reads the existing file,
\* whose bridge_status it keeps.
CommandReads(p) ==
  /\ mode \in SavingModes /\ phase # "stopped" /\ held[p] = NoCopy
  /\ held' = [held EXCEPT ![p] = [status |-> file, kind |-> "fresh"]]
  /\ UNCHANGED <<file, spoiled, otherVars>>

\* Second half: it renames its file over config.json, or fails or is killed.
CommandSaves(p) ==
  /\ mode \in SavingModes /\ phase # "stopped" /\ held[p] # NoCopy
  /\ \/ /\ file' = held[p].status
        /\ spoiled' = (spoiled \/ held[p].kind = "old")
     \/ UNCHANGED <<file, spoiled>>
  /\ held' = [held EXCEPT ![p] = NoCopy]
  /\ UNCHANGED otherVars

\* clear_config: a logout, or a read that finds the session stale.
CommandClears ==
  /\ mode \in SavingModes /\ phase # "stopped"
  /\ file' = "none"
  /\ spoiled' = TRUE
  /\ UNCHANGED <<held, otherVars>>

HandlerStep(c) ==
  \/ PersistCopy(c) \/ Persisted(c)
  \/ Accept(c) \/ HelloFails(c) \/ HelloIsOther(c) \/ Hello(c)
  \/ SendOutbound(c) \/ SendFails(c) \/ OutboundClosed(c)
  \/ PeerGone(c) \/ PeerFault(c)
  \/ WriteNativeFails(c) \/ ReadNativeFails(c) \/ NativeMalformed(c)
  \/ PeerStatus(c) \/ PeerSaysAttached(c)
  \/ Respond(c)

CommandStep ==
  \/ \E p \in Commands : CommandReads(p) \/ CommandSaves(p)
  \/ CommandClears

BridgeNext ==
  \/ BootFails
  \/ \E dryRun \in BOOLEAN : Boot(dryRun)
  \/ AttachWaitEnds
  \/ AcceptFails
  \/ \E c \in Conns : HandlerStep(c)
  \/ \E r \in Requests : RejectRequest(r) \/ RefuseRequest(r) \/ Enqueue(r)
  \/ Answered \/ TimesOut
  \/ RecvFails
  \/ CommandStep

BridgeSpec == BridgeInit /\ [][BridgeNext]_bridgeVars

\* The UDP task runs on, and its timer fires; nothing is assumed of the peers.
BridgeFairSpec == BridgeSpec /\ WF_bridgeVars(Answered \/ TimesOut)

--------------------------------------------------------------------------------
(***************************************************************************)
(* Properties.                                                             *)
(***************************************************************************)

BridgeTypeOK ==
  /\ mode \in {"browser", "native"}
  /\ phase \in {"boot", "attachWait", "recv", "await", "stopped"}
  /\ accepting \in BOOLEAN
  /\ seqno \in Nat
  /\ snapshot \in BridgeStatuses
  /\ active \in Conns \cup {NoConn}
  /\ pending \subseteq Calls
  /\ serving \subseteq Calls
  /\ result \subseteq Results
  /\ handler \in [Conns -> [pc : Positions, then : Positions,
                            taken : SUBSET Calls, copy : BridgeStatuses]]
  /\ outbound \in [Conns -> Seq(Calls)]
  /\ seen \in [Conns -> SUBSET Calls]
  /\ file \in FileStatuses
  /\ unsaved \in BOOLEAN
  /\ held \in [Commands -> [status : FileStatuses, kind : {"none", "fresh", "old"}]]
  /\ spoiled \in BOOLEAN
  /\ answer \in [Requests -> [code : {"none", "failure", "Success"},
                              of : SUBSET Requests]]

\* A client that is told "success" gets the peer's answer to its own
\* request, although answers may come after the 30 s timeout, twice, or over
\* a connection that has been replaced (enqueue_request, complete_response).
OwnAnswer ==
  \A r \in Requests : answer[r].code = "Success" => answer[r].of = {r}

\* Whoever waits, waits for the connection that is attached: every pending
\* request went to the active connection, so no request waits for a peer
\* that was replaced or reported down (attach, mark_status).
PendingOnActive ==
  /\ (snapshot = "attached") <=> (active # NoConn)
  /\ pending # {} => /\ active # NoConn
                     /\ \A e \in pending :
                          \/ e \in seen[active]
                          \/ \E i \in DOMAIN outbound[active] :
                               outbound[active][i] = e
                          \/ handler[active].pc = "closed"

\* Only the attached connection detaches itself: the late close or error of
\* a replaced connection leaves its successor alone (the guard of
\* mark_status).
OnlyActiveDetaches ==
  [][active # NoConn /\ active' = NoConn => handler'[active] # handler[active]
    ]_bridgeVars

\* In native mode, where connections come one after the other, the
\* configuration says what the daemon knows whenever no handler is on its way
\* to write it, its last write did not fail, and after that write nobody
\* removed the file or saved one he had read before it.  A command that reads
\* after the daemon's write and saves does no harm.  `apw status` and the
\* client's checks read that file.
NativeStatusOnDisk ==
  /\ mode = "native" /\ Running /\ ~unsaved /\ ~spoiled
  /\ \A c \in Conns : handler[c].pc \notin {"persist", "write"}
  => file = snapshot

\* Every request the daemon accepts is answered, whatever the peers do.
RequestAnswered ==
  \A r \in Requests :
    (\E call \in serving : call.req = r) ~> (answer[r] # NoAnswer)
================================================================================
