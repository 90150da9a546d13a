------------------------------ MODULE BrokerIPC ------------------------------
(***************************************************************************)
(* A credential request of the APW v2 CLI, end to end: send_request over   *)
(* the broker socket, the sequential exchange of BrokerServer.run, the     *)
(* user's approval (the AuthenticationServices picker, or the APW_DEMO     *)
(* alert), the direct execution of the app when the socket is not usable,  *)
(* and the external fallback of native_app_login.                          *)
(*                                                                         *)
(* The socket itself is BrokerSocket: every step of this module is one of  *)
(* that module's steps or leaves its variables alone.  Time is abstracted: *)
(* a timeout may fire whenever its owner waits.  A request is handled by   *)
(* one process, host[c]: a broker, or c itself, which stands for the       *)
(* one-shot `APW request` child the CLI of c runs.                         *)
(***************************************************************************)
EXTENDS BrokerSocket

CONSTANTS
  ConnectRetries,  \* CONNECT_RETRIES
  OptIn,           \* clients whose logins are made with --external-fallback
  StatusClients,   \* clients whose command may be `apw status`
  DemoHosts        \* processes whose environment has APW_DEMO=1

ASSUME RetriesAssumption == ConnectRetries \in Nat \ {0}

ASSUME RolesAssumption ==
  /\ OptIn \subseteq Clients
  /\ StatusClients \subseteq Clients
  /\ DemoHosts \subseteq Brokers \cup Clients

VARIABLES
  statuses,  \* clients whose command is `apw status`; the others login or fill
  pc,        \* control state of each CLI request
  tries,     \* failed connect attempts
  host,      \* process that handles the request
  sent,      \* what the CLI wrote: nothing, part of the request, all of it
  req,       \* the request at its host
  answer,    \* the host's answer
  picker,    \* the prompt shown to the user for this request
  decision,  \* what the user answered
  asked,     \* how many prompts this request has caused
  result     \* what native_app_request, then the command, returned

requestVars ==
  <<statuses, pc, tries, host, sent, req, answer, picker, decision, asked, result>>

ipcVars == <<socketVars, requestVars>>

PcStates == {"start", "connect", "write", "read", "direct", "exec",
             "fallback", "probe", "done"}

ReqStates == {"none", "queued", "accepted", "dispatch", "prompt",
              "answered", "replied", "over"}

\* Envelopes of the app: an approved credential, a status payload, or an error
\* code; "throw" is an error that escapes dispatch.
Answers == {"none", "credential", "status", "generic", "noresults", "proto", "throw"}

\* Outcomes of a command, named after Status (types.rs); "external" is a
\* credential of the external provider.
Results == {"none", "credential", "external", "status", "generic", "noresults",
            "notrunning", "timeout", "proto", "config"}

\* The CLI still holds its end of the connection to b.
Open(c, b) == host[c] = b /\ pc[c] \in {"write", "read"}

-----------------------------------------------------------------------------
IPCInit ==
  /\ SocketInit
  /\ statuses \in SUBSET StatusClients
  /\ pc = [c \in Clients |-> "start"]
  /\ tries = [c \in Clients |-> 0]
  /\ host = [c \in Clients |-> NoOne]
  /\ sent = [c \in Clients |-> "none"]
  /\ req = [c \in Clients |-> "none"]
  /\ answer = [c \in Clients |-> "none"]
  /\ picker = [c \in Clients |-> "none"]
  /\ decision = [c \in Clients |-> "none"]
  /\ asked = [c \in Clients |-> 0]
  /\ result = [c \in Clients |-> "none"]

\* Mutant: every error of the native request reaches the external provider.
ReturnAnyError(c, r) ==
  /\ result' = [result EXCEPT ![c] = r]
  /\ pc' = [pc EXCEPT ![c] =
       IF c \in statuses THEN "probe"
       ELSE IF c \in OptIn /\ r # "credential" THEN "fallback" ELSE "done"]

\* native_app_request returns r: a login that found nothing, or no app to ask,
\* goes to the external provider if the caller opted in; a status command goes
\* on to probe the socket.
Return(c, r) ==
  /\ result' = [result EXCEPT ![c] = r]
  /\ pc' = [pc EXCEPT ![c] =
       IF c \in statuses THEN "probe"
       ELSE IF c \in OptIn /\ r \in {"noresults", "notrunning"} THEN "fallback" ELSE "done"]

(***************************************************************************)
(* send_request.                                                           *)
(***************************************************************************)

\* The path must exist, be a socket of this user and have mode 0600.
ClientCheck(c) ==
  /\ pc[c] = "start"
  /\ pc' = [pc EXCEPT ![c] = IF SafeToConnect THEN "connect" ELSE "direct"]
  /\ UNCHANGED <<socketVars, tries, host, sent, req, answer, picker, decision,
                 asked, result>>

ClientConnect(c) ==
  /\ pc[c] = "connect"
  /\ \E b \in Brokers : /\ Connect(b, c)
                        /\ host' = [host EXCEPT ![c] = b]
  /\ req' = [req EXCEPT ![c] = "queued"]
  /\ pc' = [pc EXCEPT ![c] = "write"]
  /\ UNCHANGED <<tries, sent, answer, picker, decision, asked, result>>

\* Refused, or no file any more; after the last attempt the app is run directly.
ClientConnectFails(c) ==
  /\ pc[c] = "connect"
  /\ ~ \E b \in Brokers : CanConnect(b)
  /\ tries' = [tries EXCEPT ![c] = @ + 1]
  /\ pc' = [pc EXCEPT ![c] = IF tries[c] + 1 >= ConnectRetries THEN "direct" ELSE @]
  /\ UNCHANGED <<socketVars, host, sent, req, answer, picker, decision, asked,
                 result>>

\* The encoded request exceeds MAX_BROKER_BYTES: the stream is dropped unused.
ClientRequestTooLarge(c) ==
  /\ pc[c] = "write"
  /\ Return(c, "proto")
  /\ UNCHANGED <<socketVars, tries, host, sent, req, answer, picker, decision,
                 asked>>

ClientWrite(c) ==
  /\ pc[c] = "write"
  /\ stage[host[c]] # "crashed"
  /\ sent' = [sent EXCEPT ![c] = "full"]
  /\ pc' = [pc EXCEPT ![c] = "read"]
  /\ UNCHANGED <<socketVars, tries, host, req, answer, picker, decision, asked,
                 result>>

\* The broker is gone, or did not drain the socket within the write timeout.
ClientWriteFails(c) ==
  /\ pc[c] = "write"
  /\ \E s \in {"none", "part"} : sent' = [sent EXCEPT ![c] = s]
  /\ Return(c, "timeout")
  /\ UNCHANGED <<socketVars, tries, host, req, answer, picker, decision, asked>>

\* Mutant: the error of a request that threw is not given a Status.
ClientReadRaw(c) ==
  /\ pc[c] = "read"
  /\ req[c] = "replied"
  /\ Return(c, answer[c])
  /\ UNCHANGED <<socketVars, tries, host, sent, req, answer, picker, decision,
                 asked>>

\* parse_response: a payload, or the Status of the error code; or a response
\* that is too large, or is not JSON.
ClientRead(c) ==
  /\ pc[c] = "read"
  /\ req[c] = "replied"
  /\ \/ Return(c, IF answer[c] = "throw" THEN "generic" ELSE answer[c])
     \/ Return(c, "proto")
  /\ UNCHANGED <<socketVars, tries, host, sent, req, answer, picker, decision,
                 asked>>

\* Mutant: a request that was not answered in time is run directly.
ClientReadRunsDirectly(c) ==
  /\ pc[c] = "read"
  /\ req[c] # "replied"
  /\ pc' = [pc EXCEPT ![c] = "direct"]
  /\ UNCHANGED <<socketVars, tries, host, sent, req, answer, picker, decision,
                 asked, result>>

\* Mutant: a request that was not answered in time is sent again.
ClientReadReconnects(c) ==
  /\ pc[c] = "read"
  /\ req[c] # "replied"
  /\ pc' = [pc EXCEPT ![c] = "connect"]
  /\ UNCHANGED <<socketVars, tries, host, sent, req, answer, picker, decision,
                 asked, result>>

\* Mutant: the stream has no read timeout.
ClientReadWaits(c) ==
  /\ pc[c] = "read"
  /\ req[c] # "replied"
  /\ stage[host[c]] = "crashed"
  /\ Return(c, "timeout")
  /\ UNCHANGED <<socketVars, tries, host, sent, req, answer, picker, decision,
                 asked>>

\* The read timeout fires or the connection is reset.
ClientReadFails(c) ==
  /\ pc[c] = "read"
  /\ req[c] # "replied"
  /\ Return(c, "timeout")
  /\ UNCHANGED <<socketVars, tries, host, sent, req, answer, picker, decision,
                 asked>>

\* The broker died and the stream ends: the empty response is not JSON.
ClientReadEof(c) ==
  /\ pc[c] = "read"
  /\ req[c] # "replied"
  /\ stage[host[c]] = "crashed"
  /\ Return(c, "proto")
  /\ UNCHANGED <<socketVars, tries, host, sent, req, answer, picker, decision,
                 asked>>

(***************************************************************************)
(* send_request_via_executable: `APW request <command>` under a 5 s limit. *)
(***************************************************************************)
DirectSpawn(c) ==
  /\ pc[c] = "direct"
  /\ bundle # "absent"
  /\ host' = [host EXCEPT ![c] = c]
  /\ req' = [req EXCEPT ![c] = "dispatch"]
  /\ pc' = [pc EXCEPT ![c] = "exec"]
  /\ UNCHANGED <<socketVars, tries, sent, answer, picker, decision, asked, result>>

\* No bundle, or its executable cannot be run; a half-copied executable may
\* also start and die without printing an envelope.
DirectSpawnFails(c) ==
  /\ pc[c] = "direct"
  /\ \E r \in {"notrunning"} \cup (IF bundle = "partial" THEN {"proto"} ELSE {}) :
       Return(c, r)
  /\ UNCHANGED <<socketVars, tries, host, sent, req, answer, picker, decision,
                 asked>>

\* The child printed its envelope and exited, or threw and printed nothing; what
\* it printed may be too large ("proto") or its pipe fail ("timeout").
DirectFinish(c) ==
  /\ pc[c] = "exec"
  /\ req[c] = "answered"
  /\ \/ Return(c, IF answer[c] = "throw" THEN "proto" ELSE answer[c])
     \/ \E r \in {"proto", "timeout"} : Return(c, r)
  /\ req' = [req EXCEPT ![c] = "over"]
  /\ picker' = [picker EXCEPT ![c] = "none"]
  /\ UNCHANGED <<socketVars, tries, host, sent, answer, decision, asked>>

\* run_bounded_command kills the process group, prompt included.
DirectTimeout(c) ==
  /\ pc[c] = "exec"
  /\ Return(c, "timeout")
  /\ req' = [req EXCEPT ![c] = "over"]
  /\ picker' = [picker EXCEPT ![c] = "none"]
  /\ UNCHANGED <<socketVars, tries, host, sent, answer, decision, asked>>

\* try_wait fails: the CLI gives up and the child goes on, prompt included.
DirectPollFails(c) ==
  /\ pc[c] = "exec"
  /\ Return(c, "timeout")
  /\ UNCHANGED <<socketVars, tries, host, sent, req, answer, picker, decision,
                 asked>>

(***************************************************************************)
(* After the request: native_app_login's fallback and native_app_status's  *)
(* probe.                                                                  *)
(***************************************************************************)

\* external_provider_login: a credential, an error of its own, or (with no
\* provider configured) the error of the native request again.
ExternalFallback(c) ==
  /\ pc[c] = "fallback"
  /\ \E r \in {"external", "config", "generic", "timeout", "proto",
               "noresults", "notrunning"} :
       result' = [result EXCEPT ![c] = r]
  /\ pc' = [pc EXCEPT ![c] = "done"]
  /\ UNCHANGED <<socketVars, tries, host, sent, req, answer, picker, decision,
                 asked>>

StatusProbe(c) ==
  /\ pc[c] = "probe"
  /\ \E up \in BOOLEAN : SocketRunning(up)
  /\ pc' = [pc EXCEPT ![c] = "done"]
  /\ UNCHANGED <<bundle, sockFile, sockSafe, stage, statusFile, busy, launch>>
  /\ UNCHANGED <<tries, host, sent, req, answer, picker, decision, asked, result>>

(***************************************************************************)
(* BrokerServer.run: one exchange.                                         *)
(***************************************************************************)
BrokerAccept(b) ==
  /\ Accept(b)
  /\ req' = [c \in Clients |-> IF c = busy'[b] THEN "accepted" ELSE req[c]]
  /\ UNCHANGED <<pc, tries, host, sent, answer, picker, decision, asked, result>>

\* getpeereid fails once the peer has closed.
BrokerRefusePeer(b) ==
  /\ RefusePeer(b)
  /\ \A c \in Clients : Head(backlog[b]) = c => ~ Open(c, b)
  /\ req' = [c \in Clients |-> IF c = Head(backlog[b]) THEN "over" ELSE req[c]]
  /\ UNCHANGED <<pc, tries, host, sent, answer, picker, decision, asked, result>>

\* handleRequest decodes a complete request; the peer may be gone by now.
BrokerRead(b, c) ==
  /\ busy[b] = c /\ req[c] = "accepted"
  /\ sent[c] = "full"
  /\ req' = [req EXCEPT ![c] = "dispatch"]
  /\ UNCHANGED <<socketVars, pc, tries, host, sent, answer, picker, decision,
                 asked, result>>

\* The request is empty or truncated (its peer closed), or does not arrive
\* within the receive timeout: handleRequest throws.
BrokerReadFails(b, c) ==
  /\ busy[b] = c /\ req[c] = "accepted"
  /\ sent[c] # "full"
  /\ req' = [req EXCEPT ![c] = "answered"]
  /\ answer' = [answer EXCEPT ![c] = "throw"]
  /\ UNCHANGED <<socketVars, pc, tries, host, sent, picker, decision, asked, result>>

\* The response is written and the connection closed.  Writing to a peer that
\* is gone fails, and the error is caught; or it raises SIGPIPE, see Crash.
BrokerReply(b, c) ==
  /\ busy[b] = c /\ req[c] = "answered"
  /\ Finish(b)
  /\ req' = [req EXCEPT ![c] = IF Open(c, b) THEN "replied" ELSE "over"]
  /\ UNCHANGED <<pc, tries, host, sent, answer, picker, decision, asked, result>>

\* A probe sent nothing: the error envelope goes to a closed connection.
BrokerEndProbe(b) ==
  /\ busy[b] = Probe
  /\ Finish(b)
  /\ UNCHANGED requestVars

\* The prompts of a broker disappear with it.
BrokerCrash(b) ==
  /\ Crash(b)
  /\ req' = [c \in Clients |->
       IF host[c] = b /\ req[c] # "replied" THEN "over" ELSE req[c]]
  /\ picker' = [c \in Clients |-> IF host[c] = b THEN "none" ELSE picker[c]]
  /\ UNCHANGED <<pc, tries, host, sent, answer, decision, asked, result>>

(***************************************************************************)
(* dispatch and credentialResponse, in the broker or the one-shot child.   *)
(***************************************************************************)

\* Answered without the user: status; a URL without a host; an app without a
\* credential source, or a host or credential the demo file does not have; and,
\* in demo mode, a credentials file that is missing, unreadable or not 0600.
DispatchAnswer(c) ==
  /\ req[c] = "dispatch"
  /\ \E a \in (IF c \in statuses THEN {"status"}
               ELSE IF host[c] \in DemoHosts THEN {"generic", "noresults", "throw"}
               ELSE {"generic", "noresults"}) :
       answer' = [answer EXCEPT ![c] = a]
  /\ req' = [req EXCEPT ![c] = "answered"]
  /\ UNCHANGED <<socketVars, pc, tries, host, sent, picker, decision, asked, result>>

\* The alert or the AuthenticationServices picker comes up for c.
DispatchPrompt(c) ==
  /\ req[c] = "dispatch"
  /\ c \notin statuses
  /\ req' = [req EXCEPT ![c] = "prompt"]
  /\ picker' = [picker EXCEPT ![c] = "up"]
  /\ asked' = [asked EXCEPT ![c] = @ + 1]
  /\ UNCHANGED <<socketVars, pc, tries, host, sent, answer, decision, result>>

\* Mutant: the user's answer is not looked at.
UserAlwaysApproves(c, d) ==
  /\ req[c] = "prompt"
  /\ decision' = [decision EXCEPT ![c] = d]
  /\ answer' = [answer EXCEPT ![c] = "credential"]
  /\ req' = [req EXCEPT ![c] = "answered"]
  /\ picker' = [picker EXCEPT ![c] = "none"]
  /\ UNCHANGED <<socketVars, pc, tries, host, sent, asked, result>>

\* The delegate's completion, or the alert's button, answers the request that
\* is waiting for it.
UserDecides(c, d) ==
  /\ req[c] = "prompt"
  /\ decision' = [decision EXCEPT ![c] = d]
  /\ answer' = [answer EXCEPT ![c] = IF d = "approved" THEN "credential" ELSE "generic"]
  /\ req' = [req EXCEPT ![c] = "answered"]
  /\ picker' = [picker EXCEPT ![c] = "none"]
  /\ UNCHANGED <<socketVars, pc, tries, host, sent, asked, result>>

\* AuthenticationServices ends with an error (brokerStatus(for:)).
PickerFails(c) ==
  /\ req[c] = "prompt"
  /\ host[c] \notin DemoHosts
  /\ \E a \in {"noresults", "proto", "generic"} :
       answer' = [answer EXCEPT ![c] = a]
  /\ req' = [req EXCEPT ![c] = "answered"]
  /\ picker' = [picker EXCEPT ![c] = "none"]
  /\ UNCHANGED <<socketVars, pc, tries, host, sent, decision, asked, result>>

\* Mutant: login waits for the picker however long it stays up.
PickerWaits(c) ==
  /\ req[c] = "prompt"
  /\ picker[c] = "stale"
  /\ UNCHANGED ipcVars

\* Mutant: a picker that timed out is reported like one that found nothing.
PickerTimesOutEmpty(c) ==
  /\ req[c] = "prompt"
  /\ host[c] \notin DemoHosts
  /\ answer' = [answer EXCEPT ![c] = "noresults"]
  /\ req' = [req EXCEPT ![c] = "answered"]
  /\ picker' = [picker EXCEPT ![c] = "stale"]
  /\ UNCHANGED <<socketVars, pc, tries, host, sent, decision, asked, result>>

\* login gives up after brokerRequestTimeoutMs; the picker stays on screen.
PickerTimesOut(c) ==
  /\ req[c] = "prompt"
  /\ host[c] \notin DemoHosts
  /\ answer' = [answer EXCEPT ![c] = "generic"]
  /\ req' = [req EXCEPT ![c] = "answered"]
  /\ picker' = [picker EXCEPT ![c] = "stale"]
  /\ UNCHANGED <<socketVars, pc, tries, host, sent, decision, asked, result>>

\* Mutant: the calls share `captured` and the semaphore, so a late completion
\* answers the request that waits now.
LateDecisionShared(c, d) ==
  /\ picker[c] = "stale"
  /\ decision' = [decision EXCEPT ![c] = d]
  /\ answer' = [x \in Clients |->
       IF host[x] = host[c] /\ req[x] = "prompt" /\ d = "approved"
         THEN "credential" ELSE answer[x]]
  /\ req' = [x \in Clients |->
       IF host[x] = host[c] /\ req[x] = "prompt" THEN "answered" ELSE req[x]]
  /\ picker' = [picker EXCEPT ![c] = "none"]
  /\ UNCHANGED <<socketVars, pc, tries, host, sent, asked, result>>

\* The completion of a request that is no longer waited for writes to the
\* variable `captured` of that call and nowhere else.
LateDecision(c, d) ==
  /\ picker[c] = "stale"
  /\ decision' = [decision EXCEPT ![c] = d]
  /\ picker' = [picker EXCEPT ![c] = "none"]
  /\ UNCHANGED <<socketVars, pc, tries, host, sent, req, answer, asked, result>>

-----------------------------------------------------------------------------
SocketStep ==
  /\ \/ InstallStep
     \/ \E b \in Brokers : LaunchBegin(b) \/ LaunchStep(b) \/ StartStep(b)
  /\ UNCHANGED requestVars

ClientStep(c) ==
  /\ \/ ClientCheck(c) \/ ClientConnect(c) \/ ClientConnectFails(c)
     \/ ClientRequestTooLarge(c) \/ ClientWrite(c) \/ ClientWriteFails(c)
     \/ ClientRead(c) \/ ClientReadFails(c) \/ ClientReadEof(c)
     \/ DirectSpawn(c) \/ DirectSpawnFails(c) \/ DirectFinish(c) \/ DirectTimeout(c)
     \/ DirectPollFails(c) \/ ExternalFallback(c) \/ StatusProbe(c)
  /\ UNCHANGED statuses

HostStep(c) ==
  /\ DispatchAnswer(c) \/ DispatchPrompt(c) \/ PickerTimesOut(c)
  /\ UNCHANGED statuses

BrokerStep(b) ==
  /\ \/ BrokerAccept(b) \/ BrokerRefusePeer(b) \/ BrokerEndProbe(b)
     \/ \E c \in Clients : BrokerRead(b, c) \/ BrokerReadFails(b, c) \/ BrokerReply(b, c)
  /\ UNCHANGED statuses

BrokerDeath(b) == BrokerCrash(b) /\ UNCHANGED statuses

UserStep(c) ==
  /\ \/ \E d \in {"approved", "denied"} : UserDecides(c, d) \/ LateDecision(c, d)
     \/ PickerFails(c)
  /\ UNCHANGED statuses

IPCNext ==
  \/ SocketStep
  \/ \E b \in Brokers : BrokerStep(b) \/ BrokerDeath(b)
  \/ \E c \in Clients : ClientStep(c) \/ HostStep(c) \/ UserStep(c)

IPCSpec == IPCInit /\ [][IPCNext]_ipcVars

\* Every process that can take a step eventually does; the user and
\* AuthenticationServices, who are obliged to nothing, and crashes, launches and
\* installs are left out.
IPCFairSpec ==
  /\ IPCSpec
  /\ \A b \in Brokers : WF_ipcVars(BrokerStep(b))
  /\ \A c \in Clients : WF_ipcVars(ClientStep(c)) /\ WF_ipcVars(HostStep(c))

-----------------------------------------------------------------------------
RequestTypeOK ==
  /\ statuses \subseteq Clients
  /\ pc \in [Clients -> PcStates]
  /\ tries \in [Clients -> Nat]
  /\ host \in [Clients -> Brokers \cup Clients \cup {NoOne}]
  /\ sent \in [Clients -> {"none", "part", "full"}]
  /\ req \in [Clients -> ReqStates]
  /\ answer \in [Clients -> Answers]
  /\ picker \in [Clients -> {"none", "up", "stale"}]
  /\ decision \in [Clients -> {"none", "approved", "denied"}]
  /\ asked \in [Clients -> Nat]
  /\ result \in [Clients -> Results]

IPCTypeOK == SocketTypeOK /\ RequestTypeOK

\* The CLI prints a native credential only for a request that the user
\* approved, whatever timed out, crashed or was approved late around it.
CredentialOnlyIfApproved ==
  \A c \in Clients : result[c] = "credential" => decision[c] = "approved"

\* The external provider is reached only by a caller that opted in, about whose
\* request the user has decided nothing and for which no prompt is on screen;
\* if there was a prompt, AuthenticationServices itself ended it with "no
\* results".  A denial, a timeout, a prompt left behind by one or a broker that
\* died while it prompted never turns into a fallback.
FallbackOnlyUndecided ==
  \A c \in Clients :
    (pc[c] = "fallback" \/ result[c] = "external") =>
      /\ c \in OptIn
      /\ decision[c] = "none"
      /\ picker[c] = "none"
      /\ asked[c] = 0 \/ answer[c] = "noresults"

\* A request causes at most one prompt, in whichever process: neither a retry
\* nor the direct execution repeats what a broker has already asked.
AskedAtMostOnce == \A c \in Clients : asked[c] <= 1

\* A broker serves one request at a time and nobody else's: what it works on is
\* the connection it accepted, and a request waits in at most one backlog.
OneHostPerRequest ==
  \A b \in Brokers, c \in Clients :
    /\ busy[b] = c => host[c] = b /\ req[c] \in {"accepted", "dispatch", "prompt", "answered"}
    /\ \A i, j \in DOMAIN backlog[b] :
         backlog[b][i] = c =>
           /\ host[c] = b /\ req[c] = "queued"
           /\ backlog[b][j] = c => i = j

(***************************************************************************)
(* The inductive invariant behind the properties above.                    *)
(***************************************************************************)

\* A request has caused no prompt before it is dispatched, one prompt while it
\* waits for the user, and no second one after that.
PromptHistory ==
  \A c \in Clients :
    /\ req[c] \in {"none", "queued", "accepted", "dispatch"} =>
         asked[c] = 0 /\ decision[c] = "none" /\ picker[c] = "none"
    /\ req[c] = "prompt" => decision[c] = "none" /\ picker[c] = "up"
    /\ picker[c] = "up" => req[c] = "prompt"
    /\ picker[c] = "stale" => decision[c] = "none"

\* An answer exists once the request is answered; a credential follows an
\* approval, and "no results" is only said while the user has decided nothing.
AnswerJustified ==
  \A c \in Clients :
    /\ answer[c] # "none" => req[c] \in {"answered", "replied", "over"}
    /\ answer[c] = "credential" => decision[c] = "approved" /\ picker[c] = "none"
    /\ answer[c] = "noresults" => decision[c] = "none" /\ picker[c] = "none"

\* The CLI's progress: no request before a connection or a child exists, a
\* child serves only its own request, and a result is what was answered.
CommandProgress ==
  \A c \in Clients :
    /\ pc[c] \in {"start", "connect", "direct"} => req[c] = "none"
    /\ pc[c] \notin {"fallback", "probe", "done"} => result[c] = "none"
    /\ req[c] = "none" => host[c] = NoOne
    /\ pc[c] = "exec" => host[c] = c
    /\ result[c] = "credential" => answer[c] = "credential"
    /\ pc[c] = "fallback" => result[c] \in {"noresults", "notrunning"}
    /\ result[c] = "external" => pc[c] = "done"
    /\ pc[c] = "fallback" \/ result[c] = "external" => req[c] \in {"none", "replied", "over"}

\* Together: prompts, answers and results of a request stay in step although
\* its client, its host and the user act on their own.
IPCInv ==
  /\ PromptHistory
  /\ AnswerJustified
  /\ CommandProgress
  /\ AskedAtMostOnce
  /\ OneHostPerRequest
  /\ FallbackOnlyUndecided

\* How a command with result r and control state p ended, if it has.
Ending(r, p) ==
  CASE r = "credential" -> "released"
    [] r = "external" -> "external"
    [] r \notin {"credential", "external"} /\ p \in {"done", "probe"} -> "refused"
    [] r \notin {"credential", "external"} /\ p \notin {"done", "probe"} -> "pending"

\* What the request path promises: CredentialRelease.
Outcome == [c \in Clients |-> Ending(result[c], pc[c])]

Release == INSTANCE CredentialRelease WITH
  Requests <- Clients, OptIn <- OptIn, decision <- decision, outcome <- Outcome

Promise == Release!Spec

\* Every CLI command ends: no broker, prompt or child holds it for ever.
EveryCommandEnds == \A c \in Clients : <>(pc[c] = "done")

\* An exchange of a broker with the AuthenticationServices picker ends although
\* the user never answers: the broker returns to accept, so that one client
\* cannot starve the others.
ExchangeBounded == \A b \in Brokers \ DemoHosts : busy[b] # NoOne ~> busy[b] = NoOne

\* BrokerCore.swift, above the accept loop: "Bound the lifetime of any single
\* broker exchange. ... must not block the broker forever."
EveryExchangeBounded == \A b \in Brokers : busy[b] # NoOne ~> busy[b] = NoOne
=============================================================================
