---------------------------- MODULE BrokerSocket ----------------------------
(***************************************************************************)
(* The broker endpoint of APW v2: the UNIX socket ~/.apw/native-app/       *)
(* broker.sock, the `APW serve` processes that compete for it, and the     *)
(* `apw app launch` and `apw app install` commands that start and replace  *)
(* them.                                                                   *)
(*                                                                         *)
(* Nothing locks the runtime directory.  A launcher decides from one probe *)
(* of the socket whether a broker is needed (native_app_launch), and a     *)
(* starting broker unlinks whatever is at the path and binds its own inode *)
(* (BrokerServer.run).  Every system call of that start-up that another    *)
(* process can observe is an action of its own here.                       *)
(*                                                                         *)
(* Clients are the environment of this module: they may connect whenever   *)
(* the path resolves to a listening broker with room in its backlog.       *)
(* BrokerIPC replaces that environment by the CLI's request path.          *)
(***************************************************************************)
EXTENDS Naturals, Sequences

CONSTANTS
  Brokers,  \* `apw app launch` commands; each may spawn the broker of its name
  Clients,  \* CLI requests that may connect
  Backlog,  \* listen(2) backlog: connections waiting to be accepted
  Probe,    \* a connection that is dropped without sending (socket_running)
  NoOne     \* no file at the path / no exchange in progress

ASSUME BacklogAssumption == Backlog \in Nat \ {0}

ASSUME NamesAssumption ==
  /\ Brokers \cap Clients = {}
  /\ NoOne \notin Brokers \cup Clients \cup {Probe}
  /\ Probe \notin Brokers \cup Clients

VARIABLES
  bundle,      \* the installed APW.app: complete, half copied or missing
  sockFile,    \* broker whose inode is at the socket path, or NoOne
  sockSafe,    \* the file at the path has mode 0600
  stage,       \* how far each broker process is in BrokerServer.run
  statusFile,  \* status.json: serviceStatus and the broker that wrote it
  backlog,     \* connections each broker has not accepted yet
  busy,        \* connection each broker is serving in its accept loop
  launch       \* control state of each `apw app launch`

socketVars ==
  <<bundle, sockFile, sockSafe, stage, statusFile, backlog, busy, launch>>

Peers == Clients \cup {Probe}

Stages == {"off", "spawned", "unlinked", "announced", "bound", "chmoded",
           "listening", "serving", "exited", "crashed"}

LaunchStates == {"idle", "probe", "spawn", "settle",
                 "running", "launched", "starting", "failed"}

(***************************************************************************)
(* What a process sees of the endpoint.                                    *)
(***************************************************************************)

\* listen(2) has been called and the process is alive.
Listening(b) == stage[b] \in {"listening", "serving"}

\* A connect(2) to the path reaches broker b.
Reachable(b) == sockFile = b /\ Listening(b)

\* ... and is not refused because the backlog is full.
CanConnect(b) == Reachable(b) /\ Len(backlog[b]) < Backlog

\* socket_path_safe_to_connect: a socket of this user with mode 0600.  The
\* socket of a broker that died is still there and still passes.
SafeToConnect == sockFile # NoOne /\ sockSafe

\* Connection p enters the backlog of b.
Enqueue(b, p) == backlog' = [backlog EXCEPT ![b] = Append(@, p)]

\* socket_running: check, connect, drop the stream.  A successful probe
\* leaves a closed, empty connection in the backlog of the broker it reached.
SocketRunning(answer) ==
  \/ \E b \in Brokers : /\ SafeToConnect /\ CanConnect(b)
                        /\ answer = TRUE
                        /\ Enqueue(b, Probe)
  \/ /\ ~ (SafeToConnect /\ \E b \in Brokers : CanConnect(b))
     /\ answer = FALSE
     /\ UNCHANGED backlog

-----------------------------------------------------------------------------
SocketInit ==
  /\ bundle \in {"present", "absent"}
  /\ sockFile = NoOne
  /\ sockSafe = FALSE
  /\ stage = [b \in Brokers |-> "off"]
  /\ statusFile = [service |-> "none", writer |-> NoOne]
  /\ backlog = [b \in Brokers |-> <<>>]
  /\ busy = [b \in Brokers |-> NoOne]
  /\ launch = [b \in Brokers |-> "idle"]

(***************************************************************************)
(* native_app_install: remove_dir_all and copy_dir_recursive on the bundle *)
(* in place.  An install that fails half way leaves what it had; the next  *)
(* one removes it again, so a partial bundle can go either way.            *)
(***************************************************************************)
InstallStep ==
  /\ \/ bundle \in {"present", "absent"} /\ bundle' = "partial"
     \/ bundle = "partial" /\ bundle' \in {"present", "absent"}
  /\ UNCHANGED <<sockFile, sockSafe, stage, statusFile, backlog, busy, launch>>

(***************************************************************************)
(* native_app_launch.                                                      *)
(***************************************************************************)

\* The bundle and its executable must exist; in a partial bundle the
\* executable may or may not be there yet.
LaunchBegin(l) ==
  /\ launch[l] = "idle"
  /\ \E next \in (IF bundle = "present" THEN {} ELSE {"failed"})
                 \cup (IF bundle = "absent" THEN {} ELSE {"probe"}) :
       launch' = [launch EXCEPT ![l] = next]
  /\ UNCHANGED <<bundle, sockFile, sockSafe, stage, statusFile, backlog, busy>>

LaunchProbe(l) ==
  /\ launch[l] = "probe"
  /\ \E up \in BOOLEAN :
       /\ SocketRunning(up)
       /\ launch' = [launch EXCEPT ![l] = IF up THEN "running" ELSE "spawn"]
  /\ UNCHANGED <<bundle, sockFile, sockSafe, stage, statusFile, busy>>

\* Rotate and open broker.log, then spawn `APW serve` in its own session.  The
\* bundle may have been replaced since LaunchBegin looked at it.
LaunchSpawn(l) ==
  /\ launch[l] = "spawn"
  /\ bundle # "absent"
  /\ stage' = [stage EXCEPT ![l] = "spawned"]
  /\ launch' = [launch EXCEPT ![l] = "settle"]
  /\ UNCHANGED <<bundle, sockFile, sockSafe, statusFile, backlog, busy>>

\* The log cannot be rotated or opened, or the executable cannot be started.
LaunchSpawnFails(l) ==
  /\ launch[l] = "spawn"
  /\ launch' = [launch EXCEPT ![l] = "failed"]
  /\ UNCHANGED <<bundle, sockFile, sockSafe, stage, statusFile, backlog, busy>>

\* Mutant: the raw answer of the probe is reported instead of a status.
LaunchReportRaw(l) ==
  /\ launch[l] = "settle"
  /\ \E up \in BOOLEAN :
       /\ SocketRunning(up)
       /\ launch' = [launch EXCEPT ![l] = IF up THEN "launched" ELSE "pending"]
  /\ UNCHANGED <<bundle, sockFile, sockSafe, stage, statusFile, busy>>

\* 300 ms later the launcher probes again and reports what it sees.
LaunchReport(l) ==
  /\ launch[l] = "settle"
  /\ \E up \in BOOLEAN :
       /\ SocketRunning(up)
       /\ launch' = [launch EXCEPT ![l] = IF up THEN "launched" ELSE "starting"]
  /\ UNCHANGED <<bundle, sockFile, sockSafe, stage, statusFile, busy>>

(***************************************************************************)
(* BrokerServer.run up to the accept loop.                                 *)
(***************************************************************************)

\* unlink(2) of the socket path, whoever owns it.
RemoveStaleSocket(b) ==
  /\ stage[b] = "spawned"
  /\ sockFile' = NoOne
  /\ sockSafe' = FALSE
  /\ stage' = [stage EXCEPT ![b] = "unlinked"]
  /\ UNCHANGED <<bundle, statusFile, backlog, busy, launch>>

WriteStarting(b) ==
  /\ stage[b] = "unlinked"
  /\ statusFile' = [service |-> "starting", writer |-> b]
  /\ stage' = [stage EXCEPT ![b] = "announced"]
  /\ UNCHANGED <<bundle, sockFile, sockSafe, backlog, busy, launch>>

\* Mutant: the broker goes from bind to listen and never sets the mode.
BindWithoutChmod(b) ==
  /\ stage[b] = "announced"
  /\ sockFile = NoOne
  /\ sockFile' = b
  /\ sockSafe' = FALSE
  /\ stage' = [stage EXCEPT ![b] = "chmoded"]
  /\ UNCHANGED <<bundle, statusFile, backlog, busy, launch>>

\* Mutant: a broker that cannot bind cleans up the path before it exits.
BindCleansUp(b) ==
  /\ stage[b] = "announced"
  /\ sockFile' = IF sockFile = NoOne THEN b ELSE NoOne
  /\ sockSafe' = FALSE
  /\ stage' = [stage EXCEPT ![b] = IF sockFile = NoOne THEN "bound" ELSE "exited"]
  /\ UNCHANGED <<bundle, statusFile, backlog, busy, launch>>

\* bind(2) creates the file with the umask's mode; it fails, and the process
\* exits, when another broker bound the path first.
Bind(b) ==
  /\ stage[b] = "announced"
  /\ \/ /\ sockFile = NoOne
        /\ sockFile' = b
        /\ sockSafe' = FALSE
        /\ stage' = [stage EXCEPT ![b] = "bound"]
     \/ /\ sockFile # NoOne
        /\ stage' = [stage EXCEPT ![b] = "exited"]
        /\ UNCHANGED <<sockFile, sockSafe>>
  /\ UNCHANGED <<bundle, statusFile, backlog, busy, launch>>

\* Mutant: a broker that finds its file missing puts it back.
ChmodRestoresSocket(b) ==
  /\ stage[b] = "bound"
  /\ sockFile' = IF sockFile = NoOne THEN b ELSE sockFile
  /\ sockSafe' = TRUE
  /\ stage' = [stage EXCEPT ![b] = "chmoded"]
  /\ UNCHANGED <<bundle, statusFile, backlog, busy, launch>>

\* chmod(2) works on the path: the file may by now be another broker's.
ChmodSocket(b) ==
  /\ stage[b] = "bound"
  /\ sockSafe' = (sockFile # NoOne)
  /\ stage' = [stage EXCEPT ![b] = "chmoded"]
  /\ UNCHANGED <<bundle, sockFile, statusFile, backlog, busy, launch>>

Listen(b) ==
  /\ stage[b] = "chmoded"
  /\ stage' = [stage EXCEPT ![b] = "listening"]
  /\ UNCHANGED <<bundle, sockFile, sockSafe, statusFile, backlog, busy, launch>>

WriteRunning(b) ==
  /\ stage[b] = "listening"
  /\ statusFile' = [service |-> "running", writer |-> b]
  /\ stage' = [stage EXCEPT ![b] = "serving"]
  /\ UNCHANGED <<bundle, sockFile, sockSafe, backlog, busy, launch>>

(***************************************************************************)
(* The accept loop: one connection at a time, in the order they connected. *)
(***************************************************************************)
\* Mutant: connections are accepted before the broker announced itself.
AcceptEarly(b) ==
  /\ Listening(b)
  /\ busy[b] = NoOne
  /\ backlog[b] # <<>>
  /\ busy' = [busy EXCEPT ![b] = Head(backlog[b])]
  /\ backlog' = [backlog EXCEPT ![b] = Tail(@)]
  /\ UNCHANGED <<bundle, sockFile, sockSafe, stage, statusFile, launch>>

Accept(b) ==
  /\ stage[b] = "serving"
  /\ busy[b] = NoOne
  /\ backlog[b] # <<>>
  /\ busy' = [busy EXCEPT ![b] = Head(backlog[b])]
  /\ backlog' = [backlog EXCEPT ![b] = Tail(@)]
  /\ UNCHANGED <<bundle, sockFile, sockSafe, stage, statusFile, launch>>

\* peerIsCurrentUser fails (getpeereid on a connection its peer closed).
RefusePeer(b) ==
  /\ stage[b] = "serving"
  /\ busy[b] = NoOne
  /\ backlog[b] # <<>>
  /\ backlog' = [backlog EXCEPT ![b] = Tail(@)]
  /\ UNCHANGED <<bundle, sockFile, sockSafe, stage, statusFile, busy, launch>>

\* The exchange is over and its descriptor closed.
Finish(b) ==
  /\ busy[b] # NoOne
  /\ busy' = [busy EXCEPT ![b] = NoOne]
  /\ UNCHANGED <<bundle, sockFile, sockSafe, stage, statusFile, backlog, launch>>

\* The process ends: a crash, a kill, an error thrown during start-up, or the
\* SIGPIPE of a reply written to a peer that is gone.  The file stays.
Crash(b) ==
  /\ stage[b] \notin {"off", "exited", "crashed"}
  /\ stage' = [stage EXCEPT ![b] = "crashed"]
  /\ backlog' = [backlog EXCEPT ![b] = <<>>]
  /\ busy' = [busy EXCEPT ![b] = NoOne]
  /\ UNCHANGED <<bundle, sockFile, sockSafe, statusFile, launch>>

\* Any process connects (the environment of this module).
Connect(b, p) ==
  /\ CanConnect(b)
  /\ Enqueue(b, p)
  /\ UNCHANGED <<bundle, sockFile, sockSafe, stage, statusFile, busy, launch>>

-----------------------------------------------------------------------------
LaunchStep(l) ==
  LaunchProbe(l) \/ LaunchSpawn(l) \/ LaunchSpawnFails(l) \/ LaunchReport(l)

StartStep(b) ==
  \/ RemoveStaleSocket(b) \/ WriteStarting(b) \/ Bind(b)
  \/ ChmodSocket(b) \/ Listen(b) \/ WriteRunning(b)

AcceptStep(b) == Accept(b) \/ RefusePeer(b) \/ Finish(b)

SocketNext ==
  \/ InstallStep
  \/ \E b \in Brokers :
       \/ LaunchBegin(b) \/ LaunchStep(b) \/ StartStep(b)
       \/ AcceptStep(b) \/ Crash(b)
       \/ \E p \in Peers : Connect(b, p)

SocketSpec == SocketInit /\ [][SocketNext]_socketVars

\* A started process keeps running: the launcher's and the broker's next step
\* happens.  Nothing obliges anyone to launch, install, connect or crash.
SocketFairSpec ==
  SocketSpec /\ \A b \in Brokers : /\ WF_socketVars(LaunchStep(b))
                                   /\ WF_socketVars(StartStep(b))

-----------------------------------------------------------------------------
SocketTypeOK ==
  /\ bundle \in {"present", "partial", "absent"}
  /\ sockFile \in Brokers \cup {NoOne}
  /\ sockSafe \in BOOLEAN
  /\ stage \in [Brokers -> Stages]
  /\ statusFile \in [service : {"none", "starting", "running"},
                     writer : Brokers \cup {NoOne}]
  /\ backlog \in [Brokers -> Seq(Peers)]
  /\ busy \in [Brokers -> Peers \cup {NoOne}]
  /\ launch \in [Brokers -> LaunchStates]

\* send_request checks the mode of the socket once, before up to ten connect
\* attempts.  It need not check again: whenever the path leads to a listening
\* broker the file has mode 0600, in every interleaving of start-ups and
\* although chmod goes through the path.
ReachableIsSafe == \A b \in Brokers : Reachable(b) => sockSafe

\* However many launches race, once every broker process has settled (is in
\* its accept loop or lost the race for bind) and none has crashed, the path
\* leads to one of them: the race never leaves APW without a broker.
Settled == \A b \in Brokers : stage[b] \in {"off", "serving", "exited"}

SettledReachable ==
  (Settled /\ \E b \in Brokers : stage[b] # "off") =>
    \E b \in Brokers : Reachable(b)

(***************************************************************************)
(* The inductive invariant behind the two properties above.                *)
(***************************************************************************)

\* The mode is set from the owner's chmod on.
SafeFromChmod ==
  \A b \in Brokers :
    (sockFile = b /\ stage[b] \in {"chmoded", "listening", "serving"}) => sockSafe

\* The file at the path belongs to a broker that has bound it.
OwnerHasBound ==
  \A b \in Brokers :
    sockFile = b => stage[b] \in {"bound", "chmoded", "listening", "serving", "crashed"}

\* Once a broker has unlinked the path, a file is there again or a broker that
\* is still going to bind is alive, unless one has crashed.
PathAccounted ==
  (\E b \in Brokers : stage[b] \notin {"off", "spawned"}) =>
    \/ sockFile # NoOne
    \/ \E b \in Brokers : stage[b] \in {"unlinked", "announced", "crashed"}

\* Connections are held by a live broker, and only one in its accept loop
\* serves one.
HeldByLiveBroker ==
  \A b \in Brokers : /\ backlog[b] # <<>> => Listening(b)
                     /\ busy[b] # NoOne => stage[b] = "serving"

\* A launcher that has not spawned has no broker.
SpawnedByLaunch ==
  \A b \in Brokers : launch[b] \in {"idle", "probe", "spawn"} => stage[b] = "off"

\* Together: whatever the launches, crashes, installs and clients do, the path,
\* its mode and the held connections agree with the brokers' progress.
SocketInv ==
  /\ SafeFromChmod
  /\ OwnerHasBound
  /\ PathAccounted
  /\ HeldByLiveBroker
  /\ SpawnedByLaunch

\* A broker whose inode is no longer at the path stays unreachable: it never
\* gets another connection, whatever the other brokers do.
DisplacedStays ==
  [][\A b \in Brokers :
       (stage[b] \notin {"off", "spawned", "unlinked", "announced"} /\ sockFile # b)
         => sockFile' # b]_socketVars

\* Every launch that spawned a broker leads to a reachable broker (its own or
\* a competitor's) unless some broker crashes.
LaunchConverges ==
  \A b \in Brokers :
    stage[b] = "spawned" ~>
      \E x \in Brokers : Reachable(x) \/ stage[x] = "crashed"
=============================================================================
