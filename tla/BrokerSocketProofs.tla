------------------------- MODULE BrokerSocketProofs -------------------------
(***************************************************************************)
(* Proofs about BrokerSocket for any number of brokers and clients and any *)
(* backlog: type correctness, the inductive invariant SocketInv, and the   *)
(* properties that follow from it.                                         *)
(***************************************************************************)
EXTENDS BrokerSocket, TLAPS

\* A probe only touches the backlog, and adds to it only the probe of a
\* broker that listens.
LEMMA ProbeEffect ==
  ASSUME SocketTypeOK, NEW up \in BOOLEAN, SocketRunning(up)
  PROVE  \/ UNCHANGED backlog
         \/ \E b \in Brokers : Listening(b) /\ Enqueue(b, Probe)
BY DEF SocketRunning, CanConnect, Reachable

\* Appending a connection keeps the backlogs well typed.
LEMMA EnqueueType ==
  ASSUME SocketTypeOK, NEW b \in Brokers, NEW p \in Peers, Enqueue(b, p)
  PROVE  backlog' \in [Brokers -> Seq(Peers)]
BY DEF SocketTypeOK, Enqueue

\* ... and so does a probe.
LEMMA ProbeType ==
  ASSUME SocketTypeOK, NEW up \in BOOLEAN, SocketRunning(up)
  PROVE  backlog' \in [Brokers -> Seq(Peers)]
<1>1. Probe \in Peers
  BY DEF Peers
<1>2. CASE UNCHANGED backlog
  BY <1>2 DEF SocketTypeOK
<1>3. CASE \E b \in Brokers : Listening(b) /\ Enqueue(b, Probe)
  BY <1>1, <1>3, EnqueueType
<1> QED
  BY <1>2, <1>3, ProbeEffect

-----------------------------------------------------------------------------
\* Every launch, start-up, accept, crash and connect step keeps the types.
LEMMA SocketTypeStep == SocketTypeOK /\ [SocketNext]_socketVars => SocketTypeOK'
<1> SUFFICES ASSUME SocketTypeOK, [SocketNext]_socketVars
             PROVE  SocketTypeOK'
  OBVIOUS
<1>1. CASE InstallStep
  BY <1>1 DEF SocketTypeOK, InstallStep
<1>2. ASSUME NEW l \in Brokers, LaunchBegin(l)
      PROVE  SocketTypeOK'
  BY <1>2 DEF SocketTypeOK, LaunchBegin, LaunchStates
<1>3. ASSUME NEW l \in Brokers, LaunchProbe(l)
      PROVE  SocketTypeOK'
  BY <1>3, ProbeType DEF SocketTypeOK, LaunchProbe, LaunchStates
<1>4. ASSUME NEW l \in Brokers, LaunchSpawn(l)
      PROVE  SocketTypeOK'
  BY <1>4 DEF SocketTypeOK, LaunchSpawn, LaunchStates, Stages
<1>5. ASSUME NEW l \in Brokers, LaunchSpawnFails(l)
      PROVE  SocketTypeOK'
  BY <1>5 DEF SocketTypeOK, LaunchSpawnFails, LaunchStates
<1>6. ASSUME NEW l \in Brokers, LaunchReport(l)
      PROVE  SocketTypeOK'
  BY <1>6, ProbeType DEF SocketTypeOK, LaunchReport, LaunchStates
<1>7. ASSUME NEW b \in Brokers, StartStep(b)
      PROVE  SocketTypeOK'
  <2> USE DEF SocketTypeOK, Stages
  <2>1. CASE RemoveStaleSocket(b)
    BY <2>1 DEF RemoveStaleSocket
  <2>2. CASE WriteStarting(b)
    BY <2>2 DEF WriteStarting
  <2>3. CASE Bind(b)
    BY <2>3 DEF Bind
  <2>4. CASE ChmodSocket(b)
    BY <2>4 DEF ChmodSocket
  <2>5. CASE Listen(b)
    BY <2>5 DEF Listen
  <2>6. CASE WriteRunning(b)
    BY <2>6 DEF WriteRunning
  <2> QED
    BY <1>7, <2>1, <2>2, <2>3, <2>4, <2>5, <2>6 DEF StartStep
<1>8. ASSUME NEW b \in Brokers, Accept(b)
      PROVE  SocketTypeOK'
  BY <1>8 DEF SocketTypeOK, Accept
<1>9. ASSUME NEW b \in Brokers, RefusePeer(b)
      PROVE  SocketTypeOK'
  BY <1>9 DEF SocketTypeOK, RefusePeer
<1>10. ASSUME NEW b \in Brokers, Finish(b)
       PROVE  SocketTypeOK'
  BY <1>10 DEF SocketTypeOK, Finish
<1>11. ASSUME NEW b \in Brokers, Crash(b)
       PROVE  SocketTypeOK'
  BY <1>11 DEF SocketTypeOK, Crash, Stages
<1>12. ASSUME NEW b \in Brokers, NEW p \in Peers, Connect(b, p)
       PROVE  SocketTypeOK'
  BY <1>12, EnqueueType DEF SocketTypeOK, Connect
<1>13. CASE UNCHANGED socketVars
  BY <1>13 DEF SocketTypeOK, socketVars
<1> QED
  BY <1>1, <1>2, <1>3, <1>4, <1>5, <1>6, <1>7, <1>8, <1>9, <1>10, <1>11,
     <1>12, <1>13 DEF SocketNext, LaunchStep, AcceptStep

\* The variables of the endpoint keep their types in every behaviour.
THEOREM SocketTypeCorrect == SocketSpec => []SocketTypeOK
<1>1. SocketInit => SocketTypeOK
  <2> SUFFICES ASSUME SocketInit
               PROVE  SocketTypeOK
    OBVIOUS
  <2>1. backlog \in [Brokers -> Seq(Peers)]
    BY DEF SocketInit
  <2>2. statusFile \in [service : {"none", "starting", "running"},
                        writer : Brokers \cup {NoOne}]
    BY DEF SocketInit
  <2> QED
    BY <2>1, <2>2 DEF SocketInit, SocketTypeOK, Stages, LaunchStates
<1> QED
  BY <1>1, SocketTypeStep, PTL DEF SocketSpec

-----------------------------------------------------------------------------
\* Steps that change neither the path nor the progress of a broker, and keep
\* every backlog empty that was empty or belongs to a broker that listens.
LEMMA SocketInvFrame ==
  ASSUME SocketTypeOK, SocketInv,
         UNCHANGED <<sockFile, sockSafe, stage>>,
         SpawnedByLaunch',
         \A b \in Brokers : backlog'[b] # <<>> => backlog[b] # <<>> \/ Listening(b),
         \A b \in Brokers : busy'[b] # NoOne => busy[b] # NoOne \/ stage[b] = "serving"
  PROVE  SocketInv'
BY DEF SocketInv, SafeFromChmod, OwnerHasBound, PathAccounted,
       HeldByLiveBroker, SpawnedByLaunch, Listening

\* A probe is such a step.
LEMMA ProbeFrame ==
  ASSUME SocketTypeOK, NEW up \in BOOLEAN, SocketRunning(up)
  PROVE  \A b \in Brokers : backlog'[b] # <<>> => backlog[b] # <<>> \/ Listening(b)
BY ProbeEffect DEF Enqueue, SocketTypeOK

\* The path, its mode and the held connections keep agreeing with the
\* brokers' progress.
LEMMA SocketInvStep ==
  SocketTypeOK /\ SocketInv /\ [SocketNext]_socketVars => SocketInv'
<1> SUFFICES ASSUME SocketTypeOK, SocketInv, [SocketNext]_socketVars
             PROVE  SocketInv'
  OBVIOUS
<1> USE DEF SocketInv, SafeFromChmod, OwnerHasBound, PathAccounted,
            HeldByLiveBroker, SpawnedByLaunch, Listening, SocketTypeOK
<1>1. CASE InstallStep
  BY <1>1, SocketInvFrame DEF InstallStep
<1>2. ASSUME NEW l \in Brokers, LaunchBegin(l)
      PROVE  SocketInv'
  BY <1>2, SocketInvFrame DEF LaunchBegin
<1>3. ASSUME NEW l \in Brokers, LaunchProbe(l)
      PROVE  SocketInv'
  BY <1>3, SocketInvFrame, ProbeFrame DEF LaunchProbe
<1>4. ASSUME NEW l \in Brokers, LaunchSpawn(l)
      PROVE  SocketInv'
  BY <1>4 DEF LaunchSpawn
<1>5. ASSUME NEW l \in Brokers, LaunchSpawnFails(l)
      PROVE  SocketInv'
  BY <1>5, SocketInvFrame DEF LaunchSpawnFails
<1>6. ASSUME NEW l \in Brokers, LaunchReport(l)
      PROVE  SocketInv'
  BY <1>6, SocketInvFrame, ProbeFrame DEF LaunchReport
<1>7. ASSUME NEW b \in Brokers, RemoveStaleSocket(b)
      PROVE  SocketInv'
  BY <1>7, NamesAssumption DEF RemoveStaleSocket
<1>8. ASSUME NEW b \in Brokers, WriteStarting(b)
      PROVE  SocketInv'
  BY <1>8 DEF WriteStarting
<1>9. ASSUME NEW b \in Brokers, Bind(b)
      PROVE  SocketInv'
  BY <1>9, NamesAssumption DEF Bind
<1>10. ASSUME NEW b \in Brokers, ChmodSocket(b)
       PROVE  SocketInv'
  BY <1>10, NamesAssumption DEF ChmodSocket
<1>11. ASSUME NEW b \in Brokers, Listen(b)
       PROVE  SocketInv'
  BY <1>11 DEF Listen
<1>12. ASSUME NEW b \in Brokers, WriteRunning(b)
       PROVE  SocketInv'
  BY <1>12 DEF WriteRunning
<1>13. ASSUME NEW b \in Brokers, Accept(b)
       PROVE  SocketInv'
  BY <1>13, SocketInvFrame DEF Accept
<1>14. ASSUME NEW b \in Brokers, RefusePeer(b)
       PROVE  SocketInv'
  BY <1>14, SocketInvFrame DEF RefusePeer
<1>15. ASSUME NEW b \in Brokers, Finish(b)
       PROVE  SocketInv'
  BY <1>15, SocketInvFrame DEF Finish
<1>16. ASSUME NEW b \in Brokers, Crash(b)
       PROVE  SocketInv'
  BY <1>16 DEF Crash
<1>17. ASSUME NEW b \in Brokers, NEW p \in Peers, Connect(b, p)
       PROVE  SocketInv'
  BY <1>17, SocketInvFrame DEF Connect, CanConnect, Reachable, Enqueue
<1>18. CASE UNCHANGED socketVars
  BY <1>18, SocketInvFrame DEF socketVars
<1> QED
  BY <1>1, <1>2, <1>3, <1>4, <1>5, <1>6, <1>7, <1>8, <1>9, <1>10, <1>11,
     <1>12, <1>13, <1>14, <1>15, <1>16, <1>17, <1>18
     DEF SocketNext, LaunchStep, StartStep, AcceptStep

\* The endpoint agrees with the brokers' progress in every behaviour.
THEOREM SocketInvariant == SocketSpec => []SocketInv
<1>1. SocketInit => SocketInv
  BY NamesAssumption DEF SocketInit, SocketInv, SafeFromChmod, OwnerHasBound,
     PathAccounted, HeldByLiveBroker, SpawnedByLaunch, Listening
<1> QED
  BY <1>1, SocketInvStep, SocketTypeCorrect, PTL DEF SocketSpec

-----------------------------------------------------------------------------
\* A path that leads to a listening broker has mode 0600, so the check
\* send_request makes once before its connect attempts does not go stale.
THEOREM ReachableSafe == SocketSpec => []ReachableIsSafe
<1>1. SocketInv => ReachableIsSafe
  BY DEF SocketInv, SafeFromChmod, ReachableIsSafe, Reachable, Listening
<1> QED
  BY <1>1, SocketInvariant, PTL

\* However many launches race, they do not leave APW without a broker.
THEOREM RaceLeavesBroker == SocketSpec => []SettledReachable
<1>1. SocketTypeOK /\ SocketInv => SettledReachable
  <2> SUFFICES ASSUME SocketTypeOK, SocketInv, Settled,
                      NEW b \in Brokers, stage[b] # "off"
               PROVE  \E x \in Brokers : Reachable(x)
    BY DEF SettledReachable
  <2>1. stage[b] \in {"serving", "exited"}
    BY DEF Settled
  <2>2. sockFile # NoOne
    BY <2>1 DEF SocketInv, PathAccounted, Settled
  <2>3. sockFile \in Brokers
    BY <2>2 DEF SocketTypeOK
  <2>4. Reachable(sockFile)
    BY <2>3 DEF SocketInv, OwnerHasBound, Settled, Reachable, Listening
  <2> QED
    BY <2>3, <2>4
<1> QED
  BY <1>1, SocketInvariant, SocketTypeCorrect, PTL

\* A broker that lost the path never gets it back.
THEOREM DisplacedForGood == SocketSpec => DisplacedStays
<1>1. ASSUME [SocketNext]_socketVars
      PROVE  [\A b \in Brokers :
                (stage[b] \notin {"off", "spawned", "unlinked", "announced"}
                   /\ sockFile # b) => sockFile' # b]_socketVars
  <2> SUFFICES ASSUME NEW b \in Brokers, sockFile # b,
                      stage[b] \notin {"off", "spawned", "unlinked", "announced"}
               PROVE  sockFile' # b
    BY <1>1
  <2>1. CASE UNCHANGED sockFile
    BY <2>1
  <2>2. CASE \E x \in Brokers : RemoveStaleSocket(x)
    BY <2>2, NamesAssumption DEF RemoveStaleSocket
  <2>3. CASE \E x \in Brokers : Bind(x)
    BY <2>3 DEF Bind
  <2> QED
    BY <1>1, <2>1, <2>2, <2>3
       DEF SocketNext, socketVars, InstallStep, LaunchBegin, LaunchStep,
           LaunchProbe, LaunchSpawn, LaunchSpawnFails, LaunchReport, StartStep,
           WriteStarting, ChmodSocket, Listen, WriteRunning, AcceptStep, Accept,
           RefusePeer, Finish, Crash, Connect
<1> QED
  BY <1>1, PTL DEF SocketSpec, DisplacedStays
=============================================================================
