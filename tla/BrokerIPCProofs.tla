--------------------------- MODULE BrokerIPCProofs ---------------------------
(***************************************************************************)
(* Proofs about BrokerIPC for any number of brokers and clients: the       *)
(* request path uses the endpoint only as BrokerSocket allows, its         *)
(* variables keep their types, and the inductive invariant IPCInv, from    *)
(* which the safety properties and the refinement of CredentialRelease     *)
(* follow.                                                                 *)
(***************************************************************************)
EXTENDS BrokerIPC, BrokerSocketProofs

-----------------------------------------------------------------------------
\* What a status command's probe does to the endpoint is a connection of
\* Probe, or nothing.
LEMMA ProbeIsConnect ==
  ASSUME NEW up \in BOOLEAN, SocketRunning(up),
         UNCHANGED <<bundle, sockFile, sockSafe, stage, statusFile, busy, launch>>
  PROVE  [SocketNext]_socketVars
<1>1. Probe \in Peers
  BY DEF Peers
<1>2. CASE \E b \in Brokers : CanConnect(b) /\ Enqueue(b, Probe)
  BY <1>1, <1>2 DEF SocketNext, Connect
<1>3. CASE UNCHANGED backlog
  BY <1>3 DEF socketVars
<1> QED
  BY <1>2, <1>3 DEF SocketRunning

\* Every step of the request path is a step of the endpoint or leaves it alone.
LEMMA IPCStepIsSocketStep == [IPCNext]_ipcVars => [SocketNext]_socketVars
<1> SUFFICES ASSUME [IPCNext]_ipcVars
             PROVE  [SocketNext]_socketVars
  OBVIOUS
<1>1. CASE SocketStep
  BY <1>1 DEF SocketStep, SocketNext
<1>2. ASSUME NEW b \in Brokers, BrokerStep(b)
      PROVE  [SocketNext]_socketVars
  BY <1>2 DEF BrokerStep, BrokerAccept, BrokerRefusePeer, BrokerEndProbe,
     BrokerRead, BrokerReadFails, BrokerReply, SocketNext, AcceptStep
<1>3. ASSUME NEW b \in Brokers, BrokerDeath(b)
      PROVE  [SocketNext]_socketVars
  BY <1>3 DEF BrokerDeath, BrokerCrash, SocketNext
<1>4. ASSUME NEW c \in Clients, ClientStep(c)
      PROVE  [SocketNext]_socketVars
  <2>1. CASE ClientConnect(c)
    BY <2>1 DEF ClientConnect, SocketNext, Peers
  <2>2. CASE StatusProbe(c)
    BY <2>2, ProbeIsConnect DEF StatusProbe
  <2> QED
    BY <1>4, <2>1, <2>2
       DEF ClientStep, ClientCheck, ClientConnectFails, ClientRequestTooLarge,
           ClientWrite, ClientWriteFails, ClientRead, ClientReadFails,
           ClientReadEof, DirectSpawn, DirectSpawnFails, DirectFinish,
           DirectTimeout, DirectPollFails, ExternalFallback
<1>5. ASSUME NEW c \in Clients, HostStep(c) \/ UserStep(c)
      PROVE  [SocketNext]_socketVars
  BY <1>5 DEF HostStep, UserStep, DispatchAnswer, DispatchPrompt, UserDecides,
     PickerFails, PickerTimesOut, LateDecision
<1>6. CASE UNCHANGED ipcVars
  BY <1>6 DEF ipcVars
<1> QED
  BY <1>1, <1>2, <1>3, <1>4, <1>5, <1>6 DEF IPCNext

\* The request path implements the endpoint's specification, so that what is
\* proved of BrokerSocket holds with the CLI as its client.
THEOREM IPCUsesSocket == IPCSpec => SocketSpec
<1>1. IPCInit => SocketInit
  BY DEF IPCInit
<1> QED
  BY <1>1, IPCStepIsSocketStep, PTL DEF IPCSpec, SocketSpec

-----------------------------------------------------------------------------
\* Returning from the native request keeps the command's types.
LEMMA ReturnType ==
  ASSUME RequestTypeOK, NEW c \in Clients, NEW r \in Results, Return(c, r)
  PROVE  pc' \in [Clients -> PcStates] /\ result' \in [Clients -> Results]
BY DEF RequestTypeOK, Return, PcStates

\* Every step of the CLI, the host, the broker and the user keeps the types.
LEMMA RequestTypeStep ==
  IPCTypeOK /\ [IPCNext]_ipcVars => RequestTypeOK'
<1> SUFFICES ASSUME IPCTypeOK, [IPCNext]_ipcVars
             PROVE  RequestTypeOK'
  OBVIOUS
<1> USE DEF IPCTypeOK, RequestTypeOK
<1>1. CASE SocketStep
  BY <1>1 DEF SocketStep, requestVars
<1>2. ASSUME NEW b \in Brokers, BrokerStep(b)
      PROVE  RequestTypeOK'
  <2>0. UNCHANGED statuses
    BY <1>2 DEF BrokerStep
  <2> USE <2>0 DEF ReqStates
  <2>1. CASE BrokerAccept(b)
    BY <2>1 DEF BrokerAccept
  <2>2. CASE BrokerRefusePeer(b)
    BY <2>2 DEF BrokerRefusePeer
  <2>3. CASE BrokerEndProbe(b)
    BY <2>3 DEF BrokerEndProbe, requestVars
  <2>4. ASSUME NEW c \in Clients, BrokerRead(b, c)
        PROVE  RequestTypeOK'
    BY <2>4 DEF BrokerRead
  <2>5. ASSUME NEW c \in Clients, BrokerReadFails(b, c)
        PROVE  RequestTypeOK'
    BY <2>5 DEF BrokerReadFails, Answers
  <2>6. ASSUME NEW c \in Clients, BrokerReply(b, c)
        PROVE  RequestTypeOK'
    BY <2>6 DEF BrokerReply
  <2> QED
    BY <1>2, <2>1, <2>2, <2>3, <2>4, <2>5, <2>6 DEF BrokerStep
<1>3. ASSUME NEW b \in Brokers, BrokerDeath(b)
      PROVE  RequestTypeOK'
  BY <1>3 DEF BrokerDeath, BrokerCrash, ReqStates
<1>4. ASSUME NEW c \in Clients, ClientStep(c)
      PROVE  RequestTypeOK'
  <2>0. UNCHANGED statuses
    BY <1>4 DEF ClientStep
  <2> USE <2>0
  <2>1. CASE ClientCheck(c)
    BY <2>1 DEF ClientCheck, PcStates
  <2>2. CASE ClientConnect(c)
    BY <2>2 DEF ClientConnect, PcStates, ReqStates
  <2>3. CASE ClientConnectFails(c)
    BY <2>3 DEF ClientConnectFails, PcStates
  <2>4. CASE ClientRequestTooLarge(c)
    BY <2>4, ReturnType DEF ClientRequestTooLarge, Results
  <2>5. CASE ClientWrite(c)
    BY <2>5 DEF ClientWrite, PcStates
  <2>6. CASE ClientWriteFails(c)
    BY <2>6, ReturnType DEF ClientWriteFails, Results
  <2>7. CASE ClientRead(c)
    <3>1. (IF answer[c] = "throw" THEN "generic" ELSE answer[c]) \in Results
      BY DEF Answers, Results
    <3> QED
      BY <2>7, <3>1, ReturnType DEF ClientRead, Results
  <2>8. CASE ClientReadFails(c)
    BY <2>8, ReturnType DEF ClientReadFails, Results
  <2>9. CASE ClientReadEof(c)
    BY <2>9, ReturnType DEF ClientReadEof, Results
  <2>10. CASE DirectSpawn(c)
    BY <2>10 DEF DirectSpawn, PcStates, ReqStates
  <2>11. CASE DirectSpawnFails(c)
    BY <2>11, ReturnType DEF DirectSpawnFails, Results
  <2>12. CASE DirectFinish(c)
    <3>1. (IF answer[c] = "throw" THEN "proto" ELSE answer[c]) \in Results
      BY DEF Answers, Results
    <3> QED
      BY <2>12, <3>1, ReturnType DEF DirectFinish, ReqStates, Results
  <2>13. CASE DirectTimeout(c)
    BY <2>13, ReturnType DEF DirectTimeout, Results, ReqStates
  <2>14. CASE ExternalFallback(c)
    BY <2>14 DEF ExternalFallback, Results, PcStates
  <2>15. CASE StatusProbe(c)
    BY <2>15 DEF StatusProbe, PcStates
  <2>16. CASE DirectPollFails(c)
    BY <2>16, ReturnType DEF DirectPollFails, Results
  <2> QED
    BY <1>4, <2>1, <2>2, <2>3, <2>4, <2>5, <2>6, <2>7, <2>8, <2>9, <2>10,
       <2>11, <2>12, <2>13, <2>14, <2>15, <2>16 DEF ClientStep
<1>5. ASSUME NEW c \in Clients, HostStep(c) \/ UserStep(c)
      PROVE  RequestTypeOK'
  <2>0. UNCHANGED statuses
    BY <1>5 DEF HostStep, UserStep
  <2> USE <2>0 DEF Answers, ReqStates
  <2>1. CASE DispatchAnswer(c)
    BY <2>1 DEF DispatchAnswer
  <2>2. CASE DispatchPrompt(c)
    BY <2>2 DEF DispatchPrompt
  <2>3. ASSUME NEW d \in {"approved", "denied"}, UserDecides(c, d)
        PROVE  RequestTypeOK'
    BY <2>3 DEF UserDecides
  <2>4. CASE PickerFails(c)
    BY <2>4 DEF PickerFails
  <2>5. CASE PickerTimesOut(c)
    BY <2>5 DEF PickerTimesOut
  <2>6. ASSUME NEW d \in {"approved", "denied"}, LateDecision(c, d)
        PROVE  RequestTypeOK'
    BY <2>6 DEF LateDecision
  <2> QED
    BY <1>5, <2>1, <2>2, <2>3, <2>4, <2>5, <2>6 DEF HostStep, UserStep
<1>6. CASE UNCHANGED ipcVars
  BY <1>6 DEF ipcVars, requestVars
<1> QED
  BY <1>1, <1>2, <1>3, <1>4, <1>5, <1>6 DEF IPCNext

\* The variables of the request path keep their types in every behaviour.
THEOREM IPCTypeCorrect == IPCSpec => []IPCTypeOK
<1>1. IPCInit => RequestTypeOK
  BY RolesAssumption DEF IPCInit, RequestTypeOK, PcStates, ReqStates, Answers, Results
<1>2. IPCTypeOK <=> SocketTypeOK /\ RequestTypeOK
  BY DEF IPCTypeOK
<1> QED
  BY <1>1, <1>2, RequestTypeStep, IPCUsesSocket, SocketTypeCorrect, PTL DEF IPCSpec

-----------------------------------------------------------------------------
\* Returning from the native request: the command's progress afterwards.
LEMMA ReturnEffect ==
  ASSUME RequestTypeOK, NEW c \in Clients, NEW r, Return(c, r)
  PROVE  /\ result' = [result EXCEPT ![c] = r]
         /\ \A x \in Clients : x # c => pc'[x] = pc[x]
         /\ pc'[c] \in {"probe", "fallback", "done"}
         /\ pc'[c] = "fallback" => c \in OptIn /\ r \in {"noresults", "notrunning"}
BY DEF RequestTypeOK, Return

\* The part of IPCInv that is about one request at a time is preserved, given
\* that brokers and requests agree (OneHostPerRequest).
LEMMA RequestInvStep ==
  ASSUME IPCTypeOK, IPCInv, IPCNext
  PROVE  /\ PromptHistory' /\ AnswerJustified' /\ CommandProgress'
         /\ AskedAtMostOnce' /\ FallbackOnlyUndecided'
<1> DEFINE Goal == /\ PromptHistory' /\ AnswerJustified' /\ CommandProgress'
                   /\ AskedAtMostOnce' /\ FallbackOnlyUndecided'
<1> USE DEF IPCTypeOK, RequestTypeOK, IPCInv, PromptHistory, AnswerJustified,
            CommandProgress, AskedAtMostOnce, FallbackOnlyUndecided
<1>1. CASE SocketStep
  BY <1>1 DEF SocketStep, requestVars
<1>2. ASSUME NEW b \in Brokers, BrokerStep(b)
      PROVE  Goal
  <2>1. CASE BrokerAccept(b)
    <3>1. \A c \in Clients : busy'[b] = c => req[c] = "queued"
      BY <2>1 DEF BrokerAccept, Accept, OneHostPerRequest, SocketTypeOK
    <3> QED
      BY <2>1, <3>1 DEF BrokerAccept
  <2>2. CASE BrokerRefusePeer(b)
    <3>1. \A c \in Clients : Head(backlog[b]) = c => req[c] = "queued"
      BY <2>2 DEF BrokerRefusePeer, RefusePeer, OneHostPerRequest, SocketTypeOK
    <3> QED
      BY <2>2, <3>1 DEF BrokerRefusePeer
  <2>3. CASE BrokerEndProbe(b)
    BY <2>3 DEF BrokerEndProbe, requestVars
  <2>4. ASSUME NEW c \in Clients, BrokerRead(b, c)
        PROVE  Goal
    BY <2>4 DEF BrokerRead
  <2>5. ASSUME NEW c \in Clients, BrokerReadFails(b, c)
        PROVE  Goal
    BY <2>5 DEF BrokerReadFails
  <2>6. ASSUME NEW c \in Clients, BrokerReply(b, c)
        PROVE  Goal
    BY <2>6 DEF BrokerReply
  <2> QED
    BY <1>2, <2>1, <2>2, <2>3, <2>4, <2>5, <2>6 DEF BrokerStep
<1>3. ASSUME NEW b \in Brokers, BrokerDeath(b)
      PROVE  Goal
  BY <1>3, NamesAssumption DEF BrokerDeath, BrokerCrash
<1>4. ASSUME NEW c \in Clients, ClientStep(c)
      PROVE  Goal
  <2>1. CASE ClientCheck(c)
    BY <2>1 DEF ClientCheck
  <2>2. CASE ClientConnect(c)
    BY <2>2 DEF ClientConnect
  <2>3. CASE ClientConnectFails(c)
    BY <2>3 DEF ClientConnectFails
  <2>4. CASE ClientRequestTooLarge(c)
    BY <2>4, ReturnEffect DEF ClientRequestTooLarge
  <2>5. CASE ClientWrite(c)
    BY <2>5 DEF ClientWrite
  <2>6. CASE ClientWriteFails(c)
    BY <2>6, ReturnEffect DEF ClientWriteFails
  <2>7. CASE ClientRead(c)
    BY <2>7, ReturnEffect DEF ClientRead, Answers
  <2>8. CASE ClientReadFails(c)
    BY <2>8, ReturnEffect DEF ClientReadFails
  <2>9. CASE ClientReadEof(c)
    BY <2>9, ReturnEffect DEF ClientReadEof
  <2>10. CASE DirectSpawn(c)
    BY <2>10 DEF DirectSpawn
  <2>11. CASE DirectSpawnFails(c)
    BY <2>11, ReturnEffect DEF DirectSpawnFails
  <2>12. CASE DirectFinish(c)
    BY <2>12, ReturnEffect DEF DirectFinish, Answers
  <2>13. CASE DirectTimeout(c)
    BY <2>13, ReturnEffect DEF DirectTimeout
  <2>14. CASE ExternalFallback(c)
    BY <2>14 DEF ExternalFallback
  <2>15. CASE StatusProbe(c)
    BY <2>15 DEF StatusProbe
  <2>16. CASE DirectPollFails(c)
    BY <2>16, ReturnEffect DEF DirectPollFails
  <2> QED
    BY <1>4, <2>1, <2>2, <2>3, <2>4, <2>5, <2>6, <2>7, <2>8, <2>9, <2>10,
       <2>11, <2>12, <2>13, <2>14, <2>15, <2>16 DEF ClientStep
<1>5. ASSUME NEW c \in Clients, HostStep(c) \/ UserStep(c)
      PROVE  Goal
  <2>1. CASE DispatchAnswer(c)
    BY <2>1 DEF DispatchAnswer
  <2>2. CASE DispatchPrompt(c)
    BY <2>2 DEF DispatchPrompt
  <2>3. ASSUME NEW d \in {"approved", "denied"}, UserDecides(c, d)
        PROVE  Goal
    BY <2>3 DEF UserDecides
  <2>4. CASE PickerFails(c)
    BY <2>4 DEF PickerFails
  <2>5. CASE PickerTimesOut(c)
    BY <2>5 DEF PickerTimesOut
  <2>6. ASSUME NEW d \in {"approved", "denied"}, LateDecision(c, d)
        PROVE  Goal
    BY <2>6 DEF LateDecision
  <2> QED
    BY <1>5, <2>1, <2>2, <2>3, <2>4, <2>5, <2>6 DEF HostStep, UserStep
<1> QED
  BY <1>1, <1>2, <1>3, <1>4, <1>5 DEF IPCNext

-----------------------------------------------------------------------------
\* A probe that enters a backlog is nobody's request.
LEMMA ProbeKeepsHosts ==
  ASSUME IPCTypeOK, OneHostPerRequest, NEW up \in BOOLEAN, SocketRunning(up),
         UNCHANGED <<busy, host, req>>
  PROVE  OneHostPerRequest'
<1>1. CASE UNCHANGED backlog
  BY <1>1 DEF OneHostPerRequest
<1>2. ASSUME NEW x \in Brokers, Enqueue(x, Probe)
      PROVE  OneHostPerRequest'
  <2>1. backlog[x] \in Seq(Peers) /\ Probe \in Peers
    BY DEF IPCTypeOK, SocketTypeOK, Peers
  <2>2. backlog' = [backlog EXCEPT ![x] = Append(backlog[x], Probe)]
    BY <1>2 DEF Enqueue
  <2>3. \A b \in Brokers, c \in Clients : \A i \in DOMAIN backlog'[b] :
          backlog'[b][i] = c => i \in DOMAIN backlog[b] /\ backlog[b][i] = c
    BY <2>1, <2>2, NamesAssumption DEF IPCTypeOK, SocketTypeOK
  <2> QED
    BY <2>3 DEF OneHostPerRequest
<1> QED
  BY <1>1, <1>2, ProbeEffect DEF IPCTypeOK

\* Removing the head of a backlog leaves the others where they were.
LEMMA TailHosts ==
  ASSUME IPCTypeOK, OneHostPerRequest, NEW b \in Brokers, backlog[b] # <<>>,
         backlog' = [backlog EXCEPT ![b] = Tail(@)]
  PROVE  /\ \A x \in Brokers, c \in Clients : \A i, j \in DOMAIN backlog'[x] :
              backlog'[x][i] = c =>
                /\ host[c] = x /\ req[c] = "queued"
                /\ backlog'[x][j] = c => i = j
                /\ c # Head(backlog[b])
         /\ \A c \in Clients : Head(backlog[b]) = c => host[c] = b /\ req[c] = "queued"
<1>1. backlog[b] \in Seq(Peers)
  BY DEF IPCTypeOK, SocketTypeOK
<1>2. /\ 1 \in DOMAIN backlog[b] /\ Head(backlog[b]) = backlog[b][1]
      /\ \A i \in DOMAIN Tail(backlog[b]) :
           /\ i + 1 \in DOMAIN backlog[b] /\ i + 1 # 1
           /\ Tail(backlog[b])[i] = backlog[b][i + 1]
      /\ \A i, j \in DOMAIN Tail(backlog[b]) : i + 1 = j + 1 => i = j
  BY <1>1
<1>3. /\ backlog'[b] = Tail(backlog[b])
      /\ \A x \in Brokers : x # b => backlog'[x] = backlog[x]
  BY DEF IPCTypeOK, SocketTypeOK
<1>4. ASSUME NEW x \in Brokers, NEW c \in Clients,
             NEW i \in DOMAIN backlog'[x], NEW j \in DOMAIN backlog'[x],
             backlog'[x][i] = c
      PROVE  /\ host[c] = x /\ req[c] = "queued"
             /\ backlog'[x][j] = c => i = j
             /\ c # Head(backlog[b])
  <2>1. CASE x = b
    <3>1. /\ i + 1 \in DOMAIN backlog[b] /\ backlog[b][i + 1] = c /\ i + 1 # 1
          /\ j + 1 \in DOMAIN backlog[b] /\ backlog[b][j + 1] = backlog'[x][j]
          /\ i + 1 = j + 1 => i = j
      BY <1>2, <1>3, <1>4, <2>1
    <3>2. host[c] = b /\ req[c] = "queued"
      BY <3>1 DEF OneHostPerRequest
    <3>3. backlog[b][j + 1] = c => i + 1 = j + 1
      BY <3>1 DEF OneHostPerRequest
    <3>4. backlog[b][1] # c
      BY <1>2, <3>1 DEF OneHostPerRequest
    <3> QED
      BY <1>2, <2>1, <3>1, <3>2, <3>3, <3>4
  <2>2. CASE x # b
    BY <1>2, <1>3, <1>4, <2>2 DEF OneHostPerRequest
  <2> QED
    BY <2>1, <2>2
<1> QED
  BY <1>2, <1>4 DEF OneHostPerRequest

\* Brokers and requests keep agreeing on who serves whom.
LEMMA OneHostStep ==
  ASSUME IPCTypeOK, IPCInv, IPCNext
  PROVE  OneHostPerRequest'
<1> USE DEF IPCInv
<1>1. CASE SocketStep
  <2>1. UNCHANGED <<host, req>>
    BY <1>1 DEF SocketStep, requestVars
  <2>2. ASSUME NEW l \in Brokers, LaunchProbe(l) \/ LaunchReport(l)
        PROVE  OneHostPerRequest'
    BY <2>1, <2>2, ProbeKeepsHosts DEF LaunchProbe, LaunchReport
  <2>3. CASE UNCHANGED <<backlog, busy>>
    BY <2>1, <2>3 DEF OneHostPerRequest
  <2> QED
    BY <1>1, <2>2, <2>3
       DEF SocketStep, InstallStep, LaunchBegin, LaunchStep, LaunchSpawn,
           LaunchSpawnFails, StartStep, RemoveStaleSocket, WriteStarting, Bind,
           ChmodSocket, Listen, WriteRunning
<1>2. ASSUME NEW b \in Brokers, BrokerAccept(b)
      PROVE  OneHostPerRequest'
  <2>1. /\ backlog[b] # <<>> /\ backlog' = [backlog EXCEPT ![b] = Tail(@)]
        /\ busy' = [busy EXCEPT ![b] = Head(backlog[b])] /\ busy[b] = NoOne
        /\ UNCHANGED host
        /\ req' = [c \in Clients |-> IF c = Head(backlog[b]) THEN "accepted" ELSE req[c]]
    BY <1>2 DEF BrokerAccept, Accept, IPCTypeOK, SocketTypeOK
  <2>2. \A x \in Brokers, c \in Clients :
          busy'[x] = c => host'[c] = x /\ req'[c] \in {"accepted", "dispatch", "prompt", "answered"}
    BY <2>1, TailHosts DEF OneHostPerRequest, IPCTypeOK, SocketTypeOK
  <2>3. \A x \in Brokers, c \in Clients : \A i, j \in DOMAIN backlog'[x] :
          backlog'[x][i] = c => /\ host'[c] = x /\ req'[c] = "queued"
                                /\ backlog'[x][j] = c => i = j
    <3>1. \A c \in Clients : c # Head(backlog[b]) => req'[c] = req[c]
      BY <2>1
    <3>2. \A x \in Brokers, c \in Clients : \A i, j \in DOMAIN backlog'[x] :
            backlog'[x][i] = c => /\ host[c] = x /\ req[c] = "queued"
                                  /\ backlog'[x][j] = c => i = j
                                  /\ c # Head(backlog[b])
      BY <2>1, TailHosts
    <3> QED
      BY <2>1, <3>1, <3>2
  <2> QED
    BY <2>2, <2>3 DEF OneHostPerRequest
<1>3. ASSUME NEW b \in Brokers, BrokerRefusePeer(b)
      PROVE  OneHostPerRequest'
  <2>1. /\ backlog[b] # <<>> /\ backlog' = [backlog EXCEPT ![b] = Tail(@)]
        /\ UNCHANGED <<busy, host>>
        /\ req' = [c \in Clients |-> IF c = Head(backlog[b]) THEN "over" ELSE req[c]]
    BY <1>3 DEF BrokerRefusePeer, RefusePeer
  <2>2. \A x \in Brokers, c \in Clients :
          busy'[x] = c => host'[c] = x /\ req'[c] \in {"accepted", "dispatch", "prompt", "answered"}
    BY <2>1, TailHosts DEF OneHostPerRequest
  <2>3. \A x \in Brokers, c \in Clients : \A i, j \in DOMAIN backlog'[x] :
          backlog'[x][i] = c => /\ host'[c] = x /\ req'[c] = "queued"
                                /\ backlog'[x][j] = c => i = j
    <3>1. \A c \in Clients : c # Head(backlog[b]) => req'[c] = req[c]
      BY <2>1
    <3>2. \A x \in Brokers, c \in Clients : \A i, j \in DOMAIN backlog'[x] :
            backlog'[x][i] = c => /\ host[c] = x /\ req[c] = "queued"
                                  /\ backlog'[x][j] = c => i = j
                                  /\ c # Head(backlog[b])
      BY <2>1, TailHosts
    <3> QED
      BY <2>1, <3>1, <3>2
  <2> QED
    BY <2>2, <2>3 DEF OneHostPerRequest
<1>4. ASSUME NEW b \in Brokers, BrokerEndProbe(b)
      PROVE  OneHostPerRequest'
  BY <1>4, NamesAssumption
     DEF BrokerEndProbe, Finish, requestVars, OneHostPerRequest, IPCTypeOK, SocketTypeOK
<1>5. ASSUME NEW b \in Brokers, NEW c \in Clients,
             BrokerRead(b, c) \/ BrokerReadFails(b, c)
      PROVE  OneHostPerRequest'
  BY <1>5 DEF BrokerRead, BrokerReadFails, OneHostPerRequest, socketVars,
     IPCTypeOK, RequestTypeOK
<1>6. ASSUME NEW b \in Brokers, NEW c \in Clients, BrokerReply(b, c)
      PROVE  OneHostPerRequest'
  BY <1>6, NamesAssumption
     DEF BrokerReply, Finish, OneHostPerRequest, IPCTypeOK, SocketTypeOK, RequestTypeOK
<1>7. ASSUME NEW b \in Brokers, BrokerDeath(b)
      PROVE  OneHostPerRequest'
  BY <1>7, NamesAssumption
     DEF BrokerDeath, BrokerCrash, Crash, OneHostPerRequest, IPCTypeOK, SocketTypeOK, RequestTypeOK
<1>8. ASSUME NEW c \in Clients, ClientConnect(c)
      PROVE  OneHostPerRequest'
  <2> PICK x \in Brokers : Connect(x, c) /\ host' = [host EXCEPT ![c] = x]
    BY <1>8 DEF ClientConnect
  <2>1. req[c] = "none" /\ req' = [req EXCEPT ![c] = "queued"] /\ UNCHANGED busy
    BY <1>8 DEF ClientConnect, CommandProgress, Connect
  <2>2. \A b \in Brokers : /\ busy[b] # c
                            /\ \A i \in DOMAIN backlog[b] : backlog[b][i] # c
    BY <2>1 DEF OneHostPerRequest
  <2>3. /\ backlog' = [backlog EXCEPT ![x] = Append(backlog[x], c)]
        /\ backlog[x] \in Seq(Peers) /\ c \in Peers
    BY DEF Connect, Enqueue, IPCTypeOK, SocketTypeOK, Peers
  <2>4. \A b \in Brokers : \A i \in DOMAIN backlog'[b] :
          \/ i \in DOMAIN backlog[b] /\ backlog'[b][i] = backlog[b][i]
          \/ b = x /\ i = Len(backlog[x]) + 1 /\ backlog'[b][i] = c
    BY <2>3 DEF IPCTypeOK, SocketTypeOK
  <2>5. \A d \in Clients : d # c => host'[d] = host[d] /\ req'[d] = req[d]
    BY <2>1 DEF IPCTypeOK, RequestTypeOK
  <2>6. host'[c] = x /\ req'[c] = "queued"
    BY <2>1 DEF IPCTypeOK, RequestTypeOK
  <2> QED
    BY <2>1, <2>2, <2>4, <2>5, <2>6 DEF OneHostPerRequest
<1>9. ASSUME NEW c \in Clients, StatusProbe(c)
      PROVE  OneHostPerRequest'
  BY <1>9, ProbeKeepsHosts DEF StatusProbe
<1>10. ASSUME NEW c \in Clients,
              DirectSpawn(c) \/ DirectFinish(c) \/ DirectTimeout(c)
       PROVE  OneHostPerRequest'
  <2>1. \A b \in Brokers : /\ busy[b] # c
                            /\ \A i \in DOMAIN backlog[b] : backlog[b][i] # c
    BY <1>10, NamesAssumption
       DEF DirectSpawn, DirectFinish, DirectTimeout, CommandProgress, OneHostPerRequest
  <2>2. /\ UNCHANGED <<backlog, busy>>
        /\ \A d \in Clients : d # c => host'[d] = host[d] /\ req'[d] = req[d]
    BY <1>10 DEF DirectSpawn, DirectFinish, DirectTimeout, socketVars, IPCTypeOK,
       RequestTypeOK
  <2> QED
    BY <2>1, <2>2 DEF OneHostPerRequest
<1>11. ASSUME NEW c \in Clients,
              \/ ClientCheck(c) \/ ClientConnectFails(c) \/ ClientRequestTooLarge(c)
              \/ ClientWrite(c) \/ ClientWriteFails(c) \/ ClientRead(c)
              \/ ClientReadFails(c) \/ ClientReadEof(c) \/ DirectSpawnFails(c)
              \/ ExternalFallback(c) \/ DirectPollFails(c)
              \/ \E d \in {"approved", "denied"} : LateDecision(c, d)
       PROVE  OneHostPerRequest'
  <2>1. UNCHANGED <<backlog, busy, host, req>>
    BY <1>11 DEF ClientCheck, ClientConnectFails, ClientRequestTooLarge, ClientWrite,
       ClientWriteFails, ClientRead, ClientReadFails, ClientReadEof, DirectSpawnFails,
       ExternalFallback, DirectPollFails, LateDecision, socketVars
  <2> QED
    BY <2>1 DEF OneHostPerRequest
<1>12. ASSUME NEW c \in Clients,
              \/ HostStep(c) \/ PickerFails(c)
              \/ \E d \in {"approved", "denied"} : UserDecides(c, d)
       PROVE  OneHostPerRequest'
  <2>1. /\ UNCHANGED <<backlog, busy, host>>
        /\ req[c] \in {"dispatch", "prompt"} /\ req'[c] \in {"prompt", "answered"}
        /\ \A d \in Clients : d # c => req'[d] = req[d]
    BY <1>12 DEF HostStep, DispatchAnswer, DispatchPrompt, PickerTimesOut, PickerFails,
       UserDecides, socketVars, IPCTypeOK, RequestTypeOK
  <2> QED
    BY <2>1 DEF OneHostPerRequest
<1> QED
  BY <1>1, <1>2, <1>3, <1>4, <1>5, <1>6, <1>7, <1>8, <1>9, <1>10, <1>11, <1>12
     DEF IPCNext, BrokerStep, ClientStep, HostStep, UserStep

-----------------------------------------------------------------------------
\* IPCInv holds in every reachable state.
THEOREM IPCInvariant == IPCSpec => []IPCInv
<1>1. IPCInit => IPCInv
  BY NamesAssumption
     DEF IPCInit, SocketInit, IPCInv, PromptHistory, AnswerJustified, CommandProgress,
         AskedAtMostOnce, OneHostPerRequest, FallbackOnlyUndecided
<1>2. IPCTypeOK /\ IPCInv /\ [IPCNext]_ipcVars => IPCInv'
  <2> SUFFICES ASSUME IPCTypeOK, IPCInv, [IPCNext]_ipcVars
               PROVE  IPCInv'
    OBVIOUS
  <2>1. CASE IPCNext
    BY <2>1, RequestInvStep, OneHostStep DEF IPCInv
  <2>2. CASE UNCHANGED ipcVars
    BY <2>2 DEF ipcVars, socketVars, requestVars, IPCInv, PromptHistory,
       AnswerJustified, CommandProgress, AskedAtMostOnce, OneHostPerRequest,
       FallbackOnlyUndecided
  <2> QED
    BY <2>1, <2>2
<1> QED
  BY <1>1, <1>2, IPCTypeCorrect, PTL DEF IPCSpec

\* No timeout, crash or late approval makes the CLI print a native credential
\* that the user did not approve for that request.
THEOREM CredentialApproved == IPCSpec => []CredentialOnlyIfApproved
<1>1. IPCInv => CredentialOnlyIfApproved
  BY DEF IPCInv, CommandProgress, AnswerJustified, CredentialOnlyIfApproved
<1> QED
  BY <1>1, IPCInvariant, PTL

\* The external provider never overrides the user: a request that reached it
\* was opted in, the user has decided nothing about it, no prompt is on screen,
\* and one that was came to its own end with "no results".
THEOREM FallbackUndecided == IPCSpec => []FallbackOnlyUndecided
<1>1. IPCInv => FallbackOnlyUndecided
  BY DEF IPCInv
<1> QED
  BY <1>1, IPCInvariant, PTL

\* One command never causes two prompts, in one process or in two.
THEOREM AskedOnce == IPCSpec => []AskedAtMostOnce
<1>1. IPCInv => AskedAtMostOnce
  BY DEF IPCInv
<1> QED
  BY <1>1, IPCInvariant, PTL

\* However brokers replace each other, a request is in one of them only.
THEOREM OneHost == IPCSpec => []OneHostPerRequest
<1>1. IPCInv => OneHostPerRequest
  BY DEF IPCInv
<1> QED
  BY <1>1, IPCInvariant, PTL

-----------------------------------------------------------------------------
\* A step of one command changes the outcome of that command only.
LEMMA OutcomeLocal ==
  ASSUME NEW c \in Clients,
         \A x \in Clients : x # c => pc'[x] = pc[x] /\ result'[x] = result[x]
  PROVE  Outcome' = [Outcome EXCEPT ![c] = Outcome'[c]]
<1>1. \A x \in Clients : x # c => Ending(result[x], pc[x])' = Ending(result[x], pc[x])
  BY DEF Ending
<1> QED
  BY <1>1 DEF Outcome

\* A step that touches neither the commands nor the decisions is a stutter.
LEMMA OutcomeStutter ==
  ASSUME UNCHANGED <<decision, pc, result>>
  PROVE  UNCHANGED Release!vars
BY DEF Outcome, Release!vars, Ending

\* Returning from the native request is Release after an approval, Refuse
\* when the command ends without one, and a stutter on the way to the fallback.
LEMMA ReturnPromise ==
  ASSUME IPCTypeOK, IPCInv, NEW c \in Clients, NEW r, Return(c, r),
         pc[c] \in {"write", "read", "direct", "exec"},
         r # "external", r = "credential" => decision[c] = "approved",
         UNCHANGED decision
  PROVE  [Release!Next]_Release!vars
<1>1. /\ result' = [result EXCEPT ![c] = r]
      /\ \A x \in Clients : x # c => pc'[x] = pc[x]
      /\ pc'[c] \in {"probe", "fallback", "done"}
      /\ pc'[c] = "fallback" => r \in {"noresults", "notrunning"}
  BY ReturnEffect DEF IPCTypeOK
<1>2. /\ result'[c] = r
      /\ \A x \in Clients : x # c => result'[x] = result[x]
  BY <1>1 DEF IPCTypeOK, RequestTypeOK
<1>3. Outcome' = [Outcome EXCEPT ![c] = Outcome'[c]]
  BY <1>1, <1>2, OutcomeLocal
<1>4. Outcome[c] = "pending"
  BY DEF IPCInv, CommandProgress, Outcome, Ending
<1>5. CASE r = "credential"
  <2>1. Outcome'[c] = "released"
    BY <1>2, <1>5 DEF Outcome, Ending
  <2> QED
    BY <1>3, <1>4, <1>5, <2>1 DEF Release!Next, Release!Release
<1>6. CASE r # "credential" /\ pc'[c] = "fallback"
  <2>1. Outcome'[c] = Outcome[c]
    BY <1>1, <1>2, <1>4, <1>6 DEF Outcome, Ending
  <2>2. Outcome' = Outcome
    BY <1>3, <2>1 DEF Outcome
  <2> QED
    BY <2>2 DEF Release!vars
<1>7. CASE r # "credential" /\ pc'[c] # "fallback"
  <2>1. Outcome'[c] = "refused"
    BY <1>1, <1>2, <1>7 DEF Outcome, Ending
  <2> QED
    BY <1>3, <1>4, <2>1 DEF Release!Next, Release!Refuse
<1> QED
  BY <1>5, <1>6, <1>7

\* A user's answer, in time or late, is a decision of a request that has none.
LEMMA DecisionPromise ==
  ASSUME IPCTypeOK, IPCInv, NEW c \in Clients, NEW d \in {"approved", "denied"},
         UserDecides(c, d) \/ LateDecision(c, d)
  PROVE  [Release!Next]_Release!vars
<1>1. /\ decision[c] = "none"
      /\ decision' = [decision EXCEPT ![c] = d]
      /\ UNCHANGED <<pc, result>>
  BY DEF UserDecides, LateDecision, IPCInv, PromptHistory
<1>2. Outcome' = Outcome
  BY <1>1 DEF Outcome
<1>3. result[c] # "credential" /\ result[c] # "external"
  BY DEF UserDecides, LateDecision, IPCInv, PromptHistory, AnswerJustified,
     CommandProgress, FallbackOnlyUndecided
<1>4. Outcome[c] \notin {"released", "external"}
  BY <1>3 DEF Outcome, Ending
<1> QED
  BY <1>1, <1>2, <1>4 DEF Release!Next, Release!Decide

\* The fallback's own result ends the command: as a credential of the external
\* provider, or as a refusal.
LEMMA FallbackPromise ==
  ASSUME IPCTypeOK, IPCInv, NEW c \in Clients, ExternalFallback(c)
  PROVE  [Release!Next]_Release!vars
<1>1. PICK r \in {"external", "config", "generic", "timeout", "proto",
                  "noresults", "notrunning"} :
        result' = [result EXCEPT ![c] = r]
  BY DEF ExternalFallback
<1>2. /\ pc[c] = "fallback" /\ pc'[c] = "done" /\ result'[c] = r
      /\ \A x \in Clients : x # c => pc'[x] = pc[x] /\ result'[x] = result[x]
      /\ UNCHANGED decision
  BY <1>1 DEF ExternalFallback, IPCTypeOK, RequestTypeOK
<1>3. Outcome' = [Outcome EXCEPT ![c] = Outcome'[c]]
  BY <1>2, OutcomeLocal
<1>4. c \in OptIn /\ decision[c] = "none" /\ Outcome[c] = "pending"
  BY <1>2 DEF IPCInv, FallbackOnlyUndecided, CommandProgress, Outcome, Ending
<1>5. Outcome'[c] = IF r = "external" THEN "external" ELSE "refused"
  BY <1>2 DEF Outcome, Ending
<1> QED
  BY <1>2, <1>3, <1>4, <1>5 DEF Release!Next, Release!Fallback, Release!Refuse

\* Every step of the request path is a step of CredentialRelease or a stutter.
LEMMA PromiseStep ==
  ASSUME IPCTypeOK, IPCInv, [IPCNext]_ipcVars
  PROVE  [Release!Next]_Release!vars
<1>1. CASE SocketStep \/ UNCHANGED ipcVars
  BY <1>1, OutcomeStutter DEF SocketStep, ipcVars, requestVars
<1>2. ASSUME NEW b \in Brokers, BrokerStep(b) \/ BrokerDeath(b)
      PROVE  [Release!Next]_Release!vars
  BY <1>2, OutcomeStutter
     DEF BrokerStep, BrokerDeath, BrokerCrash, BrokerAccept, BrokerRefusePeer, BrokerEndProbe,
         BrokerRead, BrokerReadFails, BrokerReply, requestVars
<1>3. ASSUME NEW c \in Clients, ClientStep(c)
      PROVE  [Release!Next]_Release!vars
  <2>1. CASE ClientCheck(c) \/ ClientConnect(c) \/ ClientConnectFails(c)
             \/ ClientWrite(c) \/ DirectSpawn(c) \/ StatusProbe(c)
    <3>1. \A x \in Clients : pc'[x] \in {"done", "probe"} <=> pc[x] \in {"done", "probe"}
      BY <2>1 DEF ClientCheck, ClientConnect, ClientConnectFails, ClientWrite,
         DirectSpawn, StatusProbe, IPCTypeOK, RequestTypeOK
    <3>2. UNCHANGED <<decision, result>>
      BY <2>1 DEF ClientCheck, ClientConnect, ClientConnectFails, ClientWrite,
         DirectSpawn, StatusProbe
    <3> QED
      BY <3>1, <3>2 DEF Outcome, Ending, Release!vars
  <2>2. CASE ClientRequestTooLarge(c) \/ ClientReadEof(c)
    BY <2>2, ReturnPromise DEF ClientRequestTooLarge, ClientReadEof
  <2>3. CASE ClientWriteFails(c) \/ ClientReadFails(c) \/ DirectTimeout(c)
             \/ DirectPollFails(c)
    BY <2>3, ReturnPromise
       DEF ClientWriteFails, ClientReadFails, DirectTimeout, DirectPollFails
  <2>4. CASE DirectSpawnFails(c)
    <3>1. PICK r \in {"notrunning", "proto"} : Return(c, r)
      BY <2>4 DEF DirectSpawnFails
    <3> QED
      BY <2>4, <3>1, ReturnPromise DEF DirectSpawnFails
  <2>5. CASE ClientRead(c) \/ DirectFinish(c)
    <3>1. /\ pc[c] \in {"read", "exec"} /\ UNCHANGED decision
          /\ \E r \in {"generic", "proto", "timeout", answer[c]} : Return(c, r)
      BY <2>5 DEF ClientRead, DirectFinish
    <3>2. answer[c] # "external" /\ (answer[c] = "credential" => decision[c] = "approved")
      BY DEF IPCTypeOK, RequestTypeOK, Answers, IPCInv, AnswerJustified
    <3> QED
      BY <3>1, <3>2, ReturnPromise
  <2>6. CASE ExternalFallback(c)
    BY <2>6, FallbackPromise
  <2> QED
    BY <1>3, <2>1, <2>2, <2>3, <2>4, <2>5, <2>6 DEF ClientStep
<1>4. ASSUME NEW c \in Clients, HostStep(c) \/ PickerFails(c)
      PROVE  [Release!Next]_Release!vars
  BY <1>4, OutcomeStutter
     DEF HostStep, DispatchAnswer, DispatchPrompt, PickerTimesOut, PickerFails
<1>5. ASSUME NEW c \in Clients, NEW d \in {"approved", "denied"},
             UserDecides(c, d) \/ LateDecision(c, d)
      PROVE  [Release!Next]_Release!vars
  BY <1>5, DecisionPromise
<1> QED
  BY <1>1, <1>2, <1>3, <1>4, <1>5 DEF IPCNext, UserStep

\* The request path implements CredentialRelease: sockets, retries, one-shot
\* children, timeouts and crashes add no way to obtain a credential.
THEOREM IPCImplementsRelease == IPCSpec => Promise
<1>1. IPCInit => Release!Init
  BY DEF IPCInit, Release!Init, Outcome, Ending
<1>2. IPCTypeOK /\ IPCInv /\ [IPCNext]_ipcVars => [Release!Next]_Release!vars
  BY PromiseStep
<1> QED
  BY <1>1, <1>2, IPCTypeCorrect, IPCInvariant, PTL DEF IPCSpec, Promise, Release!Spec
=============================================================================
