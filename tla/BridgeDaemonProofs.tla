-------------------------- MODULE BridgeDaemonProofs --------------------------
(***************************************************************************)
(* Proofs about BridgeDaemon for any clients, any number of connections    *)
(* and any answers of the peers: type correctness, OwnAnswer,              *)
(* PendingOnActive, NativeStatusOnDisk and OnlyActiveDetaches.             *)
(***************************************************************************)
EXTENDS BridgeDaemon, TLAPS

USE DEF diskVars

\* What other commands do to config.json is not seen by the daemon.
LEMMA CommandsOutside ==
  ASSUME CommandStep
  PROVE  UNCHANGED otherVars
BY DEF CommandStep, CommandReads, CommandSaves, CommandClears, otherVars

\* Connection 0 stands for none, and is none of the connections.
LEMMA NoConnIsNone == NoConn \notin Conns
BY BridgeAssumption DEF NoConn, Conns

\* The locals of a handler task.
HandlerLocals == [pc : Positions, then : Positions, taken : SUBSET Calls,
                  copy : BridgeStatuses]

\* The locals of handlers between and inside mark_status and attach.
LEMMA HandlerTypes ==
  ASSUME NEW pc \in Positions, NEW calls \in SUBSET Calls
  PROVE  /\ At(pc) \in HandlerLocals
         /\ MustPersist(pc, calls) \in HandlerLocals
         /\ At(pc).pc = pc /\ At(pc).taken = {}
         /\ MustPersist(pc, calls).pc = "persist"
         /\ MustPersist(pc, calls).then = pc
         /\ MustPersist(pc, calls).taken = calls
BY DEF At, MustPersist, Positions, BridgeStatuses, HandlerLocals

\* parse_helper_response_shape always comes to a code.
LEMMA HelperCodeTypes ==
  ASSUME NEW b \in JsonBodies
  PROVE  HelperCode(b) \in Statuses
BY DEF JsonBodies, JsonCodes, HelperCode, HelperOk, StatusOf, Statuses

\* A response about a call carries that call's answer or none.
LEMMA ResponseTypes ==
  ASSUME NEW m \in Calls, NEW response \in Responses(m)
  PROVE  response \in Results /\ response.of \subseteq {m.req}
<1>1. \A b \in Bodies : HelperCode(b) \in Statuses
  BY BridgeAssumption, HelperCodeTypes
<1> QED
  BY <1>1 DEF Responses, Results, Calls, Statuses

\* What the client reads as a success was a success with a payload:
\* parse_response_envelope after send_envelope_to_client.
LEMMA SuccessHasPayload ==
  ASSUME NEW code, NEW of,
         ParseResponseEnvelope(Envelope(code, of # {})) = "Success"
  PROVE  code = "Success" /\ of # {}
BY DEF ParseResponseEnvelope, Envelope, StatusOf

\* An answer to a client is of the right type, and only the client's own
\* entry changes.
LEMMA ReplyTypes ==
  ASSUME BridgeTypeOK, NEW r \in Requests, NEW code, NEW of \in SUBSET Requests,
         Reply(r, code, of)
  PROVE  /\ answer' \in [Requests -> [code : {"none", "failure", "Success"},
                                      of : SUBSET Requests]]
         /\ \A x \in Requests :
              \/ answer'[x] = answer[x]
              \/ x = r /\ answer'[x] = [code |-> "failure", of |-> {}]
              \/ x = r /\ answer'[x] = [code |-> "Success", of |-> of] /\ of # {}
BY SuccessHasPayload DEF BridgeTypeOK, Reply

\* fail_pending delivers an error without a payload.
LEMMA FailPendingTypes ==
  ASSUME NEW calls, FailPending(calls), result \subseteq Results
  PROVE  /\ result' \subseteq Results
         /\ \A res \in result' : res \in result \/ res.of = {}
BY DEF FailPending, Results, Statuses

-------------------------------------------------------------------------------
\* mark_status keeps the types, whoever calls it.
LEMMA MarkTypes ==
  ASSUME BridgeTypeOK, NEW c \in Conns,
         NEW status \in {"error", "disconnected"},
         NEW then \in {"loop", "closed"}, Mark(c, status, then)
  PROVE  /\ active' \in Conns \cup {NoConn}
         /\ pending' \subseteq Calls
         /\ snapshot' \in BridgeStatuses
         /\ handler' \in [Conns -> HandlerLocals]
<1>1. then \in Positions
  BY DEF Positions
<1>2. pending \in SUBSET Calls /\ {} \in SUBSET Calls
  BY DEF BridgeTypeOK
<1>3. /\ MustPersist(then, pending) \in HandlerLocals
      /\ At(then) \in HandlerLocals
  BY <1>1, <1>2, HandlerTypes
<1> QED
  BY <1>2, <1>3 DEF BridgeTypeOK, Mark, BridgeStatuses, HandlerLocals

\* A write of the daemon keeps the types of what is on disk.
LEMMA WriteStatusTypes ==
  ASSUME BridgeTypeOK, NEW status \in BridgeStatuses, WriteStatus(status)
  PROVE  /\ file' \in FileStatuses /\ unsaved' \in BOOLEAN /\ spoiled' \in BOOLEAN
         /\ held' \in [Commands -> [status : FileStatuses, kind : {"none", "fresh", "old"}]]
BY DEF BridgeTypeOK, WriteStatus, FileStatuses

\* Every step of the tasks and of the peers keeps the types.
LEMMA BridgeTypeStep ==
  BridgeTypeOK /\ [BridgeNext]_bridgeVars => BridgeTypeOK'
<1> SUFFICES ASSUME BridgeTypeOK, [BridgeNext]_bridgeVars
             PROVE  BridgeTypeOK'
  OBVIOUS
<1>0. \A pc \in {"none", "hello", "loop", "closed"} : At(pc) \in HandlerLocals
  BY HandlerTypes DEF Positions
<1> USE DEF HandlerLocals
<1>1. CASE BootFails
  BY <1>1 DEF BootFails, BridgeTypeOK
<1>2. ASSUME NEW dryRun \in BOOLEAN, Boot(dryRun)
      PROVE  BridgeTypeOK'
  <2>1. "waiting" \in BridgeStatuses
    BY DEF BridgeStatuses
  <2> QED
    BY <1>2, <2>1, WriteStatusTypes DEF Boot, PersistWaiting, BridgeTypeOK
<1>3. CASE AttachWaitEnds
  BY <1>3 DEF AttachWaitEnds, BridgeTypeOK
<1>4. CASE AcceptFails
  BY <1>4 DEF AcceptFails, BridgeTypeOK
<1>5. ASSUME NEW c \in Conns, HandlerStep(c)
      PROVE  BridgeTypeOK'
  <2>1. CASE PersistCopy(c)
    <3>0. /\ snapshot \in BridgeStatuses /\ "write" \in Positions
          /\ handler \in [Conns -> HandlerLocals]
      BY DEF BridgeTypeOK, Positions
    <3>1. handler' \in [Conns -> HandlerLocals]
      BY <2>1, <3>0 DEF PersistCopy
    <3> QED
      BY <2>1, <3>1 DEF PersistCopy, BridgeTypeOK
  <2>2. CASE Persisted(c)
    <3>1. handler[c].then \in Positions /\ handler[c].copy \in BridgeStatuses
      BY DEF BridgeTypeOK
    <3>2. At(handler[c].then) \in HandlerLocals
      BY <3>1, HandlerTypes
    <3>3. result' \subseteq Results
      BY <2>2, FailPendingTypes DEF Persisted, BridgeTypeOK
    <3> QED
      BY <2>2, <3>1, <3>2, <3>3, WriteStatusTypes DEF Persisted, BridgeTypeOK
  <2>3. CASE Accept(c)
    BY <2>3, <1>0 DEF Accept, BridgeTypeOK
  <2>4. CASE HelloFails(c)
    BY <2>4, <1>0 DEF HelloFails, BridgeTypeOK
  <2>5. CASE HelloIsOther(c)
    BY <2>5, MarkTypes DEF HelloIsOther, BridgeTypeOK
  <2>6. CASE Hello(c)
    <3>1. result' \subseteq Results
      BY <2>6, FailPendingTypes DEF Hello, Attach, BridgeTypeOK
    <3>2. MustPersist("loop", {}) \in HandlerLocals
      BY HandlerTypes DEF Positions
    <3> QED
      BY <2>6, <3>1, <3>2 DEF Hello, Attach, BridgeTypeOK, BridgeStatuses
  <2>7. CASE SendOutbound(c)
    BY <2>7 DEF SendOutbound, BridgeTypeOK
  <2>8. CASE SendFails(c)
    BY <2>8, <1>0 DEF SendFails, DropConnection, BridgeTypeOK
  <2>9. CASE OutboundClosed(c)
    BY <2>9, <1>0 DEF OutboundClosed, BridgeTypeOK
  <2>10. CASE PeerGone(c)
    BY <2>10, MarkTypes DEF PeerGone, BridgeTypeOK
  <2>11. CASE PeerFault(c)
    BY <2>11, <1>0 DEF PeerFault, DropConnection, BridgeTypeOK
  <2>12. CASE WriteNativeFails(c)
    <3>1. outbound' \in [Conns -> Seq(Calls)]
      BY <2>12 DEF WriteNativeFails, BridgeTypeOK
    <3> QED
      BY <2>12, <3>1, MarkTypes DEF WriteNativeFails, BridgeTypeOK
  <2>13. CASE ReadNativeFails(c)
    BY <2>13, MarkTypes DEF ReadNativeFails, BridgeTypeOK
  <2>14. CASE NativeMalformed(c)
    BY <2>14, MarkTypes DEF NativeMalformed, BridgeTypeOK
  <2>15. CASE PeerStatus(c)
    BY <2>15, MarkTypes DEF PeerStatus, BridgeTypeOK
  <2>16. CASE PeerSaysAttached(c)
    BY <2>16 DEF PeerSaysAttached, At, BridgeTypeOK, Positions, BridgeStatuses
  <2>17. CASE Respond(c)
    <3>1. PICK m \in seen[c] : \E response \in Responses(m) :
            result' \in {{response}, result}
      BY <2>17 DEF Respond
    <3>2. m \in Calls
      BY DEF BridgeTypeOK
    <3>3. result' \subseteq Results
      BY <3>1, <3>2, ResponseTypes DEF BridgeTypeOK
    <3> QED
      BY <2>17, <3>3 DEF Respond, BridgeTypeOK
  <2> QED
    BY <1>5, <2>1, <2>2, <2>3, <2>4, <2>5, <2>6, <2>7, <2>8, <2>9, <2>10,
       <2>11, <2>12, <2>13, <2>14, <2>15, <2>16, <2>17 DEF HandlerStep
<1>6. ASSUME NEW r \in Requests, RejectRequest(r) \/ RefuseRequest(r)
      PROVE  BridgeTypeOK'
  <2>1. PICK code : Reply(r, code, {})
    BY <1>6 DEF RejectRequest, RefuseRequest
  <2>2. {} \in SUBSET Requests
    OBVIOUS
  <2>3. answer' \in [Requests -> [code : {"none", "failure", "Success"},
                                  of : SUBSET Requests]]
    BY <2>1, <2>2, ReplyTypes
  <2> QED
    BY <1>6, <2>3 DEF RejectRequest, RefuseRequest, BridgeTypeOK
<1>7. ASSUME NEW r \in Requests, Enqueue(r)
      PROVE  BridgeTypeOK'
  <2>1. [id |-> seqno + 1, req |-> r] \in Calls
    BY DEF Calls, BridgeTypeOK
  <2> QED
    BY <1>7, <2>1 DEF Enqueue, ChannelOpen, BridgeTypeOK
<1>8. CASE Answered
  <2>1. PICK call \in serving, res \in result :
          Reply(call.req, res.code, res.of)
    BY <1>8 DEF Answered
  <2>2. call.req \in Requests /\ res.of \in SUBSET Requests
    BY DEF BridgeTypeOK, Calls, Results
  <2> QED
    BY <1>8, <2>1, <2>2, ReplyTypes DEF Answered, BridgeTypeOK
<1>9. CASE TimesOut
  <2>1. PICK call \in serving : Reply(call.req, "CommunicationTimeout", {})
    BY <1>9 DEF TimesOut
  <2>2. call.req \in Requests /\ {} \in SUBSET Requests
    BY DEF BridgeTypeOK, Calls
  <2>3. answer' \in [Requests -> [code : {"none", "failure", "Success"},
                                  of : SUBSET Requests]]
    BY <2>1, <2>2, ReplyTypes
  <2> QED
    BY <1>9, <2>3 DEF TimesOut, BridgeTypeOK
<1>10. CASE RecvFails
  BY <1>10 DEF RecvFails, BridgeTypeOK
<1>11. CASE UNCHANGED bridgeVars
  BY <1>11 DEF bridgeVars, BridgeTypeOK
<1>12. CASE CommandStep
  <2>1. file \in FileStatuses /\ "none" \in FileStatuses /\ spoiled \in BOOLEAN
    BY DEF FileStatuses, BridgeTypeOK
  <2>2. held \in [Commands -> [status : FileStatuses, kind : {"none", "fresh", "old"}]]
    BY DEF BridgeTypeOK
  <2>3. /\ file' \in FileStatuses /\ spoiled' \in BOOLEAN
        /\ held' \in [Commands -> [status : FileStatuses, kind : {"none", "fresh", "old"}]]
    <3>1. ASSUME NEW p \in Commands, CommandReads(p)
          PROVE  /\ file' = file /\ spoiled' = spoiled
                 /\ held' \in [Commands -> [status : FileStatuses, kind : {"none", "fresh", "old"}]]
      BY <2>1, <2>2, <3>1 DEF CommandReads
    <3>2. ASSUME NEW p \in Commands, CommandSaves(p)
          PROVE  /\ file' \in FileStatuses /\ spoiled' \in BOOLEAN
                 /\ held' \in [Commands -> [status : FileStatuses, kind : {"none", "fresh", "old"}]]
      <4>1. held[p].status \in FileStatuses
        BY <2>2
      <4> QED
        BY <2>1, <2>2, <3>2, <4>1 DEF CommandSaves, NoCopy
    <3>3. CASE CommandClears
      BY <2>1, <2>2, <3>3 DEF CommandClears
    <3> QED
      BY <1>12, <2>1, <3>1, <3>2, <3>3 DEF CommandStep
  <2> QED
    BY <1>12, <2>3, CommandsOutside DEF otherVars, BridgeTypeOK
<1> QED
  BY <1>1, <1>2, <1>3, <1>4, <1>5, <1>6, <1>7, <1>8, <1>9, <1>10, <1>11, <1>12
  DEF BridgeNext

\* The shared state, the handlers and the channels keep their types.
THEOREM BridgeTypeCorrect == BridgeSpec => []BridgeTypeOK
<1>1. BridgeInit => BridgeTypeOK
  <2> SUFFICES ASSUME BridgeInit
               PROVE  BridgeTypeOK
    OBVIOUS
  <2>1. At("none") \in HandlerLocals
    BY HandlerTypes DEF Positions
  <2>2. handler \in [Conns -> HandlerLocals]
    BY <2>1 DEF BridgeInit
  <2>3. outbound \in [Conns -> Seq(Calls)] /\ seen \in [Conns -> SUBSET Calls]
    BY DEF BridgeInit
  <2>4. answer \in [Requests -> [code : {"none", "failure", "Success"},
                                 of : SUBSET Requests]]
    BY DEF BridgeInit, NoAnswer
  <2> QED
    BY <2>2, <2>3, <2>4 DEF BridgeInit, BridgeTypeOK, BridgeStatuses,
       FileStatuses, NoCopy, HandlerLocals
<1> QED
  BY <1>1, BridgeTypeStep, PTL DEF BridgeSpec

-------------------------------------------------------------------------------
(***************************************************************************)
(* OwnAnswer.  An answer reaches a client through the id of its request    *)
(* alone, so the invariant is about ids: no two calls that are anywhere in *)
(* the daemon or with a peer share one.                                    *)
(***************************************************************************)

\* The calls that are registered, waited for, queued for a peer or with one.
Known(m) ==
  \/ m \in pending
  \/ m \in serving
  \/ \E c \in Conns : m \in seen[c]
  \/ \E c \in Conns : \E i \in DOMAIN outbound[c] : outbound[c][i] = m

\* BRIDGE_REQUEST_SEQUENCE gives every call an id of its own.
IdsUnique ==
  /\ \A m \in Calls : Known(m) => m.id <= seqno
  /\ \A m, n \in Calls : Known(m) /\ Known(n) /\ m.id = n.id => m = n

\* The UDP task waits for one call, and what its channel holds is an error or
\* the answer to that call.
ResultOwn ==
  /\ \A m, n \in serving : m = n
  /\ \A call \in serving, res \in result : res.of \subseteq {call.req}

\* The inductive invariant behind OwnAnswer.
OwnInv == IdsUnique /\ ResultOwn /\ OwnAnswer

\* What is left of a channel was in it before.
LEMMA TailElements ==
  ASSUME NEW s \in Seq(Calls), s # <<>>, NEW i \in DOMAIN Tail(s)
  PROVE  i + 1 \in DOMAIN s /\ Tail(s)[i] = s[i + 1]
OBVIOUS

\* What is in a channel after an Append was there, or is what was appended.
LEMMA AppendElements ==
  ASSUME NEW s \in Seq(Calls), NEW e \in Calls, NEW i \in DOMAIN Append(s, e)
  PROVE  \/ Append(s, e)[i] = e
         \/ i \in DOMAIN s /\ Append(s, e)[i] = s[i]
OBVIOUS

\* Only enqueue_request brings a new call into the daemon, with the next id;
\* nothing else makes one up, and no id is given out twice.
LEMMA KnownStep ==
  ASSUME BridgeTypeOK, [BridgeNext]_bridgeVars
  PROVE  /\ seqno' \in Nat /\ seqno' >= seqno
         /\ \A m \in Calls : Known(m)' =>
              \/ Known(m)
              \/ serving' = {m} /\ m.id = seqno' /\ seqno' > seqno
<1>1. CASE \/ BootFails \/ AttachWaitEnds \/ AcceptFails \/ RecvFails
           \/ \E dryRun \in BOOLEAN : Boot(dryRun)
           \/ CommandStep \/ UNCHANGED bridgeVars
  BY <1>1, CommandsOutside DEF BootFails, AttachWaitEnds, AcceptFails, RecvFails,
     Boot, bridgeVars, otherVars, Known, BridgeTypeOK
<1>2. ASSUME NEW c \in Conns, HandlerStep(c)
      PROVE  /\ UNCHANGED <<seqno, serving>>
             /\ \A m \in Calls : Known(m)' => Known(m)
  <2>1. CASE SendOutbound(c)
    <3> SUFFICES ASSUME NEW m \in Calls, Known(m)'
                 PROVE  Known(m)
      BY <2>1 DEF SendOutbound
    <3>1. outbound[c] \in Seq(Calls) /\ outbound[c] # <<>>
      BY <2>1 DEF SendOutbound, BridgeTypeOK
    <3>2. ASSUME NEW d \in Conns, m \in seen'[d]
          PROVE  Known(m)
      <4>1. m \in seen[d] \/ (d = c /\ m = outbound[c][1])
        BY <2>1, <3>1, <3>2 DEF SendOutbound, BridgeTypeOK
      <4>2. 1 \in DOMAIN outbound[c]
        BY <3>1
      <4> QED
        BY <4>1, <4>2 DEF Known
    <3>3. ASSUME NEW d \in Conns, NEW i \in DOMAIN outbound'[d],
                 outbound'[d][i] = m
          PROVE  Known(m)
      <4>1. CASE d = c
        BY <2>1, <3>1, <3>3, <4>1, TailElements
        DEF SendOutbound, BridgeTypeOK, Known
      <4>2. CASE d # c
        BY <2>1, <3>3, <4>2 DEF SendOutbound, BridgeTypeOK, Known
      <4> QED
        BY <4>1, <4>2
    <3> QED
      BY <2>1, <3>2, <3>3 DEF SendOutbound, Known
  <2>2. CASE SendFails(c) \/ WriteNativeFails(c)
    <3> SUFFICES ASSUME NEW m \in Calls, Known(m)'
                 PROVE  Known(m)
      BY <2>2 DEF SendFails, WriteNativeFails
    <3>1. /\ outbound[c] \in Seq(Calls) /\ outbound[c] # <<>>
          /\ outbound' = [outbound EXCEPT ![c] = Tail(@)]
          /\ UNCHANGED <<seen, serving>>
      BY <2>2 DEF SendFails, WriteNativeFails, BridgeTypeOK
    <3>2. pending' \subseteq pending
      BY <2>2 DEF SendFails, WriteNativeFails, DropConnection, Mark
    <3>3. ASSUME NEW d \in Conns, NEW i \in DOMAIN outbound'[d],
                 outbound'[d][i] = m
          PROVE  Known(m)
      <4>1. CASE d = c
        BY <3>1, <3>3, <4>1, TailElements DEF BridgeTypeOK, Known
      <4>2. CASE d # c
        BY <3>1, <3>3, <4>2 DEF BridgeTypeOK, Known
      <4> QED
        BY <4>1, <4>2
    <3> QED
      BY <3>1, <3>2, <3>3 DEF Known
  <2>3. CASE ~(SendOutbound(c) \/ SendFails(c) \/ WriteNativeFails(c))
    <3>1. UNCHANGED <<seqno, serving, seen, outbound>> /\ pending' \subseteq pending
      BY <1>2, <2>3 DEF HandlerStep, PersistCopy, Persisted, Accept,
         HelloFails, HelloIsOther, Hello, Attach, OutboundClosed, PeerGone,
         PeerFault, ReadNativeFails, NativeMalformed, PeerStatus,
         PeerSaysAttached, Respond, Mark, DropConnection
    <3> QED
      BY <3>1 DEF Known
  <2>4. UNCHANGED <<seqno, serving>>
    BY <2>1, <2>2, <2>3, <1>2 DEF HandlerStep, PersistCopy, Persisted, Accept,
         HelloFails, HelloIsOther, Hello, Attach, OutboundClosed, PeerGone,
         PeerFault, ReadNativeFails, NativeMalformed, PeerStatus, SendOutbound,
         SendFails, WriteNativeFails, PeerSaysAttached, Respond
  <2> QED
    BY <2>1, <2>2, <2>3, <2>4
<1>3. ASSUME NEW r \in Requests, RejectRequest(r) \/ RefuseRequest(r)
      PROVE  /\ UNCHANGED <<pending, serving, seen, outbound>>
             /\ seqno' \in {seqno, seqno + 1}
  BY <1>3 DEF RejectRequest, RefuseRequest
<1>4. ASSUME NEW r \in Requests, Enqueue(r), NEW m \in Calls, Known(m)'
      PROVE  Known(m) \/ m = [id |-> seqno + 1, req |-> r]
  <2> DEFINE call == [id |-> seqno + 1, req |-> r]
  <2>0. /\ pending' = pending \cup {call} /\ serving' = {call}
        /\ outbound' = [outbound EXCEPT ![active] = Append(@, call)]
        /\ seen' = seen /\ active \in Conns /\ call \in Calls
    BY <1>4 DEF Enqueue, ChannelOpen, BridgeTypeOK, Calls
  <2> HIDE DEF call
  <2>1. ASSUME NEW d \in Conns, NEW i \in DOMAIN outbound'[d],
               outbound'[d][i] = m
        PROVE  Known(m) \/ m = call
    <3>1. CASE d = active
      BY <2>0, <2>1, <3>1, AppendElements DEF BridgeTypeOK, Known
    <3>2. CASE d # active
      BY <2>0, <2>1, <3>2 DEF BridgeTypeOK, Known
    <3> QED
      BY <3>1, <3>2
  <2>2. Known(m) \/ m = call
    BY <1>4, <2>0, <2>1 DEF Known
  <2> QED
    BY <2>2 DEF call
<1>5. CASE Answered \/ TimesOut
  BY <1>5 DEF Answered, TimesOut, Known, BridgeTypeOK
<1>6. ASSUME NEW r \in Requests, Enqueue(r)
      PROVE  /\ seqno' = seqno + 1
             /\ serving' = {[id |-> seqno + 1, req |-> r]}
  BY <1>6 DEF Enqueue
<1>7. ASSUME NEW r \in Requests, RejectRequest(r) \/ RefuseRequest(r),
             NEW m \in Calls
      PROVE  Known(m)' => Known(m)
  BY <1>3, <1>7 DEF Known
<1>8. ASSUME NEW r \in Requests, Enqueue(r), NEW m \in Calls, Known(m)'
      PROVE  Known(m) \/ (serving' = {m} /\ m.id = seqno' /\ seqno' > seqno)
  <2>1. Known(m) \/ m = [id |-> seqno + 1, req |-> r]
    BY <1>4, <1>8
  <2>2. /\ seqno \in Nat /\ seqno' = seqno + 1
        /\ serving' = {[id |-> seqno + 1, req |-> r]}
    BY <1>6, <1>8 DEF BridgeTypeOK
  <2> QED
    BY <2>1, <2>2
<1> QED
  BY <1>1, <1>2, <1>3, <1>5, <1>6, <1>7, <1>8 DEF BridgeNext, BridgeTypeOK

\* Ids stay unique.
LEMMA IdsUniqueStep ==
  BridgeTypeOK /\ IdsUnique /\ [BridgeNext]_bridgeVars => IdsUnique'
<1> SUFFICES ASSUME BridgeTypeOK, IdsUnique, [BridgeNext]_bridgeVars
             PROVE  IdsUnique'
  OBVIOUS
<1>1. seqno \in Nat /\ \A m \in Calls : m.id \in Nat
  BY DEF BridgeTypeOK, Calls
<1>2. ASSUME NEW m \in Calls, Known(m)'
      PROVE  m.id <= seqno'
  BY <1>1, <1>2, KnownStep DEF IdsUnique
<1>3. ASSUME NEW m \in Calls, NEW n \in Calls, Known(m)', Known(n)', m.id = n.id
      PROVE  m = n
  BY <1>1, <1>3, KnownStep DEF IdsUnique
<1> QED
  BY <1>2, <1>3 DEF IdsUnique

\* The channel of the waiting call gets its own answer, an error, or nothing.
LEMMA ResultOwnStep ==
  BridgeTypeOK /\ IdsUnique /\ ResultOwn /\ [BridgeNext]_bridgeVars => ResultOwn'
<1> SUFFICES ASSUME BridgeTypeOK, IdsUnique, ResultOwn, [BridgeNext]_bridgeVars
             PROVE  ResultOwn'
  OBVIOUS
<1>1. ASSUME NEW c \in Conns, Respond(c)
      PROVE  ResultOwn'
  <2>1. PICK m \in seen[c] : \E response \in Responses(m) :
          result' = IF \E e \in pending : e.id = m.id /\ e \in serving
                    THEN {response} ELSE result
    BY <1>1 DEF Respond
  <2>2. PICK response \in Responses(m) :
          result' = IF \E e \in pending : e.id = m.id /\ e \in serving
                    THEN {response} ELSE result
    BY <2>1
  <2>3. m \in Calls /\ Known(m) /\ serving' = serving
    BY <1>1 DEF BridgeTypeOK, Known, Respond
  <2>4. response.of \subseteq {m.req}
    BY <2>2, <2>3, ResponseTypes
  <2>5. ASSUME NEW e \in pending, e.id = m.id, e \in serving
        PROVE  e = m
    BY <2>3, <2>5 DEF BridgeTypeOK, IdsUnique, Known
  <2>6. CASE \E e \in pending : e.id = m.id /\ e \in serving
    BY <2>2, <2>3, <2>4, <2>5, <2>6 DEF ResultOwn
  <2>7. CASE ~ \E e \in pending : e.id = m.id /\ e \in serving
    BY <2>2, <2>3, <2>7 DEF ResultOwn
  <2> QED
    BY <2>6, <2>7
<1>2. ASSUME NEW c \in Conns, Hello(c) \/ Persisted(c)
      PROVE  ResultOwn'
  <2>1. PICK calls : FailPending(calls)
    BY <1>2 DEF Hello, Attach, Persisted
  <2>2. /\ \A res \in result' : res \in result \/ res.of = {}
        /\ serving' = serving
    BY <1>2, <2>1, FailPendingTypes DEF Hello, Persisted, BridgeTypeOK
  <2> QED
    BY <2>2 DEF ResultOwn
<1>3. ASSUME NEW c \in Conns, HandlerStep(c),
             ~(Respond(c) \/ Hello(c) \/ Persisted(c))
      PROVE  UNCHANGED <<serving, result>>
  BY <1>3 DEF HandlerStep, PersistCopy, Accept, HelloFails, HelloIsOther,
     SendOutbound, SendFails, OutboundClosed, PeerGone, PeerFault,
     WriteNativeFails, ReadNativeFails, NativeMalformed, PeerStatus,
     PeerSaysAttached
<1>4. ASSUME NEW r \in Requests, Enqueue(r)
      PROVE  ResultOwn'
  BY <1>4 DEF Enqueue, ResultOwn
<1>5. CASE Answered \/ TimesOut
  BY <1>5 DEF Answered, TimesOut, ResultOwn
<1>6. CASE \/ BootFails \/ AttachWaitEnds \/ AcceptFails \/ RecvFails
           \/ \E dryRun \in BOOLEAN : Boot(dryRun)
           \/ \E r \in Requests : RejectRequest(r) \/ RefuseRequest(r)
           \/ UNCHANGED bridgeVars
  BY <1>6 DEF BootFails, AttachWaitEnds, AcceptFails, RecvFails, Boot,
     RejectRequest, RefuseRequest, bridgeVars, ResultOwn
<1>7. ASSUME UNCHANGED <<serving, result>>
      PROVE  ResultOwn'
  BY <1>7 DEF ResultOwn
<1> QED
  BY <1>1, <1>2, <1>3, <1>4, <1>5, <1>6, <1>7, CommandsOutside DEF BridgeNext, otherVars

\* A client's entry changes only with an answer of its own.
LEMMA OwnAnswerStep ==
  BridgeTypeOK /\ ResultOwn /\ OwnAnswer /\ [BridgeNext]_bridgeVars => OwnAnswer'
<1> SUFFICES ASSUME BridgeTypeOK, ResultOwn, OwnAnswer, [BridgeNext]_bridgeVars
             PROVE  OwnAnswer'
  OBVIOUS
<1>0. {} \in SUBSET Requests
  OBVIOUS
<1>1. ASSUME NEW r \in Requests, RejectRequest(r) \/ RefuseRequest(r)
      PROVE  OwnAnswer'
  <2>1. PICK code : Reply(r, code, {})
    BY <1>1 DEF RejectRequest, RefuseRequest
  <2>2. \A x \in Requests : \/ answer'[x] = answer[x]
                            \/ answer'[x] = [code |-> "failure", of |-> {}]
    BY <1>0, <2>1, ReplyTypes
  <2> QED
    BY <2>2 DEF OwnAnswer
<1>2. CASE TimesOut
  <2>1. PICK call \in serving : Reply(call.req, "CommunicationTimeout", {})
    BY <1>2 DEF TimesOut
  <2>2. call.req \in Requests
    BY DEF BridgeTypeOK, Calls
  <2>3. \A x \in Requests : \/ answer'[x] = answer[x]
                            \/ answer'[x] = [code |-> "failure", of |-> {}]
    BY <1>0, <2>1, <2>2, ReplyTypes
  <2> QED
    BY <2>3 DEF OwnAnswer
<1>3. CASE Answered
  <2>1. PICK call \in serving, res \in result :
          Reply(call.req, res.code, res.of)
    BY <1>3 DEF Answered
  <2>2. call.req \in Requests /\ res.of \in SUBSET Requests
    BY DEF BridgeTypeOK, Calls, Results
  <2>3. res.of # {} => res.of = {call.req}
    BY DEF ResultOwn
  <2>4. \A x \in Requests :
          \/ answer'[x] = answer[x]
          \/ x = call.req /\ answer'[x] = [code |-> "failure", of |-> {}]
          \/ /\ x = call.req /\ res.of # {}
             /\ answer'[x] = [code |-> "Success", of |-> res.of]
    BY <2>1, <2>2, ReplyTypes
  <2> QED
    BY <2>3, <2>4 DEF OwnAnswer
<1>4. CASE answer' = answer
  BY <1>4 DEF OwnAnswer
<1> QED
  BY <1>1, <1>2, <1>3, <1>4, CommandsOutside
  DEF BridgeNext, otherVars, BootFails, AttachWaitEnds, AcceptFails, RecvFails, Boot,
      Enqueue, bridgeVars, HandlerStep, PersistCopy, Persisted, Accept,
      HelloFails, HelloIsOther, Hello, SendOutbound, SendFails,
      OutboundClosed, PeerGone, PeerFault, WriteNativeFails, ReadNativeFails,
      NativeMalformed, PeerStatus, PeerSaysAttached, Respond

\* Late, repeated and misdirected answers included, a client is never given
\* the answer to another client's request (enqueue_request,
\* complete_response).
THEOREM OwnAnswerCorrect == BridgeSpec => []OwnAnswer
<1>1. BridgeInit => OwnInv
  BY DEF BridgeInit, OwnInv, IdsUnique, ResultOwn, OwnAnswer, Known, NoAnswer
<1>2. BridgeTypeOK /\ OwnInv /\ [BridgeNext]_bridgeVars => OwnInv'
  BY IdsUniqueStep, ResultOwnStep, OwnAnswerStep DEF OwnInv
<1>3. OwnInv => OwnAnswer
  BY DEF OwnInv
<1> QED
  BY <1>1, <1>2, <1>3, BridgeTypeCorrect, PTL DEF BridgeSpec

-------------------------------------------------------------------------------
(***************************************************************************)
(* PendingOnActive: attach and mark_status empty pending whenever they     *)
(* change the active connection, and what is queued for it is kept until   *)
(* its peer has seen it or its handler is gone.                            *)
(***************************************************************************)

\* The call e is queued for, or has reached, the peer of connection c, or
\* nobody will ever send it because the handler has returned.
Delivered(e, c) ==
  \/ e \in seen[c]
  \/ \E i \in DOMAIN outbound[c] : outbound[c][i] = e
  \/ handler[c].pc = "closed"

\* What is queued is the head, or still queued once the head is sent.
LEMMA QueuedElements ==
  ASSUME NEW s \in Seq(Calls), NEW i \in DOMAIN s
  PROVE  /\ s # <<>>
         /\ \/ s[i] = Head(s)
            \/ i - 1 \in DOMAIN Tail(s) /\ Tail(s)[i - 1] = s[i]
OBVIOUS

\* Appending a call queues it and keeps the others queued.
LEMMA AppendQueues ==
  ASSUME NEW s \in Seq(Calls), NEW e \in Calls
  PROVE  /\ \A i \in DOMAIN s : i \in DOMAIN Append(s, e) /\ Append(s, e)[i] = s[i]
         /\ \E i \in DOMAIN Append(s, e) : Append(s, e)[i] = e
<1>1. Len(s) + 1 \in DOMAIN Append(s, e) /\ Append(s, e)[Len(s) + 1] = e
  OBVIOUS
<1> QED
  BY <1>1

\* No step of a handler takes a call away from the peer it was meant for,
\* except by closing the connection; once closed it stays closed.
LEMMA DeliveredStep ==
  ASSUME BridgeTypeOK, [BridgeNext]_bridgeVars,
         NEW e \in Calls, NEW a \in Conns, Delivered(e, a), active' = a
  PROVE  Delivered(e, a)'
<1>1. ASSUME NEW c \in Conns, SendOutbound(c)
      PROVE  Delivered(e, a)'
  <2>1. /\ outbound' = [outbound EXCEPT ![c] = Tail(@)]
        /\ seen' = [seen EXCEPT ![c] = @ \cup {Head(outbound[c])}]
        /\ handler' = handler
    BY <1>1 DEF SendOutbound
  <2>2. ASSUME NEW i \in DOMAIN outbound[a], outbound[a][i] = e
        PROVE  Delivered(e, a)'
    <3>1. outbound[a] \in Seq(Calls)
      BY DEF BridgeTypeOK
    <3>2. CASE c = a
      BY <2>1, <2>2, <3>1, <3>2, QueuedElements DEF BridgeTypeOK, Delivered
    <3>3. CASE c # a
      BY <2>1, <2>2, <3>3 DEF BridgeTypeOK, Delivered
    <3> QED
      BY <3>2, <3>3
  <2> QED
    BY <2>1, <2>2 DEF BridgeTypeOK, Delivered
<1>2. ASSUME NEW c \in Conns, SendFails(c)
      PROVE  Delivered(e, a)'
  <2>1. CASE c = a
    BY <1>2, <2>1 DEF SendFails, DropConnection, At, BridgeTypeOK, Delivered
  <2>2. CASE c # a
    BY <1>2, <2>2 DEF SendFails, DropConnection, BridgeTypeOK, Delivered
  <2> QED
    BY <2>1, <2>2
<1>3. ASSUME NEW c \in Conns, WriteNativeFails(c)
      PROVE  Delivered(e, a)'
  <2>1. CASE c = a
    BY <1>3, <2>1, NoConnIsNone
    DEF WriteNativeFails, Mark, At, BridgeTypeOK, Delivered
  <2>2. CASE c # a
    BY <1>3, <2>2 DEF WriteNativeFails, Mark, BridgeTypeOK, Delivered
  <2> QED
    BY <2>1, <2>2
<1>4. ASSUME NEW c \in Conns, HandlerStep(c),
             ~(SendOutbound(c) \/ SendFails(c) \/ WriteNativeFails(c))
      PROVE  Delivered(e, a)'
  <2>1. UNCHANGED <<seen, outbound>>
    BY <1>4 DEF HandlerStep, PersistCopy, Persisted, Accept, HelloFails,
       HelloIsOther, Hello, OutboundClosed, PeerGone, PeerFault,
       ReadNativeFails, NativeMalformed, PeerStatus, PeerSaysAttached, Respond
  <2>2. handler[c].pc # "closed" /\ \A d \in Conns : d # c => handler'[d] = handler[d]
        \/ handler' = handler
    BY <1>4 DEF HandlerStep, PersistCopy, Persisted, Accept, HelloFails,
       HelloIsOther, Hello, Attach, OutboundClosed, PeerGone, PeerFault,
       ReadNativeFails, NativeMalformed, PeerStatus, PeerSaysAttached,
       Respond, Mark, DropConnection, BridgeTypeOK
  <2>3. handler[a].pc = "closed" => handler'[a].pc = "closed"
    BY <2>2
  <2> QED
    BY <2>1, <2>3 DEF Delivered
<1>5. ASSUME NEW r \in Requests, Enqueue(r)
      PROVE  Delivered(e, a)'
  <2>1. PICK call \in Calls :
          /\ outbound' = [outbound EXCEPT ![a] = Append(@, call)]
          /\ UNCHANGED <<handler, seen>>
    <3>1. [id |-> seqno + 1, req |-> r] \in Calls
      BY DEF Calls, BridgeTypeOK
    <3> QED
      BY <1>5, <3>1 DEF Enqueue
  <2>2. outbound[a] \in Seq(Calls)
    BY DEF BridgeTypeOK
  <2>3. ASSUME NEW i \in DOMAIN outbound[a], outbound[a][i] = e
        PROVE  Delivered(e, a)'
    BY <2>1, <2>2, <2>3, AppendQueues DEF BridgeTypeOK, Delivered
  <2> QED
    BY <2>1, <2>3 DEF Delivered
<1>6. CASE UNCHANGED <<handler, seen, outbound>>
  BY <1>6 DEF Delivered
<1> QED
  BY <1>1, <1>2, <1>3, <1>4, <1>5, <1>6, CommandsOutside
  DEF BridgeNext, otherVars, BootFails, AttachWaitEnds, AcceptFails, RecvFails, Boot,
      RejectRequest, RefuseRequest, Answered, TimesOut, bridgeVars

\* A step that does not enqueue keeps the active connection and registers
\* nothing, or it registers nothing and forgets everything that waited.
LEMMA ActiveStep ==
  ASSUME BridgeTypeOK, [BridgeNext]_bridgeVars
  PROVE  \/ pending' \subseteq pending /\ active' = active /\ snapshot' = snapshot
         \/ pending' = {} /\ active' \in Conns /\ snapshot' = "attached"
         \/ pending' = {} /\ active' = NoConn /\ snapshot' \in {"error", "disconnected"}
         \/ \E r \in Requests : Enqueue(r)
<1>1. ASSUME NEW c \in Conns, HandlerStep(c)
      PROVE  \/ pending' \subseteq pending /\ active' = active /\ snapshot' = snapshot
             \/ pending' = {} /\ active' \in Conns /\ snapshot' = "attached"
             \/ pending' = {} /\ active' = NoConn
                  /\ snapshot' \in {"error", "disconnected"}
  BY <1>1 DEF HandlerStep, PersistCopy, Persisted, Accept, HelloFails,
     HelloIsOther, Hello, Attach, SendOutbound, SendFails, OutboundClosed,
     PeerGone, PeerFault, WriteNativeFails, ReadNativeFails, NativeMalformed,
     PeerStatus, PeerSaysAttached, Respond, Mark, DropConnection
<1>2. CASE \/ BootFails \/ AttachWaitEnds \/ AcceptFails \/ RecvFails
           \/ \E dryRun \in BOOLEAN : Boot(dryRun)
           \/ \E r \in Requests : RejectRequest(r) \/ RefuseRequest(r)
           \/ Answered \/ TimesOut
           \/ UNCHANGED bridgeVars
  BY <1>2 DEF BootFails, AttachWaitEnds, AcceptFails, RecvFails, Boot,
     RejectRequest, RefuseRequest, Answered, TimesOut, bridgeVars
<1> QED
  BY <1>1, <1>2, CommandsOutside DEF BridgeNext, otherVars

\* PendingOnActive is inductive.
LEMMA PendingOnActiveStep ==
  BridgeTypeOK /\ PendingOnActive /\ [BridgeNext]_bridgeVars => PendingOnActive'
<1> SUFFICES ASSUME BridgeTypeOK, PendingOnActive, [BridgeNext]_bridgeVars
             PROVE  PendingOnActive'
  OBVIOUS
<1>0. /\ pending # {} => active \in Conns
      /\ \A e \in pending : e \in Calls /\ Delivered(e, active)
  BY DEF PendingOnActive, Delivered, BridgeTypeOK
<1>1. CASE /\ pending' \subseteq pending /\ active' = active
           /\ snapshot' = snapshot
  <2>1. ASSUME NEW e \in pending'
        PROVE  Delivered(e, active)' /\ active \in Conns
    BY <1>0, <1>1, DeliveredStep
  <2> QED
    BY <1>1, <2>1, NoConnIsNone DEF PendingOnActive, Delivered
<1>2. CASE pending' = {} /\ active' \in Conns /\ snapshot' = "attached"
  BY <1>2, NoConnIsNone DEF PendingOnActive
<1>3. CASE /\ pending' = {} /\ active' = NoConn
           /\ snapshot' \in {"error", "disconnected"}
  BY <1>3 DEF PendingOnActive
<1>4. ASSUME NEW r \in Requests, Enqueue(r)
      PROVE  PendingOnActive'
  <2> DEFINE call == [id |-> seqno + 1, req |-> r]
  <2>1. /\ pending' = pending \cup {call} /\ active \in Conns
        /\ active' = active /\ snapshot' = snapshot
        /\ outbound' = [outbound EXCEPT ![active] = Append(@, call)]
    BY <1>4 DEF Enqueue, ChannelOpen, BridgeTypeOK
  <2>2. call \in Calls
    BY DEF BridgeTypeOK, Calls
  <2> HIDE DEF call
  <2>3. /\ outbound[active] \in Seq(Calls)
        /\ outbound'[active] = Append(outbound[active], call)
    BY <2>1 DEF BridgeTypeOK
  <2>4. \E i \in DOMAIN outbound'[active] : outbound'[active][i] = call
    BY <2>2, <2>3, AppendQueues
  <2>5. ASSUME NEW e \in pending
        PROVE  Delivered(e, active)'
    BY <1>0, <2>1, DeliveredStep
  <2>6. \A e \in pending' : Delivered(e, active)'
    BY <2>1, <2>4, <2>5 DEF Delivered
  <2> QED
    BY <2>1, <2>6, NoConnIsNone DEF PendingOnActive, Delivered
<1> QED
  BY <1>1, <1>2, <1>3, <1>4, ActiveStep

\* No request ever waits for a connection that was replaced or went down, and
\* the status says "attached" exactly while a connection is (attach,
\* mark_status).
THEOREM PendingOnActiveCorrect == BridgeSpec => []PendingOnActive
<1>1. BridgeInit => PendingOnActive
  BY DEF BridgeInit, PendingOnActive
<1> QED
  BY <1>1, PendingOnActiveStep, BridgeTypeCorrect, PTL DEF BridgeSpec

\* A connection that was replaced never detaches its successor: the guard of
\* mark_status, over every step of every task.
THEOREM OnlyActiveDetachesCorrect == BridgeSpec => OnlyActiveDetaches
<1>1. BridgeTypeOK /\ [BridgeNext]_bridgeVars =>
        [active # NoConn /\ active' = NoConn =>
           handler'[active] # handler[active]]_bridgeVars
  <2> SUFFICES ASSUME BridgeTypeOK, BridgeNext,
                      active # NoConn, active' = NoConn
               PROVE  handler'[active] # handler[active]
    OBVIOUS
  <2>1. PICK c \in Conns : HandlerStep(c)
    BY CommandsOutside
    DEF BridgeNext, BootFails, AttachWaitEnds, AcceptFails, RecvFails, Boot,
        RejectRequest, RefuseRequest, Enqueue, Answered, TimesOut, otherVars
  <2>2. PICK status, then :
          Mark(c, status, then) /\ handler[c].pc \in {"hello", "loop"}
    BY <2>1, NoConnIsNone
    DEF HandlerStep, PersistCopy, Persisted, Accept, HelloFails, HelloIsOther,
        Hello, Attach, SendOutbound, SendFails, OutboundClosed, PeerGone,
        PeerFault, WriteNativeFails, ReadNativeFails, NativeMalformed,
        PeerStatus, PeerSaysAttached, Respond, DropConnection
  <2>3. active = c /\ handler'[c].pc = "persist"
    BY <2>2 DEF Mark, MustPersist, At, BridgeTypeOK
  <2> QED
    BY <2>2, <2>3
<1> QED
  BY <1>1, BridgeTypeCorrect, PTL DEF BridgeSpec, OnlyActiveDetaches

-------------------------------------------------------------------------------
(***************************************************************************)
(* NativeStatusOnDisk.  In native mode the accept loop serves one          *)
(* connection at a time, so nobody changes the snapshot between the copy   *)
(* of it and the write.                                                    *)
(***************************************************************************)
Writing(c) == handler[c].pc \in {"persist", "write"}

\* One connection at a time; what is about to be written is the snapshot;
\* after writing, a handler is not about to write; and nothing is attached
\* before the first write of the file.
NativeHandlers ==
  /\ \A c, d \in Conns :
       handler[c].pc \notin {"none", "closed"}
         /\ handler[d].pc \notin {"none", "closed"} => c = d
  /\ \A c \in Conns : Writing(c) => handler[c].then \in {"loop", "closed"}
  /\ \A c \in Conns : handler[c].pc = "write" => handler[c].copy = snapshot
  /\ phase = "boot" => snapshot = "waiting"

\* A command that has read nothing will save nothing; what one has read since
\* the daemon's last write is what the file holds, unless the file was spoiled.
FreshCopies ==
  \A p \in Commands :
    /\ held[p].kind = "none" => held[p] = NoCopy
    /\ ~spoiled /\ held[p].kind = "fresh" => held[p].status = file

\* The inductive invariant behind NativeStatusOnDisk.
NativeInv == mode = "native" => NativeHandlers /\ FreshCopies /\ NativeStatusOnDisk

\* mark_status in native mode, called by the one connection there is.
LEMMA NativeMark ==
  ASSUME BridgeTypeOK, NativeInv, mode = "native", Running,
         NEW c \in Conns, handler[c].pc = "loop",
         NEW status, Mark(c, status, "closed"),
         UNCHANGED <<mode, phase, diskVars>>
  PROVE  NativeInv'
<1>1. \A d \in Conns : d # c => handler[d].pc \in {"none", "closed"}
  BY DEF NativeInv, NativeHandlers
<1>2. \A d \in Conns : d # c => handler'[d] = handler[d]
  BY DEF Mark, BridgeTypeOK
<1>3. CASE active = c
  <2>1. /\ handler'[c].pc = "persist" /\ handler'[c].then = "closed"
    BY <1>3 DEF Mark, MustPersist, At, BridgeTypeOK
  <2> QED
    BY <1>1, <1>2, <2>1
    DEF NativeInv, NativeHandlers, FreshCopies, NativeStatusOnDisk, Writing, Running
<1>4. CASE active # c
  <2>1. handler'[c].pc = "closed" /\ snapshot' = snapshot
    BY <1>4 DEF Mark, At, BridgeTypeOK
  <2>2. unsaved \/ spoiled \/ file = snapshot
    BY <1>1 DEF NativeInv, NativeStatusOnDisk
  <2> QED
    BY <1>1, <1>2, <2>1, <2>2
    DEF NativeInv, NativeHandlers, FreshCopies, NativeStatusOnDisk, Writing, Running
<1> QED
  BY <1>3, <1>4

\* A step of a handler in native mode.
LEMMA NativeHandlerStep ==
  ASSUME BridgeTypeOK, NativeInv, mode = "native",
         NEW c \in Conns, HandlerStep(c)
  PROVE  NativeInv'
<1>1. CASE PersistCopy(c)
  <2>1. /\ handler[c].pc = "persist" /\ handler'[c].pc = "write"
        /\ handler'[c].then = handler[c].then /\ handler'[c].copy = snapshot
    BY <1>1 DEF PersistCopy, BridgeTypeOK
  <2>2. \A d \in Conns : d # c => handler'[d] = handler[d]
    BY <1>1 DEF PersistCopy, BridgeTypeOK
  <2>3. FreshCopies'
    BY <1>1 DEF PersistCopy, NativeInv, FreshCopies
  <2>4. NativeHandlers'
    BY <1>1, <2>1, <2>2 DEF PersistCopy, NativeInv, NativeHandlers, Writing
  <2> QED
    BY <2>1, <2>3, <2>4 DEF NativeInv, NativeStatusOnDisk
<1>2. CASE Persisted(c)
  <2>1. handler'[c].pc = handler[c].then /\ handler[c].then \in {"loop", "closed"}
    BY <1>2 DEF Persisted, At, BridgeTypeOK, NativeInv, NativeHandlers, Writing
  <2>2. \A d \in Conns : d # c => handler'[d] = handler[d]
    BY <1>2 DEF Persisted, BridgeTypeOK
  <2>3. file' = snapshot \/ unsaved'
    BY <1>2 DEF Persisted, WriteStatus, NativeInv, NativeHandlers
  <2>4. FreshCopies'
    BY <1>2 DEF Persisted, WriteStatus, NativeInv, FreshCopies, BridgeTypeOK
  <2> QED
    BY <1>2, <2>1, <2>2, <2>3, <2>4 DEF Persisted, NativeInv, NativeHandlers,
       NativeStatusOnDisk, Writing, Running
<1>3. CASE Accept(c)
  <2>1. handler'[c].pc \in {"hello", "closed"}
    BY <1>3 DEF Accept, At, BridgeTypeOK
  <2>2. \A d \in Conns : /\ handler[d].pc \in {"none", "closed"}
                         /\ d # c => handler'[d] = handler[d]
    BY <1>3 DEF Accept, BridgeTypeOK
  <2> QED
    BY <1>3, <2>1, <2>2 DEF Accept, NativeInv, NativeHandlers,
       FreshCopies, NativeStatusOnDisk, Writing, Running
<1>4. CASE HelloFails(c)
  BY <1>4 DEF HelloFails, At, BridgeTypeOK, NativeInv, NativeHandlers,
     FreshCopies, NativeStatusOnDisk, Writing, Running
<1>5. CASE Hello(c)
  <2>1. handler'[c].pc = "persist" /\ handler'[c].then = "loop"
    BY <1>5 DEF Hello, Attach, MustPersist, At, BridgeTypeOK
  <2>2. \A d \in Conns : d # c => /\ handler'[d] = handler[d]
                                  /\ handler[d].pc \in {"none", "closed"}
    BY <1>5 DEF Hello, Attach, BridgeTypeOK, NativeInv, NativeHandlers
  <2> QED
    BY <1>5, <2>1, <2>2 DEF Hello, NativeInv, NativeHandlers,
       FreshCopies, NativeStatusOnDisk, Writing, Running
<1>6. CASE SendOutbound(c) \/ Respond(c)
  BY <1>6 DEF SendOutbound, Respond, NativeInv, NativeHandlers,
     FreshCopies, NativeStatusOnDisk, Writing, Running
<1>7. CASE WriteNativeFails(c) \/ ReadNativeFails(c) \/ NativeMalformed(c)
           \/ PeerStatus(c)
  BY <1>7, NativeMark DEF WriteNativeFails, ReadNativeFails, NativeMalformed,
     PeerStatus
<1> QED
  BY <1>1, <1>2, <1>3, <1>4, <1>5, <1>6, <1>7
  DEF HandlerStep, HelloIsOther, SendFails, OutboundClosed, PeerGone,
      PeerFault, PeerSaysAttached

\* Every step keeps the invariant.
LEMMA NativeInvStep ==
  BridgeTypeOK /\ NativeInv /\ [BridgeNext]_bridgeVars => NativeInv'
<1> SUFFICES ASSUME BridgeTypeOK, NativeInv, [BridgeNext]_bridgeVars
             PROVE  NativeInv'
  OBVIOUS
<1>1. mode' = mode
  BY CommandsOutside DEF BridgeNext, BootFails, AttachWaitEnds, AcceptFails, RecvFails, Boot,
      Enqueue, RejectRequest, RefuseRequest, Answered, TimesOut, bridgeVars,
      otherVars, HandlerStep, PersistCopy, Persisted, Accept, HelloFails, HelloIsOther,
      Hello, SendOutbound, SendFails, OutboundClosed, PeerGone, PeerFault,
      WriteNativeFails, ReadNativeFails, NativeMalformed, PeerStatus,
      PeerSaysAttached, Respond
<1>2. CASE mode # "native"
  BY <1>1, <1>2 DEF NativeInv
<1> SUFFICES ASSUME mode = "native"
             PROVE  NativeInv'
  BY <1>2
<1>3. ASSUME NEW c \in Conns, HandlerStep(c)
      PROVE  NativeInv'
  BY <1>3, NativeHandlerStep
<1>4. ASSUME NEW dryRun \in BOOLEAN, Boot(dryRun)
      PROVE  NativeInv'
  BY <1>4 DEF Boot, PersistWaiting, WriteStatus, BridgeTypeOK, NativeInv, NativeHandlers,
     FreshCopies, NativeStatusOnDisk, Writing, Running
<1>5. CASE BootFails \/ AttachWaitEnds \/ RecvFails
  BY <1>5 DEF BootFails, AttachWaitEnds, RecvFails, NativeInv, NativeHandlers,
     FreshCopies, NativeStatusOnDisk, Writing, Running
<1>6. CASE /\ UNCHANGED <<mode, handler, snapshot, diskVars>>
           /\ phase' = phase \/ (phase \in {"recv", "await"}
                                 /\ phase' \in {"recv", "await"})
  BY <1>6 DEF NativeInv, NativeHandlers, FreshCopies, NativeStatusOnDisk, Writing, Running
<1>7. CASE \/ AcceptFails \/ Answered \/ TimesOut \/ UNCHANGED bridgeVars
           \/ \E r \in Requests : RejectRequest(r) \/ RefuseRequest(r) \/ Enqueue(r)
  BY <1>6, <1>7 DEF AcceptFails, Answered, TimesOut, RejectRequest,
     RefuseRequest, Enqueue, bridgeVars
<1>8. CASE CommandStep
  <2>1. UNCHANGED otherVars
    BY <1>8, CommandsOutside
  <2>2. /\ FreshCopies'
        /\ spoiled' \/ (~spoiled /\ file' = file)
    <3>1. ASSUME NEW p \in Commands, CommandReads(p)
          PROVE  FreshCopies' /\ file' = file /\ spoiled' = spoiled
      BY <3>1 DEF CommandReads, NativeInv, FreshCopies, BridgeTypeOK
    <3>2. ASSUME NEW p \in Commands, CommandSaves(p)
          PROVE  FreshCopies' /\ (spoiled' \/ (~spoiled /\ file' = file))
      <4>1. held[p].kind \in {"none", "fresh", "old"} /\ spoiled \in BOOLEAN
        BY DEF BridgeTypeOK
      <4>2. held[p].kind # "none"
        BY <3>2 DEF CommandSaves, NativeInv, FreshCopies
      <4>3. spoiled' \/ (~spoiled /\ file' = file)
        BY <3>2, <4>1, <4>2 DEF CommandSaves, NativeInv, FreshCopies
      <4> QED
        BY <3>2, <4>3 DEF CommandSaves, NoCopy, NativeInv, FreshCopies, BridgeTypeOK
    <3>3. CASE CommandClears
      BY <3>3 DEF CommandClears, NativeInv, FreshCopies
    <3> QED
      BY <1>8, <3>1, <3>2, <3>3 DEF CommandStep
  <2> QED
    BY <2>1, <2>2 DEF NativeInv, NativeHandlers, NativeStatusOnDisk, Writing, Running,
       otherVars
<1> QED
  BY <1>3, <1>4, <1>5, <1>7, <1>8 DEF BridgeNext

\* In native mode config.json holds what the daemon knows, whenever no
\* handler is on its way to write it (persist_snapshot after attach and
\* mark_status), its last write did not fail, and nobody removed the file or
\* saved an earlier one over it after that write.
THEOREM NativeStatusCorrect == BridgeSpec => []NativeStatusOnDisk
<1>1. BridgeInit => NativeInv
  BY DEF BridgeInit, NoCopy, NativeInv, NativeHandlers, FreshCopies,
     NativeStatusOnDisk, Writing, At, Running
<1>2. NativeInv => NativeStatusOnDisk
  BY DEF NativeInv, NativeStatusOnDisk
<1> QED
  BY <1>1, <1>2, NativeInvStep, BridgeTypeCorrect, PTL DEF BridgeSpec
===============================================================================
