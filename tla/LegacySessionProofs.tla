------------------------- MODULE LegacySessionProofs -------------------------
(***************************************************************************)
(* Proofs about LegacySession and the daemon of HelperDaemon it runs on,   *)
(* for any clients, queries, PINs, private keys, group and bounds:         *)
(* OneHelper, SessionAgreed, InStep and RightPinAgrees.                    *)
(***************************************************************************)
EXTENDS LegacySession, SrpProofs, FiniteSetTheorems, TLAPS

(***************************************************************************)
(* Pipes.  What the frames in a pipe are made of is left open: only that   *)
(* it is a sequence, and which values are in it.                           *)
(***************************************************************************)
IsSeq(s) == \E S : s \in Seq(S)

Elems(s) == {s[i] : i \in DOMAIN s}

\* An empty pipe, and one that holds a single frame.
LEMMA ShortPipes ==
  ASSUME NEW e
  PROVE  /\ IsSeq(<<>>) /\ Elems(<<>>) = {}
         /\ IsSeq(<<e>>) /\ Elems(<<e>>) = {e} /\ <<e>> # <<>>
         /\ Head(<<e>>) = e /\ Tail(<<e>>) = <<>>
         /\ Append(<<>>, e) = <<e>>
<1>1. <<>> \in Seq({e}) /\ <<e>> \in Seq({e})
  OBVIOUS
<1>2. IsSeq(<<>>) /\ IsSeq(<<e>>)
  BY <1>1 DEF IsSeq
<1>3. Elems(<<>>) = {} /\ Elems(<<e>>) = {e}
  BY DEF Elems
<1>4. <<e>> # <<>> /\ Head(<<e>>) = e /\ Tail(<<e>>) = <<>>
  OBVIOUS
<1>5. Append(<<>>, e) = <<e>>
  OBVIOUS
<1> QED
  BY <1>2, <1>3, <1>4, <1>5

\* Reading a frame off a pipe.
LEMMA PipeRead ==
  ASSUME NEW s, IsSeq(s), s # <<>>
  PROVE  /\ IsSeq(Tail(s)) /\ Elems(Tail(s)) \subseteq Elems(s)
         /\ Head(s) \in Elems(s)
<1>1. PICK S : s \in Seq(S)
  BY DEF IsSeq
<1>2. Tail(s) \in Seq(S)
  BY <1>1
<1>3. \A i \in DOMAIN Tail(s) : i + 1 \in DOMAIN s /\ Tail(s)[i] = s[i + 1]
  BY <1>1
<1>4. 1 \in DOMAIN s /\ Head(s) = s[1]
  BY <1>1
<1> QED
  BY <1>2, <1>3, <1>4 DEF IsSeq, Elems

\* Writing a frame to a pipe.
LEMMA PipeWrite ==
  ASSUME NEW s, IsSeq(s), NEW e
  PROVE  /\ IsSeq(Append(s, e))
         /\ Elems(Append(s, e)) \subseteq Elems(s) \cup {e}
         /\ Len(Append(s, e)) = Len(s) + 1 /\ Len(s) \in Nat
         /\ Append(s, e)[Len(s) + 1] = e
         /\ \A i \in 1..Len(s) : Append(s, e)[i] = s[i]
<1>1. PICK S : s \in Seq(S)
  BY DEF IsSeq
<1> DEFINE T == S \cup {e}
<1>2. s \in Seq(T) /\ e \in T
  BY <1>1
<1> HIDE DEF T
<1>3. Append(s, e) \in Seq(T) /\ Len(Append(s, e)) = Len(s) + 1 /\ Len(s) \in Nat
  BY <1>2
<1>4. /\ Append(s, e)[Len(s) + 1] = e
      /\ \A i \in 1..Len(s) : Append(s, e)[i] = s[i]
  BY <1>2
<1>5. DOMAIN Append(s, e) = 1..(Len(s) + 1) /\ DOMAIN s = 1..Len(s)
  BY <1>2, <1>3
<1> QED
  BY <1>3, <1>4, <1>5 DEF IsSeq, Elems

\* A frame of which a part was read: rubbish takes its place.
LEMMA PipeSpoilt ==
  ASSUME NEW s, IsSeq(s), s # <<>>, NEW e
  PROVE  /\ IsSeq(<<e>> \o Tail(s))
         /\ Elems(<<e>> \o Tail(s)) \subseteq {e} \cup Elems(s)
<1>1. PICK S : s \in Seq(S)
  BY DEF IsSeq
<1> DEFINE T == S \cup {e}
<1>2. s \in Seq(T) /\ e \in T
  BY <1>1
<1> HIDE DEF T
<1>3. Tail(s) \in Seq(T) /\ <<e>> \in Seq(T)
  BY <1>2
<1> DEFINE t == Tail(s)
<1>4. /\ <<e>> \o t \in Seq(T)
      /\ \A i \in DOMAIN (<<e>> \o t) :
           \/ (<<e>> \o t)[i] = e
           \/ i - 1 \in DOMAIN t /\ (<<e>> \o t)[i] = t[i - 1]
  <2> HIDE DEF t
  <2> QED
    BY <1>3 DEF t
<1>5. Elems(<<e>> \o t) \subseteq {e} \cup Elems(t)
  BY <1>4 DEF Elems
<1> QED
  BY <1>4, <1>5, PipeRead DEF IsSeq

-----------------------------------------------------------------------------
(***************************************************************************)
(* OneHelper.                                                              *)
(***************************************************************************)

\* The only helper that may run is the one spawned last, and none does while
\* a backend is chosen or after the daemon has cleaned up.
HelperInv ==
  /\ launched \in Nat
  /\ live \subseteq {launched}
  /\ dphase \in {"launch", "stopped"} => live = {}

\* A step that leaves the helpers and the daemon's position alone.
LEMMA HelperInvFrame ==
  HelperInv /\ UNCHANGED <<launched, live, dphase>> => HelperInv'
BY DEF HelperInv

\* The daemon's steps keep it.
LEMMA HelperInvDaemon == HelperInv /\ DaemonStep => HelperInv'
<1> SUFFICES ASSUME HelperInv, DaemonStep
             PROVE  HelperInv'
  OBVIOUS
<1> USE DEF HelperInv
<1>1. CASE GiveUp \/ NoManifest \/ SpawnFails
  BY <1>1 DEF GiveUp, NoManifest, SpawnFails
<1>2. CASE Spawn
  BY <1>2 DEF Spawn
<1>3. CASE ProbeOk \/ ProbeFails \/ StartFails
  BY <1>3 DEF ProbeOk, ProbeFails, StartFails
<1>4. CASE StaysAlive
  BY <1>4 DEF StaysAlive, CurrentLives
<1>5. CASE StartServing \/ ReceiveFails
  BY <1>5 DEF StartServing, ReceiveFails
<1>6. ASSUME NEW d \in inbox, Receive(d)
      PROVE  HelperInv'
  BY <1>6 DEF Receive, Reply
<1>7. CASE ServeStep
  BY <1>7 DEF ServeStep, WriteFrame, WriteFails, ReadFrame, ReadBadLength, ReadEof,
     ReadTimesOut, ServeError, Reply
<1> QED
  BY <1>1, <1>2, <1>3, <1>4, <1>5, <1>6, <1>7 DEF DaemonStep

\* So does everybody else.
LEMMA HelperInvStep == HelperInv /\ [SessionNext]_allVars => HelperInv'
<1> SUFFICES ASSUME HelperInv, [SessionNext]_allVars
             PROVE  HelperInv'
  OBVIOUS
<1>1. CASE HelperExits
  BY <1>1 DEF HelperExits, HelperInv
<1>2. CASE \/ HelperRefuses \/ HelperProbed \/ HelperChallenges
           \/ HelperVerifies \/ HelperSearches
  <2>1. UNCHANGED <<launched, live, dphase>>
    BY <1>2 DEF HelperRefuses, HelperProbed, HelperChallenges, HelperVerifies,
       HelperSearches, HelperAnswers
  <2> QED
    BY <2>1, HelperInvFrame
<1>3. ASSUME NEW c \in Clients,
             \/ NewManager(c) \/ RequestChallenge(c)
             \/ \E pin \in Pins : VerifyChallenge(c, pin)
             \/ \E url \in Urls : Query(c, url)
             \/ ClientTimesOut(c) \/ TakeReply(c) \/ Logout(c)
      PROVE  HelperInv'
  <2>1. UNCHANGED <<launched, live, dphase>>
    BY <1>3 DEF NewManager, RequestChallenge, VerifyChallenge, Query,
       ClientTimesOut, TakeReply, Logout, Retry, Transmit, daemonVars
  <2> QED
    BY <2>1, HelperInvFrame
<1>4. CASE UNCHANGED allVars
  BY <1>4, HelperInvFrame DEF allVars, daemonVars
<1> QED
  BY <1>1, <1>2, <1>3, <1>4, HelperInvDaemon DEF SessionNext

\* The invariant holds in every behaviour.
LEMMA HelperInvariant == SessionSpec => []HelperInv
<1>1. SessionInit => HelperInv
  BY DEF SessionInit, DaemonInit, HelperInv
<1> QED
  BY <1>1, HelperInvStep, PTL DEF SessionSpec

\* Whatever backends are tried and however helpers exit, the daemon has at
\* most one helper, and none once it has stopped (probe_helper_launch,
\* terminate_helper).
THEOREM OneHelperCorrect == SessionSpec => []OneHelper
<1>1. HelperInv => OneHelper
  <2> SUFFICES ASSUME HelperInv
               PROVE  OneHelper
    OBVIOUS
  <2>1. live = {} \/ live = {launched}
    BY DEF HelperInv
  <2>2. Cardinality({}) = 0 /\ Cardinality({launched}) = 1
    BY FS_EmptySet, FS_Singleton
  <2>3. Cardinality(live) = 0 \/ Cardinality(live) = 1
    BY <2>1, <2>2, Zenon
  <2>4. Cardinality(live) <= 1
    BY <2>3
  <2> QED
    BY <2>4 DEF HelperInv, OneHelper
<1> QED
  BY <1>1, HelperInvariant, PTL

-----------------------------------------------------------------------------
(***************************************************************************)
(* SessionAgreed.  The helper's proof contains the key it was made with,   *)
(* and every proof in a pipe or in a socket was made with a derived key.   *)
(***************************************************************************)
IsSession(s) ==
  \E S : s \in [user : S, a : S, B : S, salt : S, key : S]

\* An answer that proves a key proves one the helper has derived.
Vouched(data) ==
  data.kind = "m3" => <<data.user, data.hamk[3]>> \in derived

\* A query is sealed with a key the helper has derived.
KeyKnown(msg) ==
  msg.kind = "query" => <<msg.user, msg.box.key>> \in derived

\* The records of clients and pipes have the fields the code gives them.
SessionShapes ==
  /\ IsSeq(stdin) /\ IsSeq(stdout)
  /\ DOMAIN call = Clients /\ DOMAIN sess = Clients
  /\ \A c \in Clients : IsSession(sess[c])
  /\ \A p \in derived : p = <<p[1], p[2]>>

\* The inductive invariant behind SessionAgreed: also the messages a client
\* may send again, the helper's own sessions, and the proofs on their way.
AgreedInv ==
  /\ SessionShapes
  /\ auth \subseteq derived
  /\ \A d \in inbox : KeyKnown(d.msg)
  /\ \A c \in Clients : KeyKnown(call[c].msg)
  /\ \A h \in hs : <<h.user, h.key>> \in derived
  /\ \A f \in Elems(stdout) : Vouched(f.data)
  /\ \A r \in replies : Vouched(r.data)

\* Values without a proof or a query in them.
LEMMA PlainData ==
  /\ Vouched(NoData) /\ Vouched(Garbage.data) /\ KeyKnown(NoData)
  /\ KeyKnown(Idle.msg)
BY DEF Vouched, KeyKnown, NoData, Garbage, Idle

\* An envelope of the daemon holds what a frame of the helper held.
LEMMA ReplyData ==
  ASSUME NEW d, NEW code, NEW frame, Reply(d, code, frame)
  PROVE  \A r \in replies' :
           \/ r \in replies
           \/ /\ r.sock = d.sock /\ r.code = code
              /\ r.data = frame.data /\ r.to = frame.to
BY DEF Reply

\* The error arm sends an envelope without a payload.
LEMMA ServeErrorReplies ==
  ASSUME NEW d, NEW error, ServeError(d, error)
  PROVE  \E code : Reply(d, code, NoFrame)
BY Zenon DEF ServeError

\* It writes nothing into the configuration but the launch status, though a
\* session there may be lost.
LEMMA ServeErrorAuth ==
  ASSUME NEW d, NEW error, ServeError(d, error)
  PROVE  auth' = auth \/ auth' = {}
<1> DEFINE code == IF CurrentLives THEN error ELSE "ProcessNotRunning"
<1>1. IF code = "ProcessNotRunning" THEN PersistLaunch("failed")
                                    ELSE UNCHANGED <<launch, auth>>
  BY Zenon DEF ServeError
<1> HIDE DEF code
<1> QED
  BY <1>1 DEF PersistLaunch

\* What the daemon's steps do to the pipes, the file and the sockets.
LEMMA DaemonFacts ==
  ASSUME IsSeq(stdin), IsSeq(stdout), DaemonStep
  PROVE  /\ IsSeq(stdin') /\ IsSeq(stdout')
         /\ Elems(stdout') \subseteq Elems(stdout) \cup {Garbage}
         /\ auth' \subseteq auth
         /\ inbox' \subseteq inbox
         /\ \A r \in replies' : \/ r \in replies \/ r.data = NoData
                                \/ \E f \in Elems(stdout) : r.data = f.data
<1>0. NoFrame.data = NoData
  BY DEF NoFrame
<1>1. CASE GiveUp \/ NoManifest \/ SpawnFails \/ StaysAlive \/ StartFails
           \/ StartServing \/ ReceiveFails
  BY <1>1 DEF GiveUp, NoManifest, SpawnFails, StaysAlive, StartFails,
     StartServing, ReceiveFails, PersistLaunch
<1>2. CASE Spawn
  BY <1>2, ShortPipes DEF Spawn
<1>3. CASE ProbeOk \/ ProbeFails
  BY <1>3, PipeRead DEF ProbeOk, ProbeFails, PersistLaunch
<1>4. ASSUME NEW d \in inbox, Receive(d)
      PROVE  /\ UNCHANGED <<stdin, stdout, auth>> /\ inbox' \subseteq inbox
             /\ \A r \in replies' : r \in replies \/ r.data = NoData
  BY <1>0, <1>4, ReplyData DEF Receive
<1>5. CASE WriteFrame
  BY <1>5, PipeWrite DEF WriteFrame
<1>6. ASSUME NEW d, NEW error, ServeError(d, error)
      PROVE  /\ auth' \subseteq auth
             /\ \A r \in replies' : r \in replies \/ r.data = NoData
  <2>1. auth' \subseteq auth
    BY <1>6, ServeErrorAuth
  <2>2. PICK code : Reply(d, code, NoFrame)
    BY <1>6, ServeErrorReplies
  <2>3. \A r \in replies' : r \in replies \/ r.data = NoFrame.data
    BY <2>2, ReplyData
  <2> QED
    BY <1>0, <2>1, <2>3
<1>7. CASE WriteFails \/ ReadEof
  BY <1>6, <1>7 DEF WriteFails, ReadEof
<1>8. CASE ReadFrame
  <2>1. PICK d \in current :
          \/ /\ Reply(d, ParseResponseEnvelope(Envelope("Success", TRUE)),
                      Head(stdout))
             /\ UNCHANGED <<launch, auth>>
          \/ ServeError(d, HelperCode(Head(stdout).body))
    BY <1>8 DEF ReadFrame
  <2>2. /\ auth' \subseteq auth
        /\ \A r \in replies' : \/ r \in replies \/ r.data = NoData
                               \/ r.data = Head(stdout).data
    <3>1. PICK code : \/ Reply(d, code, Head(stdout)) /\ UNCHANGED auth
                      \/ ServeError(d, HelperCode(Head(stdout).body))
      BY <2>1, Zenon
    <3>2. CASE Reply(d, code, Head(stdout)) /\ UNCHANGED auth
      BY <3>2, ReplyData
    <3>3. CASE ServeError(d, HelperCode(Head(stdout).body))
      BY <1>6, <3>3
    <3> QED
      BY <3>1, <3>2, <3>3
  <2>3. /\ stdout # <<>> /\ stdout' = Tail(stdout)
        /\ UNCHANGED <<stdin, inbox>>
    BY <1>8 DEF ReadFrame
  <2>4. /\ IsSeq(Tail(stdout)) /\ Elems(Tail(stdout)) \subseteq Elems(stdout)
        /\ Head(stdout) \in Elems(stdout)
    BY <2>3, PipeRead
  <2> QED
    BY <2>2, <2>3, <2>4
<1>9. CASE ReadTimesOut
  <2>1. PICK d \in current : ServeError(d, "CommunicationTimeout")
    BY <1>9 DEF ReadTimesOut
  <2>2. /\ UNCHANGED <<stdin, inbox>>
        /\ \/ stdout' = stdout
           \/ stdout # <<>> /\ stdout' = <<Garbage>> \o Tail(stdout)
    BY <1>9 DEF ReadTimesOut
  <2>3. IsSeq(stdout') /\ Elems(stdout') \subseteq Elems(stdout) \cup {Garbage}
    BY <2>2, PipeSpoilt
  <2> QED
    BY <1>6, <2>1, <2>2, <2>3
<1>10. CASE ReadBadLength
  <2>1. PICK d \in current : ServeError(d, "ProtoInvalidResponse")
    BY <1>10 DEF ReadBadLength
  <2>2. /\ UNCHANGED <<stdin, inbox>> /\ stdout # <<>>
        /\ stdout' = Tail(stdout) \/ stdout' = <<Garbage>> \o Tail(stdout)
    BY <1>10 DEF ReadBadLength
  <2>3. IsSeq(stdout') /\ Elems(stdout') \subseteq Elems(stdout) \cup {Garbage}
    BY <2>2, PipeSpoilt, PipeRead
  <2> QED
    BY <1>6, <2>1, <2>2, <2>3
<1> QED
  BY <1>1, <1>2, <1>3, <1>4, <1>5, <1>7, <1>8, <1>9, <1>10 DEF DaemonStep, ServeStep

\* What an answer of the helper does to the pipes.
LEMMA HelperFacts ==
  ASSUME IsSeq(stdin), IsSeq(stdout), NEW data, NEW body,
         HelperAnswers(data, body)
  PROVE  /\ IsSeq(stdin') /\ IsSeq(stdout')
         /\ Elems(stdout') \subseteq Elems(stdout)
              \cup {[to |-> Head(stdin), data |-> data, body |-> body]}
         /\ UNCHANGED <<auth, inbox, replies>>
BY PipeRead, PipeWrite DEF HelperAnswers

\* What sending a message does.
LEMMA TransmitFacts ==
  ASSUME DOMAIN call = Clients, NEW c \in Clients, NEW msg, NEW left,
         Transmit(c, msg, left)
  PROVE  /\ DOMAIN call' = Clients
         /\ \A x \in Clients : call'[x].msg = IF x = c THEN msg ELSE call[x].msg
         /\ \A d \in inbox' : d \in inbox \/ d.msg = msg
         /\ UNCHANGED <<stdin, stdout>>
BY DEF Transmit

\* A session whose user and key were replaced.
LEMMA UpdatedSession ==
  ASSUME NEW s, IsSession(s), NEW user, NEW key
  PROVE  /\ IsSession(UpdateWithValues(s, user, key))
         /\ UpdateWithValues(s, user, key).user = user
         /\ UpdateWithValues(s, user, key).key = key
<1>1. PICK S : s \in [user : S, a : S, B : S, salt : S, key : S]
  BY DEF IsSession
<1> DEFINE T == S \cup {user, key}
<1>2. UpdateWithValues(s, user, key) \in
        [user : T, a : T, B : T, salt : T, key : T]
  BY <1>1 DEF UpdateWithValues
<1>3. /\ UpdateWithValues(s, user, key).user = user
      /\ UpdateWithValues(s, user, key).key = key
  BY <1>1 DEF UpdateWithValues
<1> HIDE DEF T
<1> QED
  BY <1>2, <1>3 DEF IsSession

\* The new sessions of new, logout and the handshake.
LEMMA OtherSessions ==
  ASSUME NEW s, IsSession(s), NEW x, NEW y
  PROVE  /\ IsSession(NewSession(x, y))
         /\ IsSession([s EXCEPT !.key = x])
         /\ IsSession([s EXCEPT !.B = x, !.salt = y])
<1>1. PICK S : s \in [user : S, a : S, B : S, salt : S, key : S]
  BY DEF IsSession
<1> DEFINE T == S \cup {x, y, 0, NoKey}
<1>2. [s EXCEPT !.key = x] \in [user : T, a : T, B : T, salt : T, key : T]
  BY <1>1
<1>3. [s EXCEPT !.B = x, !.salt = y] \in
        [user : T, a : T, B : T, salt : T, key : T]
  BY <1>1
<1>4. NewSession(x, y) \in [user : T, a : T, B : T, salt : T, key : T]
  BY DEF NewSession
<1> HIDE DEF T
<1> QED
  BY <1>2, <1>3, <1>4 DEF IsSession

-----------------------------------------------------------------------------
\* The invariant survives a step that adds nothing but sound values to what
\* it is about.
LEMMA AgreedFrame ==
  ASSUME AgreedInv, SessionShapes', derived \subseteq derived',
         auth' \subseteq derived',
         \A d \in inbox' : d \in inbox \/ KeyKnown(d.msg)',
         \A c \in Clients : call'[c].msg = call[c].msg \/ KeyKnown(call[c].msg)',
         \A h \in hs' : h \in hs \/ <<h.user, h.key>> \in derived',
         \A f \in Elems(stdout') : f \in Elems(stdout) \/ Vouched(f.data)',
         \A r \in replies' : r \in replies \/ Vouched(r.data)'
  PROVE  AgreedInv'
<1>1. \A x : Vouched(x) => Vouched(x)'
  BY DEF Vouched
<1>2. \A x : KeyKnown(x) => KeyKnown(x)'
  BY DEF KeyKnown
<1>3. \A d \in inbox' : KeyKnown(d.msg)'
  BY <1>2 DEF AgreedInv
<1>4. \A c \in Clients : KeyKnown(call[c].msg)'
  BY DEF AgreedInv, KeyKnown
<1>5. \A h \in hs' : <<h.user, h.key>> \in derived'
  BY DEF AgreedInv
<1>6. \A f \in Elems(stdout') : Vouched(f.data)'
  BY <1>1 DEF AgreedInv
<1>7. \A r \in replies' : Vouched(r.data)'
  BY <1>1 DEF AgreedInv
<1> QED
  BY <1>3, <1>4, <1>5, <1>6, <1>7 DEF AgreedInv

\* The daemon only passes answers on, and at worst forgets the session.
LEMMA AgreedDaemon ==
  AgreedInv /\ DaemonStep /\ UNCHANGED sessionVars => AgreedInv'
<1> SUFFICES ASSUME AgreedInv, DaemonStep, UNCHANGED sessionVars
             PROVE  AgreedInv'
  OBVIOUS
<1>1. IsSeq(stdin) /\ IsSeq(stdout)
  BY DEF AgreedInv, SessionShapes
<1>2. /\ IsSeq(stdin') /\ IsSeq(stdout')
      /\ Elems(stdout') \subseteq Elems(stdout) \cup {Garbage}
      /\ auth' \subseteq auth /\ inbox' \subseteq inbox
      /\ \A r \in replies' : \/ r \in replies \/ r.data = NoData
                             \/ \E f \in Elems(stdout) : r.data = f.data
  BY <1>1, DaemonFacts
<1>3. UNCHANGED <<sess, call, hs, derived>>
  BY DEF sessionVars
<1>4. SessionShapes'
  BY <1>2, <1>3 DEF AgreedInv, SessionShapes
<1>5. \A x : Vouched(x) => Vouched(x)'
  BY <1>3 DEF Vouched
<1>6. \A f \in Elems(stdout') : f \in Elems(stdout) \/ Vouched(f.data)'
  BY <1>2, <1>5, PlainData
<1>7. \A r \in replies' : r \in replies \/ Vouched(r.data)'
  BY <1>2, <1>5, PlainData DEF AgreedInv
<1>8. auth' \subseteq derived'
  BY <1>2, <1>3 DEF AgreedInv
<1> QED
  BY <1>2, <1>3, <1>4, <1>6, <1>7, <1>8, AgreedFrame

\* An answer of the helper keeps the invariant if it is sound.
LEMMA AgreedHelper ==
  ASSUME AgreedInv, NEW data, NEW body, HelperAnswers(data, body),
         UNCHANGED <<sess, call>>, derived \subseteq derived',
         \A p \in derived' : p = <<p[1], p[2]>>,
         \A h \in hs' : h \in hs \/ <<h.user, h.key>> \in derived',
         Vouched(data)'
  PROVE  AgreedInv'
<1>1. IsSeq(stdin) /\ IsSeq(stdout)
  BY DEF AgreedInv, SessionShapes
<1>2. /\ IsSeq(stdin') /\ IsSeq(stdout')
      /\ Elems(stdout') \subseteq Elems(stdout)
           \cup {[to |-> Head(stdin), data |-> data, body |-> body]}
      /\ UNCHANGED <<auth, inbox, replies>>
  BY <1>1, HelperFacts
<1>3. SessionShapes'
  BY <1>2 DEF AgreedInv, SessionShapes
<1>4. \A f \in Elems(stdout') : f \in Elems(stdout) \/ Vouched(f.data)'
  BY <1>2
<1>5. auth' \subseteq derived'
  BY <1>2 DEF AgreedInv
<1> QED
  BY <1>2, <1>3, <1>4, <1>5, AgreedFrame

\* Sending a message keeps the invariant if its key is known.
LEMMA AgreedTransmit ==
  ASSUME AgreedInv, NEW c \in Clients, NEW msg, NEW left,
         Transmit(c, msg, left), KeyKnown(msg),
         DOMAIN sess' = Clients, \A x \in Clients : IsSession(sess[x])',
         UNCHANGED <<hs, derived, auth>>, replies' \subseteq replies
  PROVE  AgreedInv'
<1>1. /\ DOMAIN call' = Clients
      /\ \A x \in Clients : call'[x].msg = IF x = c THEN msg ELSE call[x].msg
      /\ \A d \in inbox' : d \in inbox \/ d.msg = msg
      /\ UNCHANGED <<stdin, stdout>>
  BY TransmitFacts DEF AgreedInv, SessionShapes
<1>2. SessionShapes'
  BY <1>1 DEF AgreedInv, SessionShapes
<1>3. \A x : KeyKnown(x) => KeyKnown(x)'
  BY DEF KeyKnown
<1>4. \A d \in inbox' : d \in inbox \/ KeyKnown(d.msg)'
  BY <1>1, <1>3
<1>5. \A x \in Clients : call'[x].msg = call[x].msg \/ KeyKnown(call[x].msg)'
  BY <1>1 DEF KeyKnown
<1>6. auth' \subseteq derived'
  BY DEF AgreedInv
<1> QED
  BY <1>1, <1>2, <1>4, <1>5, <1>6, AgreedFrame

\* The end of a call, with whatever its caller made of the answer.
LEMMA AgreedEndCall ==
  ASSUME AgreedInv, NEW c \in Clients, EndCall(c),
         UNCHANGED <<hs, derived, stdin, stdout, inbox>>,
         DOMAIN sess' = Clients, \A x \in Clients : IsSession(sess[x])',
         auth' \subseteq derived
  PROVE  AgreedInv'
<1>1. /\ DOMAIN call' = Clients /\ replies' \subseteq replies
      /\ \A x \in Clients : call'[x].msg = call[x].msg \/ call'[x].msg = Idle.msg
  BY DEF EndCall, AgreedInv, SessionShapes
<1>2. SessionShapes'
  BY <1>1 DEF AgreedInv, SessionShapes
<1>3. \A x \in Clients : call'[x].msg = call[x].msg \/ KeyKnown(call[x].msg)'
  BY <1>1 DEF KeyKnown, Idle, NoData
<1> QED
  BY <1>1, <1>2, <1>3, AgreedFrame

\* Nothing the invariant is about changes, but for the clients' sessions.
LEMMA AgreedUnchanged ==
  ASSUME AgreedInv, UNCHANGED <<call, hs, derived, stdin, stdout, inbox, replies>>,
         DOMAIN sess' = Clients, \A x \in Clients : IsSession(sess[x])',
         auth' \subseteq auth
  PROVE  AgreedInv'
<1>1. SessionShapes'
  BY DEF AgreedInv, SessionShapes
<1>2. auth' \subseteq derived'
  BY DEF AgreedInv
<1> QED
  BY <1>1, <1>2, AgreedFrame

\* The helper's proof only vouches for a key of the user it is addressed to.
LEMMA HelperVouches ==
  ASSUME AgreedInv, HelperVerifies
  PROVE  AgreedInv'
<1>1. PICK h \in hs, err \in {0, 1} :
        /\ h.user = Head(stdin).user
        /\ HelperAnswers([kind |-> "m3", user |-> Head(stdin).user, err |-> err,
                          hamk |-> ComputeHmac(h.A, Head(stdin).proof, h.key)],
                         OkBody)
  BY DEF HelperVerifies
<1>2. UNCHANGED <<sess, call, hs, derived>>
  BY DEF HelperVerifies, sessionVars
<1>3. PICK data : /\ HelperAnswers(data, OkBody)
                  /\ data.user = h.user /\ data.hamk[3] = h.key
  BY <1>1 DEF ComputeHmac
<1>4. <<h.user, h.key>> \in derived
  BY DEF AgreedInv
<1>5. Vouched(data)'
  BY <1>2, <1>3, <1>4 DEF Vouched
<1>6. \A p \in derived' : p = <<p[1], p[2]>>
  BY <1>2 DEF AgreedInv, SessionShapes
<1> QED
  BY <1>2, <1>3, <1>5, <1>6, AgreedHelper

\* The helper's other answers prove nothing; a challenge derives a key.
LEMMA HelperOther ==
  ASSUME AgreedInv,
         HelperRefuses \/ HelperProbed \/ HelperChallenges \/ HelperSearches
  PROVE  AgreedInv'
<1>0. \A p \in derived : p = <<p[1], p[2]>>
  BY DEF AgreedInv, SessionShapes
<1>1. CASE HelperRefuses \/ HelperProbed
  <2>1. PICK body : HelperAnswers(NoData, body)
    BY <1>1 DEF HelperRefuses, HelperProbed
  <2>2. UNCHANGED <<sess, call, hs, derived>>
    BY <1>1 DEF HelperRefuses, HelperProbed, sessionVars
  <2>3. Vouched(NoData)'
    BY DEF Vouched, NoData
  <2> QED
    BY <1>0, <2>1, <2>2, <2>3, AgreedHelper
<1>2. CASE HelperSearches
  <2>1. PICK data, body : HelperAnswers(data, body) /\ data.kind = "data"
    BY <1>2 DEF HelperSearches
  <2>2. UNCHANGED <<sess, call, hs, derived>>
    BY <1>2 DEF HelperSearches, sessionVars
  <2>3. Vouched(data)'
    BY <2>1 DEF Vouched
  <2> QED
    BY <1>0, <2>1, <2>2, <2>3, AgreedHelper
<1>3. CASE HelperChallenges
  <2>1. PICK b, pin, B :
          LET m == Head(stdin)
              key == HelperKey(m.user, m.A, b, Salt, pin)
          IN /\ hs' = {h \in hs : h.user # m.user} \cup
                        {[user |-> m.user, A |-> m.A, b |-> b, pin |-> pin,
                          B |-> B, key |-> key]}
             /\ derived' = derived \cup {<<m.user, key>>}
             /\ HelperAnswers([kind |-> "m1", user |-> m.user, B |-> B,
                               salt |-> Salt], OkBody)
    BY <1>3 DEF HelperChallenges
  <2>2. UNCHANGED <<sess, call>>
    BY <1>3 DEF HelperChallenges
  <2>3. /\ derived \subseteq derived'
        /\ \A p \in derived' : p = <<p[1], p[2]>>
        /\ \A h \in hs' : h \in hs \/ <<h.user, h.key>> \in derived'
    BY <1>0, <2>1
  <2>4. PICK data, body : HelperAnswers(data, body) /\ data.kind = "m1"
    BY <2>1
  <2>5. Vouched(data)'
    BY <2>4 DEF Vouched
  <2> QED
    BY <2>2, <2>3, <2>4, <2>5, AgreedHelper
<1> QED
  BY <1>1, <1>2, <1>3

\* The key is stored only after the helper's proof of it has been compared.
LEMMA AgreedTakeReply ==
  ASSUME AgreedInv, NEW c \in Clients, TakeReply(c)
  PROVE  AgreedInv'
<1>0. /\ DOMAIN sess = Clients /\ \A x \in Clients : IsSession(sess[x])
      /\ KeyKnown(call[c].msg)
  BY DEF AgreedInv, SessionShapes
<1>1. PICK r \in replies :
        /\ r.sock = call[c].sock
        /\ \/ Retry(c) /\ replies' = replies \ {r}
           \/ /\ EndCall(c) /\ Consume(c, r.data)
              /\ UNCHANGED <<hs, derived, stdin, stdout, inbox>>
  BY DEF TakeReply
<1>2. CASE Retry(c) /\ replies' = replies \ {r}
  <2>1. /\ Transmit(c, call[c].msg, call[c].left - 1)
        /\ UNCHANGED <<sess, hs, derived, auth>>
    BY <1>2 DEF Retry
  <2> QED
    BY <1>0, <1>2, <2>1, AgreedTransmit
<1>3. CASE /\ EndCall(c) /\ Consume(c, r.data)
           /\ UNCHANGED <<hs, derived, stdin, stdout, inbox>>
  <2>1. DOMAIN sess' = Clients /\ \A x \in Clients : IsSession(sess[x])'
    <3>1. \/ sess' = sess
          \/ \E B, salt : sess' = [sess EXCEPT ![c].B = B, ![c].salt = salt]
      BY <1>3 DEF Consume
    <3>2. ASSUME NEW B, NEW salt,
                 sess' = [sess EXCEPT ![c].B = B, ![c].salt = salt]
          PROVE  DOMAIN sess' = Clients /\ \A x \in Clients : IsSession(sess[x])'
      <4>1. sess'[c] = [sess[c] EXCEPT !.B = B, !.salt = salt]
        BY <1>0, <3>2
      <4> QED
        BY <1>0, <3>2, <4>1, OtherSessions
    <3> QED
      BY <1>0, <3>1, <3>2
  <2>2. auth' \subseteq derived
    <3>1. CASE auth' = auth
      BY <3>1 DEF AgreedInv
    <3>2. CASE auth' # auth
      <4>1. /\ auth' = {<<sess[c].user, sess[c].key>>}
            /\ ProofAccepted(sess[c], r.data)
        BY <1>3, <3>2 DEF Consume
      <4>2. r.data.hamk[3] = sess[c].key
        BY <4>1 DEF ProofAccepted, VerifyHamk, ComputeHmac
      <4>3. <<r.data.user, r.data.hamk[3]>> \in derived
        BY <4>1 DEF ProofAccepted, AgreedInv, Vouched
      <4>4. r.data.user = sess[c].user
        BY <4>1 DEF ProofAccepted
      <4> QED
        BY <4>1, <4>2, <4>3, <4>4
    <3> QED
      BY <3>1, <3>2
  <2> QED
    BY <1>3, <2>1, <2>2, AgreedEndCall
<1> QED
  BY <1>1, <1>2, <1>3

\* The other steps of a client.
LEMMA AgreedClient ==
  ASSUME AgreedInv, NEW c \in Clients,
         \/ NewManager(c) \/ RequestChallenge(c)
         \/ \E pin \in Pins : VerifyChallenge(c, pin)
         \/ \E url \in Urls : Query(c, url)
         \/ ClientTimesOut(c) \/ Logout(c)
  PROVE  AgreedInv'
<1>0. /\ DOMAIN sess = Clients /\ \A x \in Clients : IsSession(sess[x])
      /\ KeyKnown(call[c].msg)
  BY DEF AgreedInv, SessionShapes
<1>1. ASSUME NEW s, IsSession(s), sess' = [sess EXCEPT ![c] = s]
      PROVE  DOMAIN sess' = Clients /\ \A x \in Clients : IsSession(sess[x])'
  BY <1>0, <1>1
<1>2. CASE NewManager(c) \/ Logout(c)
  <2>1. PICK s : IsSession(s) /\ sess' = [sess EXCEPT ![c] = s]
    BY <1>0, <1>2, OtherSessions, UpdatedSession DEF NewManager, Logout
  <2>2. /\ UNCHANGED <<call, hs, derived, stdin, stdout, inbox, replies>>
        /\ auth' \subseteq auth
    BY <1>2 DEF NewManager, Logout, daemonVars
  <2> QED
    BY <1>1, <2>1, <2>2, AgreedUnchanged
<1>3. CASE RequestChallenge(c)
  <2>1. /\ Transmit(c, RequestChallengeMsg(sess[c]), SendRetries)
        /\ UNCHANGED <<sess, hs, derived, replies, auth>>
    BY <1>3 DEF RequestChallenge
  <2>2. KeyKnown(RequestChallengeMsg(sess[c]))
    BY DEF KeyKnown, RequestChallengeMsg
  <2> QED
    BY <1>0, <2>1, <2>2, AgreedTransmit
<1>4. ASSUME NEW pin \in Pins, VerifyChallenge(c, pin)
      PROVE  AgreedInv'
  <2> DEFINE keyed == SetSharedKey(sess[c], pin)
  <2>1. IsSession(keyed)
    BY <1>0, OtherSessions DEF SetSharedKey
  <2>2. sess' = [sess EXCEPT ![c] = keyed]
    BY <1>4 DEF VerifyChallenge
  <2>3. DOMAIN sess' = Clients /\ \A x \in Clients : IsSession(sess[x])'
    BY <1>1, <2>1, <2>2
  <2>4. CASE Transmit(c, VerifyChallengeMsg(keyed), SendRetries)
             /\ UNCHANGED <<replies, auth, hs, derived>>
    <3>1. KeyKnown(VerifyChallengeMsg(keyed))
      BY DEF KeyKnown, VerifyChallengeMsg
    <3> QED
      BY <2>3, <2>4, <3>1, AgreedTransmit
  <2>5. CASE UNCHANGED <<call, hs, derived, stdin, stdout, inbox, replies, auth>>
    BY <2>3, <2>5, AgreedUnchanged
  <2> QED
    BY <1>4, <2>4, <2>5 DEF VerifyChallenge, daemonVars
<1>5. ASSUME NEW url \in Urls, Query(c, url)
      PROVE  AgreedInv'
  <2>1. PICK saved \in auth :
          LET s == UpdateWithValues(sess[c], saved[1], saved[2])
          IN sess' = [sess EXCEPT ![c] = s]
               /\ Transmit(c, QueryMsg(s, url), SendRetries)
    BY <1>5 DEF Query
  <2> DEFINE s == UpdateWithValues(sess[c], saved[1], saved[2])
  <2>2. IsSession(s) /\ s.user = saved[1] /\ s.key = saved[2]
    BY <1>0, UpdatedSession
  <2>3. saved \in derived /\ saved = <<saved[1], saved[2]>>
    BY DEF AgreedInv, SessionShapes
  <2>4. KeyKnown(QueryMsg(s, url))
    BY <2>2, <2>3 DEF KeyKnown, QueryMsg, Encrypt
  <2>5. /\ UNCHANGED <<hs, derived, auth>> /\ replies' = replies
    BY <1>5 DEF Query
  <2>6. sess' = [sess EXCEPT ![c] = s] /\ Transmit(c, QueryMsg(s, url), SendRetries)
    BY <2>1
  <2> HIDE DEF s
  <2> QED
    BY <1>1, <2>2, <2>4, <2>5, <2>6, AgreedTransmit
<1>6. CASE ClientTimesOut(c)
  <2>1. CASE Retry(c) /\ replies' \subseteq replies
    <3>1. /\ Transmit(c, call[c].msg, call[c].left - 1)
          /\ UNCHANGED <<sess, hs, derived, auth>>
      BY <2>1 DEF Retry
    <3> QED
      BY <1>0, <2>1, <3>1, AgreedTransmit
  <2>2. CASE EndCall(c)
             /\ UNCHANGED <<sess, hs, derived, stdin, stdout, inbox, auth>>
    <3>1. auth' \subseteq derived
      BY <2>2 DEF AgreedInv
    <3> QED
      BY <1>0, <2>2, <3>1, AgreedEndCall
  <2> QED
    BY <1>6, <2>1, <2>2 DEF ClientTimesOut
<1> QED
  BY <1>2, <1>3, <1>4, <1>5, <1>6

\* Every step keeps the invariant.
LEMMA AgreedInvStep == AgreedInv /\ [SessionNext]_allVars => AgreedInv'
<1> SUFFICES ASSUME AgreedInv, [SessionNext]_allVars
             PROVE  AgreedInv'
  OBVIOUS
<1>1. CASE HelperExits /\ UNCHANGED sessionVars
  BY <1>1, AgreedUnchanged
  DEF HelperExits, sessionVars, AgreedInv, SessionShapes
<1>2. CASE UNCHANGED allVars
  BY <1>2, AgreedUnchanged
  DEF allVars, daemonVars, sessionVars, AgreedInv, SessionShapes
<1> QED
  BY <1>1, <1>2, AgreedDaemon, HelperVouches, HelperOther, AgreedTakeReply,
     AgreedClient DEF SessionNext

\* The invariant holds in every behaviour.
LEMMA AgreedInvariant == SessionSpec => []AgreedInv
<1>1. SessionInit => AgreedInv
  <2> SUFFICES ASSUME SessionInit
               PROVE  AgreedInv
    OBVIOUS
  <2>1. stdin = <<>> /\ stdout = <<>> /\ inbox = {} /\ replies = {}
    BY DEF SessionInit, DaemonInit
  <2>2. IsSeq(stdin) /\ IsSeq(stdout) /\ Elems(stdout) = {}
    BY <2>1, ShortPipes
  <2>3. IsSession(NewSession(NoUser, 0))
    <3>1. NewSession(NoUser, 0) \in
            [user : {NoUser, 0, NoKey}, a : {NoUser, 0, NoKey},
             B : {NoUser, 0, NoKey}, salt : {NoUser, 0, NoKey},
             key : {NoUser, 0, NoKey}]
      BY DEF NewSession
    <3> QED
      BY <3>1 DEF IsSession
  <2>4. SessionShapes
    BY <2>2, <2>3 DEF SessionInit, SessionShapes
  <2> QED
    BY <2>1, <2>2, <2>4, PlainData DEF SessionInit, AgreedInv
<1> QED
  BY <1>1, AgreedInvStep, PTL DEF SessionSpec

\* In every interleaving of handshakes, retries, late answers and restarts of
\* the file, a stored key and the key of every query on its way is one the
\* helper derived for that user (verify_challenge, ensure_authenticated).
THEOREM SessionAgreedCorrect == SessionSpec => []SessionAgreed
<1>1. AgreedInv => SessionAgreed
  BY DEF AgreedInv, SessionAgreed, KeyKnown
<1> QED
  BY <1>1, AgreedInvariant, PTL

-----------------------------------------------------------------------------
(***************************************************************************)
(* InStep.  Frames carry no ids, so the invariant is about the pipe: as    *)
(* long as no frame was given up, it holds at most one frame, and that one *)
(* belongs to the datagram being served.                                   *)
(***************************************************************************)

\* A result in an answer is the result of the frame it answers.
Matches(to, data) == data.kind = "data" => data.box.value = to.box.value

\* A socket is used for one message, which its datagram carries.
OnItsSocket(d) == d.sock \in 1..Len(sent) /\ d.msg = sent[d.sock]

\* Datagrams, calls and envelopes belong to the message sent on their socket;
\* only a success carries data, and data matches the frame it answers.
SentInv ==
  /\ IsSeq(sent)
  /\ \A d \in inbox \cup current : OnItsSocket(d)
  /\ \A c \in Clients : call[c].sock = 0 \/ OnItsSocket(call[c])
  /\ \A r \in replies : r.sock \in 1..Len(sent)
  /\ \A r \in replies : \/ r.data = NoData
                        \/ r.code = "Success" /\ Matches(r.to, r.data)
  /\ \A f \in Elems(stdout) : Matches(f.to, f.data)

\* The pipe is empty but for the frame that is being served or probed; a
\* helper that died may leave the frame unread, and nobody reads it then.
PipeInv ==
  /\ \A d, e \in current : d = e
  /\ dphase = "probe" => \/ stdin = <<Probe>> /\ stdout = <<>>
                         \/ stdin = <<>> /\ \E f : stdout = <<f>>
  /\ dphase \in {"alive", "bind", "recv", "write"} =>
       stdout = <<>> /\ (CurrentLives => stdin = <<>>)
  /\ dphase = "read" =>
       \A d \in current :
         \/ stdin = <<d.msg>> /\ stdout = <<>>
         \/ stdin = <<>> /\ \E f : stdout = <<f>> /\ f.to = d.msg

\* The inductive invariant behind InStep.
StepInv == SentInv /\ (~dirty => PipeInv) /\ InStep

\* An envelope made of an error is not read as a success, even if the error
\* has the code Success.
LEMMA ErrorIsNoSuccess ==
  ASSUME NEW code
  PROVE  ParseResponseEnvelope(Envelope(code, FALSE)) # "Success"
BY DEF ParseResponseEnvelope, Envelope, StatusOf

\* A frame that is accepted is read as a success.
LEMMA FrameIsSuccess ==
  ParseResponseEnvelope(Envelope("Success", TRUE)) = "Success"
BY DEF ParseResponseEnvelope, Envelope

\* The envelope the daemon sends about datagram d when it serves no frame.
Refusal(r, d) == r.sock = d.sock /\ r.code # "Success" /\ r.data = NoData

\* The error arm sends such an envelope, and the datagram is done with.
LEMMA ServeErrorFacts ==
  ASSUME NEW d, NEW error, ServeError(d, error)
  PROVE  /\ current' = {} /\ dphase' = "recv"
         /\ \A r \in replies' : r \in replies \/ Refusal(r, d)
<1>1. PICK code :
        Reply(d, ParseResponseEnvelope(Envelope(code, FALSE)), NoFrame)
  BY Zenon DEF ServeError
<1> DEFINE read == ParseResponseEnvelope(Envelope(code, FALSE))
<1>2. \A r \in replies' :
        \/ r \in replies
        \/ /\ r.sock = d.sock /\ r.data = NoFrame.data
           /\ r.code = read
  <2>1. Reply(d, read, NoFrame)
    BY <1>1
  <2> HIDE DEF read
  <2> QED
    BY <2>1, ReplyData
<1>3. NoFrame.data = NoData
  BY DEF NoFrame
<1> QED
  BY <1>1, <1>2, <1>3, ErrorIsNoSuccess DEF Reply, Refusal

\* The daemon serves a frame by passing it on to the datagram's socket.
Served(r, d) ==
  /\ dphase = "read" /\ stdout # <<>>
  /\ r.sock = d.sock /\ r.code = "Success"
  /\ r.data = Head(stdout).data /\ r.to = Head(stdout).to

\* What the daemon's steps do to datagrams and sockets.
LEMMA DaemonServes ==
  ASSUME DaemonStep
  PROVE  /\ inbox' \cup current' \subseteq inbox \cup current
         /\ \A r \in replies' :
              \/ r \in replies
              \/ \E d \in inbox \cup current : Refusal(r, d)
              \/ \E d \in current : Served(r, d)
         /\ dirty => dirty'
<1>1. CASE \/ GiveUp \/ NoManifest \/ SpawnFails \/ Spawn \/ ProbeOk
           \/ ProbeFails \/ StaysAlive \/ StartFails \/ StartServing
           \/ ReceiveFails \/ WriteFrame
  BY <1>1 DEF GiveUp, NoManifest, SpawnFails, Spawn, ProbeOk, ProbeFails,
     StaysAlive, StartFails, StartServing, ReceiveFails, WriteFrame
<1>2. ASSUME NEW d \in inbox, Receive(d)
      PROVE  /\ inbox' \cup current' \subseteq inbox \cup current
             /\ \A r \in replies' : r \in replies \/ Refusal(r, d)
             /\ dirty' = dirty
  <2>1. NoFrame.data = NoData
    BY DEF NoFrame
  <2> QED
    BY <1>2, <2>1 DEF Receive, Reply, Refusal
<1>3. CASE WriteFails \/ ReadEof \/ ReadTimesOut \/ ReadBadLength
  <2>1. PICK d \in current : \E error : ServeError(d, error)
    BY <1>3 DEF WriteFails, ReadEof, ReadTimesOut, ReadBadLength
  <2>2. inbox' = inbox /\ (dirty => dirty')
    BY <1>3 DEF WriteFails, ReadEof, ReadTimesOut, ReadBadLength
  <2> QED
    BY <2>1, <2>2, ServeErrorFacts
<1>4. CASE ReadFrame
  <2>1. PICK d \in current :
          \/ Reply(d, ParseResponseEnvelope(Envelope("Success", TRUE)),
                   Head(stdout))
          \/ ServeError(d, HelperCode(Head(stdout).body))
    BY <1>4 DEF ReadFrame
  <2>2. /\ inbox' = inbox /\ dirty' = dirty
        /\ dphase = "read" /\ stdout # <<>>
    BY <1>4 DEF ReadFrame
  <2>3. CASE Reply(d, ParseResponseEnvelope(Envelope("Success", TRUE)),
                   Head(stdout))
    <3>1. \A r \in replies' : r \in replies \/ Served(r, d)
      <4>1. Reply(d, "Success", Head(stdout))
        BY <2>3, FrameIsSuccess, Zenon
      <4> QED
        BY <2>2, <4>1, ReplyData DEF Served
    <3> QED
      BY <2>2, <2>3, <3>1 DEF Reply
  <2>4. CASE ServeError(d, HelperCode(Head(stdout).body))
    BY <2>2, <2>4, ServeErrorFacts
  <2> QED
    BY <2>1, <2>3, <2>4
<1> QED
  BY <1>1, <1>2, <1>3, <1>4 DEF DaemonStep, ServeStep

\* In step, the frame at the head of the pipe answers the datagram served.
LEMMA ServedInStep ==
  ASSUME PipeInv, NEW d \in current, dphase = "read", stdout # <<>>
  PROVE  Head(stdout).to = d.msg
BY ShortPipes DEF PipeInv

\* The daemon keeps answers on the socket of the message they answer.
LEMMA StepDaemon ==
  ASSUME AgreedInv, StepInv, DaemonStep, UNCHANGED sessionVars
  PROVE  SentInv' /\ InStep'
<1>0. UNCHANGED <<call, sent, printed>>
  BY DEF sessionVars
<1>1. /\ inbox' \cup current' \subseteq inbox \cup current
      /\ \A r \in replies' :
           \/ r \in replies
           \/ \E d \in inbox \cup current : Refusal(r, d)
           \/ \E d \in current : Served(r, d)
      /\ dirty => dirty'
  BY DaemonServes
<1>2. IsSeq(stdin) /\ IsSeq(stdout)
  BY DEF AgreedInv, SessionShapes
<1>3. Elems(stdout') \subseteq Elems(stdout) \cup {Garbage}
  BY <1>2, DaemonFacts
<1>4. \A f \in Elems(stdout') : Matches(f.to, f.data)
  BY <1>3 DEF StepInv, SentInv, Matches, Garbage
<1>5. stdout # <<>> => Head(stdout) \in Elems(stdout)
  BY <1>2, PipeRead
<1>6. \A r \in replies' : r.sock \in 1..Len(sent)
  BY <1>1 DEF StepInv, SentInv, OnItsSocket, Refusal, Served
<1>7. \A r \in replies' : \/ r.data = NoData
                          \/ r.code = "Success" /\ Matches(r.to, r.data)
  BY <1>1, <1>5 DEF StepInv, SentInv, Refusal, Served
<1>8. SentInv'
  BY <1>0, <1>1, <1>4, <1>6, <1>7 DEF StepInv, SentInv, OnItsSocket, Matches
<1>9. ASSUME ~dirty', NEW r \in replies', r.code = "Success"
      PROVE  r.to = sent[r.sock]
  <2>1. CASE r \in replies
    BY <1>1, <1>9, <2>1 DEF StepInv, InStep
  <2>2. ASSUME NEW d \in current, Served(r, d)
        PROVE  r.to = sent[r.sock]
    <3>1. Head(stdout).to = d.msg
      BY <1>1, <1>9, <2>2, ServedInStep DEF StepInv, Served
    <3> QED
      BY <2>2, <3>1 DEF Served, StepInv, SentInv, OnItsSocket
  <2> QED
    BY <1>1, <1>9, <2>1, <2>2 DEF Refusal
<1> QED
  BY <1>0, <1>1, <1>8, <1>9 DEF StepInv, InStep

\* The daemon keeps the pipe in step, or notes that it does not.
LEMMA PipeDaemon ==
  ASSUME ~dirty => PipeInv, DaemonStep
  PROVE  ~dirty' => PipeInv'
<1> SUFFICES ASSUME ~dirty', PipeInv
             PROVE  PipeInv'
  BY DaemonServes
<1>0. dirty' = TRUE \/ dirty' = dirty
  BY DEF DaemonStep, ServeStep, GiveUp, NoManifest, SpawnFails, Spawn, ProbeOk,
     ProbeFails, StaysAlive, StartFails, StartServing, ReceiveFails,
     WriteFrame, WriteFails, ReadFrame, ReadBadLength, ReadEof, ReadTimesOut, Receive
<1>1. CASE GiveUp \/ NoManifest \/ SpawnFails
  BY <1>1 DEF GiveUp, NoManifest, SpawnFails, PipeInv
<1>2. CASE Spawn
  BY <1>2 DEF Spawn, PipeInv
<1>3. CASE ProbeOk
  <2>1. stdin = <<>> /\ \E f : stdout = <<f>>
    BY <1>3 DEF ProbeOk, PipeInv
  <2>2. Tail(stdout) = <<>>
    BY <2>1, ShortPipes
  <2> QED
    BY <1>3, <2>1, <2>2 DEF ProbeOk, PipeInv
<1>4. CASE ProbeFails
  BY <1>4 DEF ProbeFails, PipeInv
<1>5. CASE StaysAlive \/ StartServing \/ ReceiveFails
  BY <1>5 DEF StaysAlive, StartServing, ReceiveFails, PipeInv, CurrentLives
<1>6. CASE StartFails
  BY <1>6 DEF StartFails, PipeInv
<1>7. ASSUME NEW d \in inbox, Receive(d)
      PROVE  PipeInv'
  BY <1>7 DEF Receive, Reply, PipeInv, CurrentLives
<1>8. CASE WriteFrame
  <2>1. stdin = <<>> /\ stdout = <<>>
    BY <1>8 DEF WriteFrame, PipeInv
  <2>2. PICK d \in current : stdin' = Append(<<>>, d.msg)
    BY <1>8, <2>1 DEF WriteFrame
  <2>3. stdin' = <<d.msg>>
    BY <2>2, ShortPipes
  <2>4. \A e \in current : e = d
    BY DEF PipeInv
  <2>5. dphase' = "read" /\ UNCHANGED <<stdout, current>>
    BY <1>8 DEF WriteFrame
  <2> QED
    BY <2>1, <2>3, <2>4, <2>5 DEF PipeInv
<1>9. CASE WriteFails \/ ReadEof
  <2>1. PICK d \in current : \E error : ServeError(d, error)
    BY <1>9 DEF WriteFails, ReadEof
  <2>2. current' = {} /\ dphase' = "recv"
    BY <2>1, ServeErrorFacts
  <2>3. stdout = <<>> /\ ~CurrentLives /\ UNCHANGED <<launched, live, stdin, stdout>>
    BY <1>9 DEF WriteFails, ReadEof, PipeInv
  <2> QED
    BY <2>2, <2>3 DEF PipeInv, CurrentLives
<1>10. CASE ReadFrame
  <2>1. PICK d \in current : current' = {} /\ dphase' = "recv"
    BY <1>10, ServeErrorFacts DEF ReadFrame, Reply
  <2>2. stdin = <<>> /\ \E f : stdout = <<f>>
    BY <1>10 DEF ReadFrame, PipeInv
  <2>3. Tail(stdout) = <<>>
    BY <2>2, ShortPipes
  <2> QED
    BY <1>10, <2>1, <2>2, <2>3 DEF ReadFrame, PipeInv
<1>11. CASE ReadTimesOut
  BY <1>11 DEF ReadTimesOut
<1>12. CASE ReadBadLength
  <2>1. PICK d \in current : ServeError(d, "ProtoInvalidResponse")
    BY <1>12 DEF ReadBadLength
  <2>2. current' = {} /\ dphase' = "recv"
    BY <2>1, ServeErrorFacts
  <2>3. /\ stdin = <<>> /\ (\E f : stdout = <<f>>) /\ stdout' = Tail(stdout)
        /\ UNCHANGED <<launched, live, stdin>>
    BY <1>12 DEF ReadBadLength, PipeInv
  <2>4. stdout' = <<>>
    BY <2>3, ShortPipes
  <2> QED
    BY <2>2, <2>3, <2>4 DEF PipeInv
<1> QED
  BY <1>1, <1>2, <1>3, <1>4, <1>5, <1>6, <1>7, <1>8, <1>9, <1>10, <1>11, <1>12
  DEF DaemonStep, ServeStep

\* An answer of the helper: it stands in the pipe where its frame stood.
LEMMA StepHelper ==
  ASSUME AgreedInv, StepInv, NEW data, NEW body, HelperAnswers(data, body),
         Matches(Head(stdin), data), UNCHANGED <<call, sent, printed>>
  PROVE  StepInv'
<1>1. IsSeq(stdin) /\ IsSeq(stdout)
  BY DEF AgreedInv, SessionShapes
<1>2. Elems(stdout') \subseteq Elems(stdout)
        \cup {[to |-> Head(stdin), data |-> data, body |-> body]}
  BY <1>1, HelperFacts
<1>3. UNCHANGED <<dphase, live, launched, current, dirty, inbox, replies>>
  BY DEF HelperAnswers
<1>4. \A f \in Elems(stdout') : Matches(f.to, f.data)
  BY <1>2 DEF StepInv, SentInv
<1>5. SentInv'
  BY <1>3, <1>4 DEF StepInv, SentInv, OnItsSocket, Matches
<1>6. InStep'
  BY <1>3 DEF StepInv, InStep
<1>7. ASSUME PipeInv
      PROVE  PipeInv'
  <2>1. /\ CurrentLives /\ stdin # <<>> /\ stdin' = Tail(stdin)
        /\ \E f : f.to = Head(stdin) /\ stdout' = Append(stdout, f)
    BY DEF HelperAnswers
  <2>2. CASE dphase = "probe"
    <3>1. stdin = <<Probe>> /\ stdout = <<>>
      BY <1>7, <2>1, <2>2 DEF PipeInv
    <3>2. stdin' = <<>> /\ \E f : stdout' = <<f>>
      BY <2>1, <3>1, ShortPipes
    <3> QED
      BY <1>3, <1>7, <2>2, <3>2 DEF PipeInv
  <2>3. CASE dphase = "read"
    <3>1. ASSUME NEW d \in current
          PROVE  stdin' = <<>> /\ \E f : stdout' = <<f>> /\ f.to = d.msg
      <4>1. stdin = <<d.msg>> /\ stdout = <<>>
        BY <1>7, <2>1, <2>3 DEF PipeInv
      <4> QED
        BY <2>1, <4>1, ShortPipes
    <3> QED
      BY <1>3, <1>7, <2>3, <3>1 DEF PipeInv
  <2>4. CASE dphase \notin {"probe", "read"}
    BY <1>3, <1>7, <2>1, <2>4 DEF PipeInv
  <2> QED
    BY <2>2, <2>3, <2>4
<1> QED
  BY <1>3, <1>5, <1>6, <1>7 DEF StepInv

\* The helper's answers: only a search returns a result, that of its frame.
LEMMA StepHelpers ==
  ASSUME AgreedInv, StepInv,
         \/ HelperRefuses \/ HelperProbed \/ HelperChallenges
         \/ HelperVerifies \/ HelperSearches
  PROVE  StepInv'
<1>1. UNCHANGED <<call, sent, printed>>
  BY DEF HelperRefuses, HelperProbed, HelperChallenges, HelperVerifies,
     HelperSearches, sessionVars
<1>2. CASE HelperSearches
  <2>1. PICK data, body : /\ HelperAnswers(data, body)
                          /\ data.box.value = Head(stdin).box.value
    BY <1>2 DEF HelperSearches, Encrypt
  <2>2. Matches(Head(stdin), data)
    BY <2>1 DEF Matches
  <2> QED
    BY <1>1, <2>1, <2>2, StepHelper
<1>3. CASE HelperRefuses \/ HelperProbed \/ HelperChallenges \/ HelperVerifies
  <2>1. PICK data, body : HelperAnswers(data, body) /\ data.kind # "data"
    <3>1. NoData.kind # "data"
      BY DEF NoData
    <3>2. CASE HelperRefuses \/ HelperProbed
      BY <3>1, <3>2 DEF HelperRefuses, HelperProbed
    <3>3. CASE HelperChallenges
      BY <3>3 DEF HelperChallenges
    <3>4. CASE HelperVerifies
      BY <3>4 DEF HelperVerifies
    <3> QED
      BY <1>3, <3>2, <3>3, <3>4
  <2>2. Matches(Head(stdin), data)
    BY <2>1 DEF Matches
  <2> QED
    BY <1>1, <2>1, <2>2, StepHelper
<1> QED
  BY <1>2, <1>3

-----------------------------------------------------------------------------
\* Steps of the clients leave the pipe alone.
LEMMA PipeFrame ==
  ASSUME PipeInv,
         UNCHANGED <<dphase, live, launched, current, stdin, stdout>>
  PROVE  PipeInv'
BY DEF PipeInv, CurrentLives

\* Sending a message opens a socket that nothing was sent on before.
LEMMA StepTransmit ==
  ASSUME AgreedInv, StepInv, NEW c \in Clients, NEW msg, NEW left,
         Transmit(c, msg, left), replies' \subseteq replies,
         printed' = printed
  PROVE  StepInv'
<1>0. DOMAIN call = Clients /\ IsSeq(sent)
  BY DEF AgreedInv, SessionShapes, StepInv, SentInv
<1>1. /\ sent' = Append(sent, msg)
      /\ call' = [call EXCEPT ![c] = [sock |-> Len(sent) + 1, msg |-> msg,
                                      left |-> left]]
      /\ \A d \in inbox' : \/ d \in inbox
                           \/ d = [sock |-> Len(sent) + 1, msg |-> msg]
      /\ UNCHANGED <<dphase, live, launched, stdin, stdout, current, dirty>>
  BY DEF Transmit
<1>2. /\ IsSeq(sent') /\ Len(sent') = Len(sent) + 1 /\ Len(sent) \in Nat
      /\ sent'[Len(sent) + 1] = msg
      /\ \A i \in 1..Len(sent) : sent'[i] = sent[i]
  BY <1>0, <1>1, PipeWrite
<1>3. \A x : OnItsSocket(x) => OnItsSocket(x)'
  BY <1>2 DEF OnItsSocket
<1>4. \A d \in inbox' \cup current' : OnItsSocket(d)'
  BY <1>1, <1>2, <1>3 DEF StepInv, SentInv, OnItsSocket
<1>5. \A x \in Clients : call'[x].sock = 0 \/ OnItsSocket(call[x])'
  <2>1. call'[c].sock = Len(sent) + 1 /\ call'[c].msg = msg
    BY <1>0, <1>1
  <2>2. OnItsSocket(call[c])'
    BY <1>2, <2>1 DEF OnItsSocket
  <2>3. ASSUME NEW x \in Clients, x # c
        PROVE  call'[x].sock = 0 \/ OnItsSocket(call[x])'
    <3>1. call'[x] = call[x]
      BY <1>0, <1>1, <2>3
    <3> QED
      BY <1>2, <3>1 DEF StepInv, SentInv, OnItsSocket
  <2> QED
    BY <2>2, <2>3
<1>6. \A r \in replies' : r.sock \in 1..Len(sent) /\ r.sock \in 1..Len(sent')
  BY <1>2 DEF StepInv, SentInv
<1>7. SentInv'
  BY <1>1, <1>2, <1>4, <1>5, <1>6 DEF StepInv, SentInv, Matches
<1>8. InStep'
  BY <1>1, <1>2, <1>6 DEF StepInv, InStep
<1>9. PipeInv => PipeInv'
  BY <1>1, PipeFrame
<1> QED
  BY <1>1, <1>7, <1>8, <1>9 DEF StepInv

\* The end of a call: what is printed is the answer to what was asked.
LEMMA StepEndCall ==
  ASSUME AgreedInv, StepInv, NEW c \in Clients, EndCall(c),
         UNCHANGED <<sent, dphase, live, launched, stdin, stdout, current,
                     dirty, inbox>>,
         ~dirty => \A p \in printed' : p \in printed \/ p.asked = p.got
  PROVE  StepInv'
<1>1. /\ replies' \subseteq replies
      /\ \A x \in Clients : call'[x] = call[x] \/ call'[x] = Idle
  BY DEF EndCall, AgreedInv, SessionShapes
<1>2. Idle.sock = 0
  BY DEF Idle
<1>3. \A x \in Clients : call'[x].sock = 0 \/ OnItsSocket(call[x])'
  BY <1>1, <1>2 DEF StepInv, SentInv, OnItsSocket
<1>4. SentInv'
  BY <1>1, <1>3 DEF StepInv, SentInv, OnItsSocket, Matches
<1>5. InStep'
  BY <1>1 DEF StepInv, InStep
<1>6. PipeInv => PipeInv'
  BY PipeFrame
<1> QED
  BY <1>4, <1>5, <1>6 DEF StepInv

\* A client that takes an answer.
LEMMA StepTakeReply ==
  ASSUME AgreedInv, StepInv, NEW c \in Clients, TakeReply(c)
  PROVE  StepInv'
<1>1. PICK r \in replies :
        /\ r.sock = call[c].sock
        /\ \/ Retry(c) /\ replies' = replies \ {r}
           \/ /\ EndCall(c) /\ Consume(c, r.data)
              /\ UNCHANGED <<sent, dphase, live, launched, stdin, stdout,
                             current, dirty, inbox>>
  BY DEF TakeReply
<1>2. CASE Retry(c) /\ replies' = replies \ {r}
  <2>1. /\ Transmit(c, call[c].msg, call[c].left - 1)
        /\ printed' = printed
    BY <1>2 DEF Retry
  <2> QED
    BY <1>2, <2>1, StepTransmit
<1>3. CASE /\ EndCall(c) /\ Consume(c, r.data)
           /\ UNCHANGED <<sent, dphase, live, launched, stdin, stdout,
                          current, dirty, inbox>>
  <2>1. ASSUME ~dirty, NEW p \in printed', p \notin printed
        PROVE  p.asked = p.got
    <3>1. /\ p = [asked |-> call[c].msg.box.value, got |-> r.data.box.value]
          /\ r.data.kind = "data"
      BY <1>3, <2>1 DEF Consume, DecryptPayload
    <3>2. r.data # NoData
      BY <3>1 DEF NoData
    <3>3. /\ r.code = "Success" /\ r.data.box.value = r.to.box.value
          /\ r.sock \in 1..Len(sent) /\ Len(sent) \in Nat
      BY <3>1, <3>2, PipeWrite DEF StepInv, SentInv, Matches
    <3>4. r.to = sent[r.sock]
      BY <2>1, <3>3 DEF StepInv, InStep
    <3>5. sent[r.sock] = call[c].msg
      BY <1>1, <3>3 DEF StepInv, SentInv, OnItsSocket
    <3> QED
      BY <3>1, <3>3, <3>4, <3>5
  <2> QED
    BY <1>3, <2>1, StepEndCall
<1> QED
  BY <1>1, <1>2, <1>3

\* The other steps of a client.
LEMMA StepClient ==
  ASSUME AgreedInv, StepInv, NEW c \in Clients,
         \/ NewManager(c) \/ RequestChallenge(c)
         \/ \E pin \in Pins : VerifyChallenge(c, pin)
         \/ \E url \in Urls : Query(c, url)
         \/ ClientTimesOut(c) \/ Logout(c)
  PROVE  StepInv'
<1>1. CASE /\ UNCHANGED <<call, sent, printed, dphase, live, launched, stdin,
                          stdout, current, dirty, inbox, replies>>
  <2>1. SentInv' /\ InStep'
    BY <1>1 DEF StepInv, SentInv, InStep, OnItsSocket, Matches
  <2>2. PipeInv => PipeInv'
    BY <1>1, PipeFrame
  <2> QED
    BY <1>1, <2>1, <2>2 DEF StepInv
<1>2. ASSUME NEW msg, NEW left, Transmit(c, msg, left),
             replies' \subseteq replies, printed' = printed
      PROVE  StepInv'
  BY <1>2, StepTransmit
<1>3. CASE NewManager(c) \/ Logout(c)
  BY <1>1, <1>3 DEF NewManager, Logout, daemonVars
<1>4. CASE RequestChallenge(c)
  BY <1>2, <1>4 DEF RequestChallenge
<1>5. ASSUME NEW pin \in Pins, VerifyChallenge(c, pin)
      PROVE  StepInv'
  BY <1>1, <1>2, <1>5 DEF VerifyChallenge, daemonVars
<1>6. ASSUME NEW url \in Urls, Query(c, url)
      PROVE  StepInv'
  BY <1>2, <1>6 DEF Query
<1>7. CASE ClientTimesOut(c)
  <2>1. CASE Retry(c) /\ replies' = {r \in replies : r.sock # call[c].sock}
    BY <1>2, <2>1 DEF Retry
  <2>2. CASE /\ EndCall(c)
             /\ UNCHANGED <<sent, printed, dphase, live, launched, stdin,
                            stdout, current, dirty, inbox>>
    BY <2>2, StepEndCall
  <2> QED
    BY <1>7, <2>1, <2>2 DEF ClientTimesOut
<1> QED
  BY <1>3, <1>4, <1>5, <1>6, <1>7

\* Every step keeps the invariant.
LEMMA StepInvStep ==
  AgreedInv /\ StepInv /\ [SessionNext]_allVars => StepInv'
<1> SUFFICES ASSUME AgreedInv, StepInv, [SessionNext]_allVars
             PROVE  StepInv'
  OBVIOUS
<1>1. CASE DaemonStep /\ UNCHANGED sessionVars
  BY <1>1, StepDaemon, PipeDaemon DEF StepInv
<1>2. CASE HelperExits /\ UNCHANGED sessionVars
  <2>1. UNCHANGED <<call, sent, printed, dphase, launched, stdin, stdout,
                    current, dirty, inbox, replies>>
    BY <1>2 DEF HelperExits, sessionVars
  <2>2. SentInv' /\ InStep'
    BY <2>1 DEF StepInv, SentInv, InStep, OnItsSocket, Matches
  <2>3. CurrentLives
    BY <1>2 DEF HelperExits
  <2>4. PipeInv => PipeInv'
    BY <2>1, <2>3 DEF PipeInv
  <2> QED
    BY <2>1, <2>2, <2>4 DEF StepInv
<1>3. CASE UNCHANGED allVars
  <2>1. UNCHANGED <<call, sent, printed, dphase, live, launched, stdin, stdout,
                    current, dirty, inbox, replies>>
    BY <1>3 DEF allVars, daemonVars, sessionVars
  <2>2. SentInv' /\ InStep'
    BY <2>1 DEF StepInv, SentInv, InStep, OnItsSocket, Matches
  <2>3. PipeInv => PipeInv'
    BY <2>1, PipeFrame
  <2> QED
    BY <2>1, <2>2, <2>3 DEF StepInv
<1> QED
  BY <1>1, <1>2, <1>3, StepHelpers, StepTakeReply, StepClient DEF SessionNext

\* As long as no frame was given up, every answer reaches the client that
\* asked for it, and every printed result is the result of the query it is
\* printed for, whatever clients, daemon and helper do in between
\* (start_daemon_inner, read_frame, send_message).
THEOREM InStepCorrect == SessionSpec => []InStep
<1>1. SessionInit => StepInv
  <2> SUFFICES ASSUME SessionInit
               PROVE  StepInv
    OBVIOUS
  <2>1. /\ stdin = <<>> /\ stdout = <<>> /\ sent = <<>>
        /\ inbox = {} /\ replies = {} /\ current = {} /\ printed = {}
        /\ dphase = "launch"
    BY DEF SessionInit, DaemonInit
  <2>2. IsSeq(sent) /\ Elems(stdout) = {}
    BY <2>1, ShortPipes
  <2>3. \A c \in Clients : call[c].sock = 0
    BY DEF SessionInit, Idle
  <2> QED
    BY <2>1, <2>2, <2>3 DEF StepInv, SentInv, PipeInv, InStep
<1>2. StepInv => InStep
  BY DEF StepInv
<1> QED
  BY <1>1, <1>2, StepInvStep, AgreedInvariant, PTL DEF SessionSpec

-----------------------------------------------------------------------------
(***************************************************************************)
(* RightPinAgrees.  KeyAgreement is the arithmetic; the invariant says     *)
(* that the two sides hold what it speaks of: the helper's values are      *)
(* those of SRP for a user who has a name, and a client that has the       *)
(* helper's public key has the salt that came with it.                     *)
(***************************************************************************)

\* A challenge is requested for a user whose name was drawn.
Named(msg) == msg.kind = "m0" => msg.user \in UserNames

\* A challenge carries the salt the helper uses.
Salted(data) == data.kind = "m1" => data.salt = Salt

\* A session of a client: the public key and the salt are set together.
ClientSide(s) ==
  s.user \in UserNames /\ s.a \in Nat /\ (s.B # 0 => s.salt = Salt)

\* A session of the helper.
HelperSide(h) ==
  /\ h.user \in UserNames /\ h.b \in Exponents /\ h.pin \in Pins
  /\ h.B = HelperPublicKey(h.user, h.b, Salt, h.pin)
  /\ h.key = HelperKey(h.user, h.A, h.b, Salt, h.pin)

\* The inductive invariant behind RightPinAgrees.
PinInv ==
  /\ users \in 1..MaxUsers
  /\ \A saved \in auth : saved[1] \in UserNames
  /\ \A c \in Clients : ClientSide(sess[c]) /\ Named(call[c].msg)
  /\ \A d \in inbox \cup current : Named(d.msg)
  /\ \A m \in Elems(stdin) : Named(m)
  /\ \A f \in Elems(stdout) : Salted(f.data)
  /\ \A r \in replies : Salted(r.data)
  /\ \A h \in hs : HelperSide(h)

\* The invariant survives a step that adds only such values.
LEMMA PinFrame ==
  ASSUME PinInv, users' \in 1..MaxUsers,
         \A saved \in auth' : saved \in auth \/ saved[1] \in UserNames,
         \A c \in Clients : sess'[c] = sess[c] \/ ClientSide(sess'[c]),
         \A c \in Clients : call'[c].msg = call[c].msg \/ Named(call'[c].msg),
         \A d \in inbox' \cup current' : d \in inbox \cup current \/ Named(d.msg),
         \A m \in Elems(stdin') : m \in Elems(stdin) \/ Named(m),
         \A f \in Elems(stdout') : f \in Elems(stdout) \/ Salted(f.data),
         \A r \in replies' : r \in replies \/ Salted(r.data),
         \A h \in hs' : h \in hs \/ HelperSide(h)
  PROVE  PinInv'
<1>1. \A saved \in auth' : saved[1] \in UserNames
  BY DEF PinInv
<1>2. \A c \in Clients : ClientSide(sess'[c]) /\ Named(call'[c].msg)
  BY DEF PinInv, ClientSide, Named
<1>3. /\ \A d \in inbox' \cup current' : Named(d.msg)
      /\ \A m \in Elems(stdin') : Named(m)
  BY DEF PinInv
<1>4. /\ \A f \in Elems(stdout') : Salted(f.data)
      /\ \A r \in replies' : Salted(r.data)
  BY DEF PinInv
<1>5. \A h \in hs' : HelperSide(h)
  BY DEF PinInv
<1> QED
  BY <1>1, <1>2, <1>3, <1>4, <1>5
  DEF PinInv, ClientSide, HelperSide, Named, Salted

\* Values that are no challenge and ask for none.
LEMMA PlainValues ==
  /\ Named(Probe) /\ Named(NoData) /\ Named(Idle.msg)
  /\ Salted(NoData) /\ Salted(Garbage.data)
BY DEF Named, Salted, Probe, NoData, Idle, Garbage

\* What the daemon writes to the helper is the probe or a datagram.
LEMMA DaemonWrites ==
  ASSUME IsSeq(stdin), DaemonStep
  PROVE  \A m \in Elems(stdin') :
           m \in Elems(stdin) \/ m = Probe \/ \E d \in current : m = d.msg
<1>1. CASE Spawn
  BY <1>1, ShortPipes DEF Spawn
<1>2. CASE WriteFrame
  BY <1>2, PipeWrite DEF WriteFrame
<1>3. CASE ~Spawn /\ ~WriteFrame
  <2>1. stdin' = stdin
    BY <1>3 DEF DaemonStep, GiveUp, NoManifest, SpawnFails, ProbeOk,
       ProbeFails, StaysAlive, StartFails, StartServing, Receive, ServeStep,
       WriteFails, ReadFrame, ReadBadLength, ReadEof, ReadTimesOut, ReceiveFails
  <2> QED
    BY <2>1
<1> QED
  BY <1>1, <1>2, <1>3

\* The daemon passes requests and answers on.
LEMMA PinDaemon ==
  ASSUME AgreedInv, PinInv, DaemonStep, UNCHANGED sessionVars
  PROVE  PinInv'
<1>1. IsSeq(stdin) /\ IsSeq(stdout)
  BY DEF AgreedInv, SessionShapes
<1>2. /\ Elems(stdout') \subseteq Elems(stdout) \cup {Garbage}
      /\ auth' \subseteq auth
      /\ \A r \in replies' : \/ r \in replies \/ r.data = NoData
                             \/ \E f \in Elems(stdout) : r.data = f.data
  BY <1>1, DaemonFacts
<1>3. inbox' \cup current' \subseteq inbox \cup current
  BY DaemonServes
<1>4. \A m \in Elems(stdin') :
        m \in Elems(stdin) \/ m = Probe \/ \E d \in current : m = d.msg
  BY <1>1, DaemonWrites
<1>5. UNCHANGED <<users, sess, call, hs>>
  BY DEF sessionVars
<1>6. \A m \in Elems(stdin') : m \in Elems(stdin) \/ Named(m)
  BY <1>4, PlainValues DEF PinInv
<1>7. \A f \in Elems(stdout') : f \in Elems(stdout) \/ Salted(f.data)
  BY <1>2, PlainValues
<1>8. \A r \in replies' : r \in replies \/ Salted(r.data)
  BY <1>2, PlainValues DEF PinInv
<1>9. users' \in 1..MaxUsers
  BY <1>5 DEF PinInv
<1> QED
  BY <1>2, <1>3, <1>5, <1>6, <1>7, <1>8, <1>9, PinFrame

\* An answer of the helper, with what it does to the helper's sessions.
LEMMA PinHelper ==
  ASSUME AgreedInv, PinInv, NEW data, NEW body, HelperAnswers(data, body),
         Salted(data), UNCHANGED <<users, sess, call>>,
         \A h \in hs' : h \in hs \/ HelperSide(h)
  PROVE  PinInv'
<1>1. IsSeq(stdin) /\ IsSeq(stdout)
  BY DEF AgreedInv, SessionShapes
<1>2. /\ Elems(stdout') \subseteq Elems(stdout)
           \cup {[to |-> Head(stdin), data |-> data, body |-> body]}
      /\ UNCHANGED <<auth, inbox, replies>>
  BY <1>1, HelperFacts
<1>3. stdin # <<>> /\ stdin' = Tail(stdin) /\ current' = current
  BY DEF HelperAnswers
<1>4. Elems(stdin') \subseteq Elems(stdin)
  BY <1>1, <1>3, PipeRead
<1>5. \A f \in Elems(stdout') : f \in Elems(stdout) \/ Salted(f.data)
  BY <1>2
<1>6. users' \in 1..MaxUsers
  BY DEF PinInv
<1> QED
  BY <1>2, <1>3, <1>4, <1>5, <1>6, PinFrame

\* A challenge makes a session of the helper; nothing else changes one.
LEMMA PinHelperSteps ==
  ASSUME AgreedInv, PinInv,
         \/ HelperRefuses \/ HelperProbed \/ HelperChallenges
         \/ HelperVerifies \/ HelperSearches
  PROVE  PinInv'
<1>1. CASE HelperRefuses \/ HelperProbed
  <2>1. PICK body : HelperAnswers(NoData, body)
    BY <1>1 DEF HelperRefuses, HelperProbed
  <2>2. UNCHANGED <<users, sess, call, hs>>
    BY <1>1 DEF HelperRefuses, HelperProbed, sessionVars
  <2> QED
    BY <2>1, <2>2, PlainValues, PinHelper
<1>2. CASE HelperVerifies \/ HelperSearches
  <2>1. PICK data, body : /\ HelperAnswers(data, body)
                          /\ data.kind \in {"m3", "data"}
    <3>1. CASE HelperVerifies
      BY <3>1 DEF HelperVerifies
    <3>2. CASE HelperSearches
      BY <3>2 DEF HelperSearches
    <3> QED
      BY <1>2, <3>1, <3>2
  <2>2. UNCHANGED <<users, sess, call, hs>>
    BY <1>2 DEF HelperVerifies, HelperSearches, sessionVars
  <2>3. Salted(data)
    BY <2>1 DEF Salted
  <2> QED
    BY <2>1, <2>2, <2>3, PinHelper
<1>3. CASE HelperChallenges
  <2> DEFINE m == Head(stdin)
  <2>1. PICK b \in Exponents, pin \in Pins :
          LET B == HelperPublicKey(m.user, b, Salt, pin) IN
            /\ hs' = {h \in hs : h.user # m.user} \cup
                       {[user |-> m.user, A |-> m.A, b |-> b, pin |-> pin,
                         B |-> B,
                         key |-> HelperKey(m.user, m.A, b, Salt, pin)]}
            /\ HelperAnswers([kind |-> "m1", user |-> m.user, B |-> B,
                              salt |-> Salt], OkBody)
    BY <1>3 DEF HelperChallenges
  <2>2. stdin # <<>> /\ m.kind = "m0" /\ UNCHANGED <<users, sess, call>>
    BY <1>3 DEF HelperChallenges
  <2>3. m \in Elems(stdin)
    BY <2>2, PipeRead DEF AgreedInv, SessionShapes
  <2>4. m.user \in UserNames
    BY <2>2, <2>3 DEF PinInv, Named
  <2>5. \A h \in hs' : h \in hs \/ HelperSide(h)
    BY <2>1, <2>4 DEF HelperSide
  <2>6. PICK data : HelperAnswers(data, OkBody) /\ data.salt = Salt
    BY <2>1
  <2>7. Salted(data)
    BY <2>6 DEF Salted
  <2> QED
    BY <2>2, <2>5, <2>6, <2>7, PinHelper
<1> QED
  BY <1>1, <1>2, <1>3

\* Sending a message.
LEMMA PinTransmit ==
  ASSUME AgreedInv, PinInv, NEW c \in Clients, NEW msg, NEW left,
         Transmit(c, msg, left), Named(msg),
         \A x \in Clients : sess'[x] = sess[x] \/ ClientSide(sess'[x]),
         UNCHANGED <<users, hs, auth>>, replies' \subseteq replies
  PROVE  PinInv'
<1>1. /\ \A x \in Clients : call'[x].msg = IF x = c THEN msg ELSE call[x].msg
      /\ \A d \in inbox' : d \in inbox \/ d.msg = msg
      /\ UNCHANGED <<stdin, stdout>>
  BY TransmitFacts DEF AgreedInv, SessionShapes
<1>2. current' = current
  BY DEF Transmit
<1>3. \A x \in Clients : call'[x].msg = call[x].msg \/ Named(call'[x].msg)
  BY <1>1
<1>4. \A d \in inbox' \cup current' : d \in inbox \cup current \/ Named(d.msg)
  BY <1>1, <1>2
<1>5. users' \in 1..MaxUsers
  BY DEF PinInv
<1> QED
  BY <1>1, <1>3, <1>4, <1>5, PinFrame

\* The end of a call.
LEMMA PinEndCall ==
  ASSUME AgreedInv, PinInv, NEW c \in Clients, EndCall(c),
         UNCHANGED <<users, hs, stdin, stdout, inbox, current>>,
         \A x \in Clients : sess'[x] = sess[x] \/ ClientSide(sess'[x]),
         \A saved \in auth' : saved \in auth \/ saved[1] \in UserNames
  PROVE  PinInv'
<1>1. /\ replies' \subseteq replies
      /\ \A x \in Clients : call'[x].msg = call[x].msg \/ call'[x].msg = Idle.msg
  BY DEF EndCall, AgreedInv, SessionShapes
<1>2. \A x \in Clients : call'[x].msg = call[x].msg \/ Named(call'[x].msg)
  BY <1>1, PlainValues
<1>3. users' \in 1..MaxUsers
  BY DEF PinInv
<1> QED
  BY <1>1, <1>2, <1>3, PinFrame

\* What the code does to a session keeps the public key and the salt
\* together.
LEMMA ClientSessions ==
  ASSUME NEW s, IsSession(s), ClientSide(s), NEW user \in UserNames, NEW key
  PROVE  /\ ClientSide(UpdateWithValues(s, user, key))
         /\ ClientSide([s EXCEPT !.key = key])
         /\ \A B : ClientSide([s EXCEPT !.B = B, !.salt = Salt])
         /\ \A a \in Nat : ClientSide(NewSession(user, a))
<1>1. PICK S : s \in [user : S, a : S, B : S, salt : S, key : S]
  BY DEF IsSession
<1>2. ClientSide(UpdateWithValues(s, user, key)) /\ ClientSide([s EXCEPT !.key = key])
  BY <1>1 DEF ClientSide, UpdateWithValues
<1>3. \A B : ClientSide([s EXCEPT !.B = B, !.salt = Salt])
  BY <1>1 DEF ClientSide
<1>4. \A a \in Nat : ClientSide(NewSession(user, a))
  BY DEF ClientSide, NewSession
<1> QED
  BY <1>2, <1>3, <1>4

\* An accepted challenge brings its salt, an accepted proof stores the name
\* the session has.
LEMMA PinTakeReply ==
  ASSUME AgreedInv, PinInv, NEW c \in Clients, TakeReply(c)
  PROVE  PinInv'
<1>0. /\ DOMAIN sess = Clients /\ IsSession(sess[c]) /\ ClientSide(sess[c])
      /\ Named(call[c].msg) /\ sess[c].user \in UserNames
  BY DEF AgreedInv, SessionShapes, PinInv, ClientSide
<1>1. PICK r \in replies :
        \/ Retry(c) /\ replies' = replies \ {r}
        \/ /\ EndCall(c) /\ Consume(c, r.data)
           /\ UNCHANGED <<users, hs, stdin, stdout, inbox, current>>
  BY DEF TakeReply
<1>2. CASE Retry(c) /\ replies' = replies \ {r}
  <2>1. /\ Transmit(c, call[c].msg, call[c].left - 1)
        /\ UNCHANGED <<users, sess, hs, auth>>
    BY <1>2 DEF Retry
  <2> QED
    BY <1>0, <1>2, <2>1, PinTransmit
<1>3. CASE /\ EndCall(c) /\ Consume(c, r.data)
           /\ UNCHANGED <<users, hs, stdin, stdout, inbox, current>>
  <2>1. \A x \in Clients : sess'[x] = sess[x] \/ ClientSide(sess'[x])
    <3>1. CASE sess' = sess
      BY <3>1
    <3>2. CASE sess' # sess
      <4>1. /\ ChallengeAccepted(sess[c], r.data)
            /\ sess' = [sess EXCEPT ![c].B = r.data.B, ![c].salt = r.data.salt]
        BY <1>3, <3>2 DEF Consume
      <4>2. r.data.salt = Salt
        BY <4>1 DEF ChallengeAccepted, PinInv, Salted
      <4>3. sess'[c] = [sess[c] EXCEPT !.B = r.data.B, !.salt = Salt]
        BY <1>0, <4>1, <4>2
      <4>4. ClientSide(sess'[c])
        <5>1. \A B : ClientSide([sess[c] EXCEPT !.B = B, !.salt = Salt])
          BY <1>0, ClientSessions
        <5> QED
          BY <4>3, <5>1, Zenon
      <4>5. \A x \in Clients : x # c => sess'[x] = sess[x]
        BY <1>0, <4>1
      <4> QED
        BY <4>4, <4>5
    <3> QED
      BY <3>1, <3>2
  <2>2. \A saved \in auth' : saved \in auth \/ saved[1] \in UserNames
    <3>1. auth' = auth \/ auth' = {<<sess[c].user, sess[c].key>>}
      BY <1>3 DEF Consume
    <3> QED
      BY <1>0, <3>1
  <2> QED
    BY <1>3, <2>1, <2>2, PinEndCall
<1> QED
  BY <1>1, <1>2, <1>3

\* The other steps of a client.
LEMMA PinClient ==
  ASSUME AgreedInv, PinInv, NEW c \in Clients,
         \/ NewManager(c) \/ RequestChallenge(c)
         \/ \E pin \in Pins : VerifyChallenge(c, pin)
         \/ \E url \in Urls : Query(c, url)
         \/ ClientTimesOut(c) \/ Logout(c)
  PROVE  PinInv'
<1>0. /\ DOMAIN sess = Clients /\ IsSession(sess[c]) /\ ClientSide(sess[c])
      /\ Named(call[c].msg) /\ sess[c].user \in UserNames
  BY DEF AgreedInv, SessionShapes, PinInv, ClientSide
<1>1. ASSUME NEW s, ClientSide(s), sess' = [sess EXCEPT ![c] = s]
      PROVE  \A x \in Clients : sess'[x] = sess[x] \/ ClientSide(sess'[x])
  BY <1>0, <1>1
<1>2. \A saved \in auth : saved[1] \in UserNames
  BY DEF PinInv
<1>3. users \in 1..MaxUsers /\ NoUser \in UserNames
  BY SessionAssumption DEF PinInv, UserNames, NoUser
<1>4. CASE NewManager(c) \/ Logout(c)
  <2> DEFINE Fresh(s, a) ==
               /\ users < MaxUsers /\ users' = users + 1
               /\ s = NewSession(users + 1, a)
             Stored(s, a) ==
               /\ users' = users
               /\ \E saved \in auth :
                    s = UpdateWithValues(NewSession(NoUser, a), saved[1], saved[2])
  <2>0. PICK a \in Exponents : \E s :
          sess' = [sess EXCEPT ![c] = s] /\ (Fresh(s, a) \/ Stored(s, a))
    BY <1>4 DEF NewManager, Logout
  <2>1. PICK s :
          sess' = [sess EXCEPT ![c] = s] /\ (Fresh(s, a) \/ Stored(s, a))
    BY <2>0
  <2>2. /\ UNCHANGED <<call, hs, stdin, stdout, inbox, current, replies>>
        /\ auth' \subseteq auth
    BY <1>4 DEF NewManager, Logout, daemonVars
  <2>3. a \in Nat
    BY SessionAssumption
  <2>4. CASE Fresh(s, a)
    <3>1. users + 1 \in UserNames /\ users' \in 1..MaxUsers
      BY <1>3, <2>4, SessionAssumption DEF UserNames, NoUser
    <3>2. ClientSide(s)
      BY <1>0, <2>3, <2>4, <3>1, ClientSessions
    <3> QED
      BY <1>1, <2>1, <2>2, <3>1, <3>2, PinFrame
  <2>5. CASE Stored(s, a)
    <3>1. PICK saved \in auth :
            s = UpdateWithValues(NewSession(NoUser, a), saved[1], saved[2])
      BY <2>5
    <3>2. IsSession(NewSession(NoUser, a)) /\ ClientSide(NewSession(NoUser, a))
      BY <1>0, <1>3, <2>3, OtherSessions, ClientSessions
    <3>3. ClientSide(s)
      BY <1>2, <3>1, <3>2, ClientSessions
    <3> QED
      BY <1>1, <1>3, <2>1, <2>2, <2>5, <3>3, PinFrame
  <2> QED
    BY <2>1, <2>4, <2>5
<1>5. CASE RequestChallenge(c)
  <2>1. /\ Transmit(c, RequestChallengeMsg(sess[c]), SendRetries)
        /\ UNCHANGED <<users, sess, hs, replies, auth>>
    BY <1>5 DEF RequestChallenge
  <2>2. Named(RequestChallengeMsg(sess[c]))
    BY <1>0 DEF Named, RequestChallengeMsg
  <2> QED
    BY <2>1, <2>2, PinTransmit
<1>6. ASSUME NEW pin \in Pins, VerifyChallenge(c, pin)
      PROVE  PinInv'
  <2> DEFINE keyed == SetSharedKey(sess[c], pin)
  <2>1. ClientSide(keyed)
    BY <1>0, ClientSessions DEF SetSharedKey
  <2>2. sess' = [sess EXCEPT ![c] = keyed] /\ UNCHANGED <<users, hs>>
    BY <1>6 DEF VerifyChallenge
  <2>3. \A x \in Clients : sess'[x] = sess[x] \/ ClientSide(sess'[x])
    BY <1>1, <2>1, <2>2
  <2>4. CASE Transmit(c, VerifyChallengeMsg(keyed), SendRetries)
             /\ UNCHANGED <<replies, auth>>
    <3>1. Named(VerifyChallengeMsg(keyed))
      BY DEF Named, VerifyChallengeMsg
    <3> QED
      BY <2>2, <2>3, <2>4, <3>1, PinTransmit
  <2>5. CASE UNCHANGED <<call, stdin, stdout, inbox, current, replies, auth>>
    BY <1>3, <2>2, <2>3, <2>5, PinFrame
  <2> QED
    BY <1>6, <2>4, <2>5 DEF VerifyChallenge, daemonVars
<1>7. ASSUME NEW url \in Urls, Query(c, url)
      PROVE  PinInv'
  <2>1. PICK saved \in auth :
          LET s == UpdateWithValues(sess[c], saved[1], saved[2])
          IN sess' = [sess EXCEPT ![c] = s]
               /\ Transmit(c, QueryMsg(s, url), SendRetries)
    BY <1>7 DEF Query
  <2> DEFINE s == UpdateWithValues(sess[c], saved[1], saved[2])
  <2>2. ClientSide(s)
    BY <1>0, <1>2, ClientSessions
  <2>3. Named(QueryMsg(s, url))
    BY DEF Named, QueryMsg
  <2>4. UNCHANGED <<users, hs, auth>> /\ replies' = replies
    BY <1>7 DEF Query
  <2>5. sess' = [sess EXCEPT ![c] = s] /\ Transmit(c, QueryMsg(s, url), SendRetries)
    BY <2>1
  <2> HIDE DEF s
  <2> QED
    BY <1>1, <2>2, <2>3, <2>4, <2>5, PinTransmit
<1>8. CASE ClientTimesOut(c)
  <2>1. CASE Retry(c) /\ replies' \subseteq replies
    <3>1. /\ Transmit(c, call[c].msg, call[c].left - 1)
          /\ UNCHANGED <<users, sess, hs, auth>>
      BY <2>1 DEF Retry
    <3> QED
      BY <1>0, <2>1, <3>1, PinTransmit
  <2>2. CASE /\ EndCall(c)
             /\ UNCHANGED <<users, sess, hs, stdin, stdout, inbox, current, auth>>
    BY <2>2, PinEndCall
  <2> QED
    BY <1>8, <2>1, <2>2 DEF ClientTimesOut
<1> QED
  BY <1>4, <1>5, <1>6, <1>7, <1>8

\* The invariant holds in every behaviour.
LEMMA PinInvariant == SessionSpec => []PinInv
<1>1. SessionInit => PinInv
  <2> SUFFICES ASSUME SessionInit
               PROVE  PinInv
    OBVIOUS
  <2>1. /\ stdin = <<>> /\ stdout = <<>> /\ inbox = {} /\ current = {}
        /\ replies = {} /\ hs = {} /\ users = 1
    BY DEF SessionInit, DaemonInit
  <2>2. Elems(stdin) = {} /\ Elems(stdout) = {}
    BY <2>1, ShortPipes
  <2>3. 1 \in 1..MaxUsers /\ 1 \in UserNames /\ NoUser \in UserNames
    BY SessionAssumption DEF UserNames, NoUser
  <2>4. ClientSide(NewSession(NoUser, 0))
    BY <2>3 DEF ClientSide, NewSession
  <2>5. \A c \in Clients : ClientSide(sess[c]) /\ Named(call[c].msg)
    BY <2>4, PlainValues DEF SessionInit
  <2>6. \A saved \in auth : saved[1] \in UserNames
    BY <2>3 DEF SessionInit
  <2> QED
    BY <2>1, <2>2, <2>3, <2>5, <2>6 DEF PinInv
<1>2. AgreedInv /\ PinInv /\ [SessionNext]_allVars => PinInv'
  <2> SUFFICES ASSUME AgreedInv, PinInv, [SessionNext]_allVars
               PROVE  PinInv'
    OBVIOUS
  <2>0. users \in 1..MaxUsers
    BY DEF PinInv
  <2>1. CASE HelperExits /\ UNCHANGED sessionVars
    BY <2>0, <2>1, PinFrame DEF HelperExits, sessionVars
  <2>2. CASE UNCHANGED allVars
    BY <2>0, <2>2, PinFrame DEF allVars, daemonVars, sessionVars
  <2> QED
    BY <2>1, <2>2, PinDaemon, PinHelperSteps, PinTakeReply, PinClient
    DEF SessionNext
<1> QED
  BY <1>1, <1>2, AgreedInvariant, PTL DEF SessionSpec

\* For every group whose generator is invertible, all digests and all private
\* keys, in every interleaving: the user who types the PIN the helper shows
\* gets the helper's key, also where the subtraction of derive_session_key
\* wraps.
THEOREM RightPinCorrect == SessionSpec => []RightPinAgrees
<1>1. PinInv => RightPinAgrees
  <2> SUFFICES ASSUME PinInv, NEW c \in Clients, NEW h \in hs,
                      sess[c].user = h.user, sess[c].B # 0,
                      sess[c].B = h.B, h.A = ClientPublicKey(sess[c].a)
               PROVE  DeriveSessionKey(sess[c].user, sess[c].a, sess[c].B,
                                       sess[c].salt, h.pin) = h.key
    BY DEF RightPinAgrees
  <2>1. sess[c].a \in Nat /\ sess[c].salt = Salt
    BY DEF PinInv, ClientSide
  <2>2. HelperSide(h)
    BY DEF PinInv
  <2>3. h.b \in Nat /\ HashX(Salt, h.user, h.pin) \in Nat
    BY <2>2, SessionAssumption DEF HelperSide
  <2>4. DeriveSessionKey(h.user, sess[c].a,
                         HelperPublicKey(h.user, h.b, Salt, h.pin), Salt, h.pin)
          = HelperKey(h.user, ClientPublicKey(sess[c].a), h.b, Salt, h.pin)
    BY <2>1, <2>3, KeyAgreement
  <2> QED
    BY <2>1, <2>2, <2>4 DEF HelperSide
<1> QED
  BY <1>1, PinInvariant, PTL
=============================================================================
