----------------------------- MODULE LegacySession -----------------------------
(***************************************************************************)
(* The v1.x clients (client.rs) talking to the daemon of HelperDaemon: the *)
(* SRP handshake that agrees on a session key, the session they keep in    *)
(* config.json, and the encrypted queries.  Every message goes over a UDP  *)
(* socket of its own.  Apple's helper is external: it runs the other side  *)
(* of SRP, and may refuse, be lenient, stay silent or exit.                *)
(*                                                                         *)
(* Session expiry and the conversions of the configuration file are in     *)
(* ConfigStore; a client here reads and writes the file in one step.       *)
(***************************************************************************)
EXTENDS HelperDaemon, Srp

CONSTANTS
  Clients,      \* ApplePasswordManager values
  Urls,         \* what is looked up
  Pins,         \* what the helper shows and what users type
  Exponents,    \* private keys of both sides
  SendRetries,  \* ClientSendOpts.retries
  MaxSends,     \* bound: datagrams sent
  MaxUsers      \* bound: random user names drawn

NoUser == 0
Salt == 1
UserNames == NoUser..MaxUsers

ASSUME SessionAssumption ==
  /\ SendRetries \in Nat /\ MaxSends \in Nat /\ MaxUsers \in Nat \ {0}
  /\ Pins \subseteq Nat /\ Exponents \subseteq Nat
  /\ \A user \in UserNames, pin \in Pins : HashX(Salt, user, pin) \in Nat

VARIABLES
  users,    \* random user names drawn so far (1, 2, ...)
  sess,     \* per client: SRPSession
  call,     \* per client: the send_message it is in
  sent,     \* what was sent on each socket (history)
  hs,       \* the helper's side of the sessions (external)
  derived,  \* every user and key the helper has derived (history)
  printed   \* what queries returned: asked for and received (history)

sessionVars == <<users, sess, call, sent, hs, derived, printed>>
allVars == <<daemonVars, sessionVars>>

Idle == [sock |-> 0, msg |-> NoData, left |-> 0]

\* SRPSession::new; user and a are random, the rest is None (zero).
NewSession(user, a) ==
  [user |-> user, a |-> a, B |-> 0, salt |-> 0, key |-> NoKey]

\* update_with_values, as it is used: user and key are replaced, what the
\* handshake has set stays.
UpdateWithValues(s, user, key) == [s EXCEPT !.user = user, !.key = key]

\* The messages of APWMessages: A is the public key, a query is encrypted
\* under the session's key.
RequestChallengeMsg(s) ==
  [kind |-> "m0", user |-> s.user, A |-> ClientPublicKey(s.a)]
Proof(s) == ComputeM(s.user, s.salt, ClientPublicKey(s.a), s.B, s.key)
VerifyChallengeMsg(s) == [kind |-> "m2", user |-> s.user, proof |-> Proof(s)]
QueryMsg(s, url) ==
  [kind |-> "query", user |-> s.user, box |-> Encrypt(s.key, url)]

SessionInit ==
  /\ DaemonInit
  /\ users = 1
  \* A session of an earlier daemon may be in the file.
  /\ auth \in {{}, {<<1, G>>}}
  /\ sess = [c \in Clients |-> NewSession(NoUser, 0)]
  /\ call = [c \in Clients |-> Idle]
  /\ sent = <<>>
  /\ hs = {}
  /\ derived = {<<1, G>>}
  /\ printed = {}

--------------------------------------------------------------------------------
(***************************************************************************)
(* The clients.                                                            *)
(***************************************************************************)

\* ApplePasswordManager::new, in a new process: the session in the file, or
\* a new one.
NewManager(c) ==
  /\ call[c] = Idle
  /\ \E a \in Exponents :
       \/ /\ auth = {} /\ users < MaxUsers
          /\ users' = users + 1
          /\ sess' = [sess EXCEPT ![c] = NewSession(users + 1, a)]
       \/ \E saved \in auth :
            /\ sess' = [sess EXCEPT ![c] =
                 UpdateWithValues(NewSession(NoUser, a), saved[1], saved[2])]
            /\ UNCHANGED users
  /\ UNCHANGED <<call, sent, hs, derived, printed>> /\ UNCHANGED daemonVars

\* launch_error_from_config, for the modes that run a helper.
LaunchAllows == launch \in {"none", "ok"}

\* send_message_once up to recv: a datagram for a port nobody has bound is
\* lost.
Transmit(c, msg, left) ==
  LET sock == Len(sent) + 1 IN
    /\ LaunchAllows /\ sock <= MaxSends
    /\ sent' = Append(sent, msg)
    /\ call' = [call EXCEPT ![c] = [sock |-> sock, msg |-> msg,
                                    left |-> left]]
    /\ open' = (open \ {call[c].sock}) \cup {sock}
    /\ inbox' = IF dphase \in {"recv", "write", "read"}
                THEN inbox \cup {[sock |-> sock, msg |-> msg]} ELSE inbox
    /\ UNCHANGED <<dmode, dry, dphase, tries, launched, live, stdin, stdout,
                   current, dirty, launch>>

\* request_challenge.  (Within 5 s of the last one, with a key, it returns
\* at once and changes nothing.)
RequestChallenge(c) ==
  /\ call[c] = Idle /\ sess[c].user # NoUser
  /\ Transmit(c, RequestChallengeMsg(sess[c]), SendRetries)
  /\ UNCHANGED <<users, sess, hs, derived, printed, replies, auth>>

\* set_shared_key, whose guard is in VerifyChallenge: without the helper's
\* values, or a key, it fails and changes nothing.
SetSharedKey(s, pin) ==
  [s EXCEPT !.key = DeriveSessionKey(s.user, s.a, s.B, s.salt, pin)]

\* verify_challenge up to its send: the key is set before it is verified,
\* and stays set when the send is refused.
VerifyChallenge(c, pin) ==
  LET keyed == SetSharedKey(sess[c], pin)
  IN /\ call[c] = Idle /\ sess[c].B # 0 /\ keyed.key # NoKey
     /\ sess' = [sess EXCEPT ![c] = keyed]
     /\ \/ /\ Transmit(c, VerifyChallengeMsg(keyed), SendRetries)
           /\ UNCHANGED <<replies, auth>>
        \/ ~LaunchAllows /\ UNCHANGED <<call, sent>> /\ UNCHANGED daemonVars
     /\ UNCHANGED <<users, hs, derived, printed>>

\* get_login_names_for_url and get_password_for_url: ensure_authenticated
\* takes user and key from the file, whatever the session had.
Query(c, url) ==
  /\ call[c] = Idle /\ sess[c].user # NoUser
  /\ \E saved \in auth :
       LET s == UpdateWithValues(sess[c], saved[1], saved[2]) IN
         /\ sess' = [sess EXCEPT ![c] = s]
         /\ Transmit(c, QueryMsg(s, url), SendRetries)
  /\ UNCHANGED <<users, hs, derived, printed, replies, auth>>

\* The retry loop of send_message: CommunicationTimeout, the client's own or
\* one the daemon reports, is tried again on a new socket.
Retry(c) ==
  /\ call[c].left > 0
  /\ Transmit(c, call[c].msg, call[c].left - 1)
  /\ UNCHANGED <<users, sess, hs, derived, printed, auth>>

EndCall(c) ==
  /\ call' = [call EXCEPT ![c] = Idle]
  /\ open' = open \ {call[c].sock}
  /\ replies' = {r \in replies : r.sock # call[c].sock}

\* The receive timeout of 5 s: the socket is closed.
ClientTimesOut(c) ==
  /\ call[c] # Idle
  /\ \/ Retry(c) /\ replies' = {r \in replies : r.sock # call[c].sock}
     \/ /\ call[c].left = 0 \/ ~LaunchAllows
        /\ EndCall(c)
        /\ UNCHANGED <<users, sess, sent, hs, derived, printed, dmode, dry, dphase,
                       tries, launched, live, stdin, stdout, current, dirty,
                       inbox, launch, auth>>

\* is_valid_pake_message: only the two answers of the handshake have the
\* fields of a PAKEMessage.
IsValidPakeMessage(data) == data.kind \in {"m1", "m3"}

\* Mutant: the helper's proof is not compared.
ProofAcceptedUnchecked(s, data) ==
  IsValidPakeMessage(data) /\ data.kind = "m3" /\ data.user = s.user /\ data.err = 0

\* The checks of verify_challenge on the helper's answer.
ProofAccepted(s, data) ==
  /\ IsValidPakeMessage(data) /\ data.kind = "m3"
  /\ data.user = s.user /\ data.err = 0
  /\ VerifyHamk(ComputeHmac(ClientPublicKey(s.a), Proof(s), s.key), data.hamk)

ChallengeAccepted(s, data) ==
  IsValidPakeMessage(data) /\ data.kind = "m1" /\ data.user = s.user /\ ServerKeyValid(data.B)

\* decrypt_payload.
DecryptPayload(s, data) ==
  data.kind = "data" /\ data.user = s.user /\ Decrypts(s.key, data.box)

\* What the callers of send_message do with the answer.  Whatever they
\* refuse ends in an error and changes nothing; so does a configuration
\* that cannot be written.
Consume(c, data) ==
  LET s == sess[c]
      kind == call[c].msg.kind
  IN \/ /\ kind = "m0" /\ ChallengeAccepted(s, data)
        /\ sess' = [sess EXCEPT ![c].B = data.B, ![c].salt = data.salt]
        /\ UNCHANGED <<auth, printed>>
     \/ /\ kind = "m2" /\ ProofAccepted(s, data)
        /\ auth' \in {auth, {<<s.user, s.key>>}}
        /\ UNCHANGED <<sess, printed>>
     \/ /\ kind = "query" /\ DecryptPayload(s, data)
        /\ printed' = printed \cup {[asked |-> call[c].msg.box.value,
                                     got |-> data.box.value]}
        /\ UNCHANGED <<sess, auth>>
     \/ /\ kind = "m0" => ~ChallengeAccepted(s, data)
        /\ kind = "m2" => ~ProofAccepted(s, data)
        /\ kind = "query" => ~DecryptPayload(s, data)
        /\ UNCHANGED <<sess, auth, printed>>

TakeReply(c) ==
  \E r \in replies :
    /\ r.sock = call[c].sock
    /\ \/ /\ r.code = "CommunicationTimeout"
          /\ Retry(c)
          /\ replies' = replies \ {r}
       \/ /\ r.code # "CommunicationTimeout" \/ call[c].left = 0
             \/ ~LaunchAllows
          /\ EndCall(c)
          /\ Consume(c, r.data)
          /\ UNCHANGED <<users, sent, hs, derived, dmode, dry, dphase, tries, launched,
                         live, stdin, stdout, current, dirty, inbox, launch>>

\* logout: the file is removed, the session replaced.
Logout(c) ==
  /\ call[c] = Idle /\ sess[c].user # NoUser /\ users < MaxUsers
  /\ users' = users + 1
  /\ \E a \in Exponents :
       sess' = [sess EXCEPT ![c] = NewSession(users + 1, a)]
  /\ auth' = {} /\ launch' = "none"
  /\ UNCHANGED <<call, sent, hs, derived, printed, dmode, dry, dphase, tries, launched,
                 live, stdin, stdout, current, dirty, inbox, open, replies>>

--------------------------------------------------------------------------------
(***************************************************************************)
(* The helper (external).                                                  *)
(***************************************************************************)
OkBody == [object |-> TRUE, ok |-> "true", payload |-> TRUE,
           code |-> [form |-> "number", status |-> "Success"]]
ErrorBodies ==
  {[object |-> TRUE, ok |-> "false", payload |-> FALSE,
    code |-> [form |-> "number", status |-> s]] :
     s \in {"Success", "NoResults", "ProcessNotRunning"}}

\* Any frame may be refused.
HelperRefuses ==
  /\ \E body \in ErrorBodies : HelperAnswers(NoData, body)
  /\ UNCHANGED sessionVars

HelperProbed ==
  /\ stdin # <<>> /\ Head(stdin) = Probe
  /\ HelperAnswers(NoData, OkBody)
  /\ UNCHANGED sessionVars

\* m0: a PIN is shown to the user, and the session for this user replaced.
HelperChallenges ==
  /\ stdin # <<>> /\ Head(stdin).kind = "m0"
  /\ LET m == Head(stdin) IN
       \E b \in Exponents, pin \in Pins :
         LET B == HelperPublicKey(m.user, b, Salt, pin) IN
           /\ hs' = {h \in hs : h.user # m.user} \cup
                      {[user |-> m.user, A |-> m.A, b |-> b, pin |-> pin,
                        B |-> B,
                        key |-> HelperKey(m.user, m.A, b, Salt, pin)]}
           /\ derived' = derived \cup
                 {<<m.user, HelperKey(m.user, m.A, b, Salt, pin)>>}
           /\ HelperAnswers([kind |-> "m1", user |-> m.user, B |-> B,
                             salt |-> Salt], OkBody)
  /\ UNCHANGED <<users, sess, call, sent, printed>>

\* m2: a wrong proof is reported, or answered with the helper's own proof.
HelperVerifies ==
  /\ stdin # <<>> /\ Head(stdin).kind = "m2"
  /\ LET m == Head(stdin) IN
       \E h \in hs :
         /\ h.user = m.user
         /\ \E err \in {0, 1} :
              /\ m.proof = ComputeM(h.user, Salt, h.A, h.B, h.key) => err = 0
              /\ HelperAnswers([kind |-> "m3", user |-> m.user, err |-> err,
                                hamk |-> ComputeHmac(h.A, m.proof, h.key)],
                               OkBody)
  /\ UNCHANGED sessionVars

\* A query under the key the helper has for the user.
HelperSearches ==
  /\ stdin # <<>> /\ Head(stdin).kind = "query"
  /\ LET m == Head(stdin) IN
       \E h \in hs :
         /\ h.user = m.user /\ Decrypts(h.key, m.box)
         /\ HelperAnswers([kind |-> "data", user |-> m.user,
                           box |-> Encrypt(h.key, m.box.value)], OkBody)
  /\ UNCHANGED sessionVars

--------------------------------------------------------------------------------
SessionNext ==
  \/ DaemonStep /\ UNCHANGED sessionVars
  \/ HelperExits /\ UNCHANGED sessionVars
  \/ HelperRefuses \/ HelperProbed \/ HelperChallenges \/ HelperVerifies
  \/ HelperSearches
  \/ \E c \in Clients :
       \/ NewManager(c) \/ RequestChallenge(c)
       \/ \E pin \in Pins : VerifyChallenge(c, pin)
       \/ \E url \in Urls : Query(c, url)
       \/ ClientTimesOut(c) \/ TakeReply(c) \/ Logout(c)

SessionSpec ==
  /\ SessionInit
  /\ [][SessionNext]_allVars
  /\ WF_allVars(ServeStep /\ UNCHANGED sessionVars)

--------------------------------------------------------------------------------
(***************************************************************************)
(* Properties.                                                             *)
(***************************************************************************)

\* The key in the configuration, and the key of every query on its way, is
\* one the helper derived for the same user: a key is only stored once the
\* helper's proof has been compared (verify_challenge), and queries take
\* theirs from the file (ensure_authenticated), not from a handshake that
\* failed half-way.
SessionAgreed ==
  /\ auth \subseteq derived
  /\ \A d \in inbox :
       d.msg.kind = "query" => <<d.msg.user, d.msg.box.key>> \in derived

\* The user who types the PIN the helper shows gets the helper's key: the
\* arithmetic of derive_session_key agrees with the other side's, also where
\* the server's key is smaller than k * g^x and the subtraction wraps.
RightPinAgrees ==
  \A c \in Clients, h \in hs :
    LET s == sess[c] IN
      (/\ s.user = h.user /\ s.B # 0
       /\ s.B = h.B /\ h.A = ClientPublicKey(s.a))
        => DeriveSessionKey(s.user, s.a, s.B, s.salt, h.pin) = h.key

\* As long as no frame was given up, a client that gets an answer gets the
\* answer to its own message, although frames carry no ids: the probe's
\* answer is consumed before serving starts, and one datagram is served at a
\* time (probe_helper_readiness, start_daemon_inner).
InStep ==
  ~dirty =>
    /\ \A r \in replies : r.code = "Success" => r.to = sent[r.sock]
    /\ \A p \in printed : p.asked = p.got
================================================================================
