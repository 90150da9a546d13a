----------------------- MODULE ExternalFallbackProofs -----------------------
(***************************************************************************)
(* Proofs about ExternalFallback for any set of logins, any concurrency    *)
(* and any limit: type correctness, the inductive invariant FallbackInv,   *)
(* and the two properties that follow from it.                             *)
(***************************************************************************)
EXTENDS ExternalFallback, TLAPS

\* A createdAt value that is handed out is a session.
LEMMA FreshSession ==
  ASSUME FallbackTypeOK, clock < MaxSessions
  PROVE  clock + 1 \in Sessions /\ clock + 1 \in Nat
BY LimitsAssumption DEF FallbackTypeOK, Sessions

\* Every edit, read, reservation, spawn and interruption keeps the types.
LEMMA FallbackTypeStep ==
  FallbackTypeOK /\ [FallbackNext]_fallbackVars => FallbackTypeOK'
<1> SUFFICES ASSUME FallbackTypeOK, [FallbackNext]_fallbackVars
             PROVE  FallbackTypeOK'
  OBVIOUS
<1>0. 0 \in Sessions /\ Sessions \subseteq Nat
  BY LimitsAssumption DEF Sessions
<1> USE DEF FallbackTypeOK, fileVars, historyVars, End
<1>1. CASE EditConfig
  BY <1>0, <1>1, FreshSession DEF EditConfig
<1>2. ASSUME NEW l \in Logins, ReadProvider(l)
      PROVE  FallbackTypeOK'
  BY <1>2, FreshSession DEF ReadProvider
<1>3. ASSUME NEW l \in Logins, ReadNoProvider(l)
      PROVE  FallbackTypeOK'
  BY <1>3 DEF ReadNoProvider
<1>4. ASSUME NEW l \in Logins, ReadUnusable(l)
      PROVE  FallbackTypeOK'
  BY <1>4 DEF ReadUnusable, UserConfigs
<1>5. ASSUME NEW l \in Logins, ProviderRefused(l)
      PROVE  FallbackTypeOK'
  BY <1>5 DEF ProviderRefused
<1>6. ASSUME NEW l \in Logins, ReadCounter(l)
      PROVE  FallbackTypeOK'
  BY <1>6 DEF ReadCounter
<1>7. ASSUME NEW l \in Logins, TruncateCounter(l)
      PROVE  FallbackTypeOK'
  BY <1>0, <1>7 DEF TruncateCounter, NoCount
<1>8. ASSUME NEW l \in Logins, WriteCounter(l)
      PROVE  FallbackTypeOK'
  BY <1>8 DEF WriteCounter
<1>9. ASSUME NEW l \in Logins, WriteCounterFails(l)
      PROVE  FallbackTypeOK'
  BY <1>9 DEF WriteCounterFails
<1>10. ASSUME NEW l \in Logins, Spawn(l)
       PROVE  FallbackTypeOK'
  BY <1>10 DEF Spawn
<1>11. ASSUME NEW l \in Logins, SpawnFails(l)
       PROVE  FallbackTypeOK'
  BY <1>11 DEF SpawnFails
<1>12. ASSUME NEW l \in Logins, ProviderAnswers(l)
       PROVE  FallbackTypeOK'
  BY <1>12 DEF ProviderAnswers
<1>13. ASSUME NEW l \in Logins, ProviderFails(l)
       PROVE  FallbackTypeOK'
  BY <1>13 DEF ProviderFails
<1>14. ASSUME NEW l \in Logins, Interrupt(l)
       PROVE  FallbackTypeOK'
  BY <1>14 DEF Interrupt
<1>15. CASE UNCHANGED fallbackVars
  BY <1>15 DEF fallbackVars
<1> QED
  BY <1>1, <1>2, <1>3, <1>4, <1>5, <1>6, <1>7, <1>8, <1>9, <1>10, <1>11,
     <1>12, <1>13, <1>14, <1>15 DEF FallbackNext, LoginStep

\* The variables of the fallback keep their types in every behaviour.
THEOREM FallbackTypeCorrect == FallbackSpec => []FallbackTypeOK
<1>1. FallbackInit => FallbackTypeOK
  <2> SUFFICES ASSUME FallbackInit
               PROVE  FallbackTypeOK
    OBVIOUS
  <2>1. 0 \in Sessions /\ 1 \in Sessions
    BY LimitsAssumption DEF Sessions
  <2>2. counter \in [session : Sessions, count : Nat]
    BY <2>1 DEF FallbackInit, NoCount
  <2> QED
    BY <2>1, <2>2 DEF FallbackInit, FallbackTypeOK, UserConfigs
<1> QED
  BY <1>1, FallbackTypeStep, PTL DEF FallbackSpec

-----------------------------------------------------------------------------
\* Counts stay covered by reservations.
LEMMA FallbackInvStep ==
  FallbackTypeOK /\ FallbackInv /\ [FallbackNext]_fallbackVars => FallbackInv'
<1> SUFFICES ASSUME FallbackTypeOK, FallbackInv, [FallbackNext]_fallbackVars
             PROVE  FallbackInv'
  OBVIOUS
<1>0. 0 \in Sessions
  BY LimitsAssumption DEF Sessions
<1> USE LimitsAssumption
    DEF FallbackInv, CountsAreReserved, NotStarted, RefusedOnlyWhenSpent,
        FallbackTypeOK, fileVars, historyVars, End
<1>1. CASE EditConfig
  BY <1>1 DEF EditConfig
<1>2. ASSUME NEW l \in Logins, ReadProvider(l)
      PROVE  FallbackInv'
  BY <1>2, FreshSession DEF ReadProvider
<1>3. ASSUME NEW l \in Logins, ReadNoProvider(l)
      PROVE  FallbackInv'
  BY <1>3 DEF ReadNoProvider
<1>4. ASSUME NEW l \in Logins, ReadUnusable(l)
      PROVE  FallbackInv'
  BY <1>4 DEF ReadUnusable
<1>5. ASSUME NEW l \in Logins, ProviderRefused(l)
      PROVE  FallbackInv'
  BY <1>5 DEF ProviderRefused
<1>6. ASSUME NEW l \in Logins, ReadCounter(l)
      PROVE  FallbackInv'
  BY <1>6 DEF ReadCounter
<1>7. ASSUME NEW l \in Logins, TruncateCounter(l)
      PROVE  FallbackInv'
  BY <1>0, <1>7 DEF TruncateCounter, NoCount
<1>8. ASSUME NEW l \in Logins, WriteCounter(l)
      PROVE  FallbackInv'
  BY <1>8 DEF WriteCounter
<1>9. ASSUME NEW l \in Logins, WriteCounterFails(l)
      PROVE  FallbackInv'
  BY <1>9 DEF WriteCounterFails
<1>10. ASSUME NEW l \in Logins, Spawn(l)
       PROVE  FallbackInv'
  BY <1>10 DEF Spawn
<1>11. ASSUME NEW l \in Logins, SpawnFails(l)
       PROVE  FallbackInv'
  BY <1>11 DEF SpawnFails
<1>12. ASSUME NEW l \in Logins, ProviderAnswers(l)
       PROVE  FallbackInv'
  BY <1>12 DEF ProviderAnswers
<1>13. ASSUME NEW l \in Logins, ProviderFails(l)
       PROVE  FallbackInv'
  BY <1>13 DEF ProviderFails
<1>14. ASSUME NEW l \in Logins, Interrupt(l)
       PROVE  FallbackInv'
  BY <1>14 DEF Interrupt, Active
<1>15. CASE UNCHANGED fallbackVars
  BY <1>15 DEF fallbackVars
<1> QED
  BY <1>1, <1>2, <1>3, <1>4, <1>5, <1>6, <1>7, <1>8, <1>9, <1>10, <1>11,
     <1>12, <1>13, <1>14, <1>15 DEF FallbackNext, LoginStep

\* The invariant holds in every behaviour.
LEMMA FallbackInvariant == FallbackSpec => []FallbackInv
<1>1. FallbackInit => FallbackInv
  BY LimitsAssumption DEF FallbackInit, FallbackInv, CountsAreReserved,
     NotStarted, RefusedOnlyWhenSpent, NoCount, Sessions
<1> QED
  BY <1>1, FallbackInvStep, FallbackTypeCorrect, PTL DEF FallbackSpec

\* However logins interleave or are interrupted, the limit never refuses one
\* before the session's allowance has been reserved.
THEOREM LimitNotEarly == FallbackSpec => []RefusedOnlyWhenSpent
<1>1. FallbackInv => RefusedOnlyWhenSpent
  BY DEF FallbackInv
<1> QED
  BY <1>1, FallbackInvariant, PTL

-----------------------------------------------------------------------------
(***************************************************************************)
(* The limit, for logins that do not overlap.  What has been started in a  *)
(* session that can still be charged is covered by the count a login would *)
(* read, plus one allowance for every torn write; a login in the middle of *)
(* a write has that count in its hands.                                    *)
(***************************************************************************)

\* The count a login of session s would read.
Counted(s) == IF counter.session = s THEN counter.count ELSE 0

Covered(s, count) == started[s] <= count + MaxInvocations * torn

OneAtATime == \A l, m \in Logins : Active(l) /\ Active(m) => l = m

\* Sessions are handed out in order, and nothing is charged to one before.
SessionsInOrder ==
  /\ created <= clock /\ counter.session <= clock
  /\ \A l \in Logins : session[l] <= clock
  /\ \A s \in Sessions : s > clock => started[s] = 0

\* What a login that is under way may rely on.  If the configuration has been
\* replaced meanwhile, the new session has not been charged yet.
LoginCovered(l) ==
  /\ pc[l] \in {"reserve", "run"} => Covered(session[l], Counted(session[l]))
  /\ pc[l] \in {"truncate", "write"} =>
       seen[l] < MaxInvocations /\ Covered(session[l], seen[l])
  /\ pc[l] = "truncate" => seen[l] = Counted(session[l])
  /\ pc[l] = "spawn" =>
       started[session[l]] + 1 <= Counted(session[l]) + MaxInvocations * torn
  /\ created \in {0, session[l]} \/ started[created] = 0

LimitInv ==
  /\ OneAtATime
  /\ SessionsInOrder
  /\ counter.count <= MaxInvocations
  /\ \A l \in Logins : Active(l) => LoginCovered(l)
  /\ (\A l \in Logins : ~ Active(l)) /\ created # 0 =>
       Covered(created, Counted(created))
  /\ \A s \in Sessions : Covered(s, MaxInvocations)

SequentialInv == ~ overlap => LimitInv

\* One more torn write is one more allowance.
LEMMA Allowance ==
  ASSUME NEW t \in Nat
  PROVE  /\ MaxInvocations * t \in Nat
         /\ MaxInvocations * (t + 1) = MaxInvocations * t + MaxInvocations
BY LimitsAssumption

\* A login that stops, wherever it is, frees no reservation; if it stops in
\* the middle of a write, the allowance is granted once more.
LEMMA LoginStops ==
  ASSUME FallbackTypeOK, LimitInv, NEW l \in Logins, Active(l),
         pc' = [pc EXCEPT ![l] = "done"] \/ pc' = [pc EXCEPT ![l] = "killed"],
         UNCHANGED <<created, clock, counter, session, started>>,
         torn' = IF pc[l] = "write" THEN torn + 1 ELSE torn
  PROVE  LimitInv'
<1>0. /\ MaxInvocations \in Nat /\ torn \in Nat /\ torn' \in Nat
      /\ started \in [Sessions -> Nat] /\ counter.count \in Nat
      /\ created \in Sessions /\ session[l] \in Sessions /\ seen[l] \in Nat
      /\ 0 \in Sessions /\ Sessions \subseteq Nat
  BY LimitsAssumption DEF FallbackTypeOK, Sessions
<1>1. \A m \in Logins : ~ Active(m)'
  BY DEF FallbackTypeOK, LimitInv, OneAtATime, Active
<1>2. /\ MaxInvocations * torn \in Nat
      /\ MaxInvocations * torn' = MaxInvocations * torn
           + (IF pc[l] = "write" THEN MaxInvocations ELSE 0)
  BY <1>0, Allowance
<1>3. (OneAtATime /\ SessionsInOrder /\ counter.count <= MaxInvocations)'
  BY <1>1 DEF OneAtATime, LimitInv, SessionsInOrder
<1>4. (\A s \in Sessions : Covered(s, MaxInvocations))'
  BY <1>0, <1>2 DEF LimitInv, Covered
<1>5. (created # 0 => Covered(created, Counted(created)))'
  <2> SUFFICES ASSUME created # 0
               PROVE  started[created]
                        <= Counted(created) + MaxInvocations * torn'
    BY DEF Covered, Counted
  <2>1. Counted(created) \in Nat
    BY <1>0 DEF Counted
  <2>2. LoginCovered(l) /\ pc[l] \in {"reserve", "run", "truncate", "write", "spawn"}
    BY DEF LimitInv, Active, FallbackTypeOK
  <2>3. CASE started[created] = 0
    BY <1>0, <1>2, <2>1, <2>3
  <2>4. CASE created = session[l]
    BY <1>0, <1>2, <2>1, <2>2, <2>4 DEF LoginCovered, Covered
  <2> QED
    BY <2>2, <2>3, <2>4 DEF LoginCovered
<1> QED
  BY <1>1, <1>3, <1>4, <1>5 DEF LimitInv

\* A login under way moves on to another control state: its own cover and the
\* bounds of the counter and of the sessions are what has to be shown.
LEMMA LoginMoves ==
  ASSUME FallbackTypeOK, LimitInv, NEW l \in Logins, Active(l),
         NEW next \in {"reserve", "truncate", "write", "spawn", "run"},
         pc' = [pc EXCEPT ![l] = next],
         UNCHANGED <<created, clock, session>>,
         LoginCovered(l)', SessionsInOrder', (counter.count <= MaxInvocations)',
         (\A s \in Sessions : Covered(s, MaxInvocations))'
  PROVE  LimitInv'
<1>1. Active(l)' /\ \A m \in Logins : Active(m)' => m = l
  BY DEF FallbackTypeOK, LimitInv, OneAtATime, Active
<1> QED
  BY <1>1 DEF LimitInv, OneAtATime

\* Handing out a session leaves those that were handed out in order.
LEMMA SessionsStay ==
  ASSUME FallbackTypeOK, SessionsInOrder, clock' \in Nat, clock <= clock',
         created' <= clock', UNCHANGED <<counter, started>>,
         \/ UNCHANGED session
         \/ \E l \in Logins, s \in Sessions :
              session' = [session EXCEPT ![l] = s] /\ s <= clock'
  PROVE  SessionsInOrder'
<1>1. /\ clock \in Nat /\ counter.session \in Nat /\ Sessions \subseteq Nat
      /\ session \in [Logins -> Sessions]
  BY LimitsAssumption DEF FallbackTypeOK, Sessions
<1>2. counter'.session <= clock'
  BY <1>1 DEF SessionsInOrder
<1>3. \A l \in Logins : session[l] <= clock'
  <2> TAKE l \in Logins
  <2>1. session[l] \in Nat /\ session[l] <= clock
    BY <1>1 DEF SessionsInOrder
  <2> QED
    BY <1>1, <2>1
<1>4. \A l \in Logins : session'[l] <= clock'
  BY <1>1, <1>3
<1>5. \A s \in Sessions : s > clock' => started'[s] = 0
  BY <1>1 DEF SessionsInOrder
<1> QED
  BY <1>2, <1>4, <1>5 DEF SessionsInOrder

\* Every step of logins that do not overlap keeps what was started covered.
LEMMA SequentialStep ==
  FallbackTypeOK /\ SequentialInv /\ [FallbackNext]_fallbackVars => SequentialInv'
<1> SUFFICES ASSUME FallbackTypeOK, SequentialInv, [FallbackNext]_fallbackVars,
                    ~ overlap'
             PROVE  LimitInv'
  BY DEF SequentialInv
<1>0. /\ MaxInvocations \in Nat /\ torn \in Nat /\ MaxInvocations * torn \in Nat
      /\ started \in [Sessions -> Nat] /\ clock \in Nat
      /\ counter.count \in Nat /\ counter.session \in Sessions
      /\ created \in Sessions /\ session \in [Logins -> Sessions]
      /\ seen \in [Logins -> Nat]
      /\ 0 \in Sessions /\ Sessions \subseteq Nat
  BY LimitsAssumption, Allowance DEF FallbackTypeOK, Sessions
<1>1. ~ overlap /\ LimitInv
  BY DEF SequentialInv, FallbackTypeOK, FallbackNext, EditConfig, LoginStep,
         ReadProvider, ReadNoProvider, ReadUnusable, ProviderRefused,
         ReadCounter, TruncateCounter, WriteCounter, WriteCounterFails, Spawn,
         SpawnFails, ProviderAnswers, ProviderFails, Interrupt, historyVars,
         fallbackVars
<1>2. CASE EditConfig
  <2>1. /\ UNCHANGED <<pc, counter, session, seen, started, torn>>
        /\ clock' \in Nat /\ clock <= clock' /\ created' <= clock'
        /\ created' \in {0, created} \/ started[created'] = 0
    <3>1. /\ created <= clock
          /\ clock < MaxSessions =>
               clock + 1 \in Sessions /\ started[clock + 1] = 0
      BY <1>0, <1>1, FreshSession DEF LimitInv, SessionsInOrder
    <3> QED
      BY <1>0, <1>2, <3>1 DEF EditConfig, historyVars
  <2>2. (OneAtATime /\ counter.count <= MaxInvocations)'
    BY <1>1, <2>1 DEF LimitInv, OneAtATime, Active
  <2>3. SessionsInOrder'
    BY <1>1, <2>1, SessionsStay DEF LimitInv
  <2>4. (\A l \in Logins : Active(l) => LoginCovered(l))'
    BY <1>0, <1>1, <2>1
    DEF LimitInv, Active, LoginCovered, Covered, Counted
  <2>5. ((\A l \in Logins : ~ Active(l)) /\ created # 0 =>
            Covered(created, Counted(created)))'
    BY <1>0, <1>1, <2>1 DEF LimitInv, Active, Covered, Counted
  <2>6. (\A s \in Sessions : Covered(s, MaxInvocations))'
    BY <1>1, <2>1 DEF LimitInv, Covered
  <2> QED
    BY <2>2, <2>3, <2>4, <2>5, <2>6 DEF LimitInv
<1>3. ASSUME NEW l \in Logins, ReadProvider(l)
      PROVE  LimitInv'
  <2>1. \A m \in Logins : ~ Active(m)
    BY <1>3 DEF ReadProvider
  <2>2. /\ UNCHANGED <<created, counter, seen, started, torn>>
        /\ pc' = [pc EXCEPT ![l] = "reserve"] /\ clock <= clock' /\ clock' \in Nat
        /\ \E s \in Sessions : session' = [session EXCEPT ![l] = s] /\ s <= clock'
        /\ session'[l] \in Sessions /\ created <= clock'
        /\ \/ created # 0 /\ session'[l] = created
           \/ created = 0 /\ started[session'[l]] = 0
    <3>1. /\ created <= clock
          /\ clock < MaxSessions =>
               clock + 1 \in Sessions /\ started[clock + 1] = 0
      BY <1>0, <1>1, FreshSession DEF LimitInv, SessionsInOrder
    <3> QED
      BY <1>0, <1>3, <3>1 DEF ReadProvider
  <2>3. Active(l)' /\ \A m \in Logins : Active(m)' => m = l
    BY <2>1, <2>2 DEF Active, FallbackTypeOK
  <2>4. (OneAtATime /\ counter.count <= MaxInvocations)'
    BY <1>1, <2>2, <2>3 DEF LimitInv, OneAtATime
  <2>5. SessionsInOrder'
    BY <1>1, <2>2, SessionsStay DEF LimitInv
  <2>6. (\A s \in Sessions : Covered(s, MaxInvocations))'
    BY <1>1, <2>2 DEF LimitInv, Covered
  <2>7. LoginCovered(l)'
    <3>1. pc'[l] = "reserve"
      BY <2>2 DEF FallbackTypeOK
    <3>2. Covered(session[l], Counted(session[l]))'
      BY <1>0, <1>1, <2>1, <2>2 DEF LimitInv, Covered, Counted
    <3> QED
      BY <2>2, <3>1, <3>2 DEF LoginCovered
  <2> QED
    BY <2>3, <2>4, <2>5, <2>6, <2>7 DEF LimitInv
<1>4. ASSUME NEW l \in Logins, ReadNoProvider(l) \/ ReadUnusable(l)
      PROVE  LimitInv'
  <2>1. /\ UNCHANGED <<created, clock, counter, session, seen, started, torn>>
        /\ pc[l] = "start" /\ pc' = [pc EXCEPT ![l] = "done"]
    BY <1>4 DEF ReadNoProvider, ReadUnusable, End, fileVars, historyVars
  <2>2. \A m \in Logins : (Active(m)' <=> Active(m)) /\ (Active(m) => m # l)
    BY <2>1 DEF Active, FallbackTypeOK
  <2>3. \A m \in Logins : m # l => (LoginCovered(m)' <=> LoginCovered(m))
    BY <2>1 DEF FallbackTypeOK, LoginCovered, Covered, Counted
  <2> QED
    BY <1>1, <2>1, <2>2, <2>3
    DEF LimitInv, OneAtATime, SessionsInOrder, Covered, Counted
<1>5. ASSUME NEW l \in Logins, ReadCounter(l), pc'[l] # "done"
      PROVE  LimitInv'
  <2>1. /\ Active(l) /\ pc[l] = "reserve" /\ pc' = [pc EXCEPT ![l] = "truncate"]
        /\ Counted(session[l]) < MaxInvocations
        /\ seen' = [seen EXCEPT ![l] = Counted(session[l])]
        /\ UNCHANGED <<created, clock, counter, session, started, torn>>
    BY <1>0, <1>5
    DEF ReadCounter, Counted, End, Active, fileVars, historyVars, FallbackTypeOK
  <2>2. LoginCovered(l)'
    BY <1>0, <1>1, <2>1
    DEF LimitInv, LoginCovered, Covered, Counted, FallbackTypeOK
  <2> QED
    BY <1>1, <2>1, <2>2, LoginMoves DEF LimitInv, SessionsInOrder, Covered
<1>6. ASSUME NEW l \in Logins, TruncateCounter(l)
      PROVE  LimitInv'
  <2>1. /\ Active(l) /\ pc[l] = "truncate" /\ pc' = [pc EXCEPT ![l] = "write"]
        /\ counter'.session = 0 /\ counter'.count = 0
        /\ UNCHANGED <<created, clock, seen, session, started, torn>>
    BY <1>6 DEF TruncateCounter, NoCount, Active, fileVars, historyVars
  <2>2. LoginCovered(l)'
    BY <1>1, <2>1 DEF LimitInv, LoginCovered, Covered, FallbackTypeOK
  <2>3. SessionsInOrder' /\ (counter.count <= MaxInvocations)'
    BY <1>0, <1>1, <2>1 DEF LimitInv, SessionsInOrder
  <2> QED
    BY <1>1, <2>1, <2>2, <2>3, LoginMoves DEF LimitInv, Covered
<1>7. ASSUME NEW l \in Logins, WriteCounter(l)
      PROVE  LimitInv'
  <2>1. /\ Active(l) /\ pc[l] = "write" /\ pc' = [pc EXCEPT ![l] = "spawn"]
        /\ counter'.session = session[l] /\ counter'.count = seen[l] + 1
        /\ UNCHANGED <<created, clock, seen, session, started, torn>>
    BY <1>7 DEF WriteCounter, Active, fileVars
  <2>2. LoginCovered(l) /\ seen[l] < MaxInvocations /\ Covered(session[l], seen[l])
    BY <1>1, <2>1 DEF LimitInv, LoginCovered
  <2>3. LoginCovered(l)'
    <3>1. pc'[l] = "spawn"
      BY <2>1 DEF FallbackTypeOK
    <3>2. Counted(session[l])' = seen[l] + 1
      BY <2>1 DEF Counted
    <3>3. started[session[l]] + 1 <= seen[l] + 1 + MaxInvocations * torn
      <4>1. /\ started[session[l]] \in Nat /\ seen[l] \in Nat
            /\ started[session[l]] <= seen[l] + MaxInvocations * torn
        BY <1>0, <2>2 DEF Covered
      <4> QED
        BY <1>0, <4>1
    <3> QED
      BY <2>1, <2>2, <3>1, <3>2, <3>3 DEF LoginCovered
  <2>4. SessionsInOrder' /\ (counter.count <= MaxInvocations)'
    BY <1>0, <1>1, <2>1, <2>2 DEF LimitInv, SessionsInOrder
  <2> QED
    BY <1>1, <2>1, <2>3, <2>4, LoginMoves DEF LimitInv, Covered
<1>8. ASSUME NEW l \in Logins, Spawn(l)
       PROVE  LimitInv'
  <2>1. /\ Active(l) /\ pc[l] = "spawn" /\ pc' = [pc EXCEPT ![l] = "run"]
        /\ started' = [started EXCEPT ![session[l]] = @ + 1]
        /\ UNCHANGED <<created, clock, counter, seen, session, torn>>
    BY <1>8 DEF Spawn, Active, fileVars
  <2>2. /\ LoginCovered(l) /\ Counted(session[l]) \in 0..MaxInvocations
        /\ started[session[l]] + 1 <= Counted(session[l]) + MaxInvocations * torn
    BY <1>0, <1>1, <2>1 DEF LimitInv, LoginCovered, Counted
  <2>3. LoginCovered(l)'
    <3>1. Covered(session[l], Counted(session[l]))'
      BY <1>0, <2>1, <2>2 DEF Covered, Counted
    <3>2. created' \in {0, session'[l]} \/ started'[created'] = 0
      BY <1>0, <2>1, <2>2 DEF LoginCovered
    <3> QED
      BY <2>1, <3>1, <3>2 DEF LoginCovered, FallbackTypeOK
  <2>4. SessionsInOrder' /\ (counter.count <= MaxInvocations)'
    BY <1>0, <1>1, <2>1 DEF LimitInv, SessionsInOrder
  <2>5. (\A s \in Sessions : Covered(s, MaxInvocations))'
    BY <1>0, <1>1, <2>1, <2>2 DEF LimitInv, Covered
  <2> QED
    BY <1>1, <2>1, <2>3, <2>4, <2>5, LoginMoves
<1>9. ASSUME NEW l \in Logins, ProviderAnswers(l), pc'[l] # "done"
       PROVE  LimitInv'
  <2>1. /\ Active(l) /\ pc[l] = "run" /\ pc' = [pc EXCEPT ![l] = "reserve"]
        /\ UNCHANGED <<created, clock, counter, seen, session, started, torn>>
    BY <1>9
    DEF ProviderAnswers, End, Active, fileVars, historyVars, FallbackTypeOK
  <2>2. LoginCovered(l)'
    BY <1>1, <2>1
    DEF LimitInv, LoginCovered, Covered, Counted, FallbackTypeOK
  <2> QED
    BY <1>1, <2>1, <2>2, LoginMoves DEF LimitInv, SessionsInOrder, Covered
<1>10. ASSUME NEW l \in Logins,
             \/ ProviderRefused(l) \/ ReadCounter(l) \/ WriteCounterFails(l)
             \/ SpawnFails(l) \/ ProviderAnswers(l) \/ ProviderFails(l)
             \/ Interrupt(l),
             pc'[l] \in {"done", "killed"}
      PROVE  LimitInv'
  <2>1. /\ Active(l)
        /\ pc' = [pc EXCEPT ![l] = "done"] \/ pc' = [pc EXCEPT ![l] = "killed"]
        /\ UNCHANGED <<created, clock, counter, session, started>>
        /\ torn' = IF pc[l] = "write" THEN torn + 1 ELSE torn
    BY <1>10
    DEF ProviderRefused, ReadCounter, WriteCounterFails, SpawnFails,
        ProviderAnswers, ProviderFails, Interrupt, End, Active, fileVars,
        historyVars, FallbackTypeOK
  <2> QED
    BY <1>1, <2>1, LoginStops
<1>11. CASE UNCHANGED fallbackVars
  BY <1>1, <1>11
  DEF fallbackVars, fileVars, historyVars, LimitInv, OneAtATime, SessionsInOrder,
      LoginCovered, Covered, Counted, Active
<1> QED
  <2>1. \A l \in Logins : Interrupt(l) => pc'[l] \in {"done", "killed"}
    BY DEF Interrupt, FallbackTypeOK
  <2>2. \A l \in Logins :
          ProviderRefused(l) \/ WriteCounterFails(l) \/ SpawnFails(l)
            \/ ProviderFails(l) => pc'[l] \in {"done", "killed"}
    BY DEF ProviderRefused, WriteCounterFails, SpawnFails, ProviderFails, End,
           FallbackTypeOK
  <2> QED
    BY <1>2, <1>3, <1>4, <1>5, <1>6, <1>7, <1>8, <1>9, <1>10, <1>11, <2>1, <2>2
    DEF FallbackNext, LoginStep

\* The invariant holds in every behaviour.
LEMMA SequentialInvariant == FallbackSpec => []SequentialInv
<1>1. FallbackInit => SequentialInv
  BY LimitsAssumption
  DEF FallbackInit, SequentialInv, LimitInv, OneAtATime, SessionsInOrder, Active,
      Covered, Counted, NoCount, Sessions, HasCreatedAt
<1> QED
  BY <1>1, SequentialStep, FallbackTypeCorrect, PTL DEF FallbackSpec

\* For every limit and every number of logins that run one after the other, in
\* every session: the provider processes stay within one allowance, and one
\* more for each login that was stopped between truncating and writing the
\* state file (reserve_external_provider_invocation).
THEOREM LimitHolds == FallbackSpec => []SequentialLimit
<1>1. FallbackTypeOK /\ SequentialInv => SequentialLimit
  <2> SUFFICES ASSUME FallbackTypeOK, SequentialInv, ~ overlap, NEW s \in Sessions
               PROVE  started[s] <= MaxInvocations * (1 + torn)
    BY DEF SequentialLimit
  <2>1. started[s] <= MaxInvocations + MaxInvocations * torn
    BY DEF SequentialInv, LimitInv, Covered
  <2>2. MaxInvocations * (torn + 1) = MaxInvocations * torn + MaxInvocations
    BY Allowance DEF FallbackTypeOK
  <2>3. MaxInvocations * (1 + torn) = MaxInvocations + MaxInvocations * torn
    BY <2>2, Allowance, LimitsAssumption DEF FallbackTypeOK
  <2> QED
    BY <2>1, <2>3
<1> QED
  BY <1>1, SequentialInvariant, FallbackTypeCorrect, PTL
=============================================================================
