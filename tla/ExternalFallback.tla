--------------------------- MODULE ExternalFallback ---------------------------
(***************************************************************************)
(* external_provider_login: what `apw login --external-fallback` does once *)
(* the native app had no credential.  The CLI reads its configuration (the *)
(* managed preferences over ~/.apw/config.json), reserves an invocation in *)
(* fallback-provider-session.json, and runs the provider's CLI, for most   *)
(* providers twice (find the item, then get it).                           *)
(*                                                                         *)
(* The reservation is a read, a comparison and an fs::write with no lock.  *)
(* fs::write truncates the file and then writes it, and a truncated file   *)
(* reads as "no invocations yet".  The limit is counted per session, and a *)
(* session is the configuration's createdAt: a configuration without one   *)
(* (a managed one, or a file that is read as the legacy format) gets the   *)
(* time of the read.                                                       *)
(***************************************************************************)
EXTENDS Naturals

CONSTANTS
  Logins,          \* logins that reached the external fallback
  MaxInvocations,  \* fallbackProviderMaxInvocations
  ProviderCalls,   \* invocations of one lookup: 2, or 1 for bitwarden
  MaxSessions      \* bound on the createdAt values of a behaviour

ASSUME LimitsAssumption ==
  /\ MaxInvocations \in Nat
  /\ ProviderCalls \in {1, 2}
  /\ MaxSessions \in Nat \ {0}

VARIABLES
  user,      \* ~/.apw/config.json: what it holds
  created,   \* its createdAt, 0 when it has none
  managed,   \* which of provider and path the managed preferences set
  clock,     \* createdAt values handed out
  counter,   \* fallback-provider-session.json
  pc,        \* control state of each login
  session,   \* session its invocations are charged to
  seen,      \* count it read from the file
  calls,     \* provider processes it has started
  result,    \* how it ended
  reserved,  \* history: reservations written, per session
  started,   \* history: provider processes started, per session
  torn,      \* history: writes of the file that stopped after truncation
  overlap    \* history: two logins have been at it at the same time

fileVars == <<user, created, managed, clock>>
historyVars == <<reserved, started, torn, overlap>>
fallbackVars == <<fileVars, counter, pc, session, seen, calls, result, historyVars>>

\* What read_user_config_file_or_null makes of the file.  "complete" has every
\* required key and a provider with its path, "noPath" only the provider,
\* "pathOnly" only the path and "plain" neither; "minimal" lacks required keys
\* (schema, port, ...); "malformed" is not a config at all; "corrupt" is not
\* JSON, too large, of another schema or not a regular file.
UserConfigs == {"none", "complete", "noPath", "pathOnly", "plain", "minimal",
                "malformed", "corrupt"}

HasCreatedAt == {"complete", "noPath", "pathOnly", "plain"}

\* The managed keys that decide whether a provider runs.
ManagedKeys == {"fallbackProvider", "fallbackProviderPath"}

Sessions == 0..MaxSessions

\* The state file: absent, empty after truncation, or a session's count.
NoCount == [session |-> 0, count |-> 0]

\* read_user_config_file_or_null refuses the file: also one that is complete but
\* for a path, whatever the managed preferences would add.
Unusable == user \in {"noPath", "malformed", "corrupt"}

\* apply_managed_config, key by key: the merged configuration has a provider, a
\* path.  A minimal file names both, but it is read as the legacy format and
\* normalize_legacy_config drops them.
Named == "fallbackProvider" \in managed \/ user = "complete"
Pathed == "fallbackProviderPath" \in managed \/ user \in {"complete", "pathOnly"}

Active(l) == pc[l] \notin {"start", "done", "killed"}

-----------------------------------------------------------------------------
FallbackInit ==
  /\ user \in UserConfigs
  /\ created = IF user \in HasCreatedAt THEN 1 ELSE 0
  /\ managed \in SUBSET ManagedKeys
  /\ clock = 1
  /\ counter = NoCount
  /\ pc = [l \in Logins |-> "start"]
  /\ session = [l \in Logins |-> 0]
  /\ seen = [l \in Logins |-> 0]
  /\ calls = [l \in Logins |-> 0]
  /\ result = [l \in Logins |-> "none"]
  /\ reserved = [s \in Sessions |-> 0]
  /\ started = [s \in Sessions |-> 0]
  /\ torn = 0
  /\ overlap = FALSE

\* The operator changes config.json: an edit keeps the createdAt of the file,
\* a file written anew has a new one.
EditConfig ==
  /\ \E u \in UserConfigs \ {user} :
       /\ user' = u
       /\ \/ /\ u \in HasCreatedAt /\ created # 0
             /\ UNCHANGED <<created, clock>>
          \/ /\ u \in HasCreatedAt /\ clock < MaxSessions
             /\ created' = clock + 1
             /\ clock' = clock + 1
          \/ /\ u \notin HasCreatedAt
             /\ created' = 0
             /\ UNCHANGED clock
  /\ UNCHANGED <<managed, counter, pc, session, seen, calls, result,
                 historyVars>>

\* Login l ends with r.
End(l, r) ==
  /\ pc' = [pc EXCEPT ![l] = "done"]
  /\ result' = [result EXCEPT ![l] = r]

(***************************************************************************)
(* read_config_file.                                                       *)
(***************************************************************************)

\* A provider and its path are configured, each in either place.
ReadProvider(l) ==
  /\ pc[l] = "start"
  /\ ~ Unusable
  /\ Named /\ Pathed
  /\ \/ /\ created # 0
        /\ session' = [session EXCEPT ![l] = created]
        /\ UNCHANGED clock
     \/ /\ created = 0 /\ clock < MaxSessions
        /\ session' = [session EXCEPT ![l] = clock + 1]
        /\ clock' = clock + 1
  /\ pc' = [pc EXCEPT ![l] = "reserve"]
  /\ overlap' = (overlap \/ \E x \in Logins : Active(x))
  /\ UNCHANGED <<user, created, managed, counter, seen, calls, result, reserved,
                 started, torn>>

\* No provider: the error of the native request stands.
ReadNoProvider(l) ==
  /\ pc[l] = "start"
  /\ ~ Unusable
  /\ ~ Named
  /\ End(l, "native")
  /\ UNCHANGED <<fileVars, counter, session, seen, calls, historyVars>>

\* The user's file is unusable, or the merged configuration has a provider
\* without a path; clear_config removes a corrupt file.
ReadUnusable(l) ==
  /\ pc[l] = "start"
  /\ Unusable \/ (Named /\ ~ Pathed)
  /\ user' = IF user = "corrupt" THEN "none" ELSE user
  /\ End(l, "config")
  /\ UNCHANGED <<created, managed, clock, counter, session, seen, calls, historyVars>>

\* validate_external_provider_path refuses the executable, keepassxc has no
\* database or master password, or the URL has no host ("param").
ProviderRefused(l) ==
  /\ pc[l] = "reserve" /\ calls[l] = 0
  /\ \E r \in {"config", "param"} : End(l, r)
  /\ UNCHANGED <<fileVars, counter, session, seen, calls, historyVars>>

(***************************************************************************)
(* reserve_external_provider_invocation.                                   *)
(***************************************************************************)

\* Mutant: the session of the recorded count is not compared.
ReadCounterAnySession(l) ==
  /\ pc[l] = "reserve"
  /\ IF counter.count >= MaxInvocations
       THEN End(l, "limit") /\ UNCHANGED seen
       ELSE /\ seen' = [seen EXCEPT ![l] = counter.count]
            /\ pc' = [pc EXCEPT ![l] = "truncate"]
            /\ UNCHANGED result
  /\ UNCHANGED <<fileVars, counter, session, calls, historyVars>>

\* Mutant: the comparison with the limit is off by one.
ReadCounterOffByOne(l) ==
  /\ pc[l] = "reserve"
  /\ LET count == IF counter.session = session[l] THEN counter.count ELSE 0
     IN IF count > MaxInvocations
          THEN End(l, "limit") /\ UNCHANGED seen
          ELSE /\ seen' = [seen EXCEPT ![l] = count]
               /\ pc' = [pc EXCEPT ![l] = "truncate"]
               /\ UNCHANGED result
  /\ UNCHANGED <<fileVars, counter, session, calls, historyVars>>

\* Read the file; a count of another session, or no readable count, is 0.
ReadCounter(l) ==
  /\ pc[l] = "reserve"
  /\ LET count == IF counter.session = session[l] THEN counter.count ELSE 0
     IN IF count >= MaxInvocations
          THEN End(l, "limit") /\ UNCHANGED seen
          ELSE /\ seen' = [seen EXCEPT ![l] = count]
               /\ pc' = [pc EXCEPT ![l] = "truncate"]
               /\ UNCHANGED result
  /\ UNCHANGED <<fileVars, counter, session, calls, historyVars>>

\* fs::write opens the file and truncates it ...
TruncateCounter(l) ==
  /\ pc[l] = "truncate"
  /\ counter' = NoCount
  /\ pc' = [pc EXCEPT ![l] = "write"]
  /\ UNCHANGED <<fileVars, session, seen, calls, result, historyVars>>

\* ... and writes the count it read plus one.
WriteCounter(l) ==
  /\ pc[l] = "write"
  /\ counter' = [session |-> session[l], count |-> seen[l] + 1]
  /\ reserved' = [reserved EXCEPT ![session[l]] = @ + 1]
  /\ pc' = [pc EXCEPT ![l] = "spawn"]
  /\ UNCHANGED <<fileVars, session, seen, calls, result, started, torn,
                 overlap>>

\* The file cannot be opened, or not written after it was truncated.
WriteCounterFails(l) ==
  /\ pc[l] \in {"truncate", "write"}
  /\ torn' = IF pc[l] = "write" THEN torn + 1 ELSE torn
  /\ End(l, "config")
  /\ UNCHANGED <<fileVars, counter, session, seen, calls, reserved, started,
                 overlap>>

(***************************************************************************)
(* run_external_provider_command and the lookup of the provider.           *)
(***************************************************************************)
Spawn(l) ==
  /\ pc[l] = "spawn"
  /\ started' = [started EXCEPT ![session[l]] = @ + 1]
  /\ calls' = [calls EXCEPT ![l] = @ + 1]
  /\ pc' = [pc EXCEPT ![l] = "run"]
  /\ UNCHANGED <<fileVars, counter, session, seen, result, reserved, torn,
                 overlap>>

\* The state file's mode cannot be set, or the executable cannot be started: the
\* reservation is spent all the same.
SpawnFails(l) ==
  /\ pc[l] = "spawn"
  /\ \E r \in {"config", "notrunning"} : End(l, r)
  /\ UNCHANGED <<fileVars, counter, session, seen, calls, historyVars>>

\* The first call found the item, the last one returned it.
ProviderAnswers(l) ==
  /\ pc[l] = "run"
  /\ \/ /\ calls[l] < ProviderCalls
        /\ pc' = [pc EXCEPT ![l] = "reserve"]
        /\ UNCHANGED result
     \/ /\ calls[l] = ProviderCalls
        /\ End(l, "external")
  /\ UNCHANGED <<fileVars, counter, session, seen, calls, historyVars>>

\* Mutant: the provider's exit status is returned instead of a Status.
ProviderFailsRaw(l) ==
  /\ pc[l] = "run"
  /\ \E r \in {"exit", "proto", "timeout", "notrunning"} : End(l, r)
  /\ UNCHANGED <<fileVars, counter, session, seen, calls, historyVars>>

\* No item, a malformed or too large answer, a timeout, stdin that cannot be fed.
ProviderFails(l) ==
  /\ pc[l] = "run"
  /\ \E r \in {"noresults", "proto", "timeout", "notrunning"} : End(l, r)
  /\ UNCHANGED <<fileVars, counter, session, seen, calls, historyVars>>

\* The CLI process is killed (Ctrl-C) between two of its steps.
Interrupt(l) ==
  /\ Active(l)
  /\ torn' = IF pc[l] = "write" THEN torn + 1 ELSE torn
  /\ pc' = [pc EXCEPT ![l] = "killed"]
  /\ UNCHANGED <<fileVars, counter, session, seen, calls, result, reserved,
                 started, overlap>>

-----------------------------------------------------------------------------
LoginStep(l) ==
  \/ ReadProvider(l) \/ ReadNoProvider(l) \/ ReadUnusable(l) \/ ProviderRefused(l)
  \/ ReadCounter(l) \/ TruncateCounter(l) \/ WriteCounter(l) \/ WriteCounterFails(l)
  \/ Spawn(l) \/ SpawnFails(l) \/ ProviderAnswers(l) \/ ProviderFails(l)

FallbackNext == EditConfig \/ \E l \in Logins : LoginStep(l) \/ Interrupt(l)

FallbackSpec == FallbackInit /\ [][FallbackNext]_fallbackVars

-----------------------------------------------------------------------------
FallbackTypeOK ==
  /\ user \in UserConfigs
  /\ created \in Sessions
  /\ managed \in SUBSET ManagedKeys
  /\ clock \in Nat
  /\ counter \in [session : Sessions, count : Nat]
  /\ pc \in [Logins -> {"start", "reserve", "truncate", "write", "spawn", "run",
                        "done", "killed"}]
  /\ session \in [Logins -> Sessions]
  /\ seen \in [Logins -> Nat]
  /\ calls \in [Logins -> Nat]
  /\ result \in [Logins -> {"none", "native", "config", "param", "limit",
                            "external", "notrunning", "noresults", "proto", "timeout"}]
  /\ reserved \in [Sessions -> Nat]
  /\ started \in [Sessions -> Nat]
  /\ torn \in Nat
  /\ overlap \in BOOLEAN

\* Logins that run one after the other exceed fallbackProviderMaxInvocations
\* only after a login was stopped between truncating and writing the state
\* file, and then by at most one more allowance each time: failed spawns,
\* interrupted lookups and edits of the configuration never free a reservation.
SequentialLimit ==
  ~ overlap => \A s \in Sessions : started[s] <= MaxInvocations * (1 + torn)

\* In every interleaving a login is refused only when the session's allowance
\* has really been reserved: neither an older session's count nor a lost
\* update makes the limit bite too early.
RefusedOnlyWhenSpent ==
  \A l \in Logins : result[l] = "limit" => reserved[session[l]] >= MaxInvocations

(***************************************************************************)
(* The inductive invariant behind the two properties above.                *)
(***************************************************************************)

\* No count, in the file or in a login's hands, exceeds what was reserved in
\* the session it is charged to.
CountsAreReserved ==
  /\ counter.count <= reserved[counter.session]
  /\ \A l \in Logins : seen[l] <= reserved[session[l]]

\* A login that has not read its configuration has not got anywhere.
NotStarted ==
  \A l \in Logins : pc[l] = "start" => seen[l] = 0 /\ result[l] = "none"

FallbackInv == CountsAreReserved /\ NotStarted /\ RefusedOnlyWhenSpent

\* docs/INSTALLATION.md: fallbackProviderMaxInvocations is the "maximum external
\* provider process invocations per APW session".
WithinSessionLimit == \A s \in Sessions : started[s] <= MaxInvocations

\* docs/INSTALLATION.md configures the fallback with a file that holds only
\* fallbackProvider and fallbackProviderPath: a login made with it is not ended
\* by the lack of a provider.
DocumentedConfigWorks ==
  [][\A l \in Logins :
       (user = "minimal" /\ pc[l] = "start") => result'[l] # "native"]_fallbackVars
=============================================================================
