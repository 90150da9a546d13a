----------------------------- MODULE ProviderLookup -----------------------------
(***************************************************************************)
(* What native_app.rs and doctor.rs do with the programs they run: the     *)
(* lookup of a credential in a password manager's CLI (find an item, then  *)
(* get it), and the checks of `apw doctor`.  The output of the programs is *)
(* external.  Reserving an invocation is in ExternalFallback; the bundle   *)
(* that `apw doctor --bundle` writes is in DiagnosticBundle.               *)
(***************************************************************************)
EXTENDS BoundedChild, Sequences, SequencesExt

CONSTANTS
  Items,      \* what 1Password and Bitwarden list
  MaxItems,   \* bound: length of a listing
  Entries,    \* paths of entries in a password store
  MaxEntries  \* bound: matching entries of a store

Providers == {"1password", "bitwarden", "keepassxc", "pass"}
Doctors == {"diagnostics", "environment"}
Callers == Providers \cup Doctors \cup {"bundle"}

\* The host that is looked up, as a name; Similar are the names that contain
\* it.  In a path names are numbers.
Target == 1
Similar == {1, 2}

\* A store is finite, and an entry has a name.
ASSUME EntriesAssumption ==
  IsFiniteSet(Entries) /\ Entries \subseteq Seq(Nat) \ {<<>>}

VARIABLES
  caller,   \* who runs programs
  stage,    \* begin, first, second, end; the number of a probe
  listing,  \* what the first program listed
  picked,   \* what was picked from it
  report,   \* how many checks are reported, and the status of the last
  result    \* status of the lookup

lookupVars == <<caller, stage, listing, picked, report, result>>
providerVars == <<childVars, lookupVars>>

--------------------------------------------------------------------------------
(***************************************************************************)
(* Picking an item.  A URI is raw when it equals the URL asked for; its    *)
(* form is what url::Url makes of it: a URL with a host, a bare host (which*)
(* parses with https:// in front), or neither.                             *)
(***************************************************************************)
NoHost == 0

HostFromUriLike(uri) == IF uri.form \in {"url", "bare"} THEN uri.host ELSE NoHost

UriMatchesTarget(uri) == uri.raw \/ HostFromUriLike(uri) = Target

ItemMatchesUrl(item) ==
  \E i \in DOMAIN item.uris : UriMatchesTarget(item.uris[i])

\* The title is the host, or the URL that was asked for.
ItemMatchesTitle(item) == item.title = Target

\* Mutant: the first item that matches by URL or by title.
OnePasswordPickOnePass(items) ==
  SelectInSeq(items, LAMBDA i : ItemMatchesUrl(i) \/ ItemMatchesTitle(i))

\* The index of the item, 0 for none: by URL, and only then by title.
OnePasswordPick(items) ==
  IF \E i \in DOMAIN items : ItemMatchesUrl(items[i])
  THEN SelectInSeq(items, ItemMatchesUrl)
  ELSE SelectInSeq(items, ItemMatchesTitle)

BitwardenPick(items) == SelectInSeq(items, ItemMatchesUrl)

\* KeePassXC: the first line that is not blank and not a prompt.
KeepassxcPick(lines) == SelectInSeq(lines, LAMBDA l : l = "entry")

(***************************************************************************)
(* pass_pick_entry.  A row of the tree has a number of columns before the  *)
(* name, and a name.                                                       *)
(***************************************************************************)
Shorter(a, b) == IF a < b THEN a ELSE b

\* pass_line_depth: four columns a level, less the row's own marker.
PassLineDepth(row) ==
  IF row.columns \div 4 = 0 THEN 0 ELSE (row.columns \div 4) - 1

\* Mutant: the stack is not cut back to the depth of the row.
PassPathsNoTruncate(rows) ==
  LET path[i \in 0..Len(rows)] ==
        IF i = 0 THEN <<>> ELSE Append(path[i - 1], rows[i].name)
  IN [i \in 1..Len(rows) |-> path[i]]

\* stack.truncate(depth); stack.push(name)
PassPaths(rows) ==
  LET path[i \in 0..Len(rows)] ==
        IF i = 0 THEN <<>>
        ELSE Append(SubSeq(path[i - 1], 1,
                           Shorter(PassLineDepth(rows[i]), Len(path[i - 1]))),
                    rows[i].name)
  IN [i \in 1..Len(rows) |-> path[i]]

\* The rows whose successor is not deeper.
PassCandidates(rows) ==
  {i \in DOMAIN rows :
     \/ i = Len(rows)
     \/ PassLineDepth(rows[i + 1]) <= PassLineDepth(rows[i])}

\* The first candidate whose leaf is the host, else the first with a segment
\* that is, else the first that contains it; <<>> for none.
PassPickEntry(rows) ==
  LET paths == PassPaths(rows)
      Hits(Test(_)) == {i \in PassCandidates(rows) : Test(paths[i])}
      leafIs == Hits(LAMBDA c : c[Len(c)] = Target)
      segmentIs == Hits(LAMBDA c : \E i \in DOMAIN c : c[i] = Target)
      contains == Hits(LAMBDA c : \E i \in DOMAIN c : c[i] \in Similar)
      found == IF leafIs # {} THEN leafIs
               ELSE IF segmentIs # {} THEN segmentIs ELSE contains
  IN IF found = {} THEN <<>> ELSE paths[Min(found)]

\* `pass find` (external): the tree of the matching entries in name order,
\* with a row for each directory on the way; a directory comes before an
\* entry of the same name.
PassRow(path, i) ==
  [key |-> [j \in 1..i |-> 2 * path[j] + (IF j = Len(path) THEN 1 ELSE 0)],
   columns |-> 4 * i, name |-> path[i]]

RowBefore(a, b) ==
  \E i \in DOMAIN b.key :
    /\ \A j \in 1..(i - 1) : j \in DOMAIN a.key /\ a.key[j] = b.key[j]
    /\ i \in DOMAIN a.key => a.key[i] < b.key[i]

PassRows(store) == UNION {{PassRow(p, i) : i \in DOMAIN p} : p \in store}

PassFind(store) ==
  LET rows == PassRows(store)
      place(r) == Cardinality({q \in rows : q = r \/ RowBefore(q, r)})
  IN [i \in 1..Cardinality(rows) |-> CHOOSE r \in rows : place(r) = i]

--------------------------------------------------------------------------------
(***************************************************************************)
(* The lookup: load_1password_credential, load_bitwarden_credential,       *)
(* load_keepassxc_credential and load_pass_credential.                     *)
(***************************************************************************)
LookupInit ==
  /\ ChildInit
  /\ caller \in Callers
  /\ stage = "begin" /\ listing = <<>> /\ picked = {}
  /\ report = [done |-> 0, last |-> "none"] /\ result = "none"

End(status) == stage' = "end" /\ result' = status

\* Only KeePassXC is given its master password on stdin.
RunProvider == Start("provider", caller = "keepassxc")

BeginLookup ==
  /\ stage = "begin" /\ caller \in Providers
  /\ stage' = "first"
  /\ RunProvider
  /\ UNCHANGED <<caller, listing, picked, report, result>>

\* KeePassXC without an absolute database path or without the password.
Misconfigured ==
  /\ stage = "begin" /\ caller = "keepassxc"
  /\ End("InvalidConfig")
  /\ UNCHANGED <<caller, listing, picked, report>> /\ UNCHANGED childVars

\* The errors of the runner, and an exit status that is not zero.
StatusOfOutcome ==
  CASE outcome = "nonzero" -> "NoResults"
    [] outcome = "timeout" -> "CommunicationTimeout"
    [] outcome = "tooLarge" -> "ProtoInvalidResponse"
    [] outcome \in {"notSpawned", "failed"} -> "ProcessNotRunning"

RunFailed ==
  /\ stage \in {"first", "second"} /\ ph = "done" /\ outcome # "ok"
  /\ End(StatusOfOutcome)
  /\ UNCHANGED <<caller, listing, picked, report>> /\ UNCHANGED childVars

\* Output that is not what the code expects: invalid JSON, or fields that are
\* missing from the item.
BadOutput ==
  /\ ph = "done" /\ outcome = "ok"
  /\ \/ stage = "first" /\ caller \in {"1password", "bitwarden"}
     \/ stage = "second" /\ caller # "pass"
  /\ End("ProtoInvalidResponse")
  /\ UNCHANGED <<caller, listing, picked, report>> /\ UNCHANGED childVars

Listings == UNION {[1..n -> Items] : n \in 0..MaxItems}
KeepassxcLines == UNION {[1..n -> {"blank", "prompt", "entry"}] : n \in 0..2}
Stores == {s \in SUBSET Entries : Cardinality(s) <= MaxEntries}

\* The item is known: get it, or give up if there is none.
GetItem(found, what) ==
  IF found
  THEN /\ picked' = {what}
       /\ stage' = "second"
       /\ RunProvider
       /\ UNCHANGED <<caller, report, result>>
  ELSE /\ End("NoResults")
       /\ UNCHANGED <<caller, picked, report>> /\ UNCHANGED childVars

Listed == stage = "first" /\ ph = "done" /\ outcome = "ok"

Find1password ==
  /\ Listed /\ caller = "1password"
  /\ \E items \in Listings :
       LET k == OnePasswordPick(items) IN
         /\ listing' = items
         /\ GetItem(k # 0 /\ items[k].id, k)

FindKeepassxc ==
  /\ Listed /\ caller = "keepassxc"
  /\ \E lines \in KeepassxcLines :
       /\ listing' = lines
       /\ GetItem(KeepassxcPick(lines) # 0, KeepassxcPick(lines))

FindPass ==
  /\ Listed /\ caller = "pass"
  /\ \E store \in Stores :
       LET entry == PassPickEntry(PassFind(store)) IN
         /\ listing' = store
         /\ GetItem(entry # <<>>, entry)

\* Bitwarden lists the credentials themselves.
FindBitwarden ==
  /\ Listed /\ caller = "bitwarden"
  /\ \E items \in Listings :
       LET k == BitwardenPick(items) IN
         /\ listing' = items
         /\ IF k = 0 THEN End("NoResults") /\ UNCHANGED picked
                     ELSE End("approved") /\ picked' = {k}
  /\ UNCHANGED <<caller, report>> /\ UNCHANGED childVars

GotItem ==
  /\ stage = "second" /\ ph = "done" /\ outcome = "ok" /\ caller # "pass"
  /\ End("approved")
  /\ UNCHANGED <<caller, listing, picked, report>> /\ UNCHANGED childVars

PassOutputs == UNION {[1..n -> {"blank", "text"}] : n \in 0..2}

\* `pass show`: the first line is the password and must not be blank; what
\* the other lines say has defaults.
ShowPass ==
  /\ stage = "second" /\ ph = "done" /\ outcome = "ok" /\ caller = "pass"
  /\ \E lines \in PassOutputs :
       End(IF lines = <<>> THEN "ProtoInvalidResponse"
           ELSE IF lines[1] = "blank" THEN "ProtoInvalidResponse"
           ELSE "approved")
  /\ UNCHANGED <<caller, listing, picked, report>> /\ UNCHANGED childVars

--------------------------------------------------------------------------------
(***************************************************************************)
(* The checks: ci_diagnostic_checks (native_app.rs) and                    *)
(* run_environment_checks (doctor.rs), one after the other.  Most run a    *)
(* program.  One associated domain stands for the list: they are probed    *)
(* one by one, and any that is invalid fails the check.                    *)
(***************************************************************************)
Programs == <<"xcodebuild", "rust", "detect_secrets", "identity">>
CiChecks == Programs \o <<"ci_environment">>
EnvironmentChecks ==
  Programs \o <<"app_bundle", "managed_config", "runner_labels", "domains">>
Checks == IF caller = "diagnostics" THEN CiChecks ELSE EnvironmentChecks

Checking ==
  stage = "begin" /\ caller \in Doctors /\ report.done < Len(Checks)
Check == Checks[report.done + 1]
Reported(status) == report' = [done |-> report.done + 1, last |-> status]

BeginProbe ==
  /\ Checking
  /\ Check = "domains" \/ \E i \in DOMAIN Programs : Check = Programs[i]
  /\ stage' = "probe"
  /\ Start(IF caller = "diagnostics" THEN "bounded" ELSE "thread", FALSE)
  /\ UNCHANGED <<caller, listing, picked, report, result>>

\* What run_environment_checks leaves out: the checks that only make sense on
\* macOS are reported as skipped, domains are not reported if there are none.
SkipProbe ==
  /\ Checking /\ caller = "environment"
  /\ Check \in {"xcodebuild", "identity", "domains"}
  /\ Reported(IF Check = "domains" THEN "none" ELSE "SKIP")
  /\ UNCHANGED <<caller, stage, listing, picked, result>> /\ UNCHANGED childVars

\* The checks that look at files and the environment only.  Outside CI
\* check_runner_labels reports nothing.
CiRunnerEnvironment == {"OK", "WARN"}
RunnerLabels == {"none", "OK", "WARN"}
NativeAppBundle == {"OK", "WARN"}
ManagedConfig == {"OK", "SKIP"}

LookAround ==
  /\ Checking
  /\ \E status \in CASE Check = "ci_environment" -> CiRunnerEnvironment
                     [] Check = "runner_labels" -> RunnerLabels
                     [] Check = "app_bundle" -> NativeAppBundle
                     [] Check = "managed_config" -> ManagedConfig
                     [] OTHER -> {} :
       Reported(status)
  /\ UNCHANGED <<caller, stage, listing, picked, result>> /\ UNCHANGED childVars

\* A program that ran well and, for run_probe, said something.
Useful ==
  /\ outcome = "ok"
  /\ caller = "environment" => \E s \in Streams : got[s] > 0

\* What a program that is missing, fails or hangs is reported as.
Unusable(check) ==
  CASE caller = "diagnostics" -> IF check = "identity" THEN "WARN" ELSE "FAIL"
    [] caller = "environment" ->
         IF check = "detect_secrets" THEN "WARN" ELSE "FAIL"

\* The program's output has a Developer ID in it, or not.
SigningIdentity == {"OK", "WARN"}

\* curl's output, headers and body: a status of 2xx, a redirect, the media
\* type, and a list of apps that is not empty.
CurlResponses == [success : BOOLEAN, redirect : BOOLEAN, json : BOOLEAN,
                  apps : BOOLEAN]
AasaResponseIsValid(r) == r.success /\ ~r.redirect /\ r.json /\ r.apps

AssociatedDomains ==
  {IF AasaResponseIsValid(r) THEN "OK" ELSE "FAIL" : r \in CurlResponses}

EndProbe ==
  /\ stage = "probe" /\ ph = "done"
  /\ \E status \in IF ~Useful THEN {Unusable(Check)}
                   ELSE CASE Check = "identity" -> SigningIdentity
                          [] Check = "domains" -> AssociatedDomains
                          [] OTHER -> {"OK"} :
       Reported(status)
  /\ stage' = "begin"
  /\ UNCHANGED <<caller, listing, picked, result>> /\ UNCHANGED childVars

EndProbes ==
  /\ stage = "begin" /\ caller \in Doctors /\ report.done = Len(Checks)
  /\ End("reported")
  /\ UNCHANGED <<caller, listing, picked, report>> /\ UNCHANGED childVars

LookupStep ==
  \/ BeginLookup \/ Misconfigured \/ RunFailed \/ BadOutput
  \/ Find1password \/ FindKeepassxc \/ FindPass \/ FindBitwarden
  \/ GotItem \/ ShowPass
  \/ BeginProbe \/ SkipProbe \/ LookAround \/ EndProbe \/ EndProbes

--------------------------------------------------------------------------------
(***************************************************************************)
(* Properties.                                                             *)
(***************************************************************************)

\* How well an item fits what was asked for: by URL, by title, not at all.
Fit(item) ==
  IF ItemMatchesUrl(item) THEN 0
  ELSE IF caller = "1password" /\ ItemMatchesTitle(item) THEN 1 ELSE 2

\* The item of 1Password or Bitwarden whose credential is released fits the
\* host, and no other item of the listing fits better: an item with the
\* host's name as its title does not win over one with its URL, whatever
\* the order of the listing.
BestItemReleased ==
  result = "approved" /\ caller \in {"1password", "bitwarden"} =>
    \A k \in picked :
      /\ Fit(listing[k]) < 2
      /\ \A j \in DOMAIN listing :
           /\ Fit(listing[k]) <= Fit(listing[j])
           /\ j < k => Fit(listing[k]) < Fit(listing[j])

\* The path pass_pick_entry puts together from the rows of the tree is an
\* entry of the store that contains the host (never a directory, never a
\* path of segments from two branches), and it ends in the host if any
\* matching entry does.
PickedEntryExists ==
  caller = "pass" =>
    \A entry \in picked :
      /\ entry \in listing
      /\ \E i \in DOMAIN entry : entry[i] \in Similar
      /\ (\E e \in listing : e[Len(e)] = Target) => entry[Len(entry)] = Target

\* The command ends, however the programs it runs behave, unless something
\* a program has forked outlives it and holds on to its output for ever
\* (the readers are joined without a deadline), or tar hangs (nothing bounds
\* it, write_diagnostic_bundle).
CommandEnds ==
  stage # "end" ~>
    (stage = "end" \/ [](procs \cap Kin # {}) \/ [](stage = "tar"))
================================================================================
