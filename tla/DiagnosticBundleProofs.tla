------------------------- MODULE DiagnosticBundleProofs -------------------------
(***************************************************************************)
(* Proofs about the commands that run other programs: the bounded child,   *)
(* the item or entry that is picked, and the diagnostic bundle.            *)
(***************************************************************************)
EXTENDS DiagnosticBundle, FiniteSetTheorems, SequenceTheorems,
        WellFoundedInduction, TLAPS

--------------------------------------------------------------------------------
(***************************************************************************)
(* The child.  What a reader that has ended has seen decides whether the   *)
(* output may be accepted: it stopped at its limit, above the cap, or      *)
(* nobody was left to write.                                               *)
(***************************************************************************)
Styles == {"bounded", "provider", "thread"}
Phases == {"idle", "spawn", "feed", "poll", "join", "drain", "done"}
Outcomes == {"notSpawned", "failed", "timeout", "tooLarge", "ok", "nonzero"}

ChildTypes ==
  /\ style \in Styles /\ ph \in Phases
  /\ outcome \in Outcomes \cup {"none"}
  /\ procs \subseteq {"child", "kin", "far"}
  /\ wrote \in [Streams -> Nat] /\ got \in [Streams -> Nat]
  /\ reader \in [Streams -> {"reading", "ended"}]

\* The caller's phase, and what it says about the outcome, the readers and
\* the processes.
ChildPhases ==
  /\ ph = "done" <=> outcome # "none"
  /\ ph \in {"idle", "spawn", "feed"} =>
       \A s \in Streams : reader[s] = "reading"
  /\ ph = "drain" => reaped /\ procs \subseteq {"far"}

\* What a reader that has ended has seen.
EndedReaders ==
  \A s \in Streams : reader[s] = "ended" =>
    \/ style # "thread" /\ got[s] = Cap + 1
    \/ /\ procs = {} /\ got[s] = wrote[s]
       /\ style = "thread" \/ got[s] <= Cap

ChildInv ==
  ChildTypes /\ ChildPhases /\ EndedReaders /\ GroupKilled /\ CompleteOutput

USE CapAssumption

\* No call has been made yet.
LEMMA ChildInitInv == ChildInit => ChildInv
BY DEF ChildInit, ChildInv, ChildTypes, ChildPhases, EndedReaders, GroupKilled,
       CompleteOutput, Styles, Phases, Outcomes, Streams

\* A new call begins from a clean state.
LEMMA StartInv ==
  ASSUME NEW how \in Styles, NEW withStdin, Start(how, withStdin)
  PROVE  ChildInv'
BY DEF Start, ChildInv, ChildTypes, ChildPhases, EndedReaders, GroupKilled,
       CompleteOutput, Styles, Phases, Outcomes, Streams

\* Every step of the caller, its readers and the child keeps the invariant.
LEMMA ChildStepInv ==
  ASSUME ChildInv, ChildStep
  PROVE  ChildInv'
<1> USE DEF ChildInv, ChildTypes, ChildPhases, EndedReaders, GroupKilled,
            CompleteOutput, Styles, Phases, Outcomes
<1> Streams # {}
  BY DEF Streams
<1>1. CASE SpawnFails
  BY <1>1 DEF SpawnFails, Return
<1>2. CASE Spawn
  BY <1>2 DEF Spawn
<1>3. CASE Feed
  BY <1>3 DEF Feed, Return
<1>4. CASE PollExited
  BY <1>4 DEF PollExited
<1>5. CASE PollTimeout
  BY <1>5 DEF PollTimeout, Return
<1>6. CASE Drained
  BY <1>6 DEF Drained, Return
<1>7. CASE Joined
  <2>1. ChildTypes' /\ ChildPhases' /\ EndedReaders' /\ GroupKilled'
    BY <1>7 DEF Joined, Return
  <2>2. CompleteOutput'
    <3> SUFFICES ASSUME \A s \in Streams : ~ (got[s] > Cap)
                 PROVE  CompleteOutput'
      BY <1>7 DEF Joined, Return
    <3>1. \A s \in Streams : procs = {} /\ got[s] = wrote[s] /\ got[s] <= Cap
      BY <1>7 DEF Joined, ReadersEnded
    <3>2. got = wrote
      BY <3>1
    <3> QED
      BY <1>7, <3>1, <3>2 DEF Joined
  <2> QED
    BY <2>1, <2>2
<1>8. CASE ProbeEnds
  <2>1. ChildTypes' /\ ChildPhases' /\ EndedReaders' /\ GroupKilled'
    BY <1>8 DEF ProbeEnds, Return
  <2>2. CompleteOutput'
    <3> SUFFICES ASSUME ReadersEnded
                 PROVE  CompleteOutput'
      BY <1>8 DEF ProbeEnds, Return
    <3>1. \A s \in Streams : procs = {} /\ got[s] = wrote[s]
      BY <1>8 DEF ProbeEnds, ReadersEnded
    <3>2. got = wrote
      BY <3>1
    <3> QED
      BY <1>8, <3>1, <3>2 DEF ProbeEnds
  <2> QED
    BY <2>1, <2>2
<1>9. ASSUME NEW s \in Streams, ReaderEnds(s)
      PROVE  ChildInv'
  BY <1>9 DEF ReaderEnds, ReaderLimit
<1>10. CASE PollFails
  BY <1>10 DEF PollFails, Return
<1>11. CASE TimePasses
  BY <1>11 DEF TimePasses
<1>12. CASE Forks
  BY <1>12 DEF Forks, Kin, Running
<1>13. CASE Writes
  BY <1>13 DEF Writes, Running
<1>14. CASE Exits
  BY <1>14 DEF Exits, Running
<1> QED
  BY <1>1, <1>2, <1>3, <1>4, <1>5, <1>6, <1>7, <1>8, <1>9, <1>10, <1>11, <1>12,
     <1>13, <1>14 DEF ChildStep, CallerStep

\* A lookup, a check or the bundle leaves the child alone or starts another.
LEMMA CallersOnChild ==
  ASSUME LookupStep \/ BundleStep \/ Tar
  PROVE  \/ UNCHANGED childVars
         \/ \E how \in Styles : \E withStdin : Start(how, withStdin)
<1> USE DEF Styles
<1>1. CASE BeginLookup
  BY <1>1 DEF BeginLookup, RunProvider
<1>2. CASE Find1password \/ FindKeepassxc \/ FindPass
  BY <1>2 DEF Find1password, FindKeepassxc, FindPass, GetItem, RunProvider
<1>3. CASE BeginProbe
  BY <1>3 DEF BeginProbe
<1>4. CASE BeginOsProbe
  BY <1>4 DEF BeginOsProbe
<1>5. CASE Misconfigured \/ RunFailed \/ BadOutput \/ FindBitwarden \/ GotItem
             \/ ShowPass \/ SkipProbe \/ LookAround \/ EndProbe \/ EndProbes
  BY <1>5 DEF Misconfigured, RunFailed, BadOutput, FindBitwarden, GotItem,
              ShowPass, SkipProbe, LookAround, EndProbe, EndProbes
<1>6. CASE BeginBundle \/ WriteGiven \/ EndOsProbe \/ WriteOsInfo \/ WriteListing
             \/ WriteManifest \/ ChmodArchive \/ Tar
  BY <1>6 DEF BeginBundle, WriteGiven, EndOsProbe, WriteOsInfo, WriteListing,
              WriteManifest, ChmodArchive, Tar
<1> QED
  BY <1>1, <1>2, <1>3, <1>4, <1>5, <1>6 DEF LookupStep, BundleStep

\* Nothing but the child's own variables matters to its invariant.
LEMMA ChildStutter ==
  ASSUME ChildInv, UNCHANGED childVars
  PROVE  ChildInv'
BY DEF childVars, ChildInv, ChildTypes, ChildPhases, EndedReaders, GroupKilled,
       CompleteOutput

\* The invariant holds in every state of a command.
LEMMA ChildInvariant == DoctorSpec => []ChildInv
<1>1. BundleInit => ChildInv
  BY ChildInitInv DEF BundleInit, LookupInit
<1>2. ChildInv /\ [DoctorNext]_doctorVars => ChildInv'
  <2> SUFFICES ASSUME ChildInv, [DoctorNext]_doctorVars
               PROVE  ChildInv'
    OBVIOUS
  <2>1. CASE LookupStep \/ BundleStep \/ Tar
    BY <2>1, CallersOnChild, StartInv, ChildStutter
  <2>2. CASE ChildStep
    BY <2>2, ChildStepInv
  <2>3. CASE UNCHANGED doctorVars
    BY <2>3, ChildStutter DEF doctorVars, providerVars
  <2> QED
    BY <2>1, <2>2, <2>3 DEF DoctorNext
<1> QED
  BY <1>1, <1>2, PTL DEF DoctorSpec

\* Whatever program is run, in whichever way: a timeout that is reported
\* leaves nothing of the process group running and no zombie
\* (run_bounded_command, run_external_provider_command_with_stdin).
THEOREM GroupKilledCorrect == DoctorSpec => []GroupKilled
<1>1. ChildInv => GroupKilled
  BY DEF ChildInv
<1> QED
  BY <1>1, ChildInvariant, PTL

\* For every cap: output that is accepted is all that was written, and never
\* a prefix cut at the cap (the readers' take(max_bytes + 1)).
THEOREM CompleteOutputCorrect == DoctorSpec => []CompleteOutput
<1>1. ChildInv => CompleteOutput
  BY DEF ChildInv
<1> QED
  BY <1>1, ChildInvariant, PTL

--------------------------------------------------------------------------------
(***************************************************************************)
(* The bundle.  How far it has come says which files have been audited,    *)
(* and the staging directory holds exactly those until the manifest is     *)
(* added to them.                                                          *)
(***************************************************************************)
Names(files) == {f.name : f \in files}

\* Outside of the skipped fields: no string that is a secret wherever it is,
\* and no random one in free text.
Clean(payload) ==
  \A s \in payload :
    \/ s.field = "skipped"
    \/ s.shape # "hard" /\ (s.field = "text" => s.shape # "random")

AllClean(files) == \A f \in files : Clean(f.payload)

\* The files that have been audited at a stage.
Progress(st) ==
  (IF st \in {"environment", "probes", "os", "listing", "manifest", "tar", "chmod"}
   THEN {"doctor"} ELSE {})
  \cup
  (IF st \in {"probes", "os", "listing", "manifest", "tar", "chmod"}
   THEN {"environment"} ELSE {})
  \cup
  (IF st \in {"listing", "manifest", "tar", "chmod"} THEN {"os"} ELSE {})
  \cup
  (IF st \in {"manifest", "tar", "chmod"} THEN {"listing"} ELSE {})

Collecting ==
  {"begin", "doctor", "environment", "probes", "os", "listing", "manifest"}

\* The other commands have nothing to do with the bundle.
NoBundle ==
  /\ staged = {} /\ archive = {} /\ audited = {}
  /\ ~fresh /\ result # "bundled"

InBundle ==
  /\ stage \in Collecting \cup {"tar", "chmod", "end"}
  /\ stage # "end" => audited = Progress(stage) /\ result = "none"
  /\ stage \in Collecting => Names(staged) = audited /\ ~fresh
  /\ stage = "tar" => Names(staged) = Files \cup {"manifest"}
  /\ stage = "chmod" => Names(archive) = Files \cup {"manifest"}

BundleInv ==
  /\ IF caller = "bundle" THEN InBundle ELSE NoBundle
  /\ fresh => audited = Files
  /\ AllClean(staged) /\ AllClean(archive)
  /\ result = "bundled" =>
       Names(archive) = Files \cup {"manifest"} /\ private

\* What passes the audit is clean in that sense.
LEMMA AuditClean ==
  ASSUME NEW payload, AuditRedaction(payload)
  PROVE  Clean(payload)
BY DEF AuditRedaction, LooksSecretLike, Clean

\* A file more in a set of files.
LEMMA AddFile ==
  ASSUME NEW files, NEW name, NEW payload, AllClean(files), Clean(payload)
  PROVE  /\ AllClean(files \cup {File(name, payload)})
         /\ Names(files \cup {File(name, payload)}) = Names(files) \cup {name}
<1>1. File(name, payload).name = name /\ File(name, payload).payload = payload
  BY DEF File
<1> HIDE DEF File
<1>2. AllClean(files \cup {File(name, payload)})
  BY <1>1 DEF AllClean
<1>3. Names(files \cup {File(name, payload)}) = Names(files) \cup {name}
  BY <1>1 DEF Names
<1> QED
  BY <1>2, <1>3

\* A command that is given up leaves at most what it has staged.
LEMMA AbortInv ==
  ASSUME BundleInv, caller = "bundle", caller' = caller, stage # "end",
         NEW status, status # "bundled", Abort(status)
  PROVE  BundleInv'
BY DEF BundleInv, InBundle, Abort, End, DropStaging, AllClean, Collecting

\* write_json_file takes the bundle from one stage to the next.
LEMMA WriteJsonFileInv ==
  ASSUME BundleInv, caller = "bundle", caller' = caller,
         NEW name, NEW payload, NEW next \in Collecting,
         stage \in Collecting, Progress(next) = Progress(stage) \cup {name},
         WriteJsonFile(name, payload, next)
  PROVE  BundleInv'
<1>1. CASE Abort("InvalidConfig") \/ Abort("ProcessNotRunning")
  BY <1>1, AbortInv DEF Collecting
<1>2. CASE /\ AuditRedaction(payload)
           /\ audited' = audited \cup {name}
           /\ staged' = staged \cup {File(name, payload)}
           /\ stage' = next
           /\ UNCHANGED <<result, archive, fresh, private>>
  <2>1. AllClean(staged') /\ Names(staged') = Names(staged) \cup {name}
    BY <1>2, AuditClean, AddFile DEF BundleInv
  <2> QED
    BY <1>2, <2>1 DEF BundleInv, InBundle, Collecting
<1> QED
  BY <1>1, <1>2 DEF WriteJsonFile

\* Every step of the bundle keeps the invariant.
LEMMA BundleStepInv ==
  ASSUME BundleInv, BundleStep \/ Tar
  PROVE  BundleInv'
<1>1. caller = "bundle" /\ caller' = caller /\ stage # "end"
  BY DEF BundleStep, Tar, BeginBundle, WriteGiven, BeginOsProbe, EndOsProbe,
         WriteOsInfo, WriteListing, WriteManifest, ChmodArchive
<1>2. CASE BeginBundle
  <2>1. CASE \E status \in {"InvalidParam", "ProcessNotRunning"} : Abort(status)
    BY <1>1, <2>1, AbortInv
  <2>2. CASE stage' = "doctor" /\ UNCHANGED result /\ UNCHANGED bundleVars
    BY <1>1, <1>2, <2>2
    DEF BeginBundle, bundleVars, BundleInv, InBundle, Collecting, Progress
  <2> QED
    BY <1>2, <2>1, <2>2 DEF BeginBundle
<1>3. CASE WriteGiven
  <2>1. PICK payload \in Payloads :
          \/ stage = "doctor" /\ WriteJsonFile("doctor", payload, "environment")
          \/ /\ stage = "environment"
             /\ WriteJsonFile("environment", payload, "probes")
    BY <1>3 DEF WriteGiven
  <2> QED
    BY <1>1, <2>1, WriteJsonFileInv DEF Collecting, Progress
<1>4. CASE BeginOsProbe
  BY <1>1, <1>4
  DEF BeginOsProbe, bundleVars, BundleInv, InBundle, Collecting, Progress
<1>5. CASE EndOsProbe
  BY <1>1, <1>5
  DEF EndOsProbe, bundleVars, BundleInv, InBundle, Collecting, Progress
<1>6. CASE WriteOsInfo
  <2>1. PICK payload \in Payloads : WriteJsonFile("os", payload, "listing")
    BY <1>6 DEF WriteOsInfo
  <2> QED
    BY <1>1, <1>6, <2>1, WriteJsonFileInv DEF WriteOsInfo, Collecting, Progress
<1>7. CASE WriteListing
  <2>1. PICK payload \in Payloads : WriteJsonFile("listing", payload, "manifest")
    BY <1>7 DEF WriteListing
  <2> QED
    BY <1>1, <1>7, <2>1, WriteJsonFileInv DEF WriteListing, Collecting, Progress
<1>8. CASE WriteManifest
  <2>1. CASE Abort("ProcessNotRunning")
    BY <1>1, <2>1, AbortInv
  <2>2. CASE ~ Abort("ProcessNotRunning")
    <3>1. Clean({})
      BY DEF Clean
    <3>2. staged' = staged \cup {File("manifest", {})}
      BY <1>8, <2>2 DEF WriteManifest
    <3>3. AllClean(staged') /\ Names(staged') = Names(staged) \cup {"manifest"}
      BY <3>1, <3>2, AddFile DEF BundleInv
    <3>4. audited = Files /\ Names(staged) = Files
      BY <1>1, <1>8
      DEF WriteManifest, BundleInv, InBundle, Collecting, Progress, Files
    <3>5. Progress("tar") = Files
      BY DEF Progress, Files
    <3> QED
      BY <1>1, <1>8, <2>2, <3>3, <3>4, <3>5
      DEF WriteManifest, BundleInv, InBundle, Collecting
  <2> QED
    BY <2>1, <2>2
<1>9. CASE ChmodArchive
  <2>1. CASE Abort("InvalidConfig")
    BY <1>1, <2>1, AbortInv
  <2>2. CASE ~ Abort("InvalidConfig")
    BY <1>1, <1>9, <2>2
    DEF ChmodArchive, BundleInv, InBundle, End, DropStaging, AllClean, Collecting
  <2> QED
    BY <2>1, <2>2
<1>10. CASE Tar
  <2>1. AllClean(staged') /\ AllClean(archive')
    BY <1>10 DEF Tar, DropStaging, AllClean, BundleInv
  <2>2. Progress("chmod") = Progress("tar")
    BY DEF Progress
  <2> QED
    BY <1>1, <1>10, <2>1, <2>2 DEF Tar, BundleInv, InBundle, End, Collecting
<1> QED
  BY <1>2, <1>3, <1>4, <1>5, <1>6, <1>7, <1>8, <1>9, <1>10 DEF BundleStep

\* A lookup and the checks are commands of their own, and never report a
\* bundle.
LEMMA LookupOnBundle ==
  ASSUME ChildInv, BundleInv, LookupStep, UNCHANGED bundleVars
  PROVE  BundleInv'
<1>1. caller' = caller
  BY DEF LookupStep, BeginLookup, Misconfigured, RunFailed, BadOutput,
         Find1password, FindKeepassxc, FindPass, GetItem, FindBitwarden, GotItem,
         ShowPass, BeginProbe, SkipProbe, LookAround, EndProbe, EndProbes
<1>2. caller # "bundle"
  BY DEF LookupStep, BeginLookup, Misconfigured, RunFailed, BadOutput,
         Find1password, FindKeepassxc, FindPass, Listed, FindBitwarden, GotItem,
         ShowPass, BeginProbe, Checking, SkipProbe, LookAround, EndProbe,
         EndProbes, Providers, Doctors, BundleInv, InBundle, Collecting
<1>3. result' # "bundled"
  <2>1. CASE RunFailed
    BY <2>1 DEF RunFailed, End, StatusOfOutcome, ChildInv, ChildTypes,
                ChildPhases, Outcomes
  <2>2. CASE ShowPass
    BY <2>2 DEF ShowPass, End
  <2>3. CASE ~ RunFailed /\ ~ ShowPass
    BY <1>2, <2>3
    DEF LookupStep, BeginLookup, Misconfigured, BadOutput, Find1password,
        FindKeepassxc, FindPass, GetItem, FindBitwarden, GotItem, BeginProbe,
        SkipProbe, LookAround, EndProbe, EndProbes, End, BundleInv, NoBundle
  <2> QED
    BY <2>1, <2>2, <2>3
<1> QED
  BY <1>1, <1>2, <1>3 DEF bundleVars, BundleInv, NoBundle

\* The invariant holds in every state of a command.
LEMMA BundleInvariant == DoctorSpec => []BundleInv
<1>1. BundleInit => BundleInv
  BY DEF BundleInit, LookupInit, BundleInv, InBundle, NoBundle, Collecting,
         Progress, Names, AllClean
<1>2. ChildInv /\ BundleInv /\ [DoctorNext]_doctorVars => BundleInv'
  <2> SUFFICES ASSUME ChildInv, BundleInv, [DoctorNext]_doctorVars
               PROVE  BundleInv'
    OBVIOUS
  <2>1. CASE LookupStep /\ UNCHANGED bundleVars
    BY <2>1, LookupOnBundle
  <2>2. CASE BundleStep \/ Tar
    BY <2>2, BundleStepInv
  <2>3. CASE UNCHANGED lookupVars /\ UNCHANGED bundleVars
    BY <2>3 DEF lookupVars, bundleVars, BundleInv, InBundle, NoBundle
  <2> QED
    BY <2>1, <2>2, <2>3 DEF DoctorNext, doctorVars, providerVars
<1> QED
  BY <1>1, <1>2, ChildInvariant, PTL DEF DoctorSpec

\* Whatever the payloads contain: what an earlier run left at the output path
\* is touched only after every file has passed audit_redaction; in the fields
\* that walk_strings visits nothing staged or archived is a hard secret, or a
\* random string in free text; and a bundle that is reported is complete and
\* private.
THEOREM BundleFailsClosedCorrect == DoctorSpec => []BundleFailsClosed
<1>1. BundleInv => BundleFailsClosed
  BY DEF BundleInv, BundleFailsClosed, AllClean, Clean, Names
<1> QED
  BY <1>1, BundleInvariant, PTL

--------------------------------------------------------------------------------
(***************************************************************************)
(* The item that is released.                                              *)
(***************************************************************************)
Less == {p \in Nat \X Nat : p[1] < p[2]}

\* Min finds the least element of a set of numbers: the order of the naturals
\* is well-founded.
LEMMA LeastElement ==
  ASSUME NEW I \in SUBSET Nat, I # {}
  PROVE  /\ Min(I) \in I
         /\ \A y \in I : Min(I) <= y
<1>1. IsWellFoundedOn(Less, Nat)
  BY NatLessThanWellFounded, Zenon DEF OpToRel, Less
<1>2. \E x \in I : \A y \in I : ~ (<<y, x>> \in Less)
  BY <1>1, WFMin
<1>3. \A a, b \in Nat : a < b => <<a, b>> \in Less
  BY DEF Less
<1>4. PICK x \in I : \A y \in I : ~ (<<y, x>> \in Less)
  BY <1>2
<1>5. \A y \in I : x <= y
  <2> TAKE y \in I
  <2>1. ~ (<<y, x>> \in Less)
    BY <1>4
  <2>2. x \in Nat /\ y \in Nat
    OBVIOUS
  <2>3. ~ (y < x)
    BY <2>1, <2>2, <1>3, Zenon
  <2> QED
    BY <2>2, <2>3
<1> QED
  BY <1>5 DEF Min

\* k is the first index of hits, 0 if there is none.
FirstOf(k, hits) ==
  \/ hits = {} /\ k = 0
  \/ k \in hits /\ \A j \in hits : k <= j

ByUrl(items) == {i \in DOMAIN items : ItemMatchesUrl(items[i])}
ByTitle(items) == {i \in DOMAIN items : ItemMatchesTitle(items[i])}

\* A listing is a sequence.
LEMMA ListingDomain ==
  ASSUME NEW items \in Listings
  PROVE  DOMAIN items = 1..Len(items) /\ DOMAIN items \subseteq Nat \ {0}
BY DEF Listings

\* What SelectInSeq picks by URL, and by title.
LEMMA SelectByUrl ==
  ASSUME NEW items \in Listings
  PROVE  FirstOf(SelectInSeq(items, ItemMatchesUrl), ByUrl(items))
<1>1. SelectInSeq(items, ItemMatchesUrl)
        = IF ByUrl(items) # {} THEN Min(ByUrl(items)) ELSE 0
  BY ListingDomain DEF SelectInSeq, ByUrl
<1>2. ByUrl(items) \in SUBSET Nat
  BY ListingDomain DEF ByUrl
<1> QED
  BY <1>1, <1>2, LeastElement DEF FirstOf

\* The same for the items that match by title.
LEMMA SelectByTitle ==
  ASSUME NEW items \in Listings
  PROVE  FirstOf(SelectInSeq(items, ItemMatchesTitle), ByTitle(items))
<1>1. SelectInSeq(items, ItemMatchesTitle)
        = IF ByTitle(items) # {} THEN Min(ByTitle(items)) ELSE 0
  BY ListingDomain DEF SelectInSeq, ByTitle
<1>2. ByTitle(items) \in SUBSET Nat
  BY ListingDomain DEF ByTitle
<1> QED
  BY <1>1, <1>2, LeastElement DEF FirstOf

\* The item at k fits, and none of the listing fits better.
Best(items, k) ==
  /\ Fit(items[k]) < 2
  /\ \A j \in DOMAIN items :
       /\ Fit(items[k]) <= Fit(items[j])
       /\ j < k => Fit(items[k]) < Fit(items[j])

\* BitwardenPick: the first item that matches by URL is the best.
LEMMA BitwardenPickBest ==
  ASSUME caller = "bitwarden", NEW items \in Listings, BitwardenPick(items) # 0
  PROVE  Best(items, BitwardenPick(items))
<1> DEFINE k == BitwardenPick(items)
<1>1. FirstOf(k, ByUrl(items))
  BY SelectByUrl DEF BitwardenPick
<1>2. k \in ByUrl(items) /\ \A j \in ByUrl(items) : k <= j
  BY <1>1 DEF FirstOf
<1> HIDE DEF k
<1>3. \A j \in DOMAIN items : j \in Nat /\ k \in Nat
  BY <1>2, ListingDomain DEF ByUrl
<1> QED
  BY <1>2, <1>3 DEF Best, Fit, ByUrl, k

\* OnePasswordPick: a match by URL before one by title, the first of each.
LEMMA OnePasswordPickBest ==
  ASSUME caller = "1password", NEW items \in Listings,
         OnePasswordPick(items) # 0
  PROVE  Best(items, OnePasswordPick(items))
<1> DEFINE k == OnePasswordPick(items)
<1>1. CASE ByUrl(items) # {}
  <2>1. k = SelectInSeq(items, ItemMatchesUrl)
    BY <1>1 DEF OnePasswordPick, ByUrl
  <2>2. k \in ByUrl(items) /\ \A j \in ByUrl(items) : k <= j
    BY <1>1, <2>1, SelectByUrl DEF FirstOf
  <2> HIDE DEF k
  <2>3. \A j \in DOMAIN items : j \in Nat /\ k \in Nat
    BY <2>2, ListingDomain DEF ByUrl
  <2> QED
    BY <2>2, <2>3 DEF Best, Fit, ByUrl, k
<1>2. CASE ByUrl(items) = {}
  <2>1. k = SelectInSeq(items, ItemMatchesTitle)
    BY <1>2 DEF OnePasswordPick, ByUrl
  <2>2. k \in ByTitle(items) /\ \A j \in ByTitle(items) : k <= j
    BY <2>1, SelectByTitle DEF FirstOf
  <2> HIDE DEF k
  <2>3. \A j \in DOMAIN items : j \in Nat /\ k \in Nat
    BY <2>2, ListingDomain DEF ByTitle
  <2> QED
    BY <1>2, <2>2, <2>3 DEF Best, Fit, ByUrl, ByTitle, k
<1> QED
  BY <1>1, <1>2

\* What is picked is the best of what was listed, also while the item is
\* still being fetched and if it never is.
PickInv ==
  caller \in {"1password", "bitwarden"} =>
    /\ stage \in {"begin", "first", "second", "end"}
    /\ stage \in {"begin", "first"} => picked = {}
    /\ \A k \in picked : Best(listing, k)

\* A step of a lookup keeps the invariant.
LEMMA LookupOnPick ==
  ASSUME PickInv, LookupStep
  PROVE  PickInv'
<1>1. SUFFICES ASSUME caller \in {"1password", "bitwarden"}, caller' = caller
               PROVE  PickInv'
  BY DEF PickInv, LookupStep, BeginLookup, Misconfigured, RunFailed, BadOutput,
         Find1password, FindKeepassxc, FindPass, GetItem, FindBitwarden, GotItem,
         ShowPass, BeginProbe, SkipProbe, LookAround, EndProbe, EndProbes
<1>2. CASE Find1password
  <2>1. PICK items \in Listings :
          /\ listing' = items
          /\ GetItem(OnePasswordPick(items) # 0 /\ items[OnePasswordPick(items)].id,
                     OnePasswordPick(items))
    BY <1>2 DEF Find1password
  <2>2. picked = {} /\ caller = "1password"
    BY <1>2 DEF Find1password, Listed, PickInv
  <2>3. CASE picked' = {}
    BY <1>1, <2>1, <2>3 DEF GetItem, End, PickInv
  <2>4. CASE picked' # {}
    <3>1. /\ OnePasswordPick(items) # 0
          /\ picked' = {OnePasswordPick(items)}
          /\ stage' = "second"
      BY <2>1, <2>2, <2>4 DEF GetItem
    <3>2. Best(items, OnePasswordPick(items))
      BY <2>2, <3>1, OnePasswordPickBest
    <3>3. Best(items, OnePasswordPick(items))'
      BY <1>1, <3>2 DEF Best, Fit
    <3> QED
      BY <2>1, <3>1, <3>3 DEF PickInv
  <2> QED
    BY <2>3, <2>4
<1>3. CASE FindBitwarden
  <2>1. PICK items \in Listings :
          /\ listing' = items
          /\ IF BitwardenPick(items) = 0
             THEN End("NoResults") /\ UNCHANGED picked
             ELSE End("approved") /\ picked' = {BitwardenPick(items)}
    BY <1>3 DEF FindBitwarden
  <2>2. picked = {} /\ caller = "bitwarden" /\ stage' = "end"
    BY <1>3, <2>1 DEF FindBitwarden, Listed, PickInv, End
  <2>3. CASE BitwardenPick(items) = 0
    BY <2>1, <2>2, <2>3 DEF PickInv
  <2>4. CASE BitwardenPick(items) # 0
    <3>1. Best(items, BitwardenPick(items))
      BY <2>2, <2>4, BitwardenPickBest
    <3>2. Best(items, BitwardenPick(items))'
      BY <1>1, <3>1 DEF Best, Fit
    <3> QED
      BY <2>1, <2>2, <2>4, <3>2 DEF PickInv
  <2> QED
    BY <2>3, <2>4
<1>4. CASE BeginLookup \/ RunFailed \/ BadOutput \/ GotItem
  <2>1. /\ UNCHANGED <<listing, picked>>
        /\ \/ stage' = "end"
           \/ stage' = "first" /\ stage = "begin"
    BY <1>4 DEF BeginLookup, RunFailed, BadOutput, GotItem, End
  <2>2. \A k \in picked : Best(listing, k)
    BY <1>1 DEF PickInv
  <2>3. (\A k \in picked : Best(listing, k))'
    BY <1>1, <2>1, <2>2 DEF Best, Fit
  <2> QED
    BY <1>1, <2>1, <2>3 DEF PickInv
<1>5. ~ (Misconfigured \/ FindKeepassxc \/ FindPass \/ ShowPass \/ BeginProbe
           \/ SkipProbe \/ LookAround \/ EndProbe \/ EndProbes)
  BY <1>1 DEF PickInv, Misconfigured, FindKeepassxc, FindPass, ShowPass,
              BeginProbe, SkipProbe, LookAround, Checking, EndProbe, EndProbes,
              Doctors
<1> QED
  BY <1>2, <1>3, <1>4, <1>5 DEF LookupStep

\* The invariant holds in every state of a command.
LEMMA PickInvariant == DoctorSpec => []PickInv
<1>1. BundleInit => PickInv
  BY DEF BundleInit, LookupInit, PickInv
<1>2. PickInv /\ [DoctorNext]_doctorVars => PickInv'
  <2> SUFFICES ASSUME PickInv, [DoctorNext]_doctorVars
               PROVE  PickInv'
    OBVIOUS
  <2>1. CASE LookupStep
    BY <2>1, LookupOnPick
  <2>2. CASE BundleStep \/ Tar
    <3>1. caller = "bundle" /\ caller' = "bundle"
      BY <2>2 DEF BundleStep, Tar, BeginBundle, WriteGiven, BeginOsProbe,
                  EndOsProbe, WriteOsInfo, WriteListing, WriteManifest,
                  ChmodArchive
    <3> QED
      BY <3>1 DEF PickInv
  <2>3. CASE UNCHANGED lookupVars
    BY <2>3 DEF lookupVars, PickInv, Best, Fit
  <2> QED
    BY <2>1, <2>2, <2>3 DEF DoctorNext, doctorVars, providerVars
<1> QED
  BY <1>1, <1>2, PTL DEF DoctorSpec

\* For every listing of 1Password or Bitwarden, of whatever items: the item
\* whose credential is released fits the host, no other fits better, and it is
\* the first that fits so well.
THEOREM BestItemCorrect == DoctorSpec => []BestItemReleased
<1>1. PickInv => BestItemReleased
  BY DEF PickInv, BestItemReleased, Best
<1> QED
  BY <1>1, PickInvariant, PTL

--------------------------------------------------------------------------------
(***************************************************************************)
(* The entry of pass that is picked: the rows of a tree, their order.      *)
(***************************************************************************)

\* A row with n names on its path.
IsRow(r, n) ==
  /\ n \in Nat \ {0}
  /\ r.key \in [1..n -> Nat]
  /\ r = [key |-> r.key, columns |-> 4 * n, name |-> r.key[n] \div 2]

\* A row on the path of an entry.
LEMMA RowOfPath ==
  ASSUME NEW p \in Seq(Nat), NEW i \in 1..Len(p)
  PROVE  /\ IsRow(PassRow(p, i), i)
         /\ \A j \in 1..i : PassRow(p, i).key[j] \div 2 = p[j]
         /\ \A j \in 1..i : j # Len(p) => PassRow(p, i).key[j] = 2 * p[j]
         /\ i = Len(p) => PassRow(p, i).key[i] = 2 * p[i] + 1
<1> DEFINE r == PassRow(p, i)
<1>1. \A j \in 1..i : p[j] \in Nat
  OBVIOUS
<1>2. /\ r.key = [j \in 1..i |-> 2 * p[j] + (IF j = Len(p) THEN 1 ELSE 0)]
      /\ r.columns = 4 * i /\ r.name = p[i]
      /\ r = [key |-> r.key, columns |-> r.columns, name |-> r.name]
  BY DEF PassRow
<1> HIDE DEF r
<1>3. /\ \A j \in 1..i : j # Len(p) => r.key[j] = 2 * p[j]
      /\ \A j \in 1..i : j = Len(p) => r.key[j] = 2 * p[j] + 1
      /\ \A j \in 1..i : r.key[j] \div 2 = p[j] /\ r.key[j] \in Nat
  <2>1. \A j \in 1..i : r.key[j] = 2 * p[j] + (IF j = Len(p) THEN 1 ELSE 0)
    BY <1>2, Zenon
  <2>2. \A j \in 1..i : /\ j # Len(p) => r.key[j] = 2 * p[j]
                        /\ j = Len(p) => r.key[j] = 2 * p[j] + 1
    BY <1>1, <2>1
  <2>3. \A x \in Nat : /\ (2 * x) \div 2 = x /\ 2 * x \in Nat
                       /\ (2 * x + 1) \div 2 = x /\ 2 * x + 1 \in Nat
    OBVIOUS
  <2>4. \A j \in 1..i : r.key[j] \div 2 = p[j] /\ r.key[j] \in Nat
    <3> TAKE j \in 1..i
    <3>1. p[j] \in Nat
      BY <1>1
    <3> QED
      BY <2>2, <2>3, <3>1, Zenon
  <2> QED
    BY <2>2, <2>4
<1>4. r.key \in [1..i -> Nat]
  BY <1>2, <1>3
<1>5. IsRow(r, i)
  BY <1>2, <1>3, <1>4 DEF IsRow
<1> QED
  BY <1>3, <1>5 DEF r

\* pass_line_depth counts the names above a row's own.
LEMMA RowDepth ==
  ASSUME NEW r, NEW n, IsRow(r, n)
  PROVE  PassLineDepth(r) = n - 1
<1>1. r.columns = 4 * n /\ n \in Nat /\ n # 0
  BY DEF IsRow
<1>2. (4 * n) \div 4 = n
  BY <1>1
<1> QED
  BY <1>1, <1>2 DEF PassLineDepth

\* A row is known by its key.
LEMMA SameRow ==
  ASSUME NEW a, NEW b, NEW n, IsRow(a, n), IsRow(b, n),
         \A j \in 1..n : a.key[j] = b.key[j]
  PROVE  a = b
<1>1. a.key = b.key
  BY DEF IsRow
<1> QED
  BY <1>1 DEF IsRow

\* RowBefore, for rows.
LEMMA BeforeRow ==
  ASSUME NEW a, NEW m, IsRow(a, m), NEW b, NEW n, IsRow(b, n)
  PROVE  RowBefore(a, b) <=>
           \E i \in 1..n : /\ i <= m + 1
                           /\ \A j \in 1..(i - 1) : a.key[j] = b.key[j]
                           /\ i <= m => a.key[i] < b.key[i]
<1>1. DOMAIN a.key = 1..m /\ DOMAIN b.key = 1..n /\ m \in Nat /\ n \in Nat
  BY DEF IsRow
<1>2. \A i \in 1..n : (\A j \in 1..(i - 1) : j \in 1..m) <=> i <= m + 1
  <2> SUFFICES ASSUME NEW i \in 1..n
               PROVE  (\A j \in 1..(i - 1) : j \in 1..m) <=> i <= m + 1
    OBVIOUS
  <2>1. ASSUME \A j \in 1..(i - 1) : j \in 1..m
        PROVE  i <= m + 1
    <3>1. i = 1 \/ i - 1 \in 1..(i - 1)
      BY <1>1
    <3> QED
      BY <1>1, <2>1, <3>1
  <2>2. ASSUME i <= m + 1
        PROVE  \A j \in 1..(i - 1) : j \in 1..m
    BY <1>1, <2>2
  <2> QED
    BY <2>1, <2>2
<1>3. \A i \in 1..n : i \in 1..m <=> i <= m
  BY <1>1
<1> QED
  BY <1>1, <1>2, <1>3 DEF RowBefore

\* The order is strict.
LEMMA RowOrderStrict ==
  ASSUME NEW a, NEW m, IsRow(a, m), NEW b, NEW n, IsRow(b, n),
         RowBefore(a, b), RowBefore(b, a)
  PROVE  FALSE
<1>1. PICK i \in 1..n : /\ i <= m + 1
                        /\ \A j \in 1..(i - 1) : a.key[j] = b.key[j]
                        /\ i <= m => a.key[i] < b.key[i]
  BY BeforeRow
<1>2. PICK k \in 1..m : /\ k <= n + 1
                        /\ \A j \in 1..(k - 1) : b.key[j] = a.key[j]
                        /\ k <= n => b.key[k] < a.key[k]
  BY BeforeRow
<1>3. /\ m \in Nat /\ n \in Nat
      /\ \A j \in 1..m : a.key[j] \in Nat
      /\ \A j \in 1..n : b.key[j] \in Nat
  BY DEF IsRow
<1>4. CASE i < k
  BY <1>1, <1>2, <1>3, <1>4
<1>5. CASE k < i
  BY <1>1, <1>2, <1>3, <1>5
<1>6. CASE i = k
  BY <1>1, <1>2, <1>3, <1>6
<1> QED
  BY <1>3, <1>4, <1>5, <1>6

\* The order is transitive.
LEMMA RowOrderTransitive ==
  ASSUME NEW a, NEW l, IsRow(a, l), NEW b, NEW m, IsRow(b, m),
         NEW c, NEW n, IsRow(c, n), RowBefore(a, b), RowBefore(b, c)
  PROVE  RowBefore(a, c)
<1>1. PICK i \in 1..m : /\ i <= l + 1
                        /\ \A j \in 1..(i - 1) : a.key[j] = b.key[j]
                        /\ i <= l => a.key[i] < b.key[i]
  BY BeforeRow
<1>2. PICK k \in 1..n : /\ k <= m + 1
                        /\ \A j \in 1..(k - 1) : b.key[j] = c.key[j]
                        /\ k <= m => b.key[k] < c.key[k]
  BY BeforeRow
<1>3. /\ l \in Nat /\ m \in Nat /\ n \in Nat
      /\ \A j \in 1..l : a.key[j] \in Nat
      /\ \A j \in 1..m : b.key[j] \in Nat
      /\ \A j \in 1..n : c.key[j] \in Nat
  BY DEF IsRow
<1>4. CASE i < k
  <2>1. i \in 1..n /\ \A j \in 1..(i - 1) : a.key[j] = c.key[j]
    BY <1>1, <1>2, <1>3, <1>4
  <2>2. b.key[i] = c.key[i]
    BY <1>2, <1>3, <1>4
  <2> QED
    BY <1>1, <2>1, <2>2, BeforeRow
<1>5. CASE k < i
  <2>1. /\ k \in 1..n /\ k <= l + 1 /\ k <= m
        /\ \A j \in 1..(k - 1) : a.key[j] = c.key[j]
    BY <1>1, <1>2, <1>3, <1>5
  <2>2. a.key[k] = b.key[k]
    BY <1>1, <1>3, <1>5
  <2> QED
    BY <1>2, <2>1, <2>2, BeforeRow
<1>6. CASE i = k
  <2>1. /\ i \in 1..n
        /\ \A j \in 1..(i - 1) : a.key[j] = c.key[j]
    BY <1>1, <1>2, <1>3, <1>6
  <2>2. i <= l => a.key[i] < c.key[i]
    BY <1>1, <1>2, <1>3, <1>6
  <2> QED
    BY <1>1, <2>1, <2>2, BeforeRow
<1> QED
  BY <1>3, <1>4, <1>5, <1>6

\* The order is total: two rows differ at a first name, or one of them ends.
LEMMA RowOrderTotal ==
  ASSUME NEW a, NEW m, IsRow(a, m), NEW b, NEW n, IsRow(b, n), a # b
  PROVE  RowBefore(a, b) \/ RowBefore(b, a)
<1> DEFINE I == {i \in Nat \ {0} :
                   ~ (i <= m /\ i <= n /\ a.key[i] = b.key[i])}
<1>0. /\ m \in Nat \ {0} /\ n \in Nat \ {0}
      /\ \A j \in 1..m : a.key[j] \in Nat
      /\ \A j \in 1..n : b.key[j] \in Nat
  BY DEF IsRow
<1>1. m + 1 \in I /\ I \in SUBSET Nat
  BY <1>0
<1>2. PICK i \in I : \A y \in I : i <= y
  BY <1>1, LeastElement
<1>3. i \in Nat \ {0} /\ i <= m + 1
  BY <1>1, <1>2
<1>4. \A j \in 1..(i - 1) : j <= m /\ j <= n /\ a.key[j] = b.key[j]
  BY <1>0, <1>2, <1>3
<1>5. i <= n + 1
  <2>1. i = 1 \/ i - 1 \in 1..(i - 1)
    BY <1>3
  <2> QED
    BY <1>0, <1>3, <1>4, <2>1
<1>6. ~ (i <= m /\ i <= n /\ a.key[i] = b.key[i])
  BY <1>2
<1>7. CASE i <= n /\ i > m
  BY <1>0, <1>3, <1>4, <1>7, BeforeRow
<1>8. CASE i <= m /\ i > n
  BY <1>0, <1>4, <1>5, <1>8, BeforeRow
<1>9. CASE i <= m /\ i <= n
  <2>1. a.key[i] < b.key[i] \/ b.key[i] < a.key[i]
    BY <1>0, <1>3, <1>6, <1>9
  <2> QED
    BY <1>0, <1>3, <1>4, <1>5, <1>9, <2>1, BeforeRow
<1>10. CASE i > m /\ i > n
  <2>1. m = n /\ \A j \in 1..n : a.key[j] = b.key[j]
    BY <1>0, <1>3, <1>4, <1>5, <1>10
  <2> QED
    BY <2>1, SameRow
<1> QED
  BY <1>0, <1>3, <1>7, <1>8, <1>9, <1>10

\* The rows under a are those that have its key as a prefix.
Under(a, m, b, n) == m <= n /\ \A j \in 1..m : a.key[j] = b.key[j]

\* Everything between a row and a row under it is under it.
LEMMA BetweenIsUnder ==
  ASSUME NEW a, NEW l, IsRow(a, l), NEW b, NEW m, IsRow(b, m),
         NEW c, NEW n, IsRow(c, n), Under(a, l, c, n),
         RowBefore(a, b), RowBefore(b, c)
  PROVE  Under(a, l, b, m) /\ l < m
<1>1. PICK i \in 1..m : /\ i <= l + 1
                        /\ \A j \in 1..(i - 1) : a.key[j] = b.key[j]
                        /\ i <= l => a.key[i] < b.key[i]
  BY BeforeRow
<1>2. PICK k \in 1..n : /\ k <= m + 1
                        /\ \A j \in 1..(k - 1) : b.key[j] = c.key[j]
                        /\ k <= m => b.key[k] < c.key[k]
  BY BeforeRow
<1>3. /\ l \in Nat /\ m \in Nat /\ n \in Nat /\ l <= n
      /\ \A j \in 1..l : a.key[j] \in Nat /\ a.key[j] = c.key[j]
      /\ \A j \in 1..m : b.key[j] \in Nat
      /\ \A j \in 1..n : c.key[j] \in Nat
  BY DEF IsRow, Under
<1>4. CASE i <= l
  <2>1. a.key[i] < b.key[i] /\ a.key[i] = c.key[i]
    BY <1>1, <1>3, <1>4
  <2>2. CASE k < i
    <3>1. k <= m /\ a.key[k] = b.key[k] /\ a.key[k] = c.key[k]
      BY <1>1, <1>2, <1>3, <1>4, <2>2
    <3> QED
      BY <1>2, <1>3, <3>1
  <2>3. CASE k = i
    BY <1>1, <1>2, <1>3, <2>1, <2>3
  <2>4. CASE k > i
    <3>1. b.key[i] = c.key[i]
      BY <1>1, <1>2, <1>3, <2>4
    <3> QED
      BY <1>1, <1>3, <2>1, <3>1
  <2> QED
    BY <1>1, <1>2, <1>3, <2>2, <2>3, <2>4
<1>5. CASE i > l
  BY <1>1, <1>3, <1>5 DEF Under
<1> QED
  BY <1>1, <1>3, <1>4, <1>5

\* A row comes before those under it.
LEMMA UnderIsAfter ==
  ASSUME NEW a, NEW m, IsRow(a, m), NEW b, NEW n, IsRow(b, n),
         Under(a, m, b, n), m < n
  PROVE  RowBefore(a, b)
<1>1. m + 1 \in 1..n /\ ~ (m + 1 <= m) /\ m \in Nat
  BY DEF IsRow
<1>2. \A j \in 1..((m + 1) - 1) : a.key[j] = b.key[j]
  BY <1>1 DEF Under
<1> QED
  BY <1>1, <1>2, BeforeRow

--------------------------------------------------------------------------------
(***************************************************************************)
(* The listing: every row has a place, and the places are in order.        *)
(***************************************************************************)

UpTo(R, r) == {q \in R : q = r \/ RowBefore(q, r)}

Place(R, r) == Cardinality(UpTo(R, r))

IsRows(R) == IsFiniteSet(R) /\ \A r \in R : \E n : IsRow(r, n)

\* Places are numbers, and an earlier row has a smaller one.
LEMMA PlaceOrder ==
  ASSUME NEW R, IsRows(R), NEW a \in R, NEW b \in R
  PROVE  /\ Place(R, a) \in 1..Cardinality(R)
         /\ RowBefore(a, b) => Place(R, a) < Place(R, b)
<1>0. IsFiniteSet(R) /\ Cardinality(R) \in Nat
  BY FS_CardinalityType DEF IsRows
<1>1. \A r \in R : /\ UpTo(R, r) \in SUBSET R /\ r \in UpTo(R, r)
                   /\ IsFiniteSet(UpTo(R, r))
  BY <1>0, FS_Subset DEF UpTo
<1>2. \A r \in R : Place(R, r) \in Nat /\ Place(R, r) <= Cardinality(R)
  BY <1>0, <1>1, FS_Subset, FS_CardinalityType DEF Place
<1>3. Place(R, a) # 0
  BY <1>1, FS_EmptySet DEF Place
<1>4. ASSUME RowBefore(a, b)
      PROVE  Place(R, a) < Place(R, b)
  <2>1. PICK l, m : IsRow(a, l) /\ IsRow(b, m)
    BY DEF IsRows
  <2>2. UpTo(R, a) \subseteq UpTo(R, b)
    <3> SUFFICES ASSUME NEW q \in UpTo(R, a)
                 PROVE  q \in UpTo(R, b)
      OBVIOUS
    <3>1. q \in R /\ (q = a \/ RowBefore(q, a))
      BY DEF UpTo
    <3>2. PICK k : IsRow(q, k)
      BY <3>1 DEF IsRows
    <3>3. RowBefore(q, b)
      BY <1>4, <2>1, <3>1, <3>2, RowOrderTransitive
    <3> QED
      BY <3>1, <3>3 DEF UpTo
  <2>3. b \notin UpTo(R, a)
    BY <1>4, <2>1, RowOrderStrict DEF UpTo
  <2>4. UpTo(R, a) # UpTo(R, b)
    BY <1>1, <2>3
  <2>5. /\ Cardinality(UpTo(R, a)) <= Cardinality(UpTo(R, b))
        /\ Cardinality(UpTo(R, a)) # Cardinality(UpTo(R, b))
    BY <1>1, <2>2, <2>4, FS_Subset
  <2> QED
    BY <1>2, <2>5 DEF Place
<1> QED
  BY <1>0, <1>2, <1>3, <1>4

\* Every number up to the number of rows is the place of one row.
LEMMA PlaceTaken ==
  ASSUME NEW R, IsRows(R)
  PROVE  /\ \A a, b \in R : Place(R, a) = Place(R, b) => a = b
         /\ \A i \in 1..Cardinality(R) : \E r \in R : Place(R, r) = i
<1> DEFINE n == Cardinality(R)
           f == [r \in R |-> Place(R, r)]
<1>1. \A a, b \in R : Place(R, a) = Place(R, b) => a = b
  <2> SUFFICES ASSUME NEW a \in R, NEW b \in R, a # b
               PROVE  Place(R, a) # Place(R, b)
    OBVIOUS
  <2>1. PICK l, m : IsRow(a, l) /\ IsRow(b, m)
    BY DEF IsRows
  <2>2. RowBefore(a, b) \/ RowBefore(b, a)
    BY <2>1, RowOrderTotal
  <2>3. \/ Place(R, a) < Place(R, b)
        \/ Place(R, b) < Place(R, a)
    BY <2>2, PlaceOrder
  <2>4. Place(R, a) \in 1..Cardinality(R) /\ Place(R, b) \in 1..Cardinality(R)
    BY PlaceOrder
  <2> QED
    BY <2>3, <2>4
<1>2. f \in [R -> 1..n]
  BY PlaceOrder
<1>3. f \in Injection(R, 1..n)
  BY <1>1, <1>2 DEF Injection, IsInjective
<1>4. n \in Nat /\ IsFiniteSet(1..n) /\ Cardinality(1..n) = n
  BY FS_CardinalityType, FS_Interval DEF IsRows
<1>5. f \in Surjection(R, 1..n)
  BY <1>3, <1>4, FS_Injection
<1>6. \A i \in 1..n : \E r \in R : f[r] = i
  BY <1>5 DEF Surjection
<1> QED
  BY <1>1, <1>6

\* rows lists the rows R of a tree in order.
InOrder(rows, R) ==
  /\ DOMAIN rows = 1..Cardinality(R) /\ rows \in Seq(R)
  /\ Len(rows) = Cardinality(R) /\ Cardinality(R) \in Nat
  /\ \A r \in R : \E i \in DOMAIN rows : r = rows[i]
  /\ \A i, j \in DOMAIN rows : RowBefore(rows[i], rows[j]) <=> i < j

\* `pass find` lists the rows of its tree in order.
LEMMA FindInOrder ==
  ASSUME NEW store, IsRows(PassRows(store))
  PROVE  InOrder(PassFind(store), PassRows(store))
<1> DEFINE R == PassRows(store)
           n == Cardinality(R)
           rows == PassFind(store)
<1>1. rows = [i \in 1..n |-> CHOOSE r \in R : Place(R, r) = i]
  BY DEF PassFind, Place, UpTo
<1> HIDE DEF R, rows
<1>0. IsRows(R)
  BY DEF R
<1>2. n \in Nat
  BY <1>0, FS_CardinalityType DEF IsRows
<1>3. \A i \in 1..n : rows[i] \in R /\ Place(R, rows[i]) = i
  BY <1>0, <1>1, PlaceTaken
<1>4. DOMAIN rows = 1..n /\ rows \in Seq(R) /\ Len(rows) = n
  <2>1. rows \in [1..n -> R]
    BY <1>1, <1>3
  <2> HIDE DEF n
  <2> QED
    BY <1>2, <2>1
<1>5. \A r \in R : Place(R, r) \in 1..n
  BY <1>0, PlaceOrder
<1>6. \A r \in R : r = rows[Place(R, r)]
  BY <1>0, <1>3, <1>5, PlaceTaken
<1>7. \A i, j \in 1..n : RowBefore(rows[i], rows[j]) <=> i < j
  <2> SUFFICES ASSUME NEW i \in 1..n, NEW j \in 1..n
               PROVE  RowBefore(rows[i], rows[j]) <=> i < j
    OBVIOUS
  <2>1. RowBefore(rows[i], rows[j]) => i < j
    BY <1>0, <1>3, PlaceOrder
  <2>2. RowBefore(rows[j], rows[i]) => j < i
    BY <1>0, <1>3, PlaceOrder
  <2>3. i # j => rows[i] # rows[j]
    BY <1>3
  <2>4. PICK l, m : IsRow(rows[i], l) /\ IsRow(rows[j], m)
    BY <1>0, <1>3 DEF IsRows
  <2>5. i # j => RowBefore(rows[i], rows[j]) \/ RowBefore(rows[j], rows[i])
    BY <2>3, <2>4, RowOrderTotal
  <2> QED
    BY <1>2, <2>1, <2>2, <2>5
<1> QED
  BY <1>2, <1>4, <1>5, <1>6, <1>7 DEF InOrder, R, rows

\* The tree of a store is finite.
LEMMA TreeRows ==
  ASSUME NEW store \in Stores
  PROVE  IsRows(PassRows(store))
<1>0. IsFiniteSet(store) /\ store \subseteq Seq(Nat)
  BY EntriesAssumption, FS_Subset DEF Stores
<1> DEFINE Way(p) == {PassRow(p, i) : i \in DOMAIN p}
           Ways == {Way(p) : p \in store}
<1>1. \A p \in store : IsFiniteSet(Way(p))
  <2> TAKE p \in store
  <2> DEFINE f == [i \in 1..Len(p) |-> PassRow(p, i)]
  <2>1. p \in Seq(Nat) /\ Len(p) \in Nat /\ DOMAIN p = 1..Len(p)
    BY <1>0
  <2>2. f \in Surjection(1..Len(p), Way(p))
    BY <2>1 DEF Surjection
  <2>3. IsFiniteSet(1..Len(p))
    BY <2>1, FS_Interval
  <2> QED
    BY <2>2, <2>3, FS_Surjection
<1>2. IsFiniteSet(Ways)
  <2> DEFINE f == [p \in store |-> Way(p)]
  <2>1. f \in Surjection(store, Ways)
    BY DEF Surjection
  <2> QED
    BY <1>0, <2>1, FS_Surjection
<1>3. IsFiniteSet(UNION Ways)
  BY <1>1, <1>2, FS_UNION
<1>4. \A r \in PassRows(store) : \E n : IsRow(r, n)
  BY <1>0, RowOfPath DEF PassRows
<1> QED
  BY <1>3, <1>4 DEF IsRows, PassRows

--------------------------------------------------------------------------------
(***************************************************************************)
(* The tree: a row is listed under its directory.                          *)
(***************************************************************************)

\* The number of names is unique.
LEMMA RowSize ==
  ASSUME NEW r, NEW m, NEW n, IsRow(r, m), IsRow(r, n)
  PROVE  m = n
BY DEF IsRow

\* A row of the tree is on the path of an entry.
LEMMA RowInTree ==
  ASSUME NEW store \in Stores, NEW r \in PassRows(store), NEW n, IsRow(r, n)
  PROVE  \E p \in store : p \in Seq(Nat) /\ n \in 1..Len(p) /\ r = PassRow(p, n)
<1>0. store \subseteq Seq(Nat)
  BY EntriesAssumption DEF Stores
<1>1. PICK p \in store : \E i \in DOMAIN p : r = PassRow(p, i)
  BY DEF PassRows
<1>2. p \in Seq(Nat) /\ DOMAIN p = 1..Len(p)
  BY <1>0
<1>3. PICK i \in 1..Len(p) : r = PassRow(p, i)
  BY <1>1, <1>2
<1>4. i = n
  BY <1>2, <1>3, RowOfPath, RowSize
<1> QED
  BY <1>2, <1>3, <1>4

\* The rows of an entry's path are in the tree.
LEMMA TreeHasPath ==
  ASSUME NEW store \in Stores, NEW p \in store
  PROVE  /\ p \in Seq(Nat) /\ Len(p) \in Nat \ {0}
         /\ \A i \in 1..Len(p) : PassRow(p, i) \in PassRows(store)
<1>1. p \in Seq(Nat) /\ p # <<>>
  BY EntriesAssumption DEF Stores
<1>2. DOMAIN p = 1..Len(p) /\ Len(p) \in Nat \ {0}
  BY <1>1
<1> QED
  BY <1>1, <1>2 DEF PassRows

\* The directory of a row precedes it, and is no entry.
IsDirectoryOf(q, r, n) ==
  /\ IsRow(q, n - 1) /\ Under(q, n - 1, r, n)
  /\ \E x \in Nat : q.key[n - 1] = 2 * x

\* A row that is not at the top has its directory in the tree.
LEMMA TreeHasDirectory ==
  ASSUME NEW store \in Stores, NEW r \in PassRows(store), NEW n, IsRow(r, n),
         n > 1
  PROVE  \E q \in PassRows(store) : IsDirectoryOf(q, r, n)
<1>1. PICK p \in store : p \in Seq(Nat) /\ n \in 1..Len(p) /\ r = PassRow(p, n)
  BY RowInTree
<1>2. n - 1 \in 1..Len(p) /\ n - 1 # Len(p) /\ n - 1 <= n /\ n \in Nat
  BY <1>1
<1> DEFINE q == PassRow(p, n - 1)
<1>3. q \in PassRows(store) /\ IsRow(q, n - 1)
  BY <1>2, TreeHasPath, RowOfPath
<1>4. \A j \in 1..(n - 1) : p[j] \in Nat /\ j # Len(p) /\ j \in 1..n
  BY <1>1, <1>2
<1>5. \A j \in 1..(n - 1) : q.key[j] = 2 * p[j] /\ r.key[j] = 2 * p[j]
  BY <1>1, <1>2, <1>4, RowOfPath
<1>6. q.key[n - 1] = 2 * p[n - 1] /\ p[n - 1] \in Nat
  BY <1>2, <1>4, <1>5
<1> HIDE DEF q
<1> QED
  BY <1>2, <1>3, <1>5, <1>6 DEF IsDirectoryOf, Under

\* The row before a row is its directory, or is itself under it.
LEMMA RowAbove ==
  ASSUME NEW store \in Stores, NEW i \in DOMAIN PassFind(store), NEW n,
         IsRow(PassFind(store)[i], n), n > 1
  PROVE  /\ i - 1 \in DOMAIN PassFind(store)
         /\ \E q \in PassRows(store) : \E m :
              /\ IsDirectoryOf(q, PassFind(store)[i], n)
              /\ IsRow(PassFind(store)[i - 1], m)
              /\ \/ q = PassFind(store)[i - 1]
                 \/ Under(q, n - 1, PassFind(store)[i - 1], m) /\ n - 1 < m
<1> DEFINE R == PassRows(store)
           rows == PassFind(store)
<1>0. IsRows(R) /\ InOrder(rows, R)
  BY TreeRows, FindInOrder
<1> HIDE DEF R, rows
<1>1. rows[i] \in R /\ i \in 1..Cardinality(R) /\ Cardinality(R) \in Nat
  BY <1>0 DEF InOrder, rows
<1>2. PICK q \in R : IsDirectoryOf(q, rows[i], n)
  BY <1>1, TreeHasDirectory DEF R, rows
<1>3. PICK k \in DOMAIN rows : q = rows[k]
  BY <1>0 DEF InOrder
<1>4. RowBefore(q, rows[i])
  <2>1. n \in Nat /\ n - 1 < n
    BY DEF IsRow
  <2> QED
    BY <1>2, <2>1, UnderIsAfter DEF IsDirectoryOf, rows
<1>5. k < i /\ k \in 1..Cardinality(R)
  BY <1>0, <1>3, <1>4 DEF InOrder, rows
<1>6. i - 1 \in DOMAIN rows /\ i - 1 < i /\ (k < i - 1 \/ k = i - 1)
  BY <1>0, <1>1, <1>5 DEF InOrder
<1>7. PICK m : IsRow(rows[i - 1], m)
  BY <1>0, <1>6 DEF IsRows, InOrder
<1>8. k < i - 1 => Under(q, n - 1, rows[i - 1], m) /\ n - 1 < m
  <2> SUFFICES ASSUME k < i - 1
               PROVE  Under(q, n - 1, rows[i - 1], m) /\ n - 1 < m
    OBVIOUS
  <2>1. RowBefore(q, rows[i - 1]) /\ RowBefore(rows[i - 1], rows[i])
    BY <1>0, <1>3, <1>6 DEF InOrder, rows
  <2> QED
    BY <1>2, <1>7, <2>1, BetweenIsUnder DEF IsDirectoryOf, rows
<1> QED
  BY <1>2, <1>3, <1>6, <1>7, <1>8 DEF R, rows

\* The names on a row's path.
PathNames(r) == [j \in DOMAIN r.key |-> r.key[j] \div 2]

\* A row whose successor is not deeper is an entry of the store.
LEMMA CandidateIsEntry ==
  ASSUME NEW store \in Stores, NEW i \in PassCandidates(PassFind(store))
  PROVE  PathNames(PassFind(store)[i]) \in store
<1> DEFINE R == PassRows(store)
           rows == PassFind(store)
<1>0. IsRows(R) /\ InOrder(rows, R)
  BY TreeRows, FindInOrder
<1>1. /\ i \in DOMAIN rows
      /\ i = Len(rows) \/ PassLineDepth(rows[i + 1]) <= PassLineDepth(rows[i])
  BY DEF PassCandidates
<1> HIDE DEF R, rows
<1>2. rows[i] \in R /\ i \in 1..Cardinality(R) /\ Cardinality(R) \in Nat
  BY <1>0, <1>1 DEF InOrder
<1>3. PICK k : IsRow(rows[i], k)
  BY <1>0, <1>2 DEF IsRows
<1>4. PICK p \in store : /\ p \in Seq(Nat) /\ k \in 1..Len(p)
                         /\ rows[i] = PassRow(p, k)
  BY <1>2, <1>3, RowInTree DEF R
<1>5. CASE k = Len(p)
  <2>1. /\ DOMAIN rows[i].key = 1..Len(p)
        /\ \A j \in 1..Len(p) : rows[i].key[j] \div 2 = p[j]
    <3>1. IsRow(rows[i], Len(p))
      BY <1>3, <1>5
    <3>2. DOMAIN rows[i].key = 1..Len(p)
      BY <3>1 DEF IsRow
    <3>3. \A j \in 1..k : PassRow(p, k).key[j] \div 2 = p[j]
      BY <1>4, RowOfPath
    <3> QED
      BY <1>4, <1>5, <3>2, <3>3
  <2>2. p = [j \in 1..Len(p) |-> p[j]]
    BY <1>4
  <2>3. PathNames(rows[i]) = [j \in 1..Len(p) |-> p[j]]
    BY <2>1 DEF PathNames
  <2> QED
    BY <2>2, <2>3 DEF rows
<1>6. CASE k # Len(p)
  <2> DEFINE c == PassRow(p, k + 1)
  <2>1. k + 1 \in 1..Len(p) /\ k < k + 1 /\ k \in Nat
    BY <1>4, <1>6
  <2>2. c \in R /\ IsRow(c, k + 1)
    BY <1>4, <2>1, TreeHasPath, RowOfPath DEF R
  <2>3. Under(rows[i], k, c, k + 1)
    <3>1. \A j \in 1..k : j # Len(p) /\ j \in 1..(k + 1)
      BY <1>4, <1>6, <2>1
    <3>2. \A j \in 1..k : rows[i].key[j] = 2 * p[j] /\ c.key[j] = 2 * p[j]
      BY <1>4, <2>1, <3>1, RowOfPath
    <3> QED
      BY <2>1, <3>2 DEF Under
  <2> HIDE DEF c
  <2>4. RowBefore(rows[i], c)
    BY <1>3, <2>1, <2>2, <2>3, UnderIsAfter
  <2>5. PICK m \in DOMAIN rows : c = rows[m]
    BY <1>0, <2>2 DEF InOrder
  <2>6. i < m /\ m \in 1..Cardinality(R) /\ Len(rows) = Cardinality(R)
    BY <1>0, <1>1, <2>4, <2>5 DEF InOrder
  <2>7. /\ i # Len(rows) /\ i + 1 \in DOMAIN rows /\ i < i + 1
        /\ (m = i + 1 \/ i + 1 < m)
    BY <1>0, <1>2, <2>6 DEF InOrder
  <2>8. PICK n : IsRow(rows[i + 1], n)
    BY <1>0, <2>7 DEF IsRows, InOrder
  <2>9. k < n
    <3>1. CASE m = i + 1
      BY <2>1, <2>2, <2>5, <2>8, <3>1, RowSize
    <3>2. CASE i + 1 < m
      <4>1. RowBefore(rows[i], rows[i + 1]) /\ RowBefore(rows[i + 1], c)
        BY <1>0, <1>1, <2>5, <2>7, <3>2 DEF InOrder
      <4> QED
        BY <1>3, <2>2, <2>3, <2>8, <4>1, BetweenIsUnder
    <3> QED
      BY <2>7, <3>1, <3>2
  <2>10. PassLineDepth(rows[i]) = k - 1 /\ PassLineDepth(rows[i + 1]) = n - 1
    BY <1>3, <2>8, RowDepth
  <2>11. n \in Nat
    BY <2>8 DEF IsRow
  <2> QED
    BY <1>1, <2>1, <2>7, <2>9, <2>10, <2>11
<1> QED
  BY <1>5, <1>6

\* Every entry of the store is a candidate.
LEMMA EntryIsCandidate ==
  ASSUME NEW store \in Stores, NEW p \in store
  PROVE  \E i \in PassCandidates(PassFind(store)) :
           PathNames(PassFind(store)[i]) = p
<1> DEFINE R == PassRows(store)
           rows == PassFind(store)
           k == Len(p)
           r == PassRow(p, k)
<1>0. IsRows(R) /\ InOrder(rows, R)
  BY TreeRows, FindInOrder
<1>1. p \in Seq(Nat) /\ k \in Nat \ {0} /\ k \in 1..Len(p)
  BY TreeHasPath
<1>2. r \in R /\ IsRow(r, k) /\ r.key[k] = 2 * p[k] + 1 /\ p[k] \in Nat
  BY <1>1, TreeHasPath, RowOfPath
<1>3. PathNames(r) = p
  <2>1. DOMAIN r.key = 1..Len(p) /\ \A j \in 1..Len(p) : r.key[j] \div 2 = p[j]
    BY <1>1, <1>2, RowOfPath DEF IsRow
  <2>2. p = [j \in 1..Len(p) |-> p[j]]
    BY <1>1
  <2> QED
    BY <2>1, <2>2 DEF PathNames
<1> HIDE DEF R, rows, r, k
<1>4. PICK i \in DOMAIN rows : r = rows[i]
  BY <1>0, <1>2 DEF InOrder
<1>5. i \in PassCandidates(rows)
  <2> SUFFICES ASSUME i # Len(rows),
                      ~ (PassLineDepth(rows[i + 1]) <= PassLineDepth(rows[i]))
               PROVE  FALSE
    BY <1>4 DEF PassCandidates
  <2>1. i + 1 \in DOMAIN rows /\ (i + 1) - 1 = i
    BY <1>0, <1>4 DEF InOrder
  <2>2. PICK n : IsRow(rows[i + 1], n)
    BY <1>0, <2>1 DEF IsRows, InOrder
  <2>3. PassLineDepth(rows[i]) = k - 1 /\ PassLineDepth(rows[i + 1]) = n - 1
    BY <1>2, <1>4, <2>2, RowDepth
  <2>4. n > k /\ n > 1 /\ n \in Nat
    BY <1>1, <2>2, <2>3 DEF IsRow
  <2>5. PICK q \in R :
          /\ IsDirectoryOf(q, rows[i + 1], n)
          /\ \E m : /\ IsRow(rows[i], m)
                    /\ q = rows[i] \/ n - 1 < m
    BY <2>1, <2>2, <2>4, RowAbove DEF R, rows
  <2>6. q = r \/ n - 1 < k
    BY <1>2, <1>4, <2>5, RowSize
  <2>7. q = r
    BY <1>1, <2>4, <2>6
  <2>8. IsRow(r, n - 1) /\ \E x \in Nat : r.key[n - 1] = 2 * x
    BY <2>5, <2>7 DEF IsDirectoryOf
  <2>9. n - 1 = k
    BY <1>2, <2>8, RowSize
  <2>10. PICK x \in Nat : 2 * p[k] + 1 = 2 * x
    BY <1>2, <2>8, <2>9
  <2> QED
    BY <1>2, <2>10
<1> QED
  BY <1>3, <1>4, <1>5 DEF rows

--------------------------------------------------------------------------------
(***************************************************************************)
(* The stack of pass_pick_entry holds the path of the row it has read.     *)
(***************************************************************************)

\* stack.truncate(depth); stack.push(name)
PushRow(path, row) ==
  Append(SubSeq(path, 1, Shorter(PassLineDepth(row), Len(path))), row.name)

IsStack(f, rows) ==
  f = [i \in 0..Len(rows) |-> IF i = 0 THEN <<>> ELSE PushRow(f[i - 1], rows[i])]

\* The names of a row are a path.
LEMMA PathNamesType ==
  ASSUME NEW r, NEW n, IsRow(r, n)
  PROVE  /\ PathNames(r) \in Seq(Nat) /\ Len(PathNames(r)) = n
         /\ \A j \in 1..n : PathNames(r)[j] = r.key[j] \div 2
         /\ r.name = PathNames(r)[n]
<1>1. /\ n \in Nat \ {0} /\ DOMAIN r.key = 1..n
      /\ \A j \in 1..n : r.key[j] \in Nat
      /\ r.name = r.key[n] \div 2
  BY DEF IsRow
<1>2. \A j \in 1..n : r.key[j] \div 2 \in Nat
  <2>1. \A x \in Nat : x \div 2 \in Nat
    OBVIOUS
  <2> QED
    BY <1>1, <2>1, Zenon
<1>3. PathNames(r) = [j \in 1..n |-> r.key[j] \div 2]
  BY <1>1, Zenon DEF PathNames
<1>4. \A j \in 1..n : PathNames(r)[j] = r.key[j] \div 2
  BY <1>3, Zenon
<1>5. PathNames(r) \in [1..n -> Nat]
  BY <1>2, <1>3, Zenon
<1>6. PathNames(r) \in Seq(Nat) /\ Len(PathNames(r)) = n
  BY <1>1, <1>5
<1>7. n \in 1..n
  BY <1>1
<1> QED
  BY <1>1, <1>4, <1>6, <1>7, Zenon

\* Pushing a row on a path that starts with the names above it.
LEMMA PushNames ==
  ASSUME NEW r, NEW n, IsRow(r, n), NEW path \in Seq(Nat), n - 1 <= Len(path),
         \A j \in 1..(n - 1) : path[j] = PathNames(r)[j]
  PROVE  PushRow(path, r) = PathNames(r)
<1>0. n \in Nat \ {0} /\ PassLineDepth(r) = n - 1
  BY RowDepth DEF IsRow
<1>1. Shorter(PassLineDepth(r), Len(path)) = n - 1
  BY <1>0 DEF Shorter
<1> DEFINE t == SubSeq(path, 1, n - 1)
           names == PathNames(r)
<1>2. /\ names \in Seq(Nat) /\ Len(names) = n /\ r.name = names[n]
      /\ r.name \in Nat
  <2>1. names \in Seq(Nat) /\ Len(names) = n /\ r.name = names[n]
    BY PathNamesType
  <2> HIDE DEF names
  <2> QED
    BY <1>0, <2>1
<1>3. /\ t \in Seq(Nat) /\ Len(t) = n - 1
      /\ \A j \in 1..(n - 1) : t[j] = path[j]
  <2>1. \A j \in 1..(n - 1) : path[j] \in Nat
    BY <1>0
  <2>2. /\ t \in Seq(Nat) /\ Len(t) = IF 1 <= n - 1 THEN ((n - 1) - 1) + 1 ELSE 0
        /\ \A j \in 1..(((n - 1) - 1) + 1) : t[j] = path[(1 + j) - 1]
    BY <1>0, <2>1, SubSeqProperties
  <2> HIDE DEF t
  <2> QED
    BY <1>0, <2>2
<1>4. PushRow(path, r) = Append(t, r.name)
  BY <1>1 DEF PushRow
<1>5. \A j \in 1..(n - 1) : t[j] = names[j]
  BY <1>3
<1> HIDE DEF t, names
<1>6. Append(t, r.name) = names
  <2>1. /\ Append(t, r.name) \in Seq(Nat) /\ Len(Append(t, r.name)) = n
        /\ \A j \in 1..(n - 1) : Append(t, r.name)[j] = t[j]
        /\ Append(t, r.name)[n] = r.name
    BY <1>0, <1>2, <1>3
  <2>2. \A j \in 1..n : j \in 1..(n - 1) \/ j = n
    BY <1>0
  <2>3. \A j \in 1..n : Append(t, r.name)[j] = names[j]
    BY <1>2, <1>5, <2>1, <2>2
  <2> QED
    BY <1>2, <2>1, <2>3
<1> QED
  BY <1>4, <1>6 DEF names

\* The paths put together from the rows are those of the entries and
\* directories they stand for.
LEMMA StackIsPath ==
  ASSUME NEW store \in Stores, NEW i \in DOMAIN PassFind(store)
  PROVE  PassPaths(PassFind(store))[i] = PathNames(PassFind(store)[i])
<1> DEFINE R == PassRows(store)
           rows == PassFind(store)
           g == [k \in 0..Len(rows) |->
                   IF k = 0 THEN <<>> ELSE PathNames(rows[k])]
<1>0. IsRows(R) /\ InOrder(rows, R)
  BY TreeRows, FindInOrder
<1>1. Len(rows) \in Nat /\ DOMAIN rows = 1..Len(rows)
  BY <1>0 DEF InOrder
<1>2. \A k \in 1..Len(rows) : PushRow(g[k - 1], rows[k]) = PathNames(rows[k])
  <2> TAKE k \in 1..Len(rows)
  <2>1. PICK n : IsRow(rows[k], n)
    BY <1>0, <1>1 DEF IsRows, InOrder
  <2>2. n \in Nat \ {0}
    BY <2>1 DEF IsRow
  <2>3. CASE n = 1
    <3>1. g[k - 1] \in Seq(Nat)
      <4>1. CASE k = 1
        BY <1>1, <4>1
      <4>2. CASE k # 1
        <5>1. k - 1 \in 1..Len(rows) /\ k - 1 # 0 /\ k - 1 \in 0..Len(rows)
          BY <1>1, <4>2
        <5>2. PICK m : IsRow(rows[k - 1], m)
          BY <1>0, <1>1, <5>1 DEF IsRows, InOrder
        <5>3. PathNames(rows[k - 1]) \in Seq(Nat)
          BY <5>2, PathNamesType
        <5> QED
          BY <5>1, <5>3
      <4> QED
        BY <4>1, <4>2
    <3> HIDE DEF g, rows
    <3>2. n - 1 <= Len(g[k - 1]) /\ \A j \in 1..(n - 1) : FALSE
      BY <2>3, <3>1
    <3> QED
      BY <2>1, <3>1, <3>2, PushNames
  <2>4. CASE n > 1
    <3>1. /\ k - 1 \in DOMAIN rows
          /\ \E q \in R : \E m :
               /\ IsDirectoryOf(q, rows[k], n)
               /\ IsRow(rows[k - 1], m)
               /\ \/ q = rows[k - 1]
                  \/ Under(q, n - 1, rows[k - 1], m) /\ n - 1 < m
      BY <1>1, <2>1, <2>4, RowAbove
    <3>2. PICK q, m :
               /\ IsDirectoryOf(q, rows[k], n)
               /\ IsRow(rows[k - 1], m)
               /\ \/ q = rows[k - 1]
                  \/ Under(q, n - 1, rows[k - 1], m) /\ n - 1 < m
      BY <3>1
    <3>3. g[k - 1] = PathNames(rows[k - 1])
      BY <1>1, <3>1
    <3> HIDE DEF g, rows, R
    <3>4. n - 1 <= m /\ m \in Nat
      BY <2>2, <3>2, RowSize DEF IsDirectoryOf, IsRow
    <3>5. \A j \in 1..(n - 1) : rows[k - 1].key[j] = rows[k].key[j]
      BY <3>2 DEF IsDirectoryOf, Under
    <3>6. /\ g[k - 1] \in Seq(Nat) /\ Len(g[k - 1]) = m
          /\ \A j \in 1..m : g[k - 1][j] = rows[k - 1].key[j] \div 2
      BY <3>2, <3>3, PathNamesType
    <3>7. \A j \in 1..n : PathNames(rows[k])[j] = rows[k].key[j] \div 2
      BY <2>1, PathNamesType
    <3>8. \A j \in 1..(n - 1) : j \in 1..n /\ j \in 1..m
      BY <2>2, <3>4
    <3>9. \A j \in 1..(n - 1) : g[k - 1][j] = PathNames(rows[k])[j]
      BY <3>5, <3>6, <3>7, <3>8, Zenon
    <3> QED
      BY <2>1, <3>4, <3>6, <3>9, PushNames
  <2> QED
    BY <2>2, <2>3, <2>4
<1>3. IsStack(g, rows)
  <2>1. \A k \in 0..Len(rows) : k = 0 \/ k \in 1..Len(rows)
    BY <1>1
  <2>2. g = [k \in 0..Len(rows) |->
              IF k = 0 THEN <<>> ELSE PushRow(g[k - 1], rows[k])]
    BY <1>2, <2>1
  <2> QED
    BY <2>2 DEF IsStack
<1> DEFINE f == CHOOSE path : IsStack(path, rows)
<1>4. IsStack(f, rows)
  BY <1>3
<1>5. PassPaths(rows) = [k \in 1..Len(rows) |-> f[k]]
  BY Zenon DEF PassPaths, IsStack, PushRow
<1> HIDE DEF f, rows
<1>6. f[0] = <<>> /\ \A k \in 1..Len(rows) : f[k] = PushRow(f[k - 1], rows[k])
  BY <1>1, <1>4 DEF IsStack
<1>7. \A k \in 0..Len(rows) : f[k] = g[k]
  <2> DEFINE I == {k \in 0..Len(rows) : f[k] # g[k]}
  <2> SUFFICES ASSUME I # {}
               PROVE  FALSE
    OBVIOUS
  <2>1. I \in SUBSET Nat
    BY <1>1
  <2>2. PICK k \in I : \A y \in I : k <= y
    BY <2>1, LeastElement
  <2>3. k \in 1..Len(rows)
    BY <1>1, <1>6, <2>2
  <2>4. f[k - 1] = g[k - 1]
    BY <1>1, <2>2, <2>3
  <2>5. f[k] = PathNames(rows[k])
    BY <1>2, <1>6, <2>3, <2>4
  <2> QED
    BY <1>1, <2>2, <2>3, <2>5
<1>8. i \in 1..Len(rows)
  BY <1>1 DEF rows
<1> QED
  BY <1>1, <1>5, <1>7, <1>8 DEF rows

\* The entry exists, contains the host, and ends in it if any entry does.
EntryFits(entry, store) ==
  /\ entry \in store
  /\ \E i \in DOMAIN entry : entry[i] \in Similar
  /\ (\E e \in store : e[Len(e)] = Target) => entry[Len(entry)] = Target

\* What pass_pick_entry returns, if it returns something, is such an entry.
LEMMA PickFits ==
  ASSUME NEW store \in Stores, PassPickEntry(PassFind(store)) # <<>>
  PROVE  EntryFits(PassPickEntry(PassFind(store)), store)
<1> DEFINE rows == PassFind(store)
           paths == PassPaths(rows)
           C == PassCandidates(rows)
           leafIs == {i \in C : paths[i][Len(paths[i])] = Target}
           segmentIs == {i \in C : \E j \in DOMAIN paths[i] : paths[i][j] = Target}
           contains == {i \in C : \E j \in DOMAIN paths[i] : paths[i][j] \in Similar}
           found == IF leafIs # {} THEN leafIs
                    ELSE IF segmentIs # {} THEN segmentIs ELSE contains
<1>1. PassPickEntry(rows) = IF found = {} THEN <<>> ELSE paths[Min(found)]
  BY DEF PassPickEntry
<1>2. C \subseteq DOMAIN rows /\ C \in SUBSET Nat
  <2>1. DOMAIN rows = 1..Cardinality(PassRows(store))
    BY TreeRows, FindInOrder DEF InOrder
  <2> QED
    BY <2>1 DEF PassCandidates
<1>3. \A i \in C : paths[i] = PathNames(rows[i]) /\ PathNames(rows[i]) \in store
  BY <1>2, StackIsPath, CandidateIsEntry
<1>4. \A p \in store : \E i \in C : paths[i] = p
  BY <1>3, EntryIsCandidate
<1>5. \A p \in store : p \in Seq(Nat) /\ Len(p) \in DOMAIN p
  BY TreeHasPath
<1> HIDE DEF rows, paths, C
<1>6. found # {} /\ found \in SUBSET Nat
  BY <1>1, <1>2 DEF rows
<1>7. Min(found) \in found
  BY <1>6, LeastElement
<1> DEFINE i == Min(found)
<1> HIDE DEF i
<1>8. i \in found /\ i \in C
  BY <1>7 DEF i
<1> DEFINE entry == paths[i]
<1>9. PassPickEntry(rows) = entry
  BY <1>1, <1>6 DEF i
<1>10. entry \in store
  BY <1>3, <1>8
<1>11. \E j \in DOMAIN entry : entry[j] \in Similar
  BY <1>5, <1>8, <1>10 DEF Similar, Target
<1>12. (\E e \in store : e[Len(e)] = Target) => entry[Len(entry)] = Target
  BY <1>4, <1>8
<1> QED
  BY <1>9, <1>10, <1>11, <1>12 DEF EntryFits, rows

\* What is picked from the entries of pass is such an entry of the store that
\* was listed, also while it is still being shown.
EntryInv ==
  caller = "pass" =>
    /\ stage \in {"begin", "first", "second", "end"}
    /\ stage \in {"begin", "first"} => picked = {}
    /\ \A entry \in picked : EntryFits(entry, listing)

\* A step of a lookup keeps the invariant.
LEMMA LookupOnEntry ==
  ASSUME EntryInv, LookupStep
  PROVE  EntryInv'
<1>1. SUFFICES ASSUME caller = "pass", caller' = caller
               PROVE  EntryInv'
  BY DEF EntryInv, LookupStep, BeginLookup, Misconfigured, RunFailed, BadOutput,
         Find1password, FindKeepassxc, FindPass, GetItem, FindBitwarden, GotItem,
         ShowPass, BeginProbe, SkipProbe, LookAround, EndProbe, EndProbes
<1>2. CASE FindPass
  <2>1. PICK store \in Stores :
          /\ listing' = store
          /\ GetItem(PassPickEntry(PassFind(store)) # <<>>,
                     PassPickEntry(PassFind(store)))
    BY <1>2 DEF FindPass
  <2> DEFINE found == PassPickEntry(PassFind(store))
  <2>2. picked = {}
    BY <1>1, <1>2 DEF FindPass, Listed, EntryInv
  <2>3. found # <<>> => EntryFits(found, store)
    BY PickFits
  <2>4. /\ listing' = store
        /\ GetItem(found # <<>>, found)
    BY <2>1
  <2> HIDE DEF found
  <2>5. CASE found = <<>>
    BY <1>1, <2>2, <2>4, <2>5 DEF GetItem, End, EntryInv
  <2>6. CASE found # <<>>
    <3>1. /\ picked' = {found} /\ stage' = "second"
          /\ EntryFits(found, listing')
      BY <2>3, <2>4, <2>6 DEF GetItem
    <3>2. \A entry \in picked' : EntryFits(entry, listing')
      BY <3>1
    <3> QED
      BY <3>1, <3>2 DEF EntryInv
  <2> QED
    BY <2>5, <2>6
<1>3. CASE BeginLookup \/ RunFailed \/ ShowPass
  <2>1. /\ UNCHANGED <<listing, picked>>
        /\ \/ stage' = "end"
           \/ stage' = "first" /\ stage = "begin"
    BY <1>3 DEF BeginLookup, RunFailed, ShowPass, End
  <2> QED
    BY <1>1, <2>1 DEF EntryInv
<1>4. ~ (Misconfigured \/ BadOutput \/ Find1password \/ FindKeepassxc
           \/ FindBitwarden \/ GotItem \/ BeginProbe \/ SkipProbe \/ LookAround
           \/ EndProbe \/ EndProbes)
  BY <1>1 DEF EntryInv, Misconfigured, BadOutput, Find1password, FindKeepassxc,
              FindBitwarden, GotItem, BeginProbe, SkipProbe, LookAround, Checking,
              EndProbe, EndProbes, Doctors
<1> QED
  BY <1>2, <1>3, <1>4 DEF LookupStep

\* The invariant holds in every state of a command.
LEMMA EntryInvariant == DoctorSpec => []EntryInv
<1>1. BundleInit => EntryInv
  BY DEF BundleInit, LookupInit, EntryInv
<1>2. EntryInv /\ [DoctorNext]_doctorVars => EntryInv'
  <2> SUFFICES ASSUME EntryInv, [DoctorNext]_doctorVars
               PROVE  EntryInv'
    OBVIOUS
  <2>1. CASE LookupStep
    BY <2>1, LookupOnEntry
  <2>2. CASE BundleStep \/ Tar
    <3>1. caller = "bundle" /\ caller' = "bundle"
      BY <2>2 DEF BundleStep, Tar, BeginBundle, WriteGiven, BeginOsProbe,
                  EndOsProbe, WriteOsInfo, WriteListing, WriteManifest,
                  ChmodArchive
    <3> QED
      BY <3>1 DEF EntryInv
  <2>3. CASE UNCHANGED lookupVars
    BY <2>3 DEF lookupVars, EntryInv
  <2> QED
    BY <2>1, <2>2, <2>3 DEF DoctorNext, doctorVars, providerVars
<1> QED
  BY <1>1, <1>2, PTL DEF DoctorSpec

\* For every finite store, however deep its directories: the path that
\* pass_pick_entry puts together from the tree `pass find` prints is an entry of
\* the store that contains the host, and it ends in the host if any entry does.
THEOREM PickedEntryCorrect == DoctorSpec => []PickedEntryExists
<1>1. EntryInv => PickedEntryExists
  BY DEF EntryInv, PickedEntryExists, EntryFits
<1> QED
  BY <1>1, EntryInvariant, PTL
================================================================================
