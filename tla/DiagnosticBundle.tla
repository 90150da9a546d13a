---------------------------- MODULE DiagnosticBundle ----------------------------
(***************************************************************************)
(* `apw doctor --bundle` (bundle.rs): the JSON files of the bundle are     *)
(* collected, audited and written to a staging directory, and tar makes    *)
(* the archive of it.  Together with the commands of ProviderLookup, whose *)
(* way of running programs it shares.                                      *)
(*                                                                         *)
(* A payload is the set of its strings: the field a string is under, and   *)
(* its shape, which is what the heuristics of bundle.rs make of it ("hard" *)
(* is a secret wherever it is, "random" one in free text).  What the       *)
(* payloads contain is external.                                           *)
(***************************************************************************)
EXTENDS ProviderLookup

CONSTANT Payloads   \* what doctor, the probes and the listing may contain

ASSUME PayloadsAssumption ==
  \A p \in Payloads : \A s \in p :
    /\ s.field \in {"skipped", "path", "text"}
    /\ s.shape \in {"plain", "random", "hard"}

VARIABLES
  staged,   \* the files in the staging directory
  archive,  \* the files of the archive at the output path
  fresh,    \* what is there is no longer what was there before
  private,  \* its mode is 0600
  audited   \* names of the files that have passed the audit (history)

bundleVars == <<staged, archive, fresh, private, audited>>
doctorVars == <<providerVars, bundleVars>>

Files == {"doctor", "environment", "os", "listing"}
File(name, payload) == [name |-> name, payload |-> payload]

BundleInit ==
  /\ LookupInit
  /\ staged = {} /\ archive = {} /\ audited = {}
  /\ fresh = FALSE /\ private = FALSE

\* looks_secret_like_for_kind.
LooksSecretLike(s) ==
  s.shape = "hard" \/ (s.shape = "random" /\ s.field = "text")

\* audit_redaction: walk_strings leaves out what is under remediation, hint,
\* id or name.
AuditRedaction(payload) ==
  \A s \in payload : s.field # "skipped" => ~LooksSecretLike(s)

\* StagingDir::drop: the directory is removed, or that fails and is ignored.
DropStaging == staged' \in {staged, {}}

Abort(status) ==
  /\ End(status)
  /\ DropStaging
  /\ UNCHANGED <<archive, fresh, private, audited>>

\* Mutant: the archive of an earlier run is removed first.
BeginBundleRemoves ==
  /\ stage = "begin" /\ caller = "bundle"
  /\ stage' = "doctor"
  /\ fresh' = TRUE
  /\ UNCHANGED <<caller, listing, picked, report, result, staged, archive,
                 private, audited>>
  /\ UNCHANGED childVars

\* The output path is refused, or the staging directory is created, or not.
BeginBundle ==
  /\ stage = "begin" /\ caller = "bundle"
  /\ \/ /\ stage' = "doctor"
        /\ UNCHANGED result /\ UNCHANGED bundleVars
     \/ \E status \in {"InvalidParam", "ProcessNotRunning"} : Abort(status)
  /\ UNCHANGED <<caller, listing, picked, report>> /\ UNCHANGED childVars

\* write_json_file: audited before it is written.  Writing may fail, too.
WriteJsonFile(name, payload, next) ==
  \/ /\ AuditRedaction(payload)
     /\ audited' = audited \cup {name}
     /\ staged' = staged \cup {File(name, payload)}
     /\ stage' = next
     /\ UNCHANGED <<result, archive, fresh, private>>
  \/ ~AuditRedaction(payload) /\ Abort("InvalidConfig")
  \/ AuditRedaction(payload) /\ Abort("ProcessNotRunning")

\* The payloads that are there when write_diagnostic_bundle is called.
WriteGiven ==
  /\ caller = "bundle"
  /\ \E payload \in Payloads :
       \/ stage = "doctor" /\ WriteJsonFile("doctor", payload, "environment")
       \/ stage = "environment" /\ WriteJsonFile("environment", payload, "probes")
  /\ UNCHANGED <<caller, listing, picked, report>> /\ UNCHANGED childVars

\* collect_os_info: uname, and on macOS three times sw_vers.
BeginOsProbe ==
  /\ caller = "bundle" /\ stage = "probes" /\ report.done < 4
  /\ stage' = "os"
  /\ Start("thread", FALSE)
  /\ UNCHANGED <<caller, listing, picked, report, result>>
  /\ UNCHANGED bundleVars

\* probe_first_line: a line, or null for whatever goes wrong.  (The report is
\* that there has been a line.)
EndOsProbe ==
  /\ caller = "bundle" /\ stage = "os" /\ ph = "done"
  /\ \E line \in {"line", "null"} :
       /\ line = "line" => outcome = "ok" /\ got["stdout"] > 0
       /\ Reported(IF report.last = "line" THEN "line" ELSE line)
  /\ stage' = "probes"
  /\ UNCHANGED <<caller, listing, picked, result>>
  /\ UNCHANGED childVars /\ UNCHANGED bundleVars

WriteOsInfo ==
  /\ caller = "bundle" /\ stage = "probes" /\ report.done \in {1, 4}
  /\ \E payload \in Payloads :
       /\ report.last = "null" => payload = {}
       /\ WriteJsonFile("os", payload, "listing")
  /\ UNCHANGED <<caller, listing, picked, report>> /\ UNCHANGED childVars

\* collect_native_app_listing: every entry's name is under "path".
WriteListing ==
  /\ caller = "bundle" /\ stage = "listing"
  /\ \E payload \in Payloads :
       /\ \A s \in payload : s.field = "path"
       /\ WriteJsonFile("listing", payload, "manifest")
  /\ UNCHANGED <<caller, listing, picked, report>> /\ UNCHANGED childVars

\* The manifest is written, and what is at the output path removed.
WriteManifest ==
  /\ caller = "bundle" /\ stage = "manifest"
  /\ \/ /\ staged' = staged \cup {File("manifest", {})}
        /\ stage' = "tar"
        /\ fresh' = TRUE
        /\ UNCHANGED <<result, archive, private, audited>>
     \/ Abort("ProcessNotRunning")
  /\ UNCHANGED <<caller, listing, picked, report>> /\ UNCHANGED childVars

\* tar ends, in its own time.  If it fails nothing, a part (one file
\* stands for it) or all of the archive may be there.
Tar ==
  /\ caller = "bundle" /\ stage = "tar"
  /\ \/ /\ archive' = staged
        /\ stage' = "chmod"
        /\ UNCHANGED <<result, staged>>
     \/ /\ archive' \in {{}, staged} \cup {{f} : f \in staged}
        /\ End("ProcessNotRunning")
        /\ DropStaging
  /\ UNCHANGED <<fresh, private, audited, caller, listing, picked, report>>
  /\ UNCHANGED childVars

ChmodArchive ==
  /\ caller = "bundle" /\ stage = "chmod"
  /\ \/ /\ private' = TRUE
        /\ End("bundled")
        /\ DropStaging
        /\ UNCHANGED <<archive, fresh, audited>>
     \/ Abort("InvalidConfig")
  /\ UNCHANGED <<caller, listing, picked, report>> /\ UNCHANGED childVars

BundleStep ==
  \/ BeginBundle \/ WriteGiven \/ BeginOsProbe \/ EndOsProbe \/ WriteOsInfo
  \/ WriteListing \/ WriteManifest \/ ChmodArchive

DoctorNext ==
  \/ LookupStep /\ UNCHANGED bundleVars
  \/ BundleStep \/ Tar
  \/ ChildStep /\ UNCHANGED lookupVars /\ UNCHANGED bundleVars

\* The CLI's threads run, and time passes; the programs owe nothing.
DoctorSpec ==
  /\ BundleInit
  /\ [][DoctorNext]_doctorVars
  /\ WF_doctorVars((LookupStep /\ UNCHANGED bundleVars) \/ BundleStep)
  /\ WF_doctorVars(CallerStep /\ UNCHANGED lookupVars /\ UNCHANGED bundleVars)
  /\ WF_doctorVars(TimePasses /\ UNCHANGED lookupVars /\ UNCHANGED bundleVars)

--------------------------------------------------------------------------------
(***************************************************************************)
(* Properties.                                                             *)
(***************************************************************************)

\* The bundle fails closed: what an earlier run left at the output path is
\* touched only after every file of this bundle has passed the audit; no file
\* that is staged or archived, also by a tar that fails half-way, has a string
\* of a hard secret shape, or a random one in free text, in a field that
\* walk_strings visits; and a bundle that is reported is complete and private.
\* It does not say that every string was scanned, as
\* docs/SECURITY_POSTURE_AND_TESTING.md:101 does: strings under remediation,
\* hint, id and name are not, and random ones in a path are let through.
BundleFailsClosed ==
  /\ fresh => audited = Files
  /\ \A f \in staged \cup archive : \A s \in f.payload :
       \/ s.field = "skipped"
       \/ s.shape # "hard" /\ (s.field = "text" => s.shape # "random")
  /\ result = "bundled" =>
       /\ {f.name : f \in archive} = Files \cup {"manifest"}
       /\ private
================================================================================
