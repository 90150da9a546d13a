----------------------------- MODULE ConfigStore -----------------------------
(***************************************************************************)
(* ~/.apw/config.json and the keychain entry beside it: write_config,      *)
(* read_config and clear_config of utils.rs, with secrets.rs, as the v1.x  *)
(* commands and daemons use them.                                          *)
(*                                                                         *)
(* A session is a user name and a key.  ApplePasswordManager::new takes    *)
(* the name over from a session it can read and makes one up only if there *)
(* is none, so an authentication may agree a new key under a saved name.   *)
(* With a keychain the key is stored there under the name, in place of the *)
(* one before it, and the file only holds the name; without a keychain the *)
(* file holds the key too.                                                 *)
(*                                                                         *)
(* Nothing locks.  A write reads the file, changes the keychain, writes a  *)
(* temporary file of its own and renames it over config.json.  A clear     *)
(* reads the file again, deletes the key of the name it read and removes   *)
(* whatever config.json is by then.  The processes (commands and daemons)  *)
(* run these steps in any order, fail in any of them and are killed        *)
(* between any two.                                                        *)
(***************************************************************************)
CONSTANTS
  Procs,     \* processes of the user that work on the configuration
  Names,     \* user names SRPSession::new can make up
  Keys,      \* keys an authentication can agree; each agrees a new one
  None,      \* the empty user name, no key
  Garbled,   \* a key that is not base64
  Keychains  \* values of supports_keychain() to consider

ASSUME NamesAssumption == None \notin Names
ASSUME KeysAssumption == None \notin Keys /\ Garbled \notin Keys \cup {None}
ASSUME KeychainsAssumption == Keychains \subseteq BOOLEAN

VARIABLES
  supports,  \* supports_keychain(): the build is for macOS
  file,      \* config.json
  keychain,  \* the key stored under each name
  expired,   \* dates older than SESSION_MAX_AGE_MS
  op,        \* operation each process is in
  pc,        \* where it is in it
  name,      \* session.username of its ApplePasswordManager, None without one
  key,       \* key its authentication has agreed and is saving
  old,       \* content of config.json it has read
  res,       \* key its last read_config returned
  nameOf,    \* history: the name each key was agreed under
  prior,     \* history: the keys whose authentication was over when this
             \* key's saving began
  ended,     \* history: keys that were logged out
  safe       \* history: the key saved last, undisturbed

localVars == <<op, pc, name, key, old, res>>
historyVars == <<nameOf, prior, ended, safe>>
configVars == <<supports, file, keychain, expired, localVars, historyVars>>

\* What read_user_config_file_or_null tells apart: no file; "bad", a file that
\* it clears (not JSON, too large, another schema, port 0, not a regular file);
\* "zero", one of the legacy format with port 0, which only read_config clears;
\* "foreign", JSON of neither format, which it leaves; and a configuration.
\* createdAt is the time an authentication was saved, and "created" the key of
\* that authentication; prov says that the file configures an external provider.
Files == [state : {"absent", "bad", "zero", "foreign", "ok"}, user : Names \cup {None},
          key : Keys \cup {None, Garbled}, source : {"legacy", "file", "keychain"},
          created : Keys \cup {None}, prov : BOOLEAN]

Blank(st) == [state |-> st, user |-> None, key |-> None,
              source |-> "file", created |-> None, prov |-> FALSE]

Ops == {"none", "auth", "meta", "start", "read", "logout"}

\* The key a read of f finds when the keychain answers.
SharedSecret(f) ==
  IF f.source = "keychain" /\ f.user # None /\ keychain[f.user] # None
  THEN keychain[f.user] ELSE f.key

\* stale_config; the time of a file without a session is not tracked.
Stale(f) == IF f.created = None THEN BOOLEAN ELSE {f.created \in expired}

\* read_config_file_or_null: a configuration whose external provider does not
\* validate (its executable moved, or changed owner or mode) is an error.
Validates(f) == IF f.prov THEN BOOLEAN ELSE {TRUE}

-----------------------------------------------------------------------------
\* An earlier version may have left a session in the file, with the key inline
\* and perhaps in the legacy format, or something else in its place.
ConfigInit ==
  /\ supports \in Keychains
  /\ \/ /\ \/ \E st \in {"absent", "bad", "zero", "foreign"} : file = Blank(st)
           \/ file = [Blank("ok") EXCEPT !.key = Garbled]
        /\ nameOf = [k \in Keys |-> None]
     \/ \E n \in Names, k \in Keys, prov \in BOOLEAN, source \in {"legacy", "file"} :
          /\ prov => source = "file"
          /\ file = [state |-> "ok", user |-> n, key |-> k, source |-> source,
                     created |-> k, prov |-> prov]
          /\ nameOf = [j \in Keys |-> IF j = k THEN n ELSE None]
  /\ keychain = [n \in Names |-> None]
  /\ expired = {}
  /\ op = [p \in Procs |-> "none"]
  /\ pc = [p \in Procs |-> "idle"]
  /\ name = [p \in Procs |-> None]
  /\ key = [p \in Procs |-> None]
  /\ old = [p \in Procs |-> Blank("absent")]
  /\ res = [p \in Procs |-> None]
  /\ prior = [k \in Keys |-> {}]
  /\ ended = {}
  /\ safe = {}

\* The operation is over.
Done(p) ==
  /\ op' = [op EXCEPT ![p] = "none"]
  /\ pc' = [pc EXCEPT ![p] = "idle"]
  /\ key' = [key EXCEPT ![p] = None]
  /\ old' = [old EXCEPT ![p] = Blank("absent")]

Goto(p, l) == pc' = [pc EXCEPT ![p] = l] /\ UNCHANGED <<op, key>>

\* A random name: nobody has it.
Fresh == {n \in Names : /\ \A k \in Keys : nameOf[k] # n
                        /\ \A p \in Procs : name[p] # n}

\* What becomes of the manager of p: ApplePasswordManager::new takes one of the
\* given names; ensure_authenticated without a session, and a read that is not
\* a manager's, keep what there is.
Manager(p, names) ==
  \E n \in names \cup {name[p]} : name' = [name EXCEPT ![p] = n]

\* Keys whose authentication is over, saved or not.
Finished == {k \in Keys : nameOf[k] # None /\ \A p \in Procs : key[p] # k}

\* No process but p is writing or clearing, or holds what it will clear; no
\* process but p is doing anything at all.
Alone(p) ==
  \A q \in Procs \ {p} : pc[q] = "idle" \/ (pc[q] = "lookup" /\ old[q].key # Garbled)
Quiet(p) == \A q \in Procs \ {p} : pc[q] = "idle"

\* The key that goes with the file when p, alone, removes or replaces it.
Lost(p) == IF Quiet(p) THEN {SharedSecret(file)} \cap Keys ELSE {}

-----------------------------------------------------------------------------
(* write_config *)

\* Its callers: verify_challenge saves the key it has agreed ("auth"), a
\* daemon's start-up clears the authentication ("start"), a daemon records
\* what became of its helper or bridge ("meta").  The read of the existing file
\* clears a bad one.
WriteBegin(p, kind) ==
  /\ pc[p] = "idle"
  /\ op' = [op EXCEPT ![p] = kind]
  /\ res' = [res EXCEPT ![p] = None]
  /\ IF kind = "auth"
     THEN /\ name[p] # None
          /\ \E k \in Keys :
               /\ nameOf[k] = None
               /\ key' = [key EXCEPT ![p] = k]
               /\ nameOf' = [nameOf EXCEPT ![k] = name[p]]
               /\ prior' = [prior EXCEPT ![k] = Finished]
     ELSE UNCHANGED <<key, nameOf, prior>>
  /\ IF file.state = "bad"
     THEN /\ pc' = [pc EXCEPT ![p] = "clear"]
          /\ UNCHANGED <<old, safe>>
     ELSE \E valid \in Validates(file) :
            LET existing == IF file.state = "ok" /\ valid THEN file ELSE Blank("absent")
            IN  /\ pc' = [pc EXCEPT ![p] = "key"]
                /\ old' = [old EXCEPT ![p] = existing]
                /\ safe' = IF \/ kind = "start"
                              \/ kind = "meta" /\ existing.source = "keychain"
                              \/ kind = "meta" /\ existing.state # "ok"
                           THEN {} ELSE safe
  /\ UNCHANGED <<supports, file, keychain, expired, name, ended>>

\* Mutant: the key is stored under the name in the existing file.
WriteSharedKeyOldName(p) ==
  /\ pc[p] = "key" /\ op[p] = "auth"
  /\ keychain' = IF supports /\ old[p].user # None
                 THEN [keychain EXCEPT ![old[p].user] = key[p]] ELSE keychain
  /\ Goto(p, "save")
  /\ UNCHANGED <<supports, file, expired, name, old, res, historyVars>>

\* The new key goes to the keychain before the file is written; security's -U
\* replaces the key of an earlier authentication under the same name.
WriteSharedKey(p) ==
  /\ pc[p] = "key" /\ op[p] = "auth"
  /\ keychain' = IF supports THEN [keychain EXCEPT ![name[p]] = key[p]] ELSE keychain
  /\ Goto(p, "save")
  /\ UNCHANGED <<supports, file, expired, name, old, res, historyVars>>

\* Mutant: the outcome is ignored, as it is for deletions.
WriteSharedKeyFailsIgnored(p) ==
  /\ pc[p] = "key" /\ op[p] = "auth" /\ supports
  /\ Goto(p, "save")
  /\ UNCHANGED <<supports, file, keychain, expired, name, old, res, historyVars>>

WriteSharedKeyFails(p) ==
  /\ pc[p] = "key" /\ op[p] = "auth" /\ supports
  /\ Done(p)
  /\ UNCHANGED <<supports, file, keychain, expired, name, res, historyVars>>

\* delete_shared_key for the name in the file p has read, if it has one of the
\* given sources; the outcome is ignored.  A key that a logout or a start-up
\* deletes is ended.
DeleteSharedKey(p, sources, ending) ==
  LET n == old[p].user
      there == supports /\ old[p].source \in sources /\ n # None
  IN  \/ UNCHANGED <<keychain, ended>>
      \/ /\ there
         /\ keychain' = [keychain EXCEPT ![n] = None]
         /\ ended' = IF op[p] = ending THEN ended \cup ({keychain[n]} \cap Keys)
                                       ELSE ended

\* A write without a key drops the key of a session in the keychain, for a
\* start-up and for metadata alike.
DropSharedKey(p) ==
  /\ pc[p] = "key" /\ op[p] \in {"meta", "start"}
  /\ DeleteSharedKey(p, {"keychain"}, "start")
  /\ Goto(p, "save")
  /\ UNCHANGED <<supports, file, expired, name, old, res, nameOf, prior, safe>>

\* What the rename puts in place.
Updated(p) ==
  CASE op[p] = "auth" ->
         [state |-> "ok", user |-> name[p],
          key |-> IF supports THEN None ELSE key[p],
          source |-> IF supports THEN "keychain" ELSE "file",
          created |-> key[p], prov |-> old[p].prov]
    [] op[p] = "meta" ->
         [old[p] EXCEPT !.state = "ok",
                        !.source = IF @ = "keychain" THEN @ ELSE "file"]
    [] OTHER -> [Blank("ok") EXCEPT !.prov = old[p].prov]

\* The temporary file, whose random name no other process uses, is renamed.
RenameConfig(p) ==
  /\ pc[p] = "save"
  /\ file' = Updated(p)
  /\ ended' = IF op[p] = "start" THEN ended \cup Lost(p) ELSE ended
  /\ safe' = IF op[p] # "auth" THEN safe
             ELSE IF Alone(p) /\ (supports => keychain[name[p]] = key[p])
                  THEN {key[p]} \ expired ELSE {}
  /\ Done(p)
  /\ UNCHANGED <<supports, keychain, expired, name, res, nameOf, prior>>

\* The temporary file cannot be created, written, synced or renamed.
RenameConfigFails(p) ==
  /\ pc[p] = "save"
  /\ Done(p)
  /\ UNCHANGED <<supports, file, keychain, expired, name, res, historyVars>>

-----------------------------------------------------------------------------
(* clear_config *)

ClearRead(p) ==
  /\ pc[p] = "clear"
  /\ old' = [old EXCEPT ![p] = file]
  /\ Goto(p, "delete")
  /\ UNCHANGED <<supports, file, keychain, expired, name, res, historyVars>>

ClearDelete(p) ==
  /\ pc[p] = "delete"
  /\ DeleteSharedKey(p, {"keychain", "legacy"}, "logout")
  /\ Goto(p, "remove")
  /\ UNCHANGED <<supports, file, expired, name, old, res, nameOf, prior, safe>>

\* Where the caller goes on after a clear: a write without an existing file, a
\* read and a logout return, the logout with a new session.
Cleared(p) ==
  CASE op[p] = "read" -> Done(p) /\ Manager(p, Fresh)
    [] op[p] = "logout" ->
         Done(p) /\ \E n \in Fresh \cup {None} : name' = [name EXCEPT ![p] = n]
    [] OTHER -> /\ old' = [old EXCEPT ![p] = Blank("absent")]
                /\ Goto(p, "key")
                /\ UNCHANGED name

\* Mutant: clear_config stops after the keychain entry.
ClearRemoveKeyOnly(p) ==
  /\ pc[p] = "remove"
  /\ Cleared(p)
  /\ ended' = IF op[p] = "logout" THEN ended \cup Lost(p) ELSE ended
  /\ UNCHANGED <<supports, file, keychain, expired, res, nameOf, prior, safe>>

ClearRemove(p) ==
  /\ pc[p] = "remove"
  /\ file' = Blank("absent")
  /\ Cleared(p)
  /\ ended' = IF op[p] = "logout" THEN ended \cup Lost(p) ELSE ended
  /\ UNCHANGED <<supports, keychain, expired, res, nameOf, prior, safe>>

\* logout
Logout(p) ==
  /\ pc[p] = "idle"
  /\ op' = [op EXCEPT ![p] = "logout"]
  /\ pc' = [pc EXCEPT ![p] = "clear"]
  /\ res' = [res EXCEPT ![p] = None]
  /\ safe' = {}
  /\ UNCHANGED <<supports, file, keychain, expired, name, key, old, nameOf, prior,
                 ended>>

-----------------------------------------------------------------------------
(* read_config, which every command calls with require_auth: false *)

\* A file that is bad, has port 0 or is stale is cleared; of another one the
\* secret is resolved.
ReadConfig(p) ==
  /\ pc[p] = "idle"
  /\ \E valid \in Validates(file), stale \in Stale(file) :
       LET usable == file.state = "ok" /\ valid
           next == CASE file.state \in {"bad", "zero"} \/ (usable /\ stale) -> "clear"
                     [] usable /\ ~stale -> "lookup"
                     [] OTHER -> "idle"
       IN  /\ pc' = [pc EXCEPT ![p] = next]
           /\ op' = [op EXCEPT ![p] = IF next = "idle" THEN "none" ELSE "read"]
           /\ old' = [old EXCEPT ![p] = IF next = "lookup" THEN file ELSE @]
           /\ res' = [res EXCEPT ![p] = None]
           /\ IF next = "idle" THEN Manager(p, Fresh) ELSE UNCHANGED name
  /\ UNCHANGED <<supports, file, keychain, expired, key, historyVars>>

\* read_config goes on with the secret: one that cannot be decoded clears the
\* configuration; the manager takes the name over only with a key.
Resolve(p, secret) ==
  IF secret = Garbled
  THEN Goto(p, "clear") /\ UNCHANGED <<name, old, res>>
  ELSE /\ res' = [res EXCEPT ![p] = secret]
       /\ Done(p)
       /\ Manager(p, IF secret # None /\ old[p].user # None
                     THEN {old[p].user} ELSE Fresh)

\* Mutant: the account is taken for the secret (find-generic-password without -w).
ReadSharedKeyAccount(p) ==
  /\ pc[p] = "lookup"
  /\ Resolve(p, IF old[p].source = "keychain" THEN old[p].user ELSE old[p].key)
  /\ UNCHANGED <<supports, file, keychain, expired, historyVars>>

\* The key in the file or in the keychain.
ReadSharedKey(p) ==
  /\ pc[p] = "lookup"
  /\ Resolve(p, SharedSecret(old[p]))
  /\ UNCHANGED <<supports, file, keychain, expired, historyVars>>

\* Mutant: a keychain that fails makes the session invalid.
ReadSharedKeyFailsClears(p) ==
  /\ pc[p] = "lookup"
  /\ Goto(p, "clear")
  /\ UNCHANGED <<supports, file, keychain, expired, name, old, res, historyVars>>

\* A keychain that fails is one without the entry.
ReadSharedKeyFails(p) ==
  /\ pc[p] = "lookup"
  /\ Resolve(p, old[p].key)
  /\ UNCHANGED <<supports, file, keychain, expired, historyVars>>

-----------------------------------------------------------------------------
\* A process ends, or is killed between two steps.
Killed(p) ==
  /\ pc[p] # "idle" \/ name[p] # None
  /\ Done(p)
  /\ name' = [name EXCEPT ![p] = None]
  /\ UNCHANGED <<supports, file, keychain, expired, res, historyVars>>

\* Time passes.
Expire(k) ==
  /\ nameOf[k] # None /\ k \notin expired
  /\ expired' = expired \cup {k}
  /\ safe' = safe \ {k}
  /\ UNCHANGED <<supports, file, keychain, localVars, nameOf, prior, ended>>

ConfigNext ==
  \/ \E p \in Procs :
       \/ \E kind \in {"auth", "start", "meta"} : WriteBegin(p, kind)
       \/ WriteSharedKey(p) \/ WriteSharedKeyFails(p) \/ DropSharedKey(p)
       \/ RenameConfig(p) \/ RenameConfigFails(p)
       \/ ClearRead(p) \/ ClearDelete(p) \/ ClearRemove(p) \/ Logout(p)
       \/ ReadConfig(p) \/ ReadSharedKey(p) \/ ReadSharedKeyFails(p)
       \/ Killed(p)
  \/ \E k \in Keys : Expire(k)

ConfigSpec == ConfigInit /\ [][ConfigNext]_configVars

-----------------------------------------------------------------------------
ConfigTypeOK ==
  /\ supports \in BOOLEAN
  /\ file \in Files
  /\ keychain \in [Names -> Keys \cup {None}]
  /\ expired \subseteq Keys
  /\ op \in [Procs -> Ops]
  /\ pc \in [Procs -> {"idle", "key", "save", "lookup", "clear", "delete", "remove"}]
  /\ name \in [Procs -> Names \cup {None}]
  /\ key \in [Procs -> Keys \cup {None}]
  /\ old \in [Procs -> Files]
  /\ res \in [Procs -> Keys \cup {None}]
  /\ nameOf \in [Keys -> Names \cup {None}]
  /\ prior \in [Keys -> SUBSET Keys]
  /\ ended \subseteq Keys
  /\ safe \subseteq Keys

\* A name and a key that are read together belong together: the key was agreed
\* under that name, and the date beside them is not the date of an
\* authentication that began when the key's own was over.  write_config puts a
\* configuration together from its input, the file it read and a keychain entry
\* that others replace: no interleaving of re-authentications, metadata writes,
\* clears and deaths pairs one name with another's key, or makes an old key
\* young again.  (The reverse happens: a re-authentication that dies before the
\* rename leaves its key with the date of the key it replaced.)
Coherent(f) ==
  LET k == SharedSecret(f) IN
    k \in Keys => /\ nameOf[k] = f.user
                  /\ f.created \in Keys /\ k \notin prior[f.created]

SessionKeepsAge == Coherent(file) /\ \A p \in Procs : Coherent(old[p])

\* A key that was logged out is not used again: the key that logout or a
\* daemon's start-up deleted from the keychain is never again returned by
\* read_config, whatever writes overlapped it, and neither is the key that went
\* with the file (inline, or left behind by a failed deletion), if no other
\* process was in the middle of an operation then.
LoggedOutStaysOut ==
  [][\A p \in Procs : res'[p] # res[p] => res'[p] \notin ended]_configVars

\* A session that was readable when it had been saved, with no other write or
\* clear under way then, stays readable until a logout, a start-up, its expiry,
\* a metadata write over a key in the keychain or a metadata write while the
\* external provider does not validate: with its key or with one agreed later
\* under its name.  Reads, however many, failed or killed authentications and
\* other metadata writes do not lose it.
SavedSessionStays ==
  \A k \in safe :
    LET now == SharedSecret(file) IN
      /\ file.state = "ok" /\ file.user = nameOf[k]
      /\ now \in Keys /\ nameOf[now] = nameOf[k] /\ now \notin prior[k]

\* The inductive invariant behind them.  Where each operation can be:
ControlInv ==
  \A p \in Procs :
    /\ op[p] = "none" <=> pc[p] = "idle"
    /\ pc[p] \in {"key", "save"} => op[p] \in {"auth", "meta", "start"}
    /\ pc[p] = "lookup" => op[p] = "read"
    /\ op[p] = "read" => pc[p] \notin {"key", "save"}
    /\ op[p] = "auth" <=> key[p] # None
    /\ key[p] # None => name[p] # None /\ nameOf[key[p]] = name[p]

\* A key that is being saved is in no file and in no copy of one, it is in
\* the keychain at most once it was written there, and it is no other's.
UnsavedInv ==
  \A p \in Procs : key[p] # None =>
    /\ file.key # key[p]
    /\ \A q \in Procs : old[q].key # key[p] /\ (q # p => key[q] # key[p])
    /\ \A k \in Keys : key[p] \notin prior[k]
    /\ pc[p] # "save" => \A n \in Names : keychain[n] # key[p]
    /\ ~supports \/ pc[p] # "save" => key[p] \notin ended

\* What a configuration says of its session: an inline key is the one that is
\* dated, a key in the keychain is none of those that were over by its date.
Dated(f) ==
  /\ f.key \in Keys => /\ f.source # "keychain" /\ f.created = f.key
                       /\ nameOf[f.key] = f.user /\ f.user # None
                       /\ \A n \in Names : keychain[n] # f.key
  /\ f.source = "keychain" =>
       /\ f.key = None /\ f.created \in Keys /\ f.user # None
       /\ keychain[f.user] \notin prior[f.created]
  /\ f.created \in Keys => nameOf[f.created] # None

StoreInv ==
  /\ Dated(file)
  /\ \A p \in Procs : Dated(old[p])
  /\ \A p \in Procs :
       supports /\ op[p] = "auth" /\ pc[p] = "save" =>
         keychain[name[p]] \notin prior[key[p]]
  /\ \A k \in Keys : k \notin prior[k] /\ (nameOf[k] = None => \A j \in Keys : k \notin prior[j])
  /\ \A n \in Names :
       keychain[n] # None => supports /\ nameOf[keychain[n]] = n

\* A key that was logged out is in no file or copy that is still used, and no
\* such file, copy or write names the user it may have been left behind under.
Out(k) ==
  LET held(p) == op[p] # "auth" /\ pc[p] \in {"key", "save", "lookup"} IN
  /\ nameOf[k] # None
  /\ file.key # k /\ \A p \in Procs : held(p) => old[p].key # k
  /\ keychain[nameOf[k]] = k =>
       /\ file.user # nameOf[k]
       /\ \A p \in Procs :
            /\ held(p) => old[p].user # nameOf[k]
            /\ op[p] = "auth" /\ pc[p] = "save" => name[p] # nameOf[k]

EndedInv == \A k \in ended : Out(k)

\* While a session is safe, what is under way cannot touch it.
SafeInv ==
  \A k \in safe :
    /\ nameOf[k] # None
    /\ file.state = "ok" /\ file.user = nameOf[k] /\ file.created = k
    /\ SharedSecret(file) \in Keys
    /\ k \notin expired
    /\ \A p \in Procs :
         /\ pc[p] \in {"idle", "key", "save", "lookup"}
         /\ pc[p] = "lookup" => old[p].key # Garbled
         /\ pc[p] \in {"key", "save"} =>
              \/ op[p] = "auth"
              \/ /\ op[p] = "meta" /\ old[p].user = nameOf[k]
                 /\ old[p].created = k
                 /\ old[p].source # "keychain" /\ old[p].key = k

ConfigInv ==
  /\ SessionKeepsAge /\ ControlInv /\ UnsavedInv /\ StoreInv /\ EndedInv /\ SafeInv

\* A metadata write (allow_empty without clear_auth) leaves the session as it
\* is, which is what the tests of write_config say it does.
MetadataKeepsSession ==
  [][\A p \in Procs : op[p] = "meta" /\ old[p].state = "ok" /\ Alone(p) /\ pc'[p] # pc[p] =>
       SharedSecret(file)' = SharedSecret(file)]_configVars
=============================================================================
