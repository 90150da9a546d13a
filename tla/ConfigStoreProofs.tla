------------------------- MODULE ConfigStoreProofs -------------------------
(***************************************************************************)
(* Proofs about ConfigStore for any processes, names and keys.             *)
(*                                                                         *)
(* Most actions change the store in one of a few ways.  StepForms names    *)
(* them, and each part of the invariant is then shown over the forms.      *)
(***************************************************************************)
EXTENDS ConfigStore, TLAPS

\* The operation of p is over and nothing else has changed.
Ends(p) ==
  \E n \in Names \cup {None}, o \in {old[p], Blank("absent")} :
    /\ op' = [op EXCEPT ![p] = "none"]
    /\ pc' = [pc EXCEPT ![p] = "idle"]
    /\ key' = [key EXCEPT ![p] = None]
    /\ old' = [old EXCEPT ![p] = o]
    /\ name' = [name EXCEPT ![p] = n]
    /\ UNCHANGED <<supports, file, keychain, expired, historyVars>>

\* p goes on to l in operation w with the copy o.
Moves(p, w, l, o) ==
  /\ op' = [op EXCEPT ![p] = w]
  /\ pc' = [pc EXCEPT ![p] = l]
  /\ old' = [old EXCEPT ![p] = o]
  /\ UNCHANGED <<supports, file, keychain, expired, key, name, nameOf, prior, ended>>

\* An operation without a key begins with a write, a clear or a lookup.
Begins(p) ==
  /\ pc[p] = "idle"
  /\ \/ \E w \in {"meta", "start"}, o \in {file, Blank("absent")} :
          /\ Moves(p, w, "key", o)
          /\ \/ safe' = {}
             \/ safe' = safe /\ w = "meta" /\ o = file /\ o.source # "keychain"
     \/ \E w \in {"meta", "start", "read", "logout"} :
          /\ Moves(p, w, "clear", old[p])
          /\ \/ safe' = {}
             \/ safe' = safe /\ (file.state # "ok" \/ file.created \notin Keys \ expired)
     \/ Moves(p, "read", "lookup", file) /\ safe' = safe

\* p goes on and has not changed anything that others see.
Continues(p) ==
  /\ safe' = safe
  /\ \/ pc[p] = "lookup" /\ old[p].key = Garbled /\ Moves(p, op[p], "clear", old[p])
     \/ pc[p] = "clear" /\ Moves(p, op[p], "delete", file)
     \/ pc[p] = "delete" /\ Moves(p, op[p], "remove", old[p])
     \/ pc[p] = "key" /\ op[p] # "auth" /\ Moves(p, op[p], "save", old[p])
     \/ pc[p] = "key" /\ op[p] = "auth" /\ ~supports /\ Moves(p, op[p], "save", old[p])

\* p begins to save the key k.
Agrees(p, k) ==
  /\ pc[p] = "idle" /\ name[p] # None /\ nameOf[k] = None
  /\ op' = [op EXCEPT ![p] = "auth"]
  /\ key' = [key EXCEPT ![p] = k]
  /\ nameOf' = [nameOf EXCEPT ![k] = name[p]]
  /\ prior' = [prior EXCEPT ![k] = Finished]
  /\ \/ /\ file.state = "bad" /\ pc' = [pc EXCEPT ![p] = "clear"] /\ old' = old
     \/ /\ pc' = [pc EXCEPT ![p] = "key"]
        /\ \E o \in {file, Blank("absent")} : old' = [old EXCEPT ![p] = o]
  /\ UNCHANGED <<supports, file, keychain, expired, name, ended, safe>>

\* p puts its key into the keychain.
Stores(p) ==
  /\ pc[p] = "key" /\ op[p] = "auth" /\ supports
  /\ keychain' = [keychain EXCEPT ![name[p]] = key[p]]
  /\ pc' = [pc EXCEPT ![p] = "save"]
  /\ UNCHANGED <<supports, file, expired, op, name, key, old, historyVars>>

\* p deletes the entry n from the keychain.
Deletes(p, n) ==
  /\ supports
  /\ n = old[p].user
  /\ keychain' = [keychain EXCEPT ![n] = None]
  /\ \/ /\ pc[p] = "key" /\ op[p] \in {"meta", "start"}
        /\ old[p].source = "keychain" /\ pc' = [pc EXCEPT ![p] = "save"]
     \/ pc[p] = "delete" /\ pc' = [pc EXCEPT ![p] = "remove"]
  /\ ended' \in {ended, ended \cup ({keychain[n]} \cap Keys)}
  /\ UNCHANGED <<supports, file, expired, op, name, key, old, nameOf, prior, safe>>

\* p removes the file.
Removes(p) ==
  /\ pc[p] = "remove"
  /\ file' = Blank("absent")
  /\ old' = [old EXCEPT ![p] = Blank("absent")]
  /\ \/ /\ op' = [op EXCEPT ![p] = "none"]
        /\ pc' = [pc EXCEPT ![p] = "idle"]
        /\ key' = [key EXCEPT ![p] = None]
        /\ \E n \in Names \cup {None} : name' = [name EXCEPT ![p] = n]
        /\ op[p] \in {"read", "logout"}
        /\ ended' \in {ended, ended \cup Lost(p)}
     \/ /\ pc' = [pc EXCEPT ![p] = "key"]
        /\ op[p] \in {"auth", "meta", "start"}
        /\ UNCHANGED <<op, key, name, ended>>
  /\ UNCHANGED <<supports, keychain, expired, nameOf, prior, safe>>

-----------------------------------------------------------------------------
\* A blank configuration has the type of one.
LEMMA BlankType ==
  ASSUME NEW st \in {"absent", "bad", "zero", "foreign", "ok"}
  PROVE  Blank(st) \in Files
BY DEF Blank, Files

\* A write begins with the existing configuration, or clears a bad one first.
LEMMA WriteBeginForm ==
  ASSUME ConfigTypeOK, ControlInv, NEW p \in Procs,
         NEW kind \in {"auth", "start", "meta"}, WriteBegin(p, kind)
  PROVE  Begins(p) \/ \E k \in Keys : Agrees(p, k)
<1>1. /\ pc[p] = "idle" /\ op' = [op EXCEPT ![p] = kind]
      /\ UNCHANGED <<supports, file, keychain, expired, name, ended>>
  BY DEF WriteBegin
<1>2. \/ /\ file.state = "bad" /\ pc' = [pc EXCEPT ![p] = "clear"]
         /\ UNCHANGED <<old, safe>>
      \/ /\ pc' = [pc EXCEPT ![p] = "key"]
         /\ \E o \in {file, Blank("absent")} :
              /\ old' = [old EXCEPT ![p] = o]
              /\ kind = "auth" => safe' = safe
              /\ kind # "auth" =>
                   \/ safe' = {}
                   \/ safe' = safe /\ kind = "meta" /\ o = file /\ o.source # "keychain"
  <2>1. CASE file.state = "bad"
    BY <2>1 DEF WriteBegin
  <2>2. CASE file.state # "bad"
    <3>1. PICK valid \in Validates(file) :
            LET existing == IF file.state = "ok" /\ valid THEN file ELSE Blank("absent")
            IN  /\ pc' = [pc EXCEPT ![p] = "key"]
                /\ old' = [old EXCEPT ![p] = existing]
                /\ safe' = IF \/ kind = "start"
                              \/ kind = "meta" /\ existing.source = "keychain"
                              \/ kind = "meta" /\ existing.state # "ok"
                           THEN {} ELSE safe
      BY <2>2 DEF WriteBegin
    <3>2. CASE file.state = "ok" /\ valid
      BY <3>1, <3>2
    <3>3. CASE ~(file.state = "ok" /\ valid)
      BY <3>1, <3>3 DEF Blank
    <3> QED
      BY <3>2, <3>3
  <2> QED
    BY <2>1, <2>2
<1>3. CASE kind = "auth"
  <2>1. PICK k \in Keys :
          /\ name[p] # None /\ nameOf[k] = None
          /\ key' = [key EXCEPT ![p] = k]
          /\ nameOf' = [nameOf EXCEPT ![k] = name[p]]
          /\ prior' = [prior EXCEPT ![k] = Finished]
    BY <1>3 DEF WriteBegin
  <2>2. Agrees(p, k)
    BY <1>1, <1>2, <1>3, <2>1 DEF Agrees
  <2> QED
    BY <2>2
<1>4. CASE kind # "auth"
  <2>1. UNCHANGED <<key, nameOf, prior>>
    BY <1>4 DEF WriteBegin
  <2>2. CASE file.state = "bad" /\ pc' = [pc EXCEPT ![p] = "clear"] /\ UNCHANGED <<old, safe>>
    <3>1. old' = [old EXCEPT ![p] = old[p]]
      BY <2>2 DEF ConfigTypeOK
    <3>2. Moves(p, kind, "clear", old[p])
      BY <1>1, <2>1, <2>2, <3>1 DEF Moves
    <3> QED
      BY <1>1, <1>4, <2>2, <3>2 DEF Begins
  <2>3. CASE pc' = [pc EXCEPT ![p] = "key"]
    <3>1. PICK o \in {file, Blank("absent")} :
            /\ old' = [old EXCEPT ![p] = o]
            /\ \/ safe' = {}
               \/ safe' = safe /\ kind = "meta" /\ o = file /\ o.source # "keychain"
      <4>1. pc'[p] = "key"
        BY <2>3 DEF ConfigTypeOK
      <4>2. pc' # [pc EXCEPT ![p] = "clear"]
        BY <4>1 DEF ConfigTypeOK
      <4> QED
        BY <1>2, <1>4, <4>2
    <3>2. Moves(p, kind, "key", o)
      BY <1>1, <2>1, <2>3, <3>1 DEF Moves
    <3> QED
      BY <1>1, <1>4, <3>1, <3>2 DEF Begins
  <2> QED
    BY <1>2, <2>2, <2>3
<1> QED
  BY <1>3, <1>4

\* The manager of p takes one of the names, or keeps its own.
LEMMA ManagerName ==
  ASSUME ConfigTypeOK, NEW p \in Procs, NEW names \in SUBSET Names, Manager(p, names)
  PROVE  \E n \in Names \cup {None} : name' = [name EXCEPT ![p] = n]
BY DEF Manager, ConfigTypeOK

\* A read ends, clears what it found or goes on to the secret.
LEMMA ReadConfigForm ==
  ASSUME ConfigTypeOK, ControlInv, NEW p \in Procs, ReadConfig(p)
  PROVE  Ends(p) \/ Begins(p)
<1> USE DEF ConfigTypeOK
<1>1. PICK valid \in Validates(file), stale \in Stale(file) :
        LET usable == file.state = "ok" /\ valid
            next == CASE file.state \in {"bad", "zero"} \/ (usable /\ stale) -> "clear"
                      [] usable /\ ~stale -> "lookup"
                      [] OTHER -> "idle"
        IN  /\ pc' = [pc EXCEPT ![p] = next]
            /\ op' = [op EXCEPT ![p] = IF next = "idle" THEN "none" ELSE "read"]
            /\ old' = [old EXCEPT ![p] = IF next = "lookup" THEN file ELSE @]
            /\ IF next = "idle" THEN Manager(p, Fresh) ELSE UNCHANGED name
  BY DEF ReadConfig
<1>3. /\ pc[p] = "idle"
      /\ UNCHANGED <<supports, file, keychain, expired, key, historyVars>>
  BY DEF ReadConfig
<1>4. key[p] = None
  BY <1>3 DEF ControlInv
<1>5. CASE file.state \in {"bad", "zero"} \/ (file.state = "ok" /\ valid /\ stale)
  <2>1. Moves(p, "read", "clear", old[p])
    BY <1>1, <1>3, <1>5 DEF Moves, historyVars
  <2>2. file.state # "ok" \/ file.created \notin Keys \ expired
    BY <1>5, KeysAssumption DEF Stale
  <2> QED
    BY <1>3, <2>1, <2>2 DEF Begins, historyVars
<1>6. CASE file.state = "ok" /\ valid /\ ~stale
  <2>1. Moves(p, "read", "lookup", file)
    BY <1>1, <1>3, <1>6 DEF Moves, historyVars
  <2> QED
    BY <1>3, <2>1 DEF Begins, historyVars
<1>7. CASE /\ ~(file.state \in {"bad", "zero"} \/ (file.state = "ok" /\ valid /\ stale))
           /\ ~(file.state = "ok" /\ valid /\ ~stale)
  <2>1. /\ pc' = [pc EXCEPT ![p] = "idle"] /\ op' = [op EXCEPT ![p] = "none"]
        /\ old' = [old EXCEPT ![p] = old[p]] /\ Manager(p, Fresh)
    BY <1>1, <1>7
  <2>2. key' = [key EXCEPT ![p] = None]
    BY <1>3, <1>4
  <2>3. \E n \in Names \cup {None} : name' = [name EXCEPT ![p] = n]
    BY <2>1, ManagerName DEF Fresh
  <2> QED
    BY <1>3, <2>1, <2>2, <2>3 DEF Ends
<1> QED
  BY <1>5, <1>6, <1>7

\* The end of a lookup: the read returns, or clears what it cannot decode.
LEMMA ResolveForm ==
  ASSUME ConfigTypeOK, ControlInv, NEW p \in Procs, pc[p] = "lookup",
         NEW secret \in {SharedSecret(old[p]), old[p].key}, Resolve(p, secret),
         UNCHANGED <<supports, file, keychain, expired, historyVars>>
  PROVE  Ends(p) \/ Continues(p)
<1>1. old[p] \in Files
  BY DEF ConfigTypeOK
<1>2. CASE secret = Garbled
  <2>1. old[p].key = Garbled
    BY <1>1, <1>2, KeysAssumption, NamesAssumption DEF SharedSecret, ConfigTypeOK, Files
  <2>2. Moves(p, op[p], "clear", old[p])
    BY <1>2 DEF Resolve, Goto, Moves, ConfigTypeOK, historyVars
  <2> QED
    BY <2>1, <2>2 DEF Continues, historyVars
<1>3. CASE secret # Garbled
  <2>1. Done(p) /\ Manager(p, IF secret # None /\ old[p].user # None
                              THEN {old[p].user} ELSE Fresh)
    BY <1>3 DEF Resolve
  <2>2. (IF secret # None /\ old[p].user # None THEN {old[p].user} ELSE Fresh)
          \in SUBSET Names
    BY <1>1 DEF Files, Fresh
  <2>3. \E n \in Names \cup {None} : name' = [name EXCEPT ![p] = n]
    BY <2>1, <2>2, ManagerName
  <2> QED
    BY <2>1, <2>3 DEF Done, Ends
<1> QED
  BY <1>2, <1>3

\* The end of a clear, for the operation it was part of.
LEMMA ClearRemoveForm ==
  ASSUME ConfigTypeOK, ControlInv, NEW p \in Procs, ClearRemove(p)
  PROVE  Removes(p)
<1>1. CASE op[p] = "read"
  <2>1. \E n \in Names \cup {None} : name' = [name EXCEPT ![p] = n]
    BY <1>1, ManagerName DEF ClearRemove, Cleared, Fresh
  <2> QED
    BY <1>1, <2>1 DEF ClearRemove, Cleared, Done, Removes
<1>2. CASE op[p] = "logout"
  <2>1. \E n \in Names \cup {None} : name' = [name EXCEPT ![p] = n]
    BY <1>2 DEF ClearRemove, Cleared, Fresh
  <2> QED
    BY <1>2, <2>1 DEF ClearRemove, Cleared, Done, Removes
<1>3. CASE op[p] \notin {"read", "logout"}
  <2>1. op[p] \in {"auth", "meta", "start"}
    BY <1>3 DEF ConfigTypeOK, Ops, ControlInv, ClearRemove
  <2> QED
    BY <1>3, <2>1 DEF ClearRemove, Cleared, Goto, Removes
<1> QED
  BY <1>1, <1>2, <1>3

\* Every step of a process has one of the forms.
LEMMA StepForms ==
  ASSUME ConfigTypeOK, ControlInv, ConfigNext
  PROVE  \/ \E p \in Procs :
              \/ Ends(p) \/ Begins(p) \/ Continues(p) \/ Stores(p) \/ Removes(p)
              \/ RenameConfig(p)
              \/ \E k \in Keys : Agrees(p, k)
              \/ \E n \in Names : Deletes(p, n)
         \/ \E k \in Keys : Expire(k)
<1> DEFINE Form(p) == \/ Ends(p) \/ Begins(p) \/ Continues(p) \/ Stores(p) \/ Removes(p)
                      \/ RenameConfig(p)
                      \/ \E k \in Keys : Agrees(p, k)
                      \/ \E n \in Names : Deletes(p, n)
<1>1. ASSUME NEW p \in Procs, NEW kind \in {"auth", "start", "meta"}, WriteBegin(p, kind)
      PROVE  Form(p)
  BY <1>1, WriteBeginForm
<1>2. ASSUME NEW p \in Procs, WriteSharedKey(p)
      PROVE  Form(p)
  <2>1. CASE supports
    BY <1>2, <2>1 DEF WriteSharedKey, Goto, Stores, historyVars
  <2>2. CASE ~supports
    BY <1>2, <2>2 DEF WriteSharedKey, Goto, Continues, Moves, historyVars, ConfigTypeOK
  <2> QED
    BY <2>1, <2>2
<1>3. ASSUME NEW p \in Procs, WriteSharedKeyFails(p) \/ RenameConfigFails(p) \/ Killed(p)
      PROVE  Form(p)
  <2>1. \E n \in Names \cup {None} : name' = [name EXCEPT ![p] = n]
    BY <1>3 DEF WriteSharedKeyFails, RenameConfigFails, Killed, ConfigTypeOK
  <2>2. Done(p) /\ UNCHANGED <<supports, file, keychain, expired, historyVars>>
    BY <1>3 DEF WriteSharedKeyFails, RenameConfigFails, Killed
  <2> QED
    BY <2>1, <2>2 DEF Done, Ends
<1>4. ASSUME NEW p \in Procs, DropSharedKey(p)
      PROVE  Form(p)
  <2>1. /\ pc[p] = "key" /\ op[p] \in {"meta", "start"} /\ Goto(p, "save")
        /\ DeleteSharedKey(p, {"keychain"}, "start")
        /\ UNCHANGED <<supports, file, expired, name, old, res, nameOf, prior, safe>>
    BY <1>4 DEF DropSharedKey
  <2>2. old[p] \in Files
    BY DEF ConfigTypeOK
  <2>3. CASE UNCHANGED <<keychain, ended>>
    BY <2>1, <2>3 DEF Goto, Continues, Moves, ConfigTypeOK
  <2>4. CASE ~UNCHANGED <<keychain, ended>>
    <3>1. old[p].user \in Names
      BY <2>1, <2>2, <2>4 DEF DeleteSharedKey, Files
    <3>2. Deletes(p, old[p].user)
      BY <2>1, <2>4 DEF DeleteSharedKey, Deletes, Goto
    <3> QED
      BY <3>1, <3>2
  <2> QED
    BY <2>3, <2>4
<1>5. ASSUME NEW p \in Procs, ClearDelete(p)
      PROVE  Form(p)
  <2>1. /\ pc[p] = "delete" /\ Goto(p, "remove")
        /\ DeleteSharedKey(p, {"keychain", "legacy"}, "logout")
        /\ UNCHANGED <<supports, file, expired, name, old, res, nameOf, prior, safe>>
    BY <1>5 DEF ClearDelete
  <2>2. old[p] \in Files
    BY DEF ConfigTypeOK
  <2>3. CASE UNCHANGED <<keychain, ended>>
    BY <2>1, <2>3 DEF Goto, Continues, Moves, ConfigTypeOK
  <2>4. CASE ~UNCHANGED <<keychain, ended>>
    <3>1. old[p].user \in Names
      BY <2>1, <2>2, <2>4 DEF DeleteSharedKey, Files
    <3>2. Deletes(p, old[p].user)
      BY <2>1, <2>4 DEF DeleteSharedKey, Deletes, Goto
    <3> QED
      BY <3>1, <3>2
  <2> QED
    BY <2>3, <2>4
<1>6. ASSUME NEW p \in Procs, ClearRead(p)
      PROVE  Form(p)
  BY <1>6 DEF ClearRead, Goto, Continues, Moves, historyVars, ConfigTypeOK
<1>7. ASSUME NEW p \in Procs, Logout(p)
      PROVE  Form(p)
  BY <1>7 DEF Logout, Begins, Moves, ConfigTypeOK
<1>8. ASSUME NEW p \in Procs, ReadSharedKey(p) \/ ReadSharedKeyFails(p)
      PROVE  Form(p)
  BY <1>8, ResolveForm DEF ReadSharedKey, ReadSharedKeyFails
<1>9. ASSUME NEW p \in Procs, ReadConfig(p)
      PROVE  Form(p)
  BY <1>9, ReadConfigForm
<1>10. ASSUME NEW p \in Procs, ClearRemove(p)
      PROVE  Form(p)
  BY <1>10, ClearRemoveForm
<1> QED
  BY <1>1, <1>2, <1>3, <1>4, <1>5, <1>6, <1>7, <1>8, <1>9, <1>10 DEF ConfigNext

-----------------------------------------------------------------------------
\* Where an operation is and the key it saves go together.
LEMMA ControlStep ==
  ASSUME ConfigTypeOK, ControlInv, ConfigNext
  PROVE  ControlInv'
<1> USE NamesAssumption, KeysAssumption
<1>1. ASSUME NEW p \in Procs, Ends(p)
      PROVE  ControlInv'
  BY <1>1 DEF Ends, ConfigTypeOK, ControlInv, historyVars
<1>2. ASSUME NEW p \in Procs, Begins(p) \/ Continues(p)
      PROVE  ControlInv'
  BY <1>2 DEF Begins, Continues, Moves, ConfigTypeOK, ControlInv
<1>3. ASSUME NEW p \in Procs, Stores(p)
      PROVE  ControlInv'
  BY <1>3 DEF Stores, ConfigTypeOK, ControlInv, historyVars
<1>4. ASSUME NEW p \in Procs, NEW n \in Names, Deletes(p, n)
      PROVE  ControlInv'
  BY <1>4 DEF Deletes, ConfigTypeOK, ControlInv
<1>5. ASSUME NEW p \in Procs, Removes(p)
      PROVE  ControlInv'
  BY <1>5 DEF Removes, ConfigTypeOK, ControlInv
<1>6. ASSUME NEW p \in Procs, RenameConfig(p)
      PROVE  ControlInv'
  BY <1>6 DEF RenameConfig, Done, ConfigTypeOK, ControlInv
<1>7. ASSUME NEW p \in Procs, NEW k \in Keys, Agrees(p, k)
      PROVE  ControlInv'
  <2>1. \A q \in Procs : key[q] # k
    BY <1>7 DEF Agrees, ConfigTypeOK, ControlInv
  <2> QED
    BY <1>7, <2>1 DEF Agrees, ConfigTypeOK, ControlInv
<1>8. ASSUME NEW k \in Keys, Expire(k)
      PROVE  ControlInv'
  BY <1>8 DEF Expire, localVars, ControlInv
<1> QED
  BY <1>1, <1>2, <1>3, <1>4, <1>5, <1>6, <1>7, <1>8, StepForms

\* What a write leaves.
LEMMA UpdatedFiles ==
  ASSUME ConfigTypeOK, ControlInv, NEW p \in Procs, pc[p] = "save"
  PROVE  /\ Updated(p) \in Files
         /\ Updated(p).state = "ok"
         /\ op[p] = "auth" =>
              /\ Updated(p).user = name[p] /\ Updated(p).created = key[p]
              /\ \/ supports /\ Updated(p).source = "keychain" /\ Updated(p).key = None
                 \/ ~supports /\ Updated(p).source = "file" /\ Updated(p).key = key[p]
         /\ op[p] = "meta" =>
              /\ Updated(p).user = old[p].user /\ Updated(p).created = old[p].created
              /\ Updated(p).source = "keychain" <=> old[p].source = "keychain"
              /\ Updated(p).key = old[p].key
         /\ op[p] = "start" =>
              /\ Updated(p).user = None /\ Updated(p).created = None
              /\ Updated(p).source = "file" /\ Updated(p).key = None
         /\ op[p] \in {"auth", "meta", "start"}
<1>1. old[p] \in Files /\ name[p] \in Names \cup {None} /\ key[p] \in Keys \cup {None}
      /\ supports \in BOOLEAN
  BY DEF ConfigTypeOK
<1>2. CASE op[p] = "auth"
  BY <1>1, <1>2 DEF Updated, Files
<1>3. CASE op[p] = "meta"
  BY <1>1, <1>3 DEF Updated, Files
<1>4. CASE op[p] = "start"
  BY <1>1, <1>4 DEF Updated, Blank, Files
<1> QED
  BY <1>2, <1>3, <1>4 DEF ControlInv

\* Every read returns a key or none.
LEMMA ResultType ==
  ASSUME ConfigTypeOK, ConfigNext
  PROVE  res' \in [Procs -> Keys \cup {None}]
<1> USE DEF ConfigTypeOK
<1>1. ASSUME NEW p \in Procs, ReadSharedKey(p) \/ ReadSharedKeyFails(p)
      PROVE  res' \in [Procs -> Keys \cup {None}]
  <2>1. old[p] \in Files
    OBVIOUS
  <2>2. PICK secret \in {SharedSecret(old[p]), old[p].key} : Resolve(p, secret)
    BY <1>1 DEF ReadSharedKey, ReadSharedKeyFails
  <2>3. secret \in Keys \cup {None, Garbled}
    BY <2>1, <2>2 DEF SharedSecret, Files
  <2> QED
    BY <2>2, <2>3 DEF Resolve
<1>2. ASSUME NEW p \in Procs, (\E kind \in {"auth", "start", "meta"} : WriteBegin(p, kind))
                              \/ Logout(p) \/ ReadConfig(p)
      PROVE  res' \in [Procs -> Keys \cup {None}]
  <2>1. res' = [res EXCEPT ![p] = None]
    BY <1>2 DEF WriteBegin, Logout, ReadConfig
  <2> QED
    BY <2>1
<1>3. CASE res' = res
  BY <1>3
<1>4. ASSUME NEW p \in Procs,
             \/ WriteSharedKey(p) \/ WriteSharedKeyFails(p) \/ DropSharedKey(p)
             \/ RenameConfig(p) \/ RenameConfigFails(p)
             \/ ClearRead(p) \/ ClearDelete(p) \/ ClearRemove(p) \/ Killed(p)
      PROVE  res' = res
  BY <1>4 DEF WriteSharedKey, WriteSharedKeyFails, DropSharedKey, RenameConfig,
     RenameConfigFails, ClearRead, ClearDelete, ClearRemove, Killed
<1>5. ASSUME NEW k \in Keys, Expire(k)
      PROVE  res' = res
  BY <1>5 DEF Expire, localVars
<1> QED
  BY <1>1, <1>2, <1>3, <1>4, <1>5 DEF ConfigNext

\* Every step of a write, a clear and a read keeps the types.
LEMMA ConfigTypeStep ==
  ASSUME ConfigTypeOK, ControlInv, ConfigNext
  PROVE  ConfigTypeOK'
<1> USE NamesAssumption, KeysAssumption, BlankType, ResultType DEF ConfigTypeOK, Ops
<1>1. ASSUME NEW p \in Procs, Ends(p)
      PROVE  ConfigTypeOK'
  BY <1>1 DEF Ends, historyVars
<1>2. ASSUME NEW p \in Procs, Begins(p) \/ Continues(p)
      PROVE  ConfigTypeOK'
  BY <1>2 DEF Begins, Continues, Moves
<1>3. ASSUME NEW p \in Procs, Stores(p)
      PROVE  ConfigTypeOK'
  BY <1>3 DEF Stores, historyVars
<1>4. ASSUME NEW p \in Procs, NEW n \in Names, Deletes(p, n)
      PROVE  ConfigTypeOK'
  BY <1>4 DEF Deletes
<1>5. ASSUME NEW p \in Procs, Removes(p)
      PROVE  ConfigTypeOK'
  <2>1. ended' \subseteq Keys
    BY <1>5 DEF Removes, Lost
  <2> QED
    BY <1>5, <2>1 DEF Removes
<1>6. ASSUME NEW p \in Procs, RenameConfig(p)
      PROVE  ConfigTypeOK'
  <2>1. file' \in Files
    BY <1>6, UpdatedFiles DEF RenameConfig
  <2>2. ended' \subseteq Keys
    BY <1>6 DEF RenameConfig, Lost
  <2>3. safe' \subseteq Keys
    BY <1>6 DEF RenameConfig, ControlInv
  <2> QED
    BY <1>6, <2>1, <2>2, <2>3 DEF RenameConfig, Done
<1>7. ASSUME NEW p \in Procs, NEW k \in Keys, Agrees(p, k)
      PROVE  ConfigTypeOK'
  <2>1. Finished \in SUBSET Keys
    BY DEF Finished
  <2> QED
    BY <1>7, <2>1 DEF Agrees
<1>8. ASSUME NEW k \in Keys, Expire(k)
      PROVE  ConfigTypeOK'
  BY <1>8 DEF Expire, localVars
<1> QED
  BY <1>1, <1>2, <1>3, <1>4, <1>5, <1>6, <1>7, <1>8, StepForms

\* Blank configurations say nothing of a session.
LEMMA BlankDated ==
  ASSUME NEW st
  PROVE  Dated(Blank(st)) /\ Blank(st).key = None /\ Blank(st).user = None
         /\ Blank(st).source = "file" /\ Blank(st).created = None
BY NamesAssumption, KeysAssumption DEF Dated, Blank

\* A key that is being saved is nowhere but where its own write has put it.
LEMMA UnsavedStep ==
  ASSUME ConfigTypeOK, ControlInv, UnsavedInv, StoreInv, EndedInv, ConfigNext
  PROVE  UnsavedInv'
<1> USE NamesAssumption, KeysAssumption, BlankDated
<1>1. ASSUME NEW p \in Procs, Ends(p)
      PROVE  UnsavedInv'
  BY <1>1 DEF Ends, ConfigTypeOK, UnsavedInv, historyVars
<1>2. ASSUME NEW p \in Procs, Begins(p) \/ Continues(p)
      PROVE  UnsavedInv'
  BY <1>2 DEF Begins, Continues, Moves, ConfigTypeOK, UnsavedInv, ControlInv
<1>3. ASSUME NEW p \in Procs, Stores(p)
      PROVE  UnsavedInv'
  BY <1>3 DEF Stores, ConfigTypeOK, UnsavedInv, ControlInv, historyVars
<1>4. ASSUME NEW p \in Procs, NEW n \in Names, Deletes(p, n)
      PROVE  UnsavedInv'
  BY <1>4 DEF Deletes, ConfigTypeOK, UnsavedInv, ControlInv
<1>5. ASSUME NEW p \in Procs, Removes(p)
      PROVE  UnsavedInv'
  <2>1. \A q \in Procs : q # p /\ key[q] # None => key[q] \notin Lost(p)
    BY DEF Lost, Quiet, ControlInv
  <2> QED
    BY <1>5, <2>1 DEF Removes, ConfigTypeOK, UnsavedInv, ControlInv
<1>6. ASSUME NEW p \in Procs, RenameConfig(p)
      PROVE  UnsavedInv'
  <2>1. \A q \in Procs : q # p /\ key[q] # None => key[q] \notin Lost(p)
    BY DEF Lost, Quiet, ControlInv
  <2>2. Updated(p).key \in {None, key[p], old[p].key}
    BY <1>6, UpdatedFiles DEF RenameConfig
  <2> QED
    BY <1>6, <2>1, <2>2 DEF RenameConfig, Done, ConfigTypeOK, UnsavedInv, ControlInv
<1>7. ASSUME NEW p \in Procs, NEW k \in Keys, Agrees(p, k)
      PROVE  UnsavedInv'
  <2>1. /\ \A q \in Procs : key[q] # k /\ old[q].key # k
        /\ file.key # k
        /\ \A n \in Names : keychain[n] # k
        /\ \A j \in Keys : k \notin prior[j]
        /\ k \notin ended
    BY <1>7 DEF Agrees, ControlInv, StoreInv, Dated, EndedInv, Out
  <2>2. k \notin Finished /\ \A q \in Procs : key[q] \notin Finished
    BY <1>7 DEF Agrees, Finished
  <2>3. op[p] # "auth" /\ key[p] = None
    BY <1>7 DEF Agrees, ControlInv
  <2> QED
    BY <1>7, <2>1, <2>2, <2>3 DEF Agrees, ConfigTypeOK, UnsavedInv
<1>8. ASSUME NEW k \in Keys, Expire(k)
      PROVE  UnsavedInv'
  BY <1>8 DEF Expire, localVars, UnsavedInv
<1> QED
  BY <1>1, <1>2, <1>3, <1>4, <1>5, <1>6, <1>7, <1>8, StepForms

\* The store: names, keys and dates go together in the file and in every copy.
LEMMA StoreStep ==
  ASSUME ConfigTypeOK, ControlInv, UnsavedInv, StoreInv, ConfigNext
  PROVE  StoreInv'
<1> USE NamesAssumption, KeysAssumption
<1>b. Dated(Blank("absent"))
  BY BlankDated
<1>1. ASSUME NEW p \in Procs, Ends(p)
      PROVE  StoreInv'
  BY <1>1, <1>b DEF Ends, ConfigTypeOK, StoreInv, Dated, historyVars
<1>2. ASSUME NEW p \in Procs, Begins(p) \/ Continues(p)
      PROVE  StoreInv'
  <2>1. \A f : Dated(f)' <=> Dated(f)
    BY <1>2 DEF Begins, Continues, Moves, Dated
  <2>2. \A q \in Procs : old'[q] \in {old[q], file, Blank("absent")}
    BY <1>2 DEF Begins, Continues, Moves, ConfigTypeOK
  <2>3. Dated(file)' /\ \A q \in Procs : Dated(old[q])'
    <3>1. file' = file
      BY <1>2 DEF Begins, Continues, Moves
    <3> QED
      BY <1>b, <1>2, <2>2, <3>1 DEF StoreInv, Begins, Continues, Moves, Dated
  <2>4. \A q \in Procs :
          supports' /\ op'[q] = "auth" /\ pc'[q] = "save" =>
            supports /\ op[q] = "auth" /\ pc[q] = "save"
    BY <1>2 DEF Begins, Continues, Moves, ConfigTypeOK
  <2>5. UNCHANGED <<supports, keychain, name, key, nameOf, prior>>
    BY <1>2 DEF Begins, Continues, Moves
  <2> QED
    BY <2>3, <2>4, <2>5 DEF StoreInv
<1>3. ASSUME NEW p \in Procs, Stores(p)
      PROVE  StoreInv'
  <2>1. /\ key[p] \in Keys /\ name[p] \in Names /\ nameOf[key[p]] = name[p]
        /\ \A k \in Keys : key[p] \notin prior[k]
        /\ file.key # key[p] /\ \A q \in Procs : old[q].key # key[p]
    BY <1>3 DEF Stores, ConfigTypeOK, ControlInv, UnsavedInv
  <2>2. UNCHANGED <<supports, file, op, name, key, old, nameOf, prior>>
    BY <1>3 DEF Stores, historyVars
  <2>3. \A f \in Files : Dated(f) /\ f.key # key[p] => Dated(f)'
    BY <1>3, <2>1, <2>2 DEF Stores, ConfigTypeOK, Dated, Files
  <2>4. Dated(file)' /\ \A q \in Procs : Dated(old[q])'
    <3>1. file \in Files /\ \A q \in Procs : old[q] \in Files
      BY DEF ConfigTypeOK
    <3>2. Dated(file)'
      BY <1>3, <2>1, <2>2, <3>1 DEF StoreInv, Stores, ConfigTypeOK, Dated, Files
    <3>3. ASSUME NEW q \in Procs PROVE Dated(old[q])'
      BY <1>3, <2>1, <2>2, <3>1 DEF StoreInv, Stores, ConfigTypeOK, Dated, Files
    <3> QED
      BY <3>2, <3>3
  <2>5. \A q \in Procs : op[q] = "auth" => key[q] \in Keys /\ name[q] \in Names
    BY DEF ConfigTypeOK, ControlInv
  <2> QED
    BY <1>3, <2>1, <2>2, <2>4, <2>5 DEF StoreInv, Stores, ConfigTypeOK
<1>4. ASSUME NEW p \in Procs, NEW n \in Names, Deletes(p, n)
      PROVE  StoreInv'
  <2>1. UNCHANGED <<supports, file, op, name, key, old, nameOf, prior>>
    BY <1>4 DEF Deletes
  <2>2. \A m \in Names : keychain'[m] \in {keychain[m], None}
    BY <1>4 DEF Deletes, ConfigTypeOK
  <2>3. Dated(file)'
    BY <2>1, <2>2 DEF StoreInv, Dated, ConfigTypeOK, Files
  <2>4. ASSUME NEW q \in Procs PROVE Dated(old[q])'
    BY <2>1, <2>2 DEF StoreInv, Dated, ConfigTypeOK, Files
  <2>5. \A q \in Procs : op'[q] = "auth" /\ pc'[q] = "save" => pc[q] = "save"
    BY <1>4 DEF Deletes, ConfigTypeOK
  <2>6. \A q \in Procs : op[q] = "auth" => key[q] \in Keys /\ name[q] \in Names
    BY DEF ConfigTypeOK, ControlInv
  <2> QED
    BY <2>1, <2>2, <2>3, <2>4, <2>5, <2>6 DEF StoreInv, ConfigTypeOK
<1>5. ASSUME NEW p \in Procs, Removes(p)
      PROVE  StoreInv'
  BY <1>5, <1>b DEF Removes, ConfigTypeOK, StoreInv, Dated
<1>6. ASSUME NEW p \in Procs, RenameConfig(p)
      PROVE  StoreInv'
  <2>1. /\ file' = Updated(p) /\ pc[p] = "save"
        /\ UNCHANGED <<supports, keychain, name, nameOf, prior>>
        /\ old' = [old EXCEPT ![p] = Blank("absent")]
        /\ op' = [op EXCEPT ![p] = "none"]
        /\ pc' = [pc EXCEPT ![p] = "idle"]
        /\ key' = [key EXCEPT ![p] = None]
    BY <1>6 DEF RenameConfig, Done
  <2>2. Dated(Updated(p))
    <3>1. CASE op[p] = "auth"
      <4>1. /\ key[p] \in Keys /\ name[p] \in Names /\ nameOf[key[p]] = name[p]
            /\ supports => keychain[name[p]] \notin prior[key[p]]
            /\ ~supports => \A n \in Names : keychain[n] # key[p]
        BY <2>1, <3>1 DEF ConfigTypeOK, ControlInv, StoreInv
      <4> QED
        BY <2>1, <3>1, <4>1, UpdatedFiles DEF Dated
    <3>2. CASE op[p] = "meta"
      BY <2>1, <3>2, UpdatedFiles DEF StoreInv, Dated
    <3>3. CASE op[p] = "start"
      BY <2>1, <3>3, UpdatedFiles DEF Dated
    <3> QED
      BY <2>1, <3>1, <3>2, <3>3, UpdatedFiles
  <2>3. Dated(file)'
    BY <2>1, <2>2 DEF Dated
  <2>4. ASSUME NEW q \in Procs PROVE Dated(old[q])'
    BY <1>b, <2>1 DEF StoreInv, Dated, ConfigTypeOK
  <2> QED
    BY <2>1, <2>3, <2>4 DEF StoreInv, ConfigTypeOK
<1>7. ASSUME NEW p \in Procs, NEW k \in Keys, Agrees(p, k)
      PROVE  StoreInv'
  <2>1. /\ nameOf[k] = None /\ name[p] \in Names
        /\ nameOf' = [nameOf EXCEPT ![k] = name[p]]
        /\ prior' = [prior EXCEPT ![k] = Finished]
        /\ UNCHANGED <<supports, file, keychain, name>>
        /\ key' = [key EXCEPT ![p] = k]
        /\ op' = [op EXCEPT ![p] = "auth"]
    BY <1>7 DEF Agrees, ConfigTypeOK
  <2>2. \A q \in Procs : old'[q] \in {old[q], file, Blank("absent")}
    BY <1>7 DEF Agrees, ConfigTypeOK
  <2>3. ASSUME NEW f \in Files, Dated(f)
        PROVE  /\ f.key \in Keys => /\ f.source # "keychain" /\ f.created = f.key
                                    /\ nameOf'[f.key] = f.user /\ f.user # None
                                    /\ \A n \in Names : keychain'[n] # f.key
               /\ f.source = "keychain" =>
                    /\ f.key = None /\ f.created \in Keys /\ f.user # None
                    /\ keychain'[f.user] \notin prior'[f.created]
               /\ f.created \in Keys => nameOf'[f.created] # None
    BY <2>1, <2>3 DEF Dated, ConfigTypeOK, Files
  <2>4. Dated(file)'
    BY <2>1, <2>3 DEF StoreInv, ConfigTypeOK, Dated
  <2>5. ASSUME NEW q \in Procs PROVE Dated(old[q])'
    <3>1. old'[q] \in Files /\ Dated(old'[q])
      BY <1>b, <2>2, BlankType DEF StoreInv, ConfigTypeOK
    <3> QED
      BY <2>3, <3>1 DEF Dated
  <2>6. \A q \in Procs : op'[q] = "auth" /\ pc'[q] = "save" =>
          /\ q # p /\ op[q] = "auth" /\ pc[q] = "save" /\ key'[q] = key[q]
          /\ key[q] # k /\ key[q] \in Keys
    BY <1>7, <2>1 DEF Agrees, ConfigTypeOK, ControlInv
  <2>7. k \notin Finished /\ \A j \in Keys : nameOf[j] = None => j \notin Finished
    BY <2>1 DEF Finished
  <2>8. \A n \in Names : keychain[n] # None => keychain[n] \in Keys /\ keychain[n] # k
    BY <2>1 DEF StoreInv, ConfigTypeOK
  <2> QED
    BY <2>1, <2>4, <2>5, <2>6, <2>7, <2>8 DEF StoreInv, ConfigTypeOK
<1>8. ASSUME NEW k \in Keys, Expire(k)
      PROVE  StoreInv'
  BY <1>8 DEF Expire, localVars, StoreInv, Dated
<1> QED
  BY <1>1, <1>2, <1>3, <1>4, <1>5, <1>6, <1>7, <1>8, StepForms

\* The secret of a configuration belongs to its name and to its date.
LEMMA SecretBelongs ==
  ASSUME ConfigTypeOK, StoreInv, NEW f \in Files, Dated(f), SharedSecret(f) \in Keys
  PROVE  /\ nameOf[SharedSecret(f)] = f.user /\ f.user \in Names
         /\ f.created \in Keys /\ SharedSecret(f) \notin prior[f.created]
BY NamesAssumption, KeysAssumption DEF SharedSecret, Dated, StoreInv, Files, ConfigTypeOK

\* So the file and the copies of it are coherent.
LEMMA StoreCoherent ==
  ASSUME ConfigTypeOK, StoreInv
  PROVE  SessionKeepsAge
<1>1. ASSUME NEW f \in Files, Dated(f)
      PROVE  Coherent(f)
  BY <1>1, SecretBelongs DEF Coherent
<1> QED
  BY <1>1 DEF SessionKeepsAge, StoreInv, ConfigTypeOK

\* What was logged out is in nothing that is still used.
LEMMA EndedStep ==
  ASSUME ConfigTypeOK, ControlInv, UnsavedInv, StoreInv, EndedInv, ConfigNext
  PROVE  EndedInv'
<1> USE NamesAssumption, KeysAssumption, BlankDated
<1>1. ASSUME NEW p \in Procs, Ends(p)
      PROVE  EndedInv'
  BY <1>1 DEF Ends, ConfigTypeOK, EndedInv, Out, historyVars
<1>2. ASSUME NEW p \in Procs, Begins(p) \/ Continues(p)
      PROVE  EndedInv'
  <2>1. UNCHANGED <<file, keychain, name, nameOf, ended>>
    BY <1>2 DEF Begins, Continues, Moves
  <2>2. ASSUME NEW q \in Procs, op'[q] # "auth" /\ pc'[q] \in {"key", "save", "lookup"}
        PROVE  \/ old'[q] \in {file, Blank("absent")}
               \/ op[q] # "auth" /\ pc[q] \in {"key", "save", "lookup"} /\ old'[q] = old[q]
    BY <1>2, <2>2 DEF Begins, Continues, Moves, ConfigTypeOK
  <2>3. \A q \in Procs : op'[q] = "auth" /\ pc'[q] = "save" =>
          op[q] = "auth" /\ (pc[q] = "save" \/ ~supports)
    BY <1>2 DEF Begins, Continues, Moves, ConfigTypeOK
  <2>4. ~supports => \A n \in Names : keychain[n] = None
    BY DEF StoreInv
  <2> QED
    BY <2>1, <2>2, <2>3, <2>4 DEF EndedInv, Out, ConfigTypeOK
<1>3. ASSUME NEW p \in Procs, Stores(p)
      PROVE  EndedInv'
  <2>1. key[p] \notin ended /\ name[p] \in Names
    BY <1>3 DEF Stores, UnsavedInv, ControlInv, ConfigTypeOK
  <2> QED
    BY <1>3, <2>1 DEF Stores, EndedInv, Out, ConfigTypeOK, historyVars
<1>4. ASSUME NEW p \in Procs, NEW n \in Names, Deletes(p, n)
      PROVE  EndedInv'
  <2>1. \A k \in ended' \ ended :
          /\ k = keychain[n] /\ nameOf[k] = n /\ file.key # k
          /\ \A q \in Procs : old[q].key # k
    BY <1>4 DEF Deletes, StoreInv, Dated, ConfigTypeOK
  <2>2. \A q \in Procs : op'[q] # "auth" /\ pc'[q] \in {"key", "save", "lookup"} =>
          op[q] # "auth" /\ pc[q] \in {"key", "save", "lookup"}
    BY <1>4 DEF Deletes, ConfigTypeOK
  <2>3. \A q \in Procs : op'[q] = "auth" /\ pc'[q] = "save" => op[q] = "auth" /\ pc[q] = "save"
    BY <1>4 DEF Deletes, ConfigTypeOK
  <2>4. /\ UNCHANGED <<file, old, name, nameOf>>
        /\ keychain' = [keychain EXCEPT ![n] = None] /\ ended \subseteq ended'
    BY <1>4 DEF Deletes
  <2>5. ASSUME NEW k \in ended PROVE Out(k)'
    BY <2>2, <2>3, <2>4, <2>5 DEF EndedInv, Out, ConfigTypeOK
  <2>6. ASSUME NEW k \in ended' \ ended PROVE Out(k)'
    <3>1. keychain'[nameOf'[k]] = None /\ k # None
      BY <1>4, <2>1, <2>4, <2>6 DEF Deletes, ConfigTypeOK
    <3> QED
      BY <2>1, <2>4, <2>6, <3>1 DEF Out
  <2> QED
    BY <2>5, <2>6 DEF EndedInv
<1>l. ASSUME NEW p \in Procs, NEW k \in Lost(p)
      PROVE  nameOf[k] \in Names /\ \A q \in Procs \ {p} : pc[q] = "idle"
  <2>1. k = SharedSecret(file) /\ k \in Keys /\ Quiet(p)
    BY <1>l DEF Lost
  <2> QED
    BY <2>1, SecretBelongs DEF StoreInv, Quiet, ConfigTypeOK
<1>5. ASSUME NEW p \in Procs, Removes(p)
      PROVE  EndedInv'
  <2>1. \A k \in ended' \ ended : nameOf[k] \in Names /\ (\A q \in Procs \ {p} : pc[q] = "idle")
                                  /\ pc'[p] = "idle"
    BY <1>5, <1>l DEF Removes, ConfigTypeOK
  <2>2. /\ UNCHANGED <<keychain, nameOf>>
        /\ file' = Blank("absent")
        /\ old' = [old EXCEPT ![p] = Blank("absent")]
        /\ \A q \in Procs \ {p} : pc'[q] = pc[q] /\ op'[q] = op[q] /\ name'[q] = name[q]
        /\ pc'[p] # "save" /\ ended' \subseteq Keys
    BY <1>5 DEF Removes, ConfigTypeOK, Lost
  <2>3. ASSUME NEW k \in ended PROVE Out(k)'
    BY <2>2, <2>3 DEF EndedInv, Out, ConfigTypeOK
  <2>4. ASSUME NEW k \in ended' \ ended PROVE Out(k)'
    <3>1. nameOf[k] # None /\ k # None /\ \A q \in Procs : pc'[q] = "idle"
      BY <2>1, <2>2, <2>4
    <3> QED
      BY <2>2, <3>1 DEF Out
  <2> QED
    BY <2>3, <2>4 DEF EndedInv
<1>6. ASSUME NEW p \in Procs, RenameConfig(p)
      PROVE  EndedInv'
  <2>1. /\ file' = Updated(p) /\ pc[p] = "save"
        /\ UNCHANGED <<keychain, name, nameOf>>
        /\ old' = [old EXCEPT ![p] = Blank("absent")]
        /\ \A q \in Procs \ {p} : pc'[q] = pc[q] /\ op'[q] = op[q]
        /\ pc'[p] = "idle"
        /\ ended' = IF op[p] = "start" THEN ended \cup Lost(p) ELSE ended
    BY <1>6 DEF RenameConfig, Done, ConfigTypeOK
  <2>2. ASSUME NEW k \in ended
        PROVE  /\ Updated(p).key # k
               /\ keychain[nameOf[k]] = k => Updated(p).user # nameOf[k]
    <3>1. k \in Keys /\ nameOf[k] # None
      BY <2>2 DEF EndedInv, Out, ConfigTypeOK
    <3>2. CASE op[p] = "auth"
      <4>1. ~supports => key[p] # k
        BY <2>2, <3>2 DEF UnsavedInv, ControlInv
      <4> QED
        BY <2>1, <2>2, <3>1, <3>2, <4>1, UpdatedFiles DEF EndedInv, Out
    <3>3. CASE op[p] = "meta"
      BY <2>1, <2>2, <3>3, UpdatedFiles DEF EndedInv, Out
    <3>4. CASE op[p] = "start"
      BY <2>1, <3>1, <3>4, UpdatedFiles
    <3> QED
      BY <2>1, <3>2, <3>3, <3>4, UpdatedFiles
  <2>3. ASSUME NEW k \in Lost(p), op[p] = "start"
        PROVE  /\ nameOf[k] \in Names /\ Updated(p).key # k /\ Updated(p).user # nameOf[k]
               /\ \A q \in Procs \ {p} : pc[q] = "idle"
    BY <1>l, <2>1, <2>3, UpdatedFiles DEF Lost
  <2>4. ASSUME NEW k \in ended PROVE Out(k)'
    BY <2>1, <2>2, <2>4 DEF EndedInv, Out, ConfigTypeOK
  <2>5. ASSUME NEW k \in Lost(p), op[p] = "start" PROVE Out(k)'
    <3>1. \A q \in Procs : pc'[q] = "idle"
      BY <2>1, <2>3, <2>5
    <3> QED
      BY <2>1, <2>3, <2>5, <3>1 DEF Out
  <2> QED
    BY <2>1, <2>4, <2>5 DEF EndedInv
<1>7. ASSUME NEW p \in Procs, NEW k \in Keys, Agrees(p, k)
      PROVE  EndedInv'
  <2>1. \A j \in ended : j \in Keys /\ j # k /\ nameOf'[j] = nameOf[j]
    BY <1>7 DEF Agrees, EndedInv, Out, ConfigTypeOK
  <2>2. /\ UNCHANGED <<file, keychain, name, ended>>
        /\ \A q \in Procs \ {p} : pc'[q] = pc[q] /\ op'[q] = op[q] /\ old'[q] = old[q]
        /\ op'[p] = "auth" /\ pc'[p] # "save"
    BY <1>7 DEF Agrees, ConfigTypeOK
  <2> QED
    BY <2>1, <2>2 DEF EndedInv, Out
<1>8. ASSUME NEW k \in Keys, Expire(k)
      PROVE  EndedInv'
  BY <1>8 DEF Expire, localVars, EndedInv, Out
<1> QED
  BY <1>1, <1>2, <1>3, <1>4, <1>5, <1>6, <1>7, <1>8, StepForms

\* Nothing that is under way can take a safe session away.
LEMMA SafeStep ==
  ASSUME ConfigTypeOK, ControlInv, UnsavedInv, StoreInv, SafeInv, ConfigNext
  PROVE  SafeInv'
<1> USE NamesAssumption, KeysAssumption
<1>k. ASSUME NEW k \in safe
      PROVE  /\ file.key # Garbled
             /\ file.source # "keychain" => file.key = k
             /\ file.state = "ok" /\ file.created = k /\ k \in Keys \ expired
  <2>1. SharedSecret(file) \in Keys /\ file.created = k /\ k \in Keys \ expired /\ file.state = "ok"
    BY <1>k DEF SafeInv, ConfigTypeOK
  <2> QED
    BY <2>1 DEF StoreInv, Dated, SharedSecret, ConfigTypeOK
<1>1. ASSUME NEW p \in Procs, Ends(p)
      PROVE  SafeInv'
  BY <1>1 DEF Ends, ConfigTypeOK, SafeInv, SharedSecret, historyVars
<1>2. ASSUME NEW p \in Procs, Begins(p)
      PROVE  SafeInv'
  <2>1. UNCHANGED <<file, keychain, expired, nameOf>>
        /\ \A q \in Procs \ {p} : pc'[q] = pc[q] /\ op'[q] = op[q] /\ old'[q] = old[q]
    BY <1>2 DEF Begins, Moves, ConfigTypeOK
  <2>2. \/ safe' = {}
        \/ /\ safe' = safe /\ safe # {}
           /\ \/ pc'[p] = "key" /\ op'[p] = "meta" /\ old'[p] = file /\ file.source # "keychain"
              \/ pc'[p] = "lookup" /\ old'[p] = file
    BY <1>2, <1>k DEF Begins, Moves, ConfigTypeOK
  <2> QED
    BY <1>k, <2>1, <2>2 DEF SafeInv, SharedSecret
<1>3. ASSUME NEW p \in Procs, Continues(p)
      PROVE  SafeInv'
  <2>1. /\ UNCHANGED <<file, keychain, expired, nameOf, safe>>
        /\ \A q \in Procs \ {p} : pc'[q] = pc[q] /\ op'[q] = op[q] /\ old'[q] = old[q]
        /\ op'[p] = op[p]
    BY <1>3 DEF Continues, Moves, ConfigTypeOK
  <2>2. safe # {} => pc[p] = "key" /\ pc'[p] = "save" /\ old'[p] = old[p]
    BY <1>3 DEF Continues, Moves, ConfigTypeOK, SafeInv
  <2> QED
    BY <2>1, <2>2 DEF SafeInv, SharedSecret
<1>4. ASSUME NEW p \in Procs, Stores(p)
      PROVE  SafeInv'
  <2>1. key[p] \in Keys /\ name[p] \in Names
    BY <1>4 DEF Stores, ControlInv, ConfigTypeOK
  <2>2. SharedSecret(file) \in Keys => SharedSecret(file)' \in Keys
    BY <1>4, <2>1 DEF Stores, SharedSecret, ConfigTypeOK, Files
  <2> QED
    BY <1>4, <2>2 DEF Stores, SafeInv, ConfigTypeOK, historyVars
<1>5. ASSUME NEW p \in Procs, NEW n \in Names, Deletes(p, n)
      PROVE  SafeInv'
  <2>1. safe' = {}
    BY <1>5 DEF Deletes, SafeInv
  <2> QED
    BY <2>1 DEF SafeInv
<1>6. ASSUME NEW p \in Procs, Removes(p)
      PROVE  SafeInv'
  <2>1. safe' = {}
    BY <1>6 DEF Removes, SafeInv
  <2> QED
    BY <2>1 DEF SafeInv
<1>7. ASSUME NEW p \in Procs, RenameConfig(p)
      PROVE  SafeInv'
  <2>1. /\ file' = Updated(p) /\ pc[p] = "save"
        /\ UNCHANGED <<keychain, expired, name, nameOf>>
        /\ \A q \in Procs \ {p} : pc'[q] = pc[q] /\ op'[q] = op[q] /\ old'[q] = old[q]
        /\ pc'[p] = "idle"
        /\ safe' = IF op[p] # "auth" THEN safe
                   ELSE IF Alone(p) /\ (supports => keychain[name[p]] = key[p])
                        THEN {key[p]} \ expired ELSE {}
    BY <1>7 DEF RenameConfig, Done, ConfigTypeOK
  <2>2. CASE op[p] = "auth"
    <3>1. key[p] \in Keys /\ name[p] \in Names /\ nameOf[key[p]] = name[p]
      BY <2>2 DEF ControlInv, ConfigTypeOK
    <3>2. CASE safe' = {}
      BY <3>2 DEF SafeInv
    <3>3. CASE safe' # {}
      <4>1. /\ Alone(p) /\ (supports => keychain[name[p]] = key[p])
            /\ safe' = {key[p]} /\ key[p] \notin expired
        BY <2>1, <2>2, <3>3
      <4>2. SharedSecret(file)' = key[p]
        BY <2>1, <2>2, <3>1, <4>1, UpdatedFiles DEF SharedSecret
      <4>3. \A q \in Procs : pc'[q] = "idle" \/ (pc'[q] = "lookup" /\ old'[q].key # Garbled)
        BY <2>1, <4>1 DEF Alone
      <4> QED
        BY <2>1, <2>2, <3>1, <4>1, <4>2, <4>3, UpdatedFiles DEF SafeInv
    <3> QED
      BY <3>2, <3>3
  <2>3. CASE op[p] # "auth"
    <3>1. ASSUME NEW k \in safe
          PROVE  /\ file'.state = "ok" /\ file'.user = nameOf[k] /\ file'.created = k
                 /\ SharedSecret(file)' = k /\ k \in Keys
      <4>1. /\ op[p] = "meta" /\ old[p].user = nameOf[k] /\ old[p].created = k
            /\ old[p].source # "keychain" /\ old[p].key = k /\ k \in Keys
        BY <2>1, <2>3, <3>1 DEF SafeInv, ConfigTypeOK
      <4> QED
        BY <2>1, <4>1, UpdatedFiles DEF SharedSecret
    <3> QED
      BY <2>1, <2>3, <3>1 DEF SafeInv
  <2> QED
    BY <2>2, <2>3
<1>8. ASSUME NEW p \in Procs, NEW k \in Keys, Agrees(p, k)
      PROVE  SafeInv'
  <2>1. /\ UNCHANGED <<file, keychain, expired, safe>>
        /\ \A q \in Procs \ {p} : pc'[q] = pc[q] /\ op'[q] = op[q] /\ old'[q] = old[q]
        /\ op'[p] = "auth" /\ (pc'[p] = "key" \/ file.state = "bad")
    BY <1>8 DEF Agrees, ConfigTypeOK
  <2>2. \A j \in safe : j # k /\ nameOf'[j] = nameOf[j]
    BY <1>8 DEF Agrees, SafeInv, ConfigTypeOK
  <2> QED
    BY <2>1, <2>2 DEF SafeInv, SharedSecret
<1>9. ASSUME NEW k \in Keys, Expire(k)
      PROVE  SafeInv'
  BY <1>9 DEF Expire, localVars, SafeInv, SharedSecret
<1> QED
  BY <1>1, <1>2, <1>3, <1>4, <1>5, <1>6, <1>7, <1>8, <1>9, StepForms

-----------------------------------------------------------------------------
\* The initial states satisfy the invariant.
LEMMA ConfigInitInv == ConfigInit => ConfigTypeOK /\ ConfigInv
<1> SUFFICES ASSUME ConfigInit PROVE ConfigTypeOK /\ ConfigInv
  OBVIOUS
<1> USE NamesAssumption, KeysAssumption, KeychainsAssumption
<1>1. /\ file \in Files /\ nameOf \in [Keys -> Names \cup {None}]
      /\ file.source # "keychain"
      /\ file.key \in Keys => /\ file.created = file.key /\ file.user \in Names
                              /\ nameOf[file.key] = file.user
      /\ file.key \notin Keys => file.created = None
  <2>1. CASE /\ \/ \E st \in {"absent", "bad", "zero", "foreign"} : file = Blank(st)
                \/ file = [Blank("ok") EXCEPT !.key = Garbled]
             /\ nameOf = [k \in Keys |-> None]
    <3>1. nameOf \in [Keys -> Names \cup {None}]
      BY <2>1
    <3>2. CASE \E st \in {"absent", "bad", "zero", "foreign"} : file = Blank(st)
      <4>1. PICK st \in {"absent", "bad", "zero", "foreign"} : file = Blank(st)
        BY <3>2
      <4>2. Blank(st) \in Files
        BY BlankType
      <4> QED
        BY <3>1, <4>1, <4>2, BlankDated
    <3>3. CASE file = [Blank("ok") EXCEPT !.key = Garbled]
      BY <3>1, <3>3 DEF Blank, Files
    <3> QED
      BY <2>1, <3>2, <3>3
  <2>2. CASE \E n \in Names, k \in Keys, prov \in BOOLEAN, source \in {"legacy", "file"} :
               /\ prov => source = "file"
               /\ file = [state |-> "ok", user |-> n, key |-> k, source |-> source,
                          created |-> k, prov |-> prov]
               /\ nameOf = [j \in Keys |-> IF j = k THEN n ELSE None]
    BY <2>2 DEF Files
  <2> QED
    BY <2>1, <2>2 DEF ConfigInit
<1>2. ConfigTypeOK
  BY <1>1, BlankType DEF ConfigInit, ConfigTypeOK, Ops
<1>3. ControlInv /\ UnsavedInv /\ EndedInv /\ SafeInv
  BY DEF ConfigInit, ControlInv, UnsavedInv, EndedInv, SafeInv
<1>4. Dated(file) /\ \A p \in Procs : Dated(old[p])
  BY <1>1, BlankDated DEF ConfigInit, Dated
<1>5. StoreInv
  BY <1>4 DEF ConfigInit, StoreInv
<1> QED
  BY <1>2, <1>3, <1>5, StoreCoherent DEF ConfigInv

\* Every step keeps it.
LEMMA ConfigInvStep ==
  ConfigTypeOK /\ ConfigInv /\ [ConfigNext]_configVars => ConfigTypeOK' /\ ConfigInv'
<1> SUFFICES ASSUME ConfigTypeOK, ConfigInv, [ConfigNext]_configVars
             PROVE  ConfigTypeOK' /\ ConfigInv'
  OBVIOUS
<1>1. CASE UNCHANGED configVars
  <2> USE <1>1 DEF configVars, localVars, historyVars, ConfigInv
  <2>1. ConfigTypeOK' /\ ControlInv' /\ UnsavedInv'
    BY DEF ConfigTypeOK, ControlInv, UnsavedInv
  <2>2. StoreInv' /\ SessionKeepsAge'
    BY DEF StoreInv, Dated, SessionKeepsAge, Coherent, SharedSecret
  <2>3. EndedInv' /\ SafeInv'
    BY DEF EndedInv, Out, SafeInv, SharedSecret
  <2> QED
    BY <2>1, <2>2, <2>3
<1>2. CASE ConfigNext
  <2> USE <1>2 DEF ConfigInv
  <2>1. ConfigTypeOK' /\ ControlInv' /\ UnsavedInv'
    BY ConfigTypeStep, ControlStep, UnsavedStep
  <2>2. StoreInv' /\ EndedInv' /\ SafeInv'
    BY StoreStep, EndedStep, SafeStep
  <2>3. ConfigTypeOK /\ StoreInv => SessionKeepsAge
    BY StoreCoherent
  <2>4. (ConfigTypeOK /\ StoreInv => SessionKeepsAge)'
    BY StoreCoherent, PTL
  <2> QED
    BY <2>1, <2>2, <2>4
<1> QED
  BY <1>1, <1>2

\* The variables of the configuration store keep their types.
THEOREM ConfigTypeCorrect == ConfigSpec => []ConfigTypeOK
BY ConfigInitInv, ConfigInvStep, PTL DEF ConfigSpec

\* The inductive invariant of the writes, clears and reads.
THEOREM ConfigInvariant == ConfigSpec => []ConfigInv
BY ConfigInitInv, ConfigInvStep, PTL DEF ConfigSpec

\* No interleaving pairs a name with a key that was agreed under another, or a
\* key with the date of an authentication that began when the key's was over.
THEOREM SessionAge == ConfigSpec => []SessionKeepsAge
<1>1. ConfigInv => SessionKeepsAge
  BY DEF ConfigInv
<1> QED
  BY <1>1, ConfigInvariant, PTL

\* A session that was saved while nobody else wrote or cleared stays readable,
\* with its key or a later one of its name, until one of the listed events.
THEOREM SavedSession == ConfigSpec => []SavedSessionStays
<1>1. ConfigTypeOK /\ ConfigInv => SavedSessionStays
  <2> SUFFICES ASSUME ConfigTypeOK, ConfigInv, NEW k \in safe
               PROVE  LET now == SharedSecret(file) IN
                        /\ file.state = "ok" /\ file.user = nameOf[k]
                        /\ now \in Keys /\ nameOf[now] = nameOf[k] /\ now \notin prior[k]
    BY DEF SavedSessionStays
  <2>1. /\ file.state = "ok" /\ file.user = nameOf[k] /\ file.created = k
        /\ SharedSecret(file) \in Keys
    BY DEF ConfigInv, SafeInv
  <2>2. file \in Files /\ Dated(file) /\ StoreInv
    BY DEF ConfigTypeOK, ConfigInv, StoreInv
  <2> QED
    BY <2>1, <2>2, SecretBelongs
<1> QED
  BY <1>1, ConfigTypeCorrect, ConfigInvariant, PTL

\* What a read returns was not logged out: its result is set only when the
\* secret is resolved, from a copy that EndedInv speaks of.
LEMMA ReturnedNotEnded ==
  ASSUME ConfigTypeOK, ConfigInv, [ConfigNext]_configVars,
         NEW p \in Procs, res'[p] # res[p]
  PROVE  res'[p] \notin ended
<1> USE NamesAssumption, KeysAssumption DEF ConfigTypeOK
<1>1. ASSUME NEW q \in Procs, res' = [res EXCEPT ![q] = None]
      PROVE  res'[p] \notin ended
  BY <1>1
<1>2. ASSUME NEW q \in Procs, ReadSharedKey(q) \/ ReadSharedKeyFails(q)
      PROVE  res'[p] \notin ended
  <2>1. PICK secret \in {SharedSecret(old[q]), old[q].key} :
          pc[q] = "lookup" /\ Resolve(q, secret)
    BY <1>2 DEF ReadSharedKey, ReadSharedKeyFails
  <2>2. q = p /\ res'[p] = secret
    BY <2>1 DEF Resolve
  <2>3. SUFFICES ASSUME secret \in ended PROVE FALSE
    BY <2>2
  <2>4. /\ op[q] = "read" /\ Out(secret) /\ secret \in Keys
        /\ old[q] \in Files /\ Dated(old[q]) /\ StoreInv
    BY <2>1, <2>3 DEF ConfigInv, ControlInv, EndedInv, StoreInv
  <2>5. old[q].key # secret
    BY <2>1, <2>4 DEF Out
  <2>6. secret = SharedSecret(old[q]) /\ old[q].source = "keychain" /\ old[q].user \in Names
        /\ secret = keychain[old[q].user]
    BY <2>1, <2>4, <2>5 DEF SharedSecret, Files
  <2>7. nameOf[secret] = old[q].user
    BY <2>4, <2>6 DEF StoreInv
  <2> QED
    BY <2>1, <2>4, <2>6, <2>7 DEF Out
<1>3. CASE res' = res
  BY <1>3
<1>4. CASE \E q \in Procs : (\E kind \in {"auth", "start", "meta"} : WriteBegin(q, kind))
                            \/ Logout(q) \/ ReadConfig(q)
  BY <1>1, <1>4 DEF WriteBegin, Logout, ReadConfig
<1>5. CASE \E q \in Procs :
             \/ WriteSharedKey(q) \/ WriteSharedKeyFails(q) \/ DropSharedKey(q)
             \/ RenameConfig(q) \/ RenameConfigFails(q)
             \/ ClearRead(q) \/ ClearDelete(q) \/ ClearRemove(q) \/ Killed(q)
  BY <1>3, <1>5 DEF WriteSharedKey, WriteSharedKeyFails, DropSharedKey, RenameConfig,
     RenameConfigFails, ClearRead, ClearDelete, ClearRemove, Killed
<1>6. CASE \E k \in Keys : Expire(k)
  BY <1>3, <1>6 DEF Expire, localVars
<1>7. CASE UNCHANGED configVars
  BY <1>3, <1>7 DEF configVars, localVars
<1> QED
  BY <1>2, <1>4, <1>5, <1>6, <1>7 DEF ConfigNext

\* A key that a logout ended is never returned by read_config again.
THEOREM LogoutFinal == ConfigSpec => LoggedOutStaysOut
<1>1. ConfigTypeOK /\ ConfigInv /\ [ConfigNext]_configVars =>
        [\A p \in Procs : res'[p] # res[p] => res'[p] \notin ended]_configVars
  BY ReturnedNotEnded
<1> QED
  BY <1>1, ConfigTypeCorrect, ConfigInvariant, PTL DEF ConfigSpec, LoggedOutStaysOut
=============================================================================
