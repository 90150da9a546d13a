------------------------------ MODULE HelperWire ------------------------------
(***************************************************************************)
(* The JSON conversions between the helper, the v1.x daemon and the v1.x   *)
(* client: the shape of a helper's answer, the envelope the daemon makes   *)
(* of it, and what the client reads from the envelope.  Contents are       *)
(* abstract: a value is described by the fields the code looks at.         *)
(***************************************************************************)

\* The codes of types.rs that have a meaning on the wire.
Statuses ==
  {"Success", "GenericError", "InvalidParam", "NoResults", "FailedToDelete",
   "FailedToUpdate", "InvalidMessageFormat", "DuplicateItem",
   "UnknownAction", "InvalidSession", "ServerError",
   "CommunicationTimeout", "InvalidConfig", "ProcessNotRunning",
   "ProtoInvalidResponse"}

\* The "code" field of a JSON object: a number, a string of digits or a name
\* that stands for a status, or anything else (absence included).
JsonCodes ==
  [form : {"number", "digits", "name"}, status : Statuses]
    \cup {[form |-> "other", status |-> "GenericError"]}

\* A JSON value.  ok is the field "ok" (only a Boolean counts), payload
\* whether the field "payload" exists.
JsonBodies ==
  [object : BOOLEAN, ok : {"none", "true", "false"}, payload : BOOLEAN,
   code : JsonCodes]

\* The status a "code" field denotes; GenericError if it denotes none.
StatusOf(code) ==
  IF code.form \in {"number", "digits", "name"} THEN code.status
                                                ELSE "GenericError"

(***************************************************************************)
(* parse_helper_response_shape: an object without a Boolean "ok" is itself *)
(* the payload; otherwise "ok" and "payload" decide.  HelperOk says that   *)
(* the result is Ok(payload), HelperCode the code that goes with it.  An   *)
(* error may carry any code, Success included.                             *)
(***************************************************************************)
HelperOk(body) ==
  body.object /\ (body.ok = "none" \/ (body.ok = "true" /\ body.payload))

HelperCode(body) ==
  CASE HelperOk(body) -> "Success"
    [] ~HelperOk(body) /\ (~body.object \/ body.ok = "true") ->
         "ProtoInvalidResponse"
    [] body.object /\ body.ok = "false" -> StatusOf(body.code)

\* send_envelope_to_client: the code decides; an error whose code is Success
\* becomes an envelope with ok and without a payload.
Envelope(code, payload) ==
  [object |-> TRUE,
   ok |-> IF code = "Success" THEN "true" ELSE "false",
   payload |-> code = "Success" /\ payload,
   code |-> [form |-> "number", status |-> code]]

\* parse_response_envelope of the client: the code, Success for Ok.  (The branch without "ok" accepts
\* answers of a v0 daemon; this daemon always sends "ok".)
ParseResponseEnvelope(body) ==
  CASE ~body.object -> "ProtoInvalidResponse"
    [] body.object /\ body.ok = "true" ->
         IF body.payload THEN "Success" ELSE "ProtoInvalidResponse"
    [] body.object /\ body.ok = "false" -> StatusOf(body.code)
    [] body.object /\ body.ok = "none" -> "ProtoInvalidResponse"
================================================================================
