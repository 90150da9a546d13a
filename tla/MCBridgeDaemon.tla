---------------------------- MODULE MCBridgeDaemon ----------------------------
(***************************************************************************)
(* BridgeDaemon for TLC: an answer whose payload is a plain object, and an *)
(* error object whose code is Success.                                     *)
(***************************************************************************)
EXTENDS BridgeDaemon

MCBodies ==
  {[object |-> TRUE, ok |-> "none", payload |-> FALSE,
    code |-> [form |-> "other", status |-> "GenericError"]],
   [object |-> TRUE, ok |-> "false", payload |-> FALSE,
    code |-> [form |-> "digits", status |-> "Success"]]}
================================================================================
