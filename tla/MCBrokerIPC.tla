----------------------------- MODULE MCBrokerIPC -----------------------------
(* Model values and symmetry for checking BrokerIPC with TLC. *)
EXTENDS BrokerIPC, TLC

Symmetry == Permutations(Clients)
=============================================================================
