--------------------------- MODULE MCBrokerSocket ---------------------------
(* Model values and symmetry for checking BrokerSocket with TLC. *)
EXTENDS BrokerSocket, TLC

Symmetry == Permutations(Brokers)
=============================================================================
