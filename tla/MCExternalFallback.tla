------------------------- MODULE MCExternalFallback -------------------------
(* Model values and symmetry for checking ExternalFallback with TLC. *)
EXTENDS ExternalFallback, TLC

Symmetry == Permutations(Logins)
=============================================================================
