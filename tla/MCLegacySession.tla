---------------------------- MODULE MCLegacySession ----------------------------
(* A group of 23 elements, and digests that are small numbers. *)
EXTENDS LegacySession

MCHashX(salt, user, pin) == 1 + ((salt + 2 * user + 3 * pin) % 5)
MCHashU(A, B) == 1 + ((A + B) % 3)
================================================================================
