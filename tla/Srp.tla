---------------------------------- MODULE Srp ----------------------------------
(***************************************************************************)
(* The arithmetic of the v1.x session handshake (srp.rs, utils.rs): SRP-6a *)
(* in a group of prime order modulus.  SHA-256 is abstract: where a digest *)
(* is used as a number it is a constant operator, where it is only         *)
(* compared it is the tuple of what is hashed.                             *)
(***************************************************************************)
EXTENDS Naturals

CONSTANTS
  N, G,            \* group_prime and GROUP_GENERATOR
  K,               \* multiplier: the digest of the padded N and G
  HashX(_, _, _),  \* digest of salt, user name and PIN, as a number
  HashU(_, _)      \* derive_scramble: digest of the two public keys

ASSUME SrpAssumption == N \in Nat \ {0, 1} /\ G \in 1..(N - 1) /\ K \in Nat

\* group_prime is a prime, so its generator has an inverse; a digest that is
\* used as a number is one.
ASSUME GroupAssumption ==
  /\ \E inverse \in 1..(N - 1) : (G * inverse) % N = 1
  /\ \A A, B \in 0..(N - 1) : HashU(A, B) \in Nat

NoKey == 0

\* powermod: square and multiply.  pow[e] takes a base to its power: the
\* loop's base and exponent, both reduced by the loop.
PowerMod(base, exponent) ==
  LET pow[e \in 0..exponent] ==
        [b \in 0..(N - 1) |->
           IF e = 0 THEN 1
           ELSE LET rest == pow[e \div 2][(b * b) % N]
                IN IF e % 2 = 1 THEN (b * rest) % N ELSE rest]
  IN pow[exponent][base % N]

ClientPublicKey(a) == PowerMod(G, a)

\* set_server_public_key refuses a key that is zero in the group.
ServerKeyValid(B) == B % N # 0

\* Mutant: the server's key is taken to be larger than k * g^x.
DeriveSessionKeyNoWrap(user, a, B, salt, pin) ==
  LET x == HashX(salt, user, pin)
      u == HashU(ClientPublicKey(a), B)
      rhs == (K * PowerMod(G, x)) % N
      base == IF B >= rhs THEN (B - rhs) % N ELSE 1
  IN IF base = 0 THEN NoKey ELSE PowerMod(base, a + u * x)

\* derive_session_key: (B - k * g^x) ^ (a + u * x), with the subtraction done
\* on unsigned numbers; no key if the base is zero.  The digest of the secret
\* is the secret itself.
DeriveSessionKey(user, a, B, salt, pin) ==
  LET x == HashX(salt, user, pin)
      u == HashU(ClientPublicKey(a), B)
      rhs == (K * PowerMod(G, x)) % N
      base == IF B >= rhs THEN (B - rhs) % N ELSE ((B + N) - rhs) % N
  IN IF base = 0 THEN NoKey ELSE PowerMod(base, a + u * x)

\* compute_m and compute_hmac, the proofs of the two sides.
ComputeM(user, salt, A, B, key) == <<user, salt, A, B, key>>
ComputeHmac(A, proof, key) == <<A, proof, key>>

\* verify_hamk: two digests, compared whole.
VerifyHamk(expected, actual) == expected = actual

\* encrypt and decrypt, AES-GCM under the session's key: nothing without a
\* key, and a box opens under the key it was sealed with and no other.
Encrypt(key, value) == [key |-> key, value |-> value]
Decrypts(key, box) == key # NoKey /\ box.key = key

(***************************************************************************)
(* The other side, the helper (external): SRP-6a as RFC 5054 defines it.   *)
(***************************************************************************)
HelperPublicKey(user, b, salt, pin) ==
  (K * PowerMod(G, HashX(salt, user, pin)) + PowerMod(G, b)) % N

HelperKey(user, A, b, salt, pin) ==
  LET v == PowerMod(G, HashX(salt, user, pin))
      u == HashU(A, HelperPublicKey(user, b, salt, pin))
  IN PowerMod(A * PowerMod(v, u), b)
================================================================================
