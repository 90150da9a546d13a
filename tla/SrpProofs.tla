------------------------------- MODULE SrpProofs -------------------------------
(***************************************************************************)
(* Proofs about the arithmetic of the v1.x handshake: powermod computes    *)
(* powers, and both sides of SRP-6a arrive at the same key.                *)
(*                                                                         *)
(* Induction is over sets of numbers: the order of the naturals is         *)
(* well-founded, so a set that is closed under it holds all of them.       *)
(***************************************************************************)
EXTENDS Srp, WellFoundedInduction, TLAPS

LessThan == {p \in Nat \X Nat : p[1] < p[2]}

\* Course-of-values induction.
LEMMA SetInduction ==
  ASSUME NEW S, \A n \in Nat : (\A m \in Nat : m < n => m \in S) => n \in S
  PROVE  \A n \in Nat : n \in S
<1> SUFFICES ASSUME Nat \ S # {}
             PROVE  FALSE
  OBVIOUS
<1>1. IsWellFoundedOn(LessThan, Nat)
  BY NatLessThanWellFounded, Zenon DEF OpToRel, LessThan
<1>2. PICK n \in Nat \ S : \A m \in Nat \ S : ~ (<<m, n>> \in LessThan)
  BY <1>1, WFMin
<1>3. \A m, k \in Nat : m < k => <<m, k>> \in LessThan
  BY DEF LessThan
<1>4. \A m \in Nat : m < n => m \in S
  BY <1>2, <1>3, Zenon
<1> QED
  BY <1>2, <1>4

\* Induction from n to n + 1.
LEMMA StepInduction ==
  ASSUME NEW S, 0 \in S, \A n \in Nat : n \in S => n + 1 \in S
  PROVE  \A n \in Nat : n \in S
<1>1. \A n \in Nat : (\A m \in Nat : m < n => m \in S) => n \in S
  <2> SUFFICES ASSUME NEW n \in Nat, \A m \in Nat : m < n => m \in S
               PROVE  n \in S
    OBVIOUS
  <2>1. CASE n = 0
    BY <2>1
  <2>2. CASE n # 0
    <3>1. n - 1 \in Nat /\ n - 1 < n /\ (n - 1) + 1 = n
      BY <2>2
    <3> QED
      BY <3>1
  <2> QED
    BY <2>1, <2>2
<1> QED
  BY <1>1, SetInduction

--------------------------------------------------------------------------------
(***************************************************************************)
(* Remainders.                                                             *)
(***************************************************************************)
Residues == 0..(N - 1)

\* A number and its remainder.
LEMMA Remainder ==
  ASSUME NEW x \in Nat
  PROVE  x % N \in Residues /\ x \div N \in Nat /\ x = N * (x \div N) + (x % N)
BY SrpAssumption DEF Residues

\* What a remainder is, from a quotient.
LEMMA RemainderUnique ==
  ASSUME NEW q \in Nat, NEW r \in Residues
  PROVE  (N * q + r) % N = r
BY SrpAssumption DEF Residues

\* The remainder of a residue.
LEMMA RemainderResidue ==
  ASSUME NEW r \in Residues
  PROVE  r \in Nat /\ r % N = r
BY SrpAssumption DEF Residues

\* Reducing one factor, or one summand, does not change the remainder.
LEMMA ReduceFactor ==
  ASSUME NEW x \in Nat, NEW y \in Nat
  PROVE  /\ ((x % N) * y) % N = (x * y) % N
         /\ (y * (x % N)) % N = (y * x) % N
<1> DEFINE q == x \div N
           r == x % N
           t == (r * y) \div N
           s == (r * y) % N
<1>0. N \in Nat
  BY SrpAssumption
<1>1. q \in Nat /\ r \in Nat /\ x = N * q + r
  BY Remainder, RemainderResidue
<1>2. r * y \in Nat
  BY <1>1
<1>3. s \in Residues /\ s \in Nat /\ t \in Nat /\ r * y = N * t + s
  BY <1>2, Remainder, RemainderResidue
<1> HIDE DEF q, r, t, s
<1>4. x * y = (N * q) * y + r * y
  BY <1>0, <1>1
<1>5. (N * q) * y = N * (q * y)
  BY <1>0, <1>1
<1>6. x * y = N * (q * y) + (N * t + s)
  BY <1>3, <1>4, <1>5
<1>7. q * y \in Nat /\ q * y + t \in Nat
  BY <1>1, <1>3
<1>8. N * (q * y + t) = N * (q * y) + N * t
  BY <1>0, <1>3, <1>7
<1>9. N * (q * y) \in Nat /\ N * t \in Nat
  BY <1>0, <1>3, <1>7
<1>10. x * y = N * (q * y + t) + s
  BY <1>3, <1>6, <1>8, <1>9
<1>11. (x * y) % N = s
  BY <1>3, <1>7, <1>10, RemainderUnique
<1>12. (r * y) % N = (x * y) % N
  BY <1>11 DEF s
<1>13. y * r = r * y /\ y * x = x * y
  BY <1>1
<1> QED
  BY <1>12, <1>13 DEF r

\* A summand can be reduced before the addition.
LEMMA ReduceSummand ==
  ASSUME NEW x \in Nat, NEW y \in Nat
  PROVE  ((x % N) + y) % N = (x + y) % N
<1> DEFINE q == x \div N
           r == x % N
           t == (r + y) \div N
           s == (r + y) % N
<1>0. N \in Nat
  BY SrpAssumption
<1>1. q \in Nat /\ r \in Nat /\ x = N * q + r
  BY Remainder, RemainderResidue
<1>2. r + y \in Nat
  BY <1>1
<1>3. s \in Residues /\ s \in Nat /\ t \in Nat /\ r + y = N * t + s
  BY <1>2, Remainder, RemainderResidue
<1> HIDE DEF q, r, t, s
<1>4. N * (q + t) = N * q + N * t /\ N * q \in Nat /\ N * t \in Nat
  BY <1>0, <1>1, <1>3
<1>5. x + y = N * (q + t) + s
  BY <1>1, <1>3, <1>4
<1>6. (x + y) % N = s
  BY <1>1, <1>3, <1>5, RemainderUnique
<1> QED
  BY <1>6 DEF r, s

--------------------------------------------------------------------------------
(***************************************************************************)
(* powermod.  The function it computes with exists for every exponent, and *)
(* the functions for different exponents agree.                            *)
(***************************************************************************)

\* One round of the loop, given the function for the rounds that are left.
Round(f, e) ==
  [b \in 0..(N - 1) |->
     IF e = 0 THEN 1
     ELSE LET rest == f[e \div 2][(b * b) % N]
          IN IF e % 2 = 1 THEN (b * rest) % N ELSE rest]

IsPow(f, E) == f = [e \in 0..E |-> Round(f, e)]

Pow(E) == CHOOSE f : IsPow(f, E)

\* PowerMod, in terms of the function its loop computes.
LEMMA PowerModIsPow ==
  ASSUME NEW z, NEW E
  PROVE  PowerMod(z, E) = Pow(E)[E][z % N]
BY Zenon DEF PowerMod, Pow, IsPow, Round

\* A round halves the exponent.
LEMMA Halves ==
  ASSUME NEW e \in Nat, e # 0
  PROVE  e \div 2 \in Nat /\ e \div 2 < e
OBVIOUS

\* A round looks at the half of the exponent only.
LEMMA RoundLocal ==
  ASSUME NEW f, NEW g, NEW e \in Nat, e # 0 => f[e \div 2] = g[e \div 2]
  PROVE  Round(f, e) = Round(g, e)
BY DEF Round

\* The loop's function exists for every exponent.
LEMMA PowExists ==
  ASSUME NEW E \in Nat
  PROVE  \E f : IsPow(f, E)
<1> DEFINE S == {n \in Nat : \E f : IsPow(f, n)}
<1>1. 0 \in S
  <2> DEFINE f == [e \in 0..0 |-> Round(<<>>, 0)]
  <2>1. \A e \in 0..0 : e = 0
    OBVIOUS
  <2>2. Round(f, 0) = Round(<<>>, 0)
    BY RoundLocal
  <2>3. f = [e \in 0..0 |-> Round(f, e)]
    BY <2>1, <2>2
  <2> QED
    BY <2>3 DEF IsPow
<1>2. \A n \in Nat : n \in S => n + 1 \in S
  <2> SUFFICES ASSUME NEW n \in Nat, NEW f, IsPow(f, n)
               PROVE  \E g : IsPow(g, n + 1)
    OBVIOUS
  <2> DEFINE g == [e \in 0..(n + 1) |-> IF e <= n THEN f[e] ELSE Round(f, e)]
  <2>1. \A e \in 0..n : f[e] = Round(f, e)
    BY DEF IsPow
  <2>2. \A e \in 0..(n + 1) : g[e] = Round(g, e)
    <3> TAKE e \in 0..(n + 1)
    <3>1. g[e] = Round(f, e)
      BY <2>1
    <3>2. e # 0 => e \div 2 \in 0..n
      BY Halves
    <3>3. e # 0 => f[e \div 2] = g[e \div 2]
      BY <3>2
    <3>4. Round(f, e) = Round(g, e)
      BY <3>3, RoundLocal
    <3> QED
      BY <3>1, <3>4
  <2>3. g = [e \in 0..(n + 1) |-> g[e]]
    OBVIOUS
  <2> HIDE DEF g
  <2>4. g = [e \in 0..(n + 1) |-> Round(g, e)]
    BY <2>2, <2>3
  <2> QED
    BY <2>4 DEF IsPow
<1> HIDE DEF S
<1>3. \A n \in Nat : n \in S
  BY <1>1, <1>2, StepInduction
<1> QED
  BY <1>3 DEF S

\* So it obeys its recursion.
LEMMA PowRound ==
  ASSUME NEW E \in Nat, NEW e \in 0..E
  PROVE  Pow(E)[e] = Round(Pow(E), e)
<1>1. IsPow(Pow(E), E)
  BY PowExists DEF Pow
<1> QED
  BY <1>1 DEF IsPow

\* Its values do not depend on how far it is computed.
LEMMA PowAgrees ==
  ASSUME NEW E \in Nat, NEW e \in 0..E
  PROVE  Pow(E)[e] = Pow(e)[e]
<1> DEFINE S == {n \in Nat : \A A, B \in Nat :
                   n <= A /\ n <= B => Pow(A)[n] = Pow(B)[n]}
<1>1. \A n \in Nat : (\A m \in Nat : m < n => m \in S) => n \in S
  <2> SUFFICES ASSUME NEW n \in Nat, \A m \in Nat : m < n => m \in S,
                      NEW A \in Nat, NEW B \in Nat, n <= A, n <= B
               PROVE  Pow(A)[n] = Pow(B)[n]
    OBVIOUS
  <2>1. n # 0 => n \div 2 \in Nat /\ n \div 2 < n /\ n \div 2 <= A /\ n \div 2 <= B
    BY Halves
  <2>2. n # 0 => Pow(A)[n \div 2] = Pow(B)[n \div 2]
    BY <2>1
  <2>3. Round(Pow(A), n) = Round(Pow(B), n)
    BY <2>2, RoundLocal
  <2> QED
    BY <2>3, PowRound
<1>2. \A n \in Nat : n \in S
  <2> HIDE DEF S
  <2> QED
    BY <1>1, SetInduction
<1> QED
  BY <1>2

--------------------------------------------------------------------------------
(***************************************************************************)
(* Square and multiply computes powers: PowerMod(z, 0) is 1, and           *)
(* PowerMod(z, n + 1) is z times PowerMod(z, n), modulo N.                 *)
(***************************************************************************)

\* The base can be reduced first.
LEMMA PowerModReduce ==
  ASSUME NEW z \in Nat, NEW e
  PROVE  PowerMod(z % N, e) = PowerMod(z, e)
<1>1. (z % N) % N = z % N
  BY Remainder, RemainderResidue
<1> QED
  BY <1>1, PowerModIsPow, Zenon

\* What one iteration of the loop does.
LEMMA PowerModRound ==
  ASSUME NEW z \in Residues, NEW e \in Nat
  PROVE  PowerMod(z, e) =
           IF e = 0 THEN 1
           ELSE IF e % 2 = 1 THEN (z * PowerMod(z * z, e \div 2)) % N
           ELSE PowerMod(z * z, e \div 2)
<1>1. z \in Nat /\ z % N = z /\ z * z \in Nat
  BY RemainderResidue
<1>2. PowerMod(z, e) = Round(Pow(e), e)[z]
  BY <1>1, PowerModIsPow, PowRound
<1>3. CASE e = 0
  BY <1>2, <1>3 DEF Round, Residues
<1>4. CASE e # 0
  <2>1. Pow(e)[e \div 2] = Pow(e \div 2)[e \div 2]
    BY <1>4, Halves, PowAgrees
  <2>2. Pow(e)[e \div 2][(z * z) % N] = PowerMod(z * z, e \div 2)
    BY <2>1, PowerModIsPow
  <2> QED
    BY <1>2, <1>4, <2>2 DEF Round, Residues
<1> QED
  BY <1>3, <1>4

\* An exponent of zero.
LEMMA PowerModZero ==
  ASSUME NEW z \in Nat
  PROVE  PowerMod(z, 0) = 1
<1>1. z % N \in Residues
  BY Remainder
<1> QED
  BY <1>1, PowerModRound, PowerModReduce

\* Powers are residues.
LEMMA PowerModType ==
  ASSUME NEW z \in Nat, NEW e \in Nat
  PROVE  PowerMod(z, e) \in Residues
<1> DEFINE S == {n \in Nat : \A y \in Residues : PowerMod(y, n) \in Residues}
<1>0. 1 \in Residues
  BY SrpAssumption DEF Residues
<1>1. \A n \in Nat : (\A m \in Nat : m < n => m \in S) => n \in S
  <2> SUFFICES ASSUME NEW n \in Nat, \A m \in Nat : m < n => m \in S,
                      NEW y \in Residues
               PROVE  PowerMod(y, n) \in Residues
    OBVIOUS
  <2>1. CASE n = 0
    BY <1>0, <2>1, PowerModRound
  <2>2. CASE n # 0
    <3>1. y * y \in Nat /\ (y * y) % N \in Residues /\ y \in Nat
      BY Remainder, RemainderResidue
    <3>2. n \div 2 \in S
      BY <2>2, Halves
    <3>3. PowerMod(y * y, n \div 2) \in Residues
      BY <3>1, <3>2, PowerModReduce
    <3>4. PowerMod(y * y, n \div 2) \in Nat
      BY <3>3, RemainderResidue
    <3>5. (y * PowerMod(y * y, n \div 2)) % N \in Residues
      BY <3>1, <3>4, Remainder
    <3> QED
      BY <2>2, <3>3, <3>5, PowerModRound
  <2> QED
    BY <2>1, <2>2
<1>2. \A n \in Nat : n \in S
  <2> HIDE DEF S
  <2> QED
    BY <1>1, SetInduction
<1>3. PowerMod(z % N, e) \in Residues
  BY <1>2, Remainder
<1> QED
  BY <1>3, PowerModReduce

\* Parity of an exponent and of its successor.
LEMMA Parity ==
  ASSUME NEW e \in Nat
  PROVE  /\ e % 2 = 1 \/ e % 2 = 0
         /\ e % 2 = 0 => (e + 1) % 2 = 1 /\ (e + 1) \div 2 = e \div 2
         /\ e % 2 = 1 => (e + 1) % 2 = 0 /\ (e + 1) \div 2 = (e \div 2) + 1
         /\ e \div 2 \in Nat
OBVIOUS

\* Multiplying by y, and by y again, is multiplying by the square.
LEMMA TwiceIsSquare ==
  ASSUME NEW y \in Nat, NEW r \in Nat
  PROVE  (y * ((y * r) % N)) % N = ((y * y) * r) % N
<1>1. y * r \in Nat /\ y * (y * r) = (y * y) * r
  OBVIOUS
<1> QED
  BY <1>1, ReduceFactor

\* One more in the exponent is one more multiplication.
LEMMA PowerModSucc ==
  ASSUME NEW z \in Nat, NEW e \in Nat
  PROVE  PowerMod(z, e + 1) = (z * PowerMod(z, e)) % N
<1> DEFINE S == {n \in Nat : \A y \in Residues :
                   PowerMod(y, n + 1) = (y * PowerMod(y, n)) % N}
<1>1. \A n \in Nat : (\A m \in Nat : m < n => m \in S) => n \in S
  <2> SUFFICES ASSUME NEW n \in Nat, \A m \in Nat : m < n => m \in S,
                      NEW y \in Residues
               PROVE  PowerMod(y, n + 1) = (y * PowerMod(y, n)) % N
    OBVIOUS
  <2> DEFINE k == n \div 2
             sq == y * y
  <2>1. y \in Nat /\ sq \in Nat /\ sq % N \in Residues /\ k \in Nat
    BY RemainderResidue, Remainder, Parity
  <2>2. n + 1 \in Nat /\ n + 1 # 0
    OBVIOUS
  <2>3. CASE n % 2 = 0
    <3>1. PowerMod(y, n + 1) = (y * PowerMod(sq, k)) % N
      BY <2>2, <2>3, Parity, PowerModRound
    <3>2. PowerMod(y, n) = PowerMod(sq, k)
      <4>1. CASE n = 0
        BY <2>1, <4>1, PowerModZero, PowerModRound
      <4>2. CASE n # 0
        BY <2>3, <4>2, PowerModRound
      <4> QED
        BY <4>1, <4>2
    <3> QED
      BY <3>1, <3>2
  <2>4. CASE n % 2 = 1
    <3>1. PowerMod(y, n + 1) = PowerMod(sq, k + 1)
      BY <2>2, <2>4, Parity, PowerModRound
    <3>2. n # 0 /\ PowerMod(y, n) = (y * PowerMod(sq, k)) % N
      BY <2>4, PowerModRound
    <3>3. k < n
      BY <3>2, Halves
    <3>4. PowerMod(sq % N, k + 1) = ((sq % N) * PowerMod(sq % N, k)) % N
      BY <2>1, <3>3
    <3>5. PowerMod(sq, k) \in Nat
      BY <2>1, PowerModType, RemainderResidue
    <3>6. PowerMod(sq, k + 1) = ((sq % N) * PowerMod(sq, k)) % N
      BY <2>1, <3>4, PowerModReduce
    <3>7. PowerMod(sq, k + 1) = (sq * PowerMod(sq, k)) % N
      BY <2>1, <3>5, <3>6, ReduceFactor
    <3>8. (y * PowerMod(y, n)) % N = (sq * PowerMod(sq, k)) % N
      <4>1. (y * ((y * PowerMod(sq, k)) % N)) % N = ((y * y) * PowerMod(sq, k)) % N
        <5> HIDE DEF k, sq
        <5> QED
          BY <2>1, <3>5, TwiceIsSquare
      <4> QED
        BY <3>2, <4>1
    <3> QED
      BY <3>1, <3>7, <3>8
  <2> QED
    BY <2>3, <2>4, Parity
<1>2. \A n \in Nat : n \in S
  <2> HIDE DEF S
  <2> QED
    BY <1>1, SetInduction
<1>3. z % N \in Residues /\ PowerMod(z, e) \in Nat
  BY Remainder, PowerModType, RemainderResidue
<1>4. PowerMod(z % N, e + 1) = ((z % N) * PowerMod(z % N, e)) % N
  BY <1>2, <1>3
<1>5. PowerMod(z, e + 1) = ((z % N) * PowerMod(z, e)) % N
  BY <1>4, PowerModReduce
<1> QED
  BY <1>3, <1>5, ReduceFactor

\* powermod, square and multiply on a loop that halves the exponent and
\* squares the base, computes the power that repeated multiplication does,
\* for every modulus above one, base and exponent.
THEOREM PowerModComputes ==
  /\ \A z \in Nat : PowerMod(z, 0) = 1
  /\ \A z, e \in Nat : PowerMod(z, e + 1) = (z * PowerMod(z, e)) % N
BY PowerModZero, PowerModSucc

--------------------------------------------------------------------------------
(***************************************************************************)
(* The laws of powers, each by induction over the exponent.                *)
(***************************************************************************)

\* Factors change places.
LEMMA Swap ==
  ASSUME NEW x \in Nat, NEW y \in Nat, NEW z \in Nat
  PROVE  (x * y) * z = x * (y * z) /\ x * (y * z) = y * (x * z)
OBVIOUS

\* Powers are numbers, and reduced.
LEMMA PowerModNat ==
  ASSUME NEW z \in Nat, NEW e \in Nat
  PROVE  PowerMod(z, e) \in Nat /\ PowerMod(z, e) % N = PowerMod(z, e)
BY PowerModType, RemainderResidue

\* z^(m + n) = z^m * z^n
LEMMA PowerModSum ==
  ASSUME NEW z \in Nat, NEW m \in Nat, NEW n \in Nat
  PROVE  PowerMod(z, m + n) = (PowerMod(z, m) * PowerMod(z, n)) % N
<1> DEFINE S == {i \in Nat :
                   PowerMod(z, i + n) = (PowerMod(z, i) * PowerMod(z, n)) % N}
<1>1. 0 \in S
  <2>1. PowerMod(z, 0 + n) = PowerMod(z, n) /\ PowerMod(z, 0) = 1
    BY PowerModZero
  <2>2. 1 * PowerMod(z, n) = PowerMod(z, n)
    BY PowerModNat
  <2> QED
    BY <2>1, <2>2, PowerModNat
<1>2. \A i \in Nat : i \in S => i + 1 \in S
  <2> SUFFICES ASSUME NEW i \in Nat,
                      PowerMod(z, i + n) = (PowerMod(z, i) * PowerMod(z, n)) % N
               PROVE  PowerMod(z, (i + 1) + n)
                        = (PowerMod(z, i + 1) * PowerMod(z, n)) % N
    OBVIOUS
  <2> DEFINE p == PowerMod(z, i)
             q == PowerMod(z, n)
  <2>1. p \in Nat /\ q \in Nat /\ p * q \in Nat /\ z * p \in Nat
    <3>1. p \in Nat /\ q \in Nat
      BY PowerModNat, Zenon
    <3> HIDE DEF p, q
    <3> QED
      BY <3>1
  <2>2. i + n \in Nat /\ (i + 1) + n = (i + n) + 1
    OBVIOUS
  <2>3. PowerMod(z, (i + 1) + n) = (z * ((p * q) % N)) % N
    BY <2>2, PowerModSucc
  <2>4. PowerMod(z, i + 1) = (z * p) % N
    BY PowerModSucc
  <2> HIDE DEF p, q
  <2>5. (z * ((p * q) % N)) % N = (z * (p * q)) % N
    BY <2>1, ReduceFactor
  <2>6. (((z * p) % N) * q) % N = ((z * p) * q) % N
    BY <2>1, ReduceFactor
  <2>7. z * (p * q) = (z * p) * q
    BY <2>1, Swap
  <2>8. PowerMod(z, (i + 1) + n) = ((z * p) * q) % N
    BY <2>3, <2>5, <2>7, Zenon
  <2>9. (PowerMod(z, i + 1) * q) % N = ((z * p) * q) % N
    BY <2>4, <2>6, Zenon
  <2> QED
    BY <2>8, <2>9, Zenon DEF q
<1>3. \A i \in Nat : i \in S
  <2> HIDE DEF S
  <2> QED
    BY <1>1, <1>2, StepInduction
<1> QED
  BY <1>3

\* (y * z)^n = y^n * z^n
LEMMA PowerModProduct ==
  ASSUME NEW y \in Nat, NEW z \in Nat, NEW n \in Nat
  PROVE  PowerMod(y * z, n) = (PowerMod(y, n) * PowerMod(z, n)) % N
<1> DEFINE S == {i \in Nat :
                   PowerMod(y * z, i) = (PowerMod(y, i) * PowerMod(z, i)) % N}
<1>0. y * z \in Nat
  OBVIOUS
<1>1. 0 \in S
  <2>1. PowerMod(y * z, 0) = 1 /\ PowerMod(y, 0) = 1 /\ PowerMod(z, 0) = 1
    BY <1>0, PowerModZero
  <2>2. 1 % N = 1 /\ 1 * 1 = 1
    BY SrpAssumption
  <2> QED
    BY <2>1, <2>2
<1>2. \A i \in Nat : i \in S => i + 1 \in S
  <2> SUFFICES ASSUME NEW i \in Nat,
                      PowerMod(y * z, i) = (PowerMod(y, i) * PowerMod(z, i)) % N
               PROVE  PowerMod(y * z, i + 1)
                        = (PowerMod(y, i + 1) * PowerMod(z, i + 1)) % N
    OBVIOUS
  <2> DEFINE p == PowerMod(y, i)
             q == PowerMod(z, i)
  <2>1. p \in Nat /\ q \in Nat /\ p * q \in Nat /\ y * p \in Nat /\ z * q \in Nat
    <3>1. p \in Nat /\ q \in Nat
      BY PowerModNat, Zenon
    <3> HIDE DEF p, q
    <3> QED
      BY <3>1
  <2>2. PowerMod(y * z, i + 1) = ((y * z) * ((p * q) % N)) % N
    BY <1>0, PowerModSucc
  <2>3. PowerMod(y, i + 1) = (y * p) % N /\ PowerMod(z, i + 1) = (z * q) % N
    BY PowerModSucc
  <2> HIDE DEF p, q
  <2>4. ((y * z) * ((p * q) % N)) % N = ((y * z) * (p * q)) % N
    BY <1>0, <2>1, ReduceFactor
  <2>5. (z * q) % N \in Nat
    BY <2>1, Remainder, RemainderResidue
  <2>6. (((y * p) % N) * ((z * q) % N)) % N = ((y * p) * ((z * q) % N)) % N
    BY <2>1, <2>5, ReduceFactor
  <2>7. ((y * p) * ((z * q) % N)) % N = ((y * p) * (z * q)) % N
    BY <2>1, ReduceFactor
  <2>8. (y * z) * (p * q) = (y * p) * (z * q)
    <3>1. (y * z) * (p * q) = y * (z * (p * q))
      BY <2>1, Swap
    <3>2. z * (p * q) = p * (z * q)
      BY <2>1, Swap
    <3>3. (y * p) * (z * q) = y * (p * (z * q))
      BY <2>1, Swap
    <3> QED
      BY <3>1, <3>2, <3>3
  <2>9. PowerMod(y * z, i + 1) = ((y * p) * (z * q)) % N
    BY <2>2, <2>4, <2>8, Zenon
  <2>10. (PowerMod(y, i + 1) * PowerMod(z, i + 1)) % N = ((y * p) * (z * q)) % N
    BY <2>3, <2>6, <2>7, Zenon
  <2> QED
    BY <2>9, <2>10, Zenon
<1>3. \A i \in Nat : i \in S
  <2> HIDE DEF S
  <2> QED
    BY <1>1, <1>2, StepInduction
<1> QED
  BY <1>3

\* (z^m)^n = z^(m * n)
LEMMA PowerModPower ==
  ASSUME NEW z \in Nat, NEW m \in Nat, NEW n \in Nat
  PROVE  PowerMod(PowerMod(z, m), n) = PowerMod(z, m * n)
<1> DEFINE p == PowerMod(z, m)
           S == {i \in Nat : PowerMod(p, i) = PowerMod(z, m * i)}
<1>0. p \in Nat
  BY PowerModNat
<1>1. 0 \in S
  <2>1. m * 0 = 0
    OBVIOUS
  <2> QED
    BY <1>0, <2>1, PowerModZero
<1>2. \A i \in Nat : i \in S => i + 1 \in S
  <2> SUFFICES ASSUME NEW i \in Nat, PowerMod(p, i) = PowerMod(z, m * i)
               PROVE  PowerMod(p, i + 1) = PowerMod(z, m * (i + 1))
    OBVIOUS
  <2>1. PowerMod(p, i + 1) = (p * PowerMod(z, m * i)) % N
    BY <1>0, PowerModSucc
  <2>2. m * i \in Nat /\ m * (i + 1) = m + m * i
    OBVIOUS
  <2> QED
    BY <2>1, <2>2, PowerModSum
<1>3. \A i \in Nat : i \in S
  <2> HIDE DEF S
  <2> QED
    BY <1>1, <1>2, StepInduction
<1> QED
  BY <1>3

\* 1^n = 1
LEMMA PowerModOne ==
  ASSUME NEW n \in Nat
  PROVE  PowerMod(1, n) = 1
<1> DEFINE S == {i \in Nat : PowerMod(1, i) = 1}
<1>1. 0 \in S
  BY PowerModZero
<1>2. \A i \in Nat : i \in S => i + 1 \in S
  <2>1. (1 * 1) % N = 1
    BY SrpAssumption
  <2> QED
    BY <2>1, PowerModSucc
<1>3. \A i \in Nat : i \in S
  <2> HIDE DEF S
  <2> QED
    BY <1>1, <1>2, StepInduction
<1> QED
  BY <1>3

\* No power of the generator is zero in the group.
LEMMA GeneratorPower ==
  ASSUME NEW n \in Nat
  PROVE  PowerMod(G, n) \in Residues /\ PowerMod(G, n) # 0
<1>1. PICK inverse \in 1..(N - 1) : (G * inverse) % N = 1
  BY GroupAssumption
<1>2. G \in Nat /\ inverse \in Nat /\ G * inverse \in Nat
  BY SrpAssumption
<1>3. PowerMod(G * inverse, n) = 1
  BY <1>1, <1>2, PowerModReduce, PowerModOne
<1>4. (PowerMod(G, n) * PowerMod(inverse, n)) % N = 1
  BY <1>2, <1>3, PowerModProduct
<1>5. 0 % N = 0 /\ \A i \in Nat : 0 * i = 0
  BY SrpAssumption
<1>6. PowerMod(inverse, n) \in Nat
  BY <1>2, PowerModNat
<1> QED
  BY <1>2, <1>4, <1>5, <1>6, PowerModType

--------------------------------------------------------------------------------
(***************************************************************************)
(* The handshake.                                                          *)
(***************************************************************************)

\* The subtraction of derive_session_key, on unsigned numbers, undoes the
\* helper's addition, also where it wraps.
LEMMA Unmask ==
  ASSUME NEW mask \in Nat, NEW y \in Residues
  PROVE  LET B == (mask + y) % N
             rhs == mask % N
         IN y = IF B >= rhs THEN (B - rhs) % N ELSE ((B + N) - rhs) % N
<1> DEFINE B == (mask + y) % N
           rhs == mask % N
<1>0. N \in Nat \ {0, 1} /\ y \in Nat /\ y < N
  BY SrpAssumption DEF Residues
<1>1. rhs \in Nat /\ rhs < N
  BY <1>0, Remainder DEF Residues
<1>2. B = (rhs + y) % N
  BY <1>0, ReduceSummand
<1> HIDE DEF B, rhs
<1>3. CASE rhs + y < N
  <2>1. rhs + y \in Residues
    BY <1>0, <1>1, <1>3 DEF Residues
  <2>2. B = rhs + y
    BY <1>2, <2>1, RemainderResidue
  <2>3. B >= rhs /\ B - rhs = y
    BY <1>0, <1>1, <2>2
  <2> QED
    BY <2>3, RemainderResidue DEF B, rhs
<1>4. CASE ~ (rhs + y < N)
  <2>1. (rhs + y) - N \in Residues /\ rhs + y = N * 1 + ((rhs + y) - N)
    BY <1>0, <1>1, <1>4 DEF Residues
  <2>2. B = (rhs + y) - N
    BY <1>2, <2>1, RemainderUnique
  <2>3. ~ (B >= rhs) /\ (B + N) - rhs = y
    BY <1>0, <1>1, <2>2
  <2> QED
    BY <2>3, RemainderResidue DEF B, rhs
<1> QED
  BY <1>3, <1>4

\* Both sides compute the same power of the generator: the client from the
\* helper's g^b, the helper from the client's g^a and the verifier g^x.
LEMMA SamePower ==
  ASSUME NEW a \in Nat, NEW b \in Nat, NEW u \in Nat, NEW x \in Nat
  PROVE  PowerMod(PowerMod(G, b), a + u * x)
           = PowerMod(PowerMod(G, a) * PowerMod(PowerMod(G, x), u), b)
<1>0. G \in Nat
  BY SrpAssumption
<1>1. /\ u * x \in Nat /\ x * u \in Nat /\ a + u * x \in Nat
      /\ a * b \in Nat /\ (x * u) * b \in Nat
  OBVIOUS
<1>2. PowerMod(PowerMod(G, b), a + u * x) = PowerMod(G, b * (a + u * x))
  BY <1>0, <1>1, PowerModPower
<1>3. PowerMod(PowerMod(G, x), u) = PowerMod(G, x * u)
  BY <1>0, PowerModPower
<1>4. PowerMod(G, a) \in Nat /\ PowerMod(G, x * u) \in Nat
  BY <1>0, <1>1, PowerModNat
<1>5. PowerMod(PowerMod(G, a) * PowerMod(G, x * u), b)
        = (PowerMod(PowerMod(G, a), b) * PowerMod(PowerMod(G, x * u), b)) % N
  BY <1>4, PowerModProduct
<1>6. PowerMod(PowerMod(G, a), b) = PowerMod(G, a * b)
  BY <1>0, PowerModPower
<1>7. PowerMod(PowerMod(G, x * u), b) = PowerMod(G, (x * u) * b)
  BY <1>0, <1>1, PowerModPower
<1>8. PowerMod(G, a * b + (x * u) * b)
        = (PowerMod(G, a * b) * PowerMod(G, (x * u) * b)) % N
  BY <1>0, <1>1, PowerModSum
<1>9. a * b + (x * u) * b = b * (a + u * x)
  <2>1. x * u = u * x /\ (u * x) * b = b * (u * x) /\ a * b = b * a
    BY <1>1
  <2>2. b * (a + u * x) = b * a + b * (u * x)
    BY <1>1
  <2> QED
    BY <2>1, <2>2
<1> QED
  BY <1>2, <1>3, <1>5, <1>6, <1>7, <1>8, <1>9, Zenon

\* For every group, every digest and every pair of private keys: the client
\* that types the PIN the helper shows derives the helper's key.
THEOREM KeyAgreement ==
  ASSUME NEW user, NEW salt, NEW pin, HashX(salt, user, pin) \in Nat,
         NEW a \in Nat, NEW b \in Nat
  PROVE  DeriveSessionKey(user, a, HelperPublicKey(user, b, salt, pin), salt, pin)
           = HelperKey(user, ClientPublicKey(a), b, salt, pin)
<1>1. PICK x \in Nat : x = HashX(salt, user, pin)
  OBVIOUS
<1>2. PICK v \in Nat : v = PowerMod(G, x)
  BY SrpAssumption, PowerModNat
<1>3. PICK gb \in Residues : gb = PowerMod(G, b) /\ gb # 0
  BY GeneratorPower
<1>4. PICK A \in Residues : A = PowerMod(G, a)
  BY GeneratorPower
<1>5. K * v \in Nat /\ K * v + gb \in Nat
  BY SrpAssumption DEF Residues
<1>6. PICK B \in Residues : B = (K * v + gb) % N
  BY <1>5, Remainder
<1>7. PICK u \in Nat : u = HashU(A, B)
  BY GroupAssumption DEF Residues
<1>8. HelperPublicKey(user, b, salt, pin) = B
  BY <1>1, <1>2, <1>3, <1>6, Zenon DEF HelperPublicKey
<1>9. ClientPublicKey(a) = A
  BY <1>4, Zenon DEF ClientPublicKey
<1>10. gb = IF B >= (K * v) % N THEN (B - ((K * v) % N)) % N
                                ELSE ((B + N) - ((K * v) % N)) % N
  BY <1>5, <1>6, Unmask
<1>11. DeriveSessionKey(user, a, B, salt, pin) = PowerMod(gb, a + u * x)
  <2>1. DeriveSessionKey(user, a, B, salt, pin)
          = LET base == IF B >= (K * v) % N THEN (B - ((K * v) % N)) % N
                                            ELSE ((B + N) - ((K * v) % N)) % N
            IN IF base = 0 THEN NoKey ELSE PowerMod(base, a + u * x)
    BY <1>1, <1>2, <1>7, <1>9, Zenon DEF DeriveSessionKey
  <2> QED
    BY <1>3, <1>10, <2>1, Zenon
<1>12. HelperKey(user, A, b, salt, pin) = PowerMod(A * PowerMod(v, u), b)
  BY <1>1, <1>2, <1>7, <1>8, Zenon DEF HelperKey
<1>13. PowerMod(gb, a + u * x) = PowerMod(A * PowerMod(v, u), b)
  <2>1. PowerMod(PowerMod(G, b), a + u * x)
          = PowerMod(PowerMod(G, a) * PowerMod(PowerMod(G, x), u), b)
    BY SamePower
  <2> QED
    BY <1>2, <1>3, <1>4, <2>1, Zenon
<1> QED
  BY <1>8, <1>9, <1>11, <1>12, <1>13, Zenon
================================================================================
