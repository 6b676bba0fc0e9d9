---------------------------- MODULE NumberLemmas ----------------------------
(***************************************************************************)
(* Facts about numbers that several proofs rest on.  A set of naturals     *)
(* that is not empty has a smallest element: the CHOOSE of Requests!End    *)
(* and of Proxy!First picks it, and an induction looks at the smallest     *)
(* counterexample.  The rest of a division: the indices of Window's ring.  *)
(* And a recursive function over an interval exists: DecodeReader!Remains. *)
(***************************************************************************)
EXTENDS Integers, NaturalsInduction, WellFoundedInduction, TLAPS

\* The least element of a set of naturals.
LEMMA SmallestOf ==
    ASSUME NEW S \in SUBSET Nat, S # {}
    PROVE  \E m \in S : \A k \in S : m <= k
<1> DEFINE R == {ss \in Nat \X Nat : ss[1] < ss[2]}
<1>1. OpToRel(<, Nat) = R
  BY DEF OpToRel
<1>2. IsWellFoundedOn(R, Nat)
  BY <1>1, NatLessThanWellFounded
<1>3. \E m \in S : \A k \in S : <<k, m>> \notin R
  <2> HIDE DEF R
  <2> QED
    BY <1>2, WFMin
<1>4. PICK m \in S : \A k \in S : <<k, m>> \notin R
  BY <1>3
<1>5. ASSUME NEW k \in S PROVE m <= k
  <2>1. k \in Nat /\ m \in Nat
    OBVIOUS
  <2>2. ~(k < m)
    BY <1>4, <2>1
  <2> QED
    BY <2>1, <2>2
<1> QED
  BY <1>5

-----------------------------------------------------------------------------
(* Division *)

\* A number has one quotient and rest.
LEMMA OneRest ==
    ASSUME NEW n \in Nat \ {0}, NEW q \in Int, NEW u \in Int,
           NEW x \in 0..n - 1, NEW y \in 0..n - 1, n * q + x = n * u + y
    PROVE  x = y
<1>1. n * (q - u) = y - x
  OBVIOUS
<1>2. CASE q - u >= 1
  <2>1. n * (q - u) >= n
    BY <1>2
  <2> QED
    BY <1>1, <2>1
<1>3. CASE q - u <= -1
  <2>1. n * (q - u) <= -n
    BY <1>3
  <2> QED
    BY <1>1, <2>1
<1>4. CASE q = u
  BY <1>1, <1>4
<1> QED
  BY <1>2, <1>3, <1>4


\* Division with rest.
LEMMA DivRest ==
    ASSUME NEW n \in Nat \ {0}, NEW a \in Int
    PROVE  a = n * (a \div n) + (a % n) /\ a \div n \in Int /\ a % n \in 0..n - 1
OBVIOUS

LEMMA DivMod ==
    ASSUME NEW n \in Nat \ {0}, NEW a \in Int
    PROVE  \E q \in Int : a = n * q + (a % n) /\ a % n \in 0..n - 1
  BY DivRest

LEMMA DivExact ==
    ASSUME NEW n \in Nat \ {0}, NEW a \in Int, a % n = 0
    PROVE  a = n * (a \div n) /\ a \div n \in Int
<1> DEFINE q == a \div n
           r == a % n
<1>1. a = n * q + r /\ q \in Int /\ r = 0
  BY DivRest
<1> HIDE DEF q, r
<1>2. a = n * q /\ q \in Int
  BY <1>1
<1> QED
  BY <1>2 DEF q

\* A number less than n is its own rest.
LEMMA ModSmall ==
    ASSUME NEW n \in Nat \ {0}, NEW a \in 0..n - 1
    PROVE  a % n = a
OBVIOUS

\* Multiples of n do not change the rest.
LEMMA ModSame ==
    ASSUME NEW n \in Nat \ {0}, NEW a \in Int, NEW b \in Int, NEW k \in Int,
           a = b + n * k
    PROVE  a % n = b % n
<1> DEFINE x == a % n
           y == b % n
<1>1. PICK q \in Int : a = n * q + x /\ x \in 0..n - 1
  BY DivMod
<1>2. PICK u \in Int : b = n * u + y /\ y \in 0..n - 1
  BY DivMod
<1> HIDE DEF x, y
<1>3. n * (u + k) = n * u + n * k /\ u + k \in Int
  OBVIOUS
<1>4. n * q + x = n * (u + k) + y
  BY <1>1, <1>2, <1>3
<1>5. x = y
  BY <1>1, <1>2, <1>3, <1>4, OneRest
<1> QED
  BY <1>5 DEF x, y

\* A turn back around the ring.
LEMMA ModBack ==
    ASSUME NEW n \in Nat \ {0}, NEW a \in Int
    PROVE  a % n = (a - n) % n
<1> DEFINE b == a - n
           one == 1
<1>1. a = b + n * one /\ b \in Int /\ one \in Int
  OBVIOUS
<1> HIDE DEF b, one
<1>2. a % n = b % n
  BY <1>1, ModSame
<1> QED
  BY <1>2 DEF b

\* The rest may be taken of a summand first.
LEMMA ModAdd ==
    ASSUME NEW n \in Nat \ {0}, NEW a \in Int, NEW b \in Int
    PROVE  (a + (b % n)) % n = (a + b) % n
<1> DEFINE x == b % n
<1>1. PICK q \in Int : b = n * q + x /\ x \in 0..n - 1
  BY DivMod
<1> HIDE DEF x
<1>2. a + b = (a + x) + n * q /\ a + x \in Int /\ a + b \in Int
  BY <1>1
<1>3. (a + b) % n = (a + x) % n
  BY <1>2, ModSame
<1> QED
  BY <1>3 DEF x

\* The rest of a number that is less than one turn away: the indices of a ring.
LEMMA ModNear ==
    ASSUME NEW n \in Nat \ {0}, NEW a \in (-n)..(2 * n - 1)
    PROVE  a % n = IF a < 0 THEN a + n ELSE IF a < n THEN a ELSE a - n
<1>1. CASE a < 0
  BY <1>1
<1>2. CASE 0 <= a /\ a < n
  BY <1>2
<1>3. CASE n <= a
  <2>1. a \in n..2 * n - 1
    BY <1>3
  <2> QED
    BY <1>3, <2>1
<1> QED
  BY <1>1, <1>2, <1>3

\* Forward on a ring.
LEMMA ModForward ==
    ASSUME NEW n \in Nat \ {0}, NEW a \in 0..n - 1, NEW b \in 0..n - 1
    PROVE  (a + b) % n = IF a + b < n THEN a + b ELSE a + b - n
<1> DEFINE c == a + b
<1>1. c \in (-n)..(2 * n - 1) /\ c >= 0
  OBVIOUS
<1> HIDE DEF c
<1>2. c % n = IF c < 0 THEN c + n ELSE IF c < n THEN c ELSE c - n
  BY <1>1, ModNear
<1>3. c % n = IF c < n THEN c ELSE c - n
  BY <1>1, <1>2
<1> QED
  BY <1>3 DEF c

-----------------------------------------------------------------------------
(* Recursion *)

\* n steps from x, each in a set of its own.
StepsIn(n, S) == [1..n -> [S -> S]]
Taking(n, S, x, step) ==
    \E g \in [0..n -> S] : \A i \in 0..n : g[i] = IF i = 0 THEN x ELSE step[i][g[i - 1]]

\* Steps can be taken one after the other: the recursive function that does
\* it exists.
LEMMA Iterates ==
    ASSUME NEW n \in Nat, NEW S, NEW x \in S, NEW step \in StepsIn(n, S)
    PROVE  Taking(n, S, x, step)
<1> DEFINE Steps(m, g) == \A i \in 0..m : g[i] = IF i = 0 THEN x ELSE step[i][g[i - 1]]
           Has(m) == \E g \in [0..m -> S] : Steps(m, g)
           missing == {m \in 0..n : ~ Has(m)}
<1>0. step \in [1..n -> [S -> S]]
  BY DEF StepsIn
<1>1. SUFFICES ASSUME ~ Has(n) PROVE FALSE
  BY DEF Taking
<1>2. missing \in SUBSET Nat /\ n \in missing
  <2> HIDE DEF Has
  <2> QED
    BY <1>1
<1>3. \E m \in missing : \A k \in missing : m <= k
  <2> HIDE DEF missing
  <2> QED
    BY <1>2, SmallestOf
<1>4. PICK m \in missing : \A k \in missing : m <= k
  BY <1>3
<1>5. m \in 0..n /\ ~ Has(m) /\ \A k \in 0..m - 1 : Has(k)
  <2> HIDE DEF Has
  <2>1. m \in 0..n /\ ~ Has(m)
    OBVIOUS
  <2>2. ASSUME NEW k \in 0..m - 1 PROVE Has(k)
    <3>1. k \in 0..n /\ ~(m <= k)
      BY <2>1
    <3>2. k \notin missing
      BY <1>4, <3>1
    <3> QED
      BY <3>1, <3>2
  <2> QED
    BY <2>1, <2>2
<1>6. CASE m = 0
  <2> DEFINE g == [i \in 0..0 |-> x]
  <2>1. g \in [0..m -> S] /\ Steps(m, g)
    BY <1>6
  <2> HIDE DEF g
  <2> QED
    BY <1>5, <2>1
<1>7. CASE m # 0
  <2>1. m - 1 \in 0..m - 1 /\ m \in 1..n
    BY <1>5, <1>7
  <2>2. PICK h \in [0..m - 1 -> S] : Steps(m - 1, h)
    <3>1. Has(m - 1)
      <4> HIDE DEF Has
      <4> QED
        BY <1>5, <2>1
    <3> QED
      BY <3>1
  <2> DEFINE y == step[m][h[m - 1]]
             g == [i \in 0..m |-> IF i = m THEN y ELSE h[i]]
  <2>3. y \in S
    BY <1>0, <2>1
  <2>4. g \in [0..m -> S]
    <3> HIDE DEF y
    <3> QED
      BY <1>5, <1>7, <2>3
  <2>5. ASSUME NEW i \in 0..m PROVE g[i] = IF i = 0 THEN x ELSE step[i][g[i - 1]]
    <3>1. CASE i = m
      <4>1. i # 0 /\ g[i] = y /\ g[i - 1] = h[i - 1]
        <5> HIDE DEF y
        <5> QED
          BY <1>5, <1>7, <3>1
      <4> QED
        BY <3>1, <4>1
    <3>2. CASE i # m
      <4>1. i \in 0..m - 1 /\ g[i] = h[i] /\ (i # 0 => g[i - 1] = h[i - 1])
        BY <1>5, <1>7, <3>2
      <4>2. h[i] = IF i = 0 THEN x ELSE step[i][h[i - 1]]
        BY <2>2, <4>1
      <4> QED
        BY <4>1, <4>2
    <3> QED
      BY <3>1, <3>2
  <2>6. Steps(m, g)
    BY <2>4, <2>5
  <2> HIDE DEF g
  <2> QED
    BY <1>5, <2>4, <2>6
<1> QED
  BY <1>6, <1>7

\* The numbers d[1], d[2], ... can be taken from x one after the other.
LEMMA Differences ==
    ASSUME NEW n \in Nat, NEW x \in Int, NEW d \in [1..n -> Int]
    PROVE  \E g \in [0..n -> Int] :
              g = [i \in 0..n |-> IF i = 0 THEN x ELSE g[i - 1] - d[i]]
<1> DEFINE step == [i \in 1..n |-> [y \in Int |-> y - d[i]]]
<1>1. step \in [1..n -> [Int -> Int]]
  OBVIOUS
<1>2. \A i \in 1..n, y \in Int : step[i][y] = y - d[i]
  OBVIOUS
<1> HIDE DEF step
<1>3. PICK g \in [0..n -> Int] :
         \A i \in 0..n : g[i] = IF i = 0 THEN x ELSE step[i][g[i - 1]]
  <2>1. Taking(n, Int, x, step)
    BY <1>1, Iterates DEF StepsIn
  <2> QED
    BY <2>1 DEF Taking
<1>4. ASSUME NEW i \in 0..n PROVE g[i] = IF i = 0 THEN x ELSE g[i - 1] - d[i]
  <2>1. g[i] = IF i = 0 THEN x ELSE step[i][g[i - 1]]
    BY <1>3
  <2>2. i # 0 => i \in 1..n /\ g[i - 1] \in Int
    OBVIOUS
  <2> QED
    BY <1>2, <2>1, <2>2
<1> QED
  BY <1>4
=============================================================================
