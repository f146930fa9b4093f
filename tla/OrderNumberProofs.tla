-------------------------- MODULE OrderNumberProofs -------------------------
(***************************************************************************)
(* That the check of utils/common.go is the rule of Luhn, that it refuses  *)
(* the typing errors the rule is for, and that an order number comes back  *)
(* as it was loaded, for texts and integer types of any length.            *)
(*                                                                         *)
(* The functions of OrderNumber.tla are recursive.  Each is first shown to *)
(* exist and to obey its equation, by a smallest number for which it would *)
(* not; what it computes then follows digit by digit (Reaches).            *)
(***************************************************************************)
EXTENDS OrderNumber, SequenceTheorems, WellFoundedInduction, TLAPS

-----------------------------------------------------------------------------
(***************************************************************************)
(* Induction.                                                              *)
(***************************************************************************)

\* A set of natural numbers has a smallest one.
LEMMA Smallest ==
    ASSUME NEW A, A \subseteq Nat, A # {}
    PROVE  \E n \in A : \A m \in A : n <= m
<1> DEFINE R == {ss \in Nat \X Nat : ss[1] < ss[2]}
<1>1. IsWellFoundedOn(R, Nat)
  BY NatLessThanWellFounded, Zenon DEF OpToRel
<1>2. PICK n \in A : \A m \in A : ~ (<<m, n>> \in R)
  <2> HIDE DEF R
  <2> QED
    BY <1>1, WFMin
<1>3. \A m \in A : ~ (m < n)
  BY <1>2
<1> QED
  BY <1>3

\* What holds of 0, and of i if it does of i - 1, holds up to n.
LEMMA Reaches ==
    ASSUME NEW n \in Nat, NEW P, 0 \in P,
           \A i \in 1..n : i - 1 \in P => i \in P
    PROVE  \A i \in 0..n : i \in P
<1> SUFFICES ASSUME {i \in 0..n : i \notin P} # {} PROVE FALSE
  OBVIOUS
<1> DEFINE A == {i \in 0..n : i \notin P}
<1>1. A \subseteq Nat /\ A # {}
  OBVIOUS
<1>2. PICK k \in A : \A m \in A : k <= m
  <2> HIDE DEF A
  <2> QED
    BY <1>1, Smallest
<1>3. k \in 1..n /\ k - 1 \in 0..n /\ ~ (k <= k - 1)
  BY <1>2
<1>4. k - 1 \in P
  BY <1>2, <1>3
<1> QED
  BY <1>2, <1>3, <1>4

-----------------------------------------------------------------------------
(***************************************************************************)
(* Sums along a text: f[i] = c * f[i - 1] + d[i].  With c = 10 it is the   *)
(* number that the digits write, with c = 1 the sum of their weights.      *)
(***************************************************************************)

Horner(f, c, d, n) ==
    f = [i \in 0..n |-> IF i = 0 THEN 0 ELSE c * f[i - 1] + d[i]]

LEMMA HornerExists ==
    ASSUME NEW c, NEW d
    PROVE  \A n \in Nat : \E f : Horner(f, c, d, n)
<1> DEFINE Undefined == {n \in Nat : ~ \E f : Horner(f, c, d, n)}
<1>1. ASSUME Undefined # {} PROVE FALSE
  <2>1. PICK n \in Undefined : \A m \in Undefined : n <= m
    <3>1. Undefined \subseteq Nat
      OBVIOUS
    <3> HIDE DEF Undefined
    <3> QED
      BY <1>1, <3>1, Smallest
  <2>2. n \in Nat /\ ~ \E f : Horner(f, c, d, n)
    BY <2>1
  <2>3. n # 0
    <3>1. Horner([i \in 0..0 |-> 0], c, d, 0)
      BY DEF Horner
    <3> QED
      BY <2>2, <3>1
  <2>4. PICK g : Horner(g, c, d, n - 1)
    <3>1. n - 1 \in Nat /\ n - 1 \notin Undefined
      <4> HIDE DEF Undefined
      <4> QED
        BY <2>1, <2>2, <2>3
    <3> QED
      BY <3>1
  <2> DEFINE h == [i \in 0..n |-> IF i = 0 THEN 0 ELSE c * g[i - 1] + d[i]]
  <2>5. \A i \in 0..n - 1 : h[i] = g[i]
    BY <2>2, <2>4 DEF Horner
  <2>6. h = [i \in 0..n |-> IF i = 0 THEN 0 ELSE c * h[i - 1] + d[i]]
    <3>1. \A i \in 0..n : i # 0 => i - 1 \in 0..n - 1
      BY <2>2
    <3> QED
      BY <2>5, <3>1
  <2> HIDE DEF h
  <2> QED
    BY <2>2, <2>6 DEF Horner
<1> QED
  BY <1>1

LEMMA HornerSteps ==
    ASSUME NEW n \in Nat, NEW f, NEW c, NEW d, Horner(f, c, d, n)
    PROVE  f[0] = 0 /\ \A i \in 1..n : f[i] = c * f[i - 1] + d[i]
  BY DEF Horner

LEMMA HornerNat ==
    ASSUME NEW n \in Nat, NEW f, NEW c \in {1, 10}, NEW d, Horner(f, c, d, n),
           \A i \in 1..n : d[i] \in Nat
    PROVE  \A i \in 0..n : f[i] \in Nat
<1> DEFINE P == {i \in 0..n : f[i] \in Nat}
<1>1. 0 \in P
  BY HornerSteps
<1>2. ASSUME NEW i \in 1..n, i - 1 \in P
      PROVE  i \in P
  <2>1. f[i - 1] \in Nat /\ f[i] = c * f[i - 1] + d[i] /\ d[i] \in Nat
    BY <1>2, HornerSteps
  <2> QED
    BY <2>1
<1> HIDE DEF P
<1>3. \A i \in 0..n : i \in P
  BY <1>1, <1>2, Reaches
<1> QED
  BY <1>3 DEF P

\* Two sums whose first k terms agree agree up to k.
LEMMA HornerAgree ==
    ASSUME NEW m \in Nat, NEW n \in Nat, NEW c, NEW d, NEW e,
           NEW f, NEW g, Horner(f, c, d, m), Horner(g, c, e, n),
           NEW k \in Nat, k <= m, k <= n, \A i \in 1..k : d[i] = e[i]
    PROVE  \A i \in 0..k : f[i] = g[i]
<1> DEFINE P == {i \in 0..k : f[i] = g[i]}
<1>1. 0 \in P
  BY HornerSteps
<1>2. ASSUME NEW i \in 1..k, i - 1 \in P
      PROVE  i \in P
  <2>1. f[i] = c * f[i - 1] + d[i] /\ g[i] = c * g[i - 1] + e[i]
    BY HornerSteps
  <2> QED
    BY <1>2, <2>1
<1> HIDE DEF P
<1>3. \A i \in 0..k : i \in P
  BY <1>1, <1>2, Reaches
<1> QED
  BY <1>3 DEF P

\* A sum of weights, from k on, differs by as much as it does at k.
LEMMA HornerShift ==
    ASSUME NEW n \in Nat, NEW d, NEW e, NEW f, NEW g,
           Horner(f, 1, d, n), Horner(g, 1, e, n),
           \A i \in 1..n : d[i] \in Nat /\ e[i] \in Nat,
           NEW k \in 0..n, \A i \in k + 1..n : d[i] = e[i]
    PROVE  g[n] - g[k] = f[n] - f[k]
<1> DEFINE P == {i \in 0..n : i >= k => g[i] - g[k] = f[i] - f[k]}
<1>0. \A i \in 0..n : f[i] \in Nat /\ g[i] \in Nat
  BY HornerNat
<1>1. 0 \in P
  BY <1>0
<1>2. ASSUME NEW i \in 1..n, i - 1 \in P
      PROVE  i \in P
  <2>1. f[i] = 1 * f[i - 1] + d[i] /\ g[i] = 1 * g[i - 1] + e[i]
    BY HornerSteps
  <2>2. f[i - 1] \in Nat /\ g[i - 1] \in Nat /\ d[i] \in Nat /\ e[i] \in Nat
        /\ f[i] \in Nat /\ g[i] \in Nat /\ f[k] \in Nat /\ g[k] \in Nat
    BY <1>0
  <2>3. i >= k + 1 => d[i] = e[i] /\ i - 1 >= k
    OBVIOUS
  <2>4. i = k \/ ~ (i >= k) \/ i >= k + 1
    OBVIOUS
  <2> QED
    BY <1>2, <2>1, <2>2, <2>3, <2>4
<1> HIDE DEF P
<1>3. \A i \in 0..n : i \in P
  BY <1>1, <1>2, Reaches
<1> QED
  BY <1>3 DEF P

-----------------------------------------------------------------------------
(***************************************************************************)
(* The number that a text writes.                                          *)
(***************************************************************************)

\* The texts that consist of n digits.
Written(n) == [1..n -> Digits]

LEMMA WrittenSeq ==
    ASSUME NEW n \in Nat, NEW x \in Written(n)
    PROVE  /\ x \in Seq(Digits) /\ Len(x) = n /\ DOMAIN x = 1..n
           /\ \A i \in 1..n : x[i] \in 0..9
  BY DEF Written, Digits

\* f[i] is the number that the first i digits write.
Prefixes(f, x, n) == Horner(f, 10, x, n)

LEMMA ValueOf ==
    ASSUME NEW x, Len(x) \in Nat
    PROVE  \E f : Prefixes(f, x, Len(x)) /\ Value(x) = f[Len(x)]
<1> DEFINE F == CHOOSE f : Horner(f, 10, x, Len(x))
<1>1. Horner(F, 10, x, Len(x))
  BY HornerExists
<1>2. Value(x) = F[Len(x)]
  BY Zenon DEF Value, Horner
<1> HIDE DEF F
<1> QED
  BY <1>1, <1>2 DEF Prefixes

LEMMA Decimal ==
    \A n \in Nat, d \in 0..9 : /\ (10 * n + d) % 10 = d
                               /\ (10 * n + d) \div 10 = n
  OBVIOUS

LEMMA DecimalParts ==
    \A n \in Nat : /\ n \div 10 \in Nat /\ n % 10 \in 0..9
                   /\ n = 10 * (n \div 10) + (n % 10)
                   /\ n # 0 => n \div 10 < n
                   /\ n >= 10 => n \div 10 # 0
  OBVIOUS

LEMMA PrefixSteps ==
    ASSUME NEW n \in Nat, NEW x \in Written(n), NEW f, Prefixes(f, x, n)
    PROVE  /\ f[0] = 0
           /\ \A i \in 0..n : f[i] \in Nat
           /\ \A i \in 1..n : /\ f[i] = 10 * f[i - 1] + x[i]
                              /\ f[i] % 10 = x[i]
                              /\ f[i] \div 10 = f[i - 1]
<1> USE DEF Prefixes
<1>1. \A i \in 1..n : x[i] \in 0..9
  BY WrittenSeq
<1>2. \A i \in 0..n : f[i] \in Nat
  BY <1>1, HornerNat
<1>3. f[0] = 0 /\ \A i \in 1..n : f[i] = 10 * f[i - 1] + x[i]
  BY HornerSteps
<1>4. ASSUME NEW i \in 1..n
      PROVE  f[i] % 10 = x[i] /\ f[i] \div 10 = f[i - 1]
  <2>1. f[i - 1] \in Nat /\ x[i] \in 0..9 /\ f[i] = 10 * f[i - 1] + x[i]
    BY <1>1, <1>2, <1>3
  <2>2. /\ (10 * f[i - 1] + x[i]) % 10 = x[i]
        /\ (10 * f[i - 1] + x[i]) \div 10 = f[i - 1]
    BY <2>1, Decimal, Zenon
  <2> QED
    BY <2>1, <2>2, Zenon
<1> QED
  BY <1>2, <1>3, <1>4

LEMMA PrefixLeq ==
    ASSUME NEW n \in Nat, NEW x \in Written(n), NEW f, Prefixes(f, x, n)
    PROVE  \A i \in 0..n : \A j \in 0..i : f[j] <= f[i]
<1> DEFINE P == {i \in 0..n : \A j \in 0..i : f[j] <= f[i]}
<1>1. 0 \in P
  BY PrefixSteps
<1>2. ASSUME NEW i \in 1..n, i - 1 \in P
      PROVE  i \in P
  <2>1. f[i - 1] \in Nat /\ f[i] \in Nat /\ f[i] = 10 * f[i - 1] + x[i]
        /\ x[i] \in 0..9
    BY PrefixSteps, WrittenSeq
  <2>2. f[i - 1] <= f[i]
    BY <2>1
  <2>3. ASSUME NEW j \in 0..i PROVE f[j] <= f[i]
    <3>1. CASE j = i
      BY <2>1, <3>1
    <3>2. CASE j # i
      <4>1. j \in 0..i - 1 /\ f[j] \in Nat
        BY <3>2, PrefixSteps
      <4>2. f[j] <= f[i - 1]
        BY <1>2, <4>1
      <4> QED
        BY <2>1, <2>2, <4>1, <4>2
    <3> QED
      BY <3>1, <3>2
  <2> QED
    BY <2>3
<1> HIDE DEF P
<1>3. \A i \in 0..n : i \in P
  BY <1>1, <1>2, Reaches
<1> QED
  BY <1>3 DEF P

-----------------------------------------------------------------------------
(***************************************************************************)
(* The check.                                                              *)
(***************************************************************************)

\* What checksumLuhn adds up for the numbers up to N.
IsLuhn(luhn, N) ==
    luhn = [n \in 0..N |->
              [i \in 0..1 |->
                 IF n = 0 THEN 0
                 ELSE (IF i = 0 THEN Doubled(n % 10) ELSE n % 10)
                        + luhn[n \div 10][1 - i]]]

LEMMA LuhnExists == \A N \in Nat : \E luhn : IsLuhn(luhn, N)
<1> DEFINE Undefined == {N \in Nat : ~ \E luhn : IsLuhn(luhn, N)}
<1>1. ASSUME Undefined # {} PROVE FALSE
  <2>1. PICK N \in Undefined : \A m \in Undefined : N <= m
    <3>1. Undefined \subseteq Nat
      OBVIOUS
    <3> HIDE DEF Undefined
    <3> QED
      BY <1>1, <3>1, Smallest
  <2>2. N \in Nat /\ ~ \E luhn : IsLuhn(luhn, N)
    BY <2>1
  <2>3. N # 0
    <3>1. IsLuhn([n \in 0..0 |-> [i \in 0..1 |-> 0]], 0)
      BY DEF IsLuhn
    <3> QED
      BY <2>2, <3>1
  <2>4. PICK g : IsLuhn(g, N - 1)
    <3>1. N - 1 \in Nat /\ N - 1 \notin Undefined
      <4> HIDE DEF Undefined
      <4> QED
        BY <2>1, <2>2, <2>3
    <3> QED
      BY <3>1
  <2> DEFINE h == [n \in 0..N |->
                     [i \in 0..1 |->
                        IF n = 0 THEN 0
                        ELSE (IF i = 0 THEN Doubled(n % 10) ELSE n % 10)
                               + g[n \div 10][1 - i]]]
  <2>5. \A n \in 0..N - 1 : h[n] = g[n]
    <3>1. \A n \in 0..N - 1 : n \in 0..N
      BY <2>2
    <3> QED
      BY <3>1, <2>4, Zenon DEF IsLuhn
  <2>6. IsLuhn(h, N)
    <3>1. \A n \in 0..N : n # 0 => n \div 10 \in 0..N - 1
      BY <2>2, DecimalParts
    <3>2. \A n \in 0..N : n # 0 => h[n \div 10] = g[n \div 10]
      BY <2>5, <3>1
    <3> QED
      BY <3>2 DEF IsLuhn
  <2> HIDE DEF h
  <2> QED
    BY <2>2, <2>6
<1> QED
  BY <1>1

LEMMA ChecksumOf ==
    ASSUME NEW N \in Nat
    PROVE  \E luhn : IsLuhn(luhn, N) /\ checksumLuhn(N) = luhn[N][0] % 10
<1>1. \E luhn : IsLuhn(luhn, N)
  BY LuhnExists
<1> QED
  BY <1>1 DEF IsLuhn, checksumLuhn

LEMMA LuhnSteps ==
    ASSUME NEW N \in Nat, NEW luhn, IsLuhn(luhn, N)
    PROVE  \A n \in 0..N, i \in 0..1 :
              luhn[n][i] = IF n = 0 THEN 0
                           ELSE (IF i = 0 THEN Doubled(n % 10) ELSE n % 10)
                                  + luhn[n \div 10][1 - i]
  BY DEF IsLuhn

\* What LuhnRule adds up.
Weight(d, i) == IF i % 2 = 1 THEN ((2 * d) % 10) + ((2 * d) \div 10) ELSE d
Weights(x)   == [i \in 1..Len(x) |-> Weight(x[i], Len(x) - i)]

LEMMA WeightIsDoubled ==
    \A d \in 0..9, i \in Nat :
        /\ Weight(d, i) \in 0..9
        /\ Weight(d, i) = IF i % 2 = 1 THEN Doubled(d) ELSE d
  BY DEF Weight, Doubled

LEMMA WeightsOf ==
    ASSUME NEW n \in Nat, NEW x \in Written(n)
    PROVE  \A i \in 1..n : /\ Weights(x)[i] = Weight(x[i], n - i)
                           /\ Weights(x)[i] \in 0..9
<1>1. Len(x) = n /\ \A i \in 1..n : x[i] \in 0..9
  BY WrittenSeq
<1>2. \A i \in 1..n : n - i \in Nat
  OBVIOUS
<1> QED
  BY <1>1, <1>2, WeightIsDoubled DEF Weights

LEMMA WeightSteps ==
    ASSUME NEW n \in Nat, NEW x \in Written(n), NEW s,
           Horner(s, 1, Weights(x), n)
    PROVE  /\ s[0] = 0
           /\ \A i \in 0..n : s[i] \in Nat
           /\ \A i \in 1..n : s[i] = s[i - 1] + Weight(x[i], n - i)
<1>1. \A i \in 0..n : s[i] \in Nat
  BY WeightsOf, HornerNat
<1>2. s[0] = 0 /\ \A i \in 1..n : s[i] = 1 * s[i - 1] + Weights(x)[i]
  BY HornerSteps
<1> QED
  BY <1>1, <1>2, WeightsOf

LEMMA RuleOf ==
    ASSUME NEW n \in Nat, NEW x \in Written(n), NEW s,
           Horner(s, 1, Weights(x), n)
    PROVE  LuhnRule(x) <=> s[n] % 10 = 0
<1> DEFINE Sums(f) == f = [i \in 0..Len(x) |->
                             IF i = 0 THEN 0
                             ELSE f[i - 1]
                                + (IF (Len(x) - i) % 2 = 1
                                   THEN ((2 * x[i]) % 10) + ((2 * x[i]) \div 10)
                                   ELSE x[i])]
           F == CHOOSE f : Sums(f)
<1>1. Len(x) = n
  BY WrittenSeq
<1>2. /\ s[0] = 0
      /\ \A i \in 0..n : s[i] \in Nat
      /\ \A i \in 1..n : s[i] = s[i - 1] + Weight(x[i], n - i)
  BY WeightSteps
<1>3. Sums(s)
  <2>1. s = [i \in 0..n |-> s[i]]
    BY DEF Horner
  <2>2. \A i \in 0..n : s[i] = IF i = 0 THEN 0
                                ELSE s[i - 1] + Weight(x[i], n - i)
    BY <1>2
  <2> QED
    BY <1>1, <2>1, <2>2 DEF Weight
<1>4. Sums(F)
  BY <1>3
<1>5. LuhnRule(x) <=> F[n] % 10 = 0
  BY <1>1, Zenon DEF LuhnRule
<1>6. F[0] = 0 /\ \A i \in 1..n : F[i] = F[i - 1] + Weight(x[i], n - i)
  <2> HIDE DEF F
  <2> QED
    BY <1>1, <1>4 DEF Weight
<1> DEFINE P == {i \in 0..n : F[i] = s[i]}
<1>7. 0 \in P
  BY <1>2, <1>6
<1>8. \A i \in 1..n : i - 1 \in P => i \in P
  <2> HIDE DEF F
  <2> QED
    BY <1>2, <1>6
<1>9. n \in P
  <2> HIDE DEF P
  <2> QED
    BY <1>7, <1>8, Reaches
<1> QED
  BY <1>5, <1>9

\* Digit by digit, the loop adds up the weights of the text.
LEMMA LuhnAlong ==
    ASSUME NEW n \in Nat \ {0}, NEW x \in Written(n), NEW f, Prefixes(f, x, n),
           NEW s, Horner(s, 1, Weights(x), n),
           NEW luhn, IsLuhn(luhn, f[n - 1])
    PROVE  \A i \in 0..n - 1 :
              luhn[f[i]][IF (n - i) % 2 = 1 THEN 0 ELSE 1] = s[i]
<1> DEFINE Par(i) == IF (n - i) % 2 = 1 THEN 0 ELSE 1
           P == {i \in 0..n - 1 : luhn[f[i]][Par(i)] = s[i]}
<1>0. n - 1 \in 0..n /\ n - 1 \in Nat /\ f[n - 1] \in Nat
  BY PrefixSteps
<1>1. \A i \in 0..n - 1 : f[i] \in 0..f[n - 1]
  <2>1. \A i \in 0..n - 1 : f[i] \in Nat
    BY PrefixSteps
  <2>2. \A i \in 0..n - 1 : f[i] <= f[n - 1]
    BY <1>0, PrefixLeq
  <2> QED
    BY <1>0, <2>1, <2>2
<1>2. \A m \in 0..f[n - 1], i \in 0..1 :
         luhn[m][i] = IF m = 0 THEN 0
                      ELSE (IF i = 0 THEN Doubled(m % 10) ELSE m % 10)
                             + luhn[m \div 10][1 - i]
  BY <1>0, LuhnSteps
<1>3. s[0] = 0 /\ \A i \in 1..n : /\ s[i - 1] \in Nat
                                  /\ s[i] = s[i - 1] + Weight(x[i], n - i)
  BY WeightSteps
<1>4. \A i \in 1..n - 1 :
         /\ Par(i) \in 0..1 /\ Par(i - 1) = 1 - Par(i)
         /\ Par(i) = 0 <=> (n - i) % 2 = 1
         /\ n - i \in Nat
  OBVIOUS
<1>5. 0 \in P
  <2>1. f[0] = 0 /\ Par(0) \in 0..1 /\ 0 \in 0..f[n - 1]
    BY <1>0, PrefixSteps
  <2>2. luhn[0][Par(0)] = 0
    BY <1>2, <2>1
  <2> QED
    BY <1>0, <1>3, <2>1, <2>2
<1>6. ASSUME NEW i \in 1..n - 1, i - 1 \in P
      PROVE  i \in P
  <2>0. i \in 1..n /\ i \in 0..n - 1
    OBVIOUS
  <2>1. /\ f[i - 1] \in Nat /\ f[i] \in Nat
        /\ f[i] = 10 * f[i - 1] + x[i]
        /\ f[i] % 10 = x[i] /\ f[i] \div 10 = f[i - 1]
    BY <2>0, PrefixSteps
  <2>2. x[i] \in 0..9
    BY <2>0, WrittenSeq
  <2>3. s[i - 1] \in Nat /\ s[i] = s[i - 1] + Weight(x[i], n - i)
    BY <1>3, <2>0
  <2>4. Par(i) \in 0..1 /\ Par(i - 1) = 1 - Par(i)
    BY <1>4
  <2>5. /\ Weight(x[i], n - i) \in 0..9
        /\ Weight(x[i], n - i) = IF Par(i) = 0 THEN Doubled(x[i]) ELSE x[i]
    BY <1>4, <2>2, WeightIsDoubled
  <2>6. luhn[f[i - 1]][1 - Par(i)] = s[i - 1]
    BY <1>6, <2>4
  <2> HIDE DEF Par
  <2>7. luhn[f[i]][Par(i)] = IF f[i] = 0 THEN 0
                             ELSE (IF Par(i) = 0 THEN Doubled(f[i] % 10)
                                                 ELSE f[i] % 10)
                                    + luhn[f[i] \div 10][1 - Par(i)]
    BY <1>1, <1>2, <2>0, <2>4
  <2>8. luhn[f[i]][Par(i)] = s[i]
    <3>1. CASE f[i] # 0
      BY <2>1, <2>3, <2>5, <2>6, <2>7, <3>1
    <3>2. CASE f[i] = 0
      <4>1. f[i - 1] = 0 /\ x[i] = 0
        <5>1. 0 % 10 = 0 /\ 0 \div 10 = 0
          OBVIOUS
        <5> QED
          BY <2>1, <3>2, <5>1, Zenon
      <4>2. 1 - Par(i) \in 0..1 /\ 0 \in 0..f[n - 1]
        BY <1>0, <2>4
      <4>3. luhn[0][1 - Par(i)] = 0
        BY <1>2, <4>2
      <4>4. Weight(x[i], n - i) = 0
        BY <2>5, <4>1 DEF Doubled
      <4> QED
        BY <2>3, <2>6, <2>7, <3>2, <4>1, <4>3, <4>4
    <3> QED
      BY <3>1, <3>2
  <2> QED
    BY <2>0, <2>8
<1> HIDE DEF P
<1>7. \A i \in 0..n - 1 : i \in P
  BY <1>0, <1>5, <1>6, Reaches
<1> QED
  BY <1>7 DEF P

LEMMA ValidIsRule ==
    ASSUME NEW n \in Nat \ {0}, NEW x \in Written(n)
    PROVE  ValidLuhn(Value(x)) <=> LuhnRule(x)
<1>1. PICK f : Prefixes(f, x, n) /\ Value(x) = f[n]
  BY WrittenSeq, ValueOf
<1>2. PICK s : Horner(s, 1, Weights(x), n)
  BY HornerExists
<1>3. f[n - 1] \in Nat /\ f[n] % 10 = x[n] /\ f[n] \div 10 = f[n - 1]
      /\ x[n] \in 0..9
  BY <1>1, PrefixSteps, WrittenSeq
<1>4. PICK luhn : /\ IsLuhn(luhn, f[n - 1])
                  /\ checksumLuhn(f[n - 1]) = luhn[f[n - 1]][0] % 10
  BY <1>3, ChecksumOf
<1>5. luhn[f[n - 1]][0] = s[n - 1]
  <2>1. n - 1 \in 0..n - 1 /\ (n - (n - 1)) % 2 = 1
    OBVIOUS
  <2> QED
    BY <1>1, <1>2, <1>4, <2>1, LuhnAlong
<1>6. s[n] = s[n - 1] + x[n] /\ s[n - 1] \in Nat
  <2>1. s[n] = s[n - 1] + Weight(x[n], n - n) /\ s[n - 1] \in Nat
    BY <1>2, WeightSteps
  <2>2. Weight(x[n], n - n) = x[n]
    BY DEF Weight
  <2> QED
    BY <2>1, <2>2
<1>7. LuhnRule(x) <=> s[n] % 10 = 0
  BY <1>2, RuleOf
<1>8. ValidLuhn(Value(x)) <=> (x[n] + (s[n - 1] % 10)) % 10 = 0
  BY <1>1, <1>3, <1>4, <1>5 DEF ValidLuhn
<1> QED
  BY <1>3, <1>6, <1>7, <1>8

-----------------------------------------------------------------------------
(***************************************************************************)
(* The typing errors.                                                      *)
(***************************************************************************)

\* No two digits have the same weight at one place, not even modulo 10.
LEMMA WeightsDiffer ==
    \A s, t \in Nat, a, b \in 0..9, i \in Nat :
        (/\ t = s + Weight(b, i) - Weight(a, i)
         /\ s % 10 = 0 /\ t % 10 = 0) => a = b
<1>1. \A s, t \in Nat, a, b \in 0..9 :
          (t = s + b - a /\ s % 10 = 0 /\ t % 10 = 0) => a = b
  OBVIOUS
<1>2. \A a, b \in 0..9 : Doubled(a) = Doubled(b) => a = b
  BY DEF Doubled
<1>3. \A a \in 0..9 : Doubled(a) \in 0..9
  BY DEF Doubled
<1> SUFFICES ASSUME NEW s \in Nat, NEW t \in Nat, NEW a \in 0..9, NEW b \in 0..9,
                    NEW i \in Nat,
                    t = s + Weight(b, i) - Weight(a, i),
                    s % 10 = 0, t % 10 = 0
             PROVE  a = b
  OBVIOUS
<1>4. /\ Weight(a, i) \in 0..9 /\ Weight(b, i) \in 0..9
      /\ Weight(a, i) = IF i % 2 = 1 THEN Doubled(a) ELSE a
      /\ Weight(b, i) = IF i % 2 = 1 THEN Doubled(b) ELSE b
  BY WeightIsDoubled
<1>5. Weight(a, i) = Weight(b, i)
  BY <1>1, <1>4
<1> QED
  BY <1>2, <1>4, <1>5

\* Two neighbours weigh the same the other way round if they are equal, or
\* 0 and 9.
LEMMA NeighboursDiffer ==
    \A a, b \in 0..9, s, t, i \in Nat :
        (/\ t + (Weight(a, i + 1) + Weight(b, i)) = s + (Weight(b, i + 1) + Weight(a, i))
         /\ s % 10 = 0 /\ t % 10 = 0) => (a = b \/ {a, b} = {0, 9})
<1>1. \A c, d \in 0..9 : \A u, v \in Nat :
          (/\ v + (c + Doubled(d)) = u + (d + Doubled(c))
           /\ u % 10 = 0 /\ v % 10 = 0) => (c = d \/ {c, d} = {0, 9})
  BY DEF Doubled
<1>2. \A c \in 0..9 : Doubled(c) \in 0..9
  BY DEF Doubled
<1> TAKE a, b \in 0..9, s, t, i \in Nat
<1> HAVE /\ t + (Weight(a, i + 1) + Weight(b, i)) = s + (Weight(b, i + 1) + Weight(a, i))
         /\ s % 10 = 0 /\ t % 10 = 0
<1>3. /\ i + 1 \in Nat
      /\ (i % 2 = 1 /\ (i + 1) % 2 # 1) \/ (i % 2 # 1 /\ (i + 1) % 2 = 1)
  OBVIOUS
<1>4. /\ Weight(a, i) = IF i % 2 = 1 THEN Doubled(a) ELSE a
      /\ Weight(b, i) = IF i % 2 = 1 THEN Doubled(b) ELSE b
      /\ Weight(a, i + 1) = IF (i + 1) % 2 = 1 THEN Doubled(a) ELSE a
      /\ Weight(b, i + 1) = IF (i + 1) % 2 = 1 THEN Doubled(b) ELSE b
  BY <1>3, WeightIsDoubled
<1>5. CASE i % 2 = 1 /\ (i + 1) % 2 # 1
  <2>1. t + (a + Doubled(b)) = s + (b + Doubled(a))
    BY <1>4, <1>5
  <2> QED
    BY <1>1, <2>1
<1>6. CASE i % 2 # 1 /\ (i + 1) % 2 = 1
  <2>1. t + (b + Doubled(a)) = s + (a + Doubled(b))
    BY <1>2, <1>4, <1>6
  <2>2. b = a \/ {b, a} = {0, 9}
    BY <1>1, <2>1
  <2>3. {a, b} = {b, a}
    OBVIOUS
  <2> QED
    BY <2>2, <2>3, Zenon
<1> QED
  BY <1>3, <1>5, <1>6

\* One digit mistyped changes the sum by less than 10, and not by 0.
LEMMA RetypedFails ==
    ASSUME NEW n \in Nat, NEW x \in Written(n), LuhnRule(x),
           NEW i \in 1..n, NEW d \in 0..9, x[i] # d
    PROVE  ~ LuhnRule([x EXCEPT ![i] = d])
<1> DEFINE y == [x EXCEPT ![i] = d]
<1>1. y \in Written(n) /\ y[i] = d /\ \A j \in 1..n : j # i => y[j] = x[j]
  BY DEF Written, Digits
<1> HIDE DEF y
<1>2. PICK s : Horner(s, 1, Weights(x), n)
  BY HornerExists
<1>3. PICK t : Horner(t, 1, Weights(y), n)
  BY HornerExists
<1>4. /\ \A j \in 0..n : s[j] \in Nat /\ t[j] \in Nat
      /\ s[i] = s[i - 1] + Weight(x[i], n - i)
      /\ t[i] = t[i - 1] + Weight(d, n - i)
  BY <1>1, <1>2, <1>3, WeightSteps
<1>5. /\ \A j \in 1..n : Weights(x)[j] \in Nat /\ Weights(y)[j] \in Nat
      /\ \A j \in 1..n : j # i => Weights(x)[j] = Weights(y)[j]
  BY <1>1, WeightsOf
<1>6. t[i - 1] = s[i - 1]
  <2>1. i - 1 \in Nat /\ i - 1 <= n /\ i - 1 \in 0..i - 1
    OBVIOUS
  <2>2. \A j \in 1..i - 1 : Weights(x)[j] = Weights(y)[j]
    BY <1>5
  <2>3. \A j \in 0..i - 1 : s[j] = t[j]
    BY <1>2, <1>3, <2>1, <2>2, HornerAgree
  <2> QED
    BY <2>1, <2>3
<1>7. t[n] - t[i] = s[n] - s[i]
  <2>1. i \in 0..n /\ \A j \in i + 1..n : Weights(x)[j] = Weights(y)[j]
    BY <1>5
  <2> QED
    BY <1>2, <1>3, <1>5, <2>1, HornerShift
<1>8. ASSUME LuhnRule(y) PROVE FALSE
  <2>1. s[n] % 10 = 0 /\ t[n] % 10 = 0
    BY <1>1, <1>2, <1>3, <1>8, RuleOf
  <2>2. x[i] \in 0..9 /\ n - i \in Nat
    BY WrittenSeq
  <2>3. Weight(x[i], n - i) \in 0..9 /\ Weight(d, n - i) \in 0..9
    BY <2>2, WeightIsDoubled
  <2>4. n \in 0..n /\ i \in 0..n /\ i - 1 \in 0..n
    OBVIOUS
  <2>5. /\ s[n] \in Nat /\ t[n] \in Nat /\ s[i] \in Nat /\ t[i] \in Nat
        /\ s[i - 1] \in Nat
    BY <1>4, <2>4
  <2>6. t[n] = s[n] + Weight(d, n - i) - Weight(x[i], n - i)
    BY <1>4, <1>6, <1>7, <2>3, <2>5
  <2> QED
    BY <2>1, <2>2, <2>5, <2>6, WeightsDiffer
<1> QED
  BY <1>8 DEF y

\* Two neighbours swapped do so too, unless they are equal, or 0 and 9.
LEMMA SwappedFails ==
    ASSUME NEW n \in Nat, NEW x \in Written(n), LuhnRule(x),
           NEW i \in 1..n - 1, x[i] # x[i + 1], {x[i], x[i + 1]} # {0, 9}
    PROVE  ~ LuhnRule([x EXCEPT ![i] = x[i + 1], ![i + 1] = x[i]])
<1> DEFINE y == [x EXCEPT ![i] = x[i + 1], ![i + 1] = x[i]]
<1>0. /\ i \in 1..n /\ i + 1 \in 1..n /\ i + 1 # i /\ (i + 1) - 1 = i
      /\ n - i = (n - (i + 1)) + 1 /\ n - (i + 1) \in Nat
  OBVIOUS
<1>1. /\ y \in Written(n) /\ y[i] = x[i + 1] /\ y[i + 1] = x[i]
      /\ \A j \in 1..n : j # i /\ j # i + 1 => y[j] = x[j]
  BY <1>0 DEF Written, Digits
<1> HIDE DEF y
<1>2. PICK s : Horner(s, 1, Weights(x), n)
  BY HornerExists
<1>3. PICK t : Horner(t, 1, Weights(y), n)
  BY HornerExists
<1>k. PICK k \in Nat : k = n - (i + 1) /\ n - i = k + 1
  BY <1>0
<1>4. /\ \A j \in 0..n : s[j] \in Nat /\ t[j] \in Nat
      /\ \A j \in 1..n : /\ s[j] = s[j - 1] + Weight(x[j], n - j)
                         /\ t[j] = t[j - 1] + Weight(y[j], n - j)
  BY <1>1, <1>2, <1>3, WeightSteps
<1>5. /\ s[i] = s[i - 1] + Weight(x[i], k + 1)
      /\ t[i] = t[i - 1] + Weight(x[i + 1], k + 1)
      /\ s[i + 1] = s[i] + Weight(x[i + 1], k)
      /\ t[i + 1] = t[i] + Weight(x[i], k)
  BY <1>0, <1>1, <1>4, <1>k
<1>6. /\ \A j \in 1..n : Weights(x)[j] \in Nat /\ Weights(y)[j] \in Nat
      /\ \A j \in 1..n : j # i /\ j # i + 1 => Weights(x)[j] = Weights(y)[j]
  BY <1>1, WeightsOf
<1>7. t[i - 1] = s[i - 1]
  <2>1. i - 1 \in Nat /\ i - 1 <= n /\ i - 1 \in 0..i - 1
    OBVIOUS
  <2>2. \A j \in 1..i - 1 : Weights(x)[j] = Weights(y)[j]
    BY <1>6
  <2>3. \A j \in 0..i - 1 : s[j] = t[j]
    BY <1>2, <1>3, <2>1, <2>2, HornerAgree
  <2> QED
    BY <2>1, <2>3
<1>8. t[n] - t[i + 1] = s[n] - s[i + 1]
  <2>1. i + 1 \in 0..n /\ \A j \in (i + 1) + 1..n : Weights(x)[j] = Weights(y)[j]
    BY <1>0, <1>6
  <2> QED
    BY <1>2, <1>3, <1>6, <2>1, HornerShift
<1>9. ASSUME LuhnRule(y) PROVE FALSE
  <2>1. s[n] % 10 = 0 /\ t[n] % 10 = 0
    BY <1>1, <1>2, <1>3, <1>9, RuleOf
  <2>2. x[i] \in 0..9 /\ x[i + 1] \in 0..9 /\ k \in Nat /\ k + 1 \in Nat
    BY <1>0, WrittenSeq
  <2>3. /\ Weight(x[i], k) \in 0..9 /\ Weight(x[i + 1], k) \in 0..9
        /\ Weight(x[i], k + 1) \in 0..9 /\ Weight(x[i + 1], k + 1) \in 0..9
    BY <2>2, WeightIsDoubled
  <2>4. n \in 0..n /\ i \in 0..n /\ i - 1 \in 0..n /\ i + 1 \in 0..n
    BY <1>0
  <2>5. /\ s[n] \in Nat /\ t[n] \in Nat /\ s[i] \in Nat /\ t[i] \in Nat
        /\ s[i - 1] \in Nat /\ s[i + 1] \in Nat /\ t[i + 1] \in Nat
    BY <1>4, <2>4
  <2>6. t[n] + (Weight(x[i], k + 1) + Weight(x[i + 1], k))
          = s[n] + (Weight(x[i + 1], k + 1) + Weight(x[i], k))
    <3>1. s[i + 1] = s[i - 1] + (Weight(x[i], k + 1) + Weight(x[i + 1], k))
      BY <1>5, <2>3, <2>5
    <3>2. t[i + 1] = s[i - 1] + (Weight(x[i + 1], k + 1) + Weight(x[i], k))
      BY <1>5, <1>7, <2>3, <2>5
    <3>3. PICK u \in Nat : u = Weight(x[i], k + 1) + Weight(x[i + 1], k)
      BY <2>3
    <3>4. PICK v \in Nat : v = Weight(x[i + 1], k + 1) + Weight(x[i], k)
      BY <2>3
    <3>5. s[i + 1] = s[i - 1] + u /\ t[i + 1] = s[i - 1] + v
      BY <3>1, <3>2, <3>3, <3>4, Zenon
    <3>6. t[n] + u = s[n] + v
      BY <1>8, <2>5, <3>5
    <3> QED
      BY <3>3, <3>4, <3>6, Zenon
  <2>7. x[i] = x[i + 1] \/ {x[i], x[i + 1]} = {0, 9}
    BY <2>1, <2>2, <2>5, <2>6, NeighboursDiffer, ZenonT(30)
  <2> QED
    BY <2>7
<1> QED
  BY <1>9 DEF y

-----------------------------------------------------------------------------
(***************************************************************************)
(* The text of a number.                                                   *)
(***************************************************************************)

\* What FormatUint writes for the numbers up to N.
IsFormat(txt, N) ==
    txt = [n \in 0..N |-> IF n < 10 THEN <<n>>
                          ELSE Append(txt[n \div 10], n % 10)]

LEMMA FormatExists == \A N \in Nat : \E txt : IsFormat(txt, N)
<1> DEFINE Undefined == {N \in Nat : ~ \E txt : IsFormat(txt, N)}
<1>1. ASSUME Undefined # {} PROVE FALSE
  <2>1. PICK N \in Undefined : \A m \in Undefined : N <= m
    <3>1. Undefined \subseteq Nat
      OBVIOUS
    <3> HIDE DEF Undefined
    <3> QED
      BY <1>1, <3>1, Smallest
  <2>2. N \in Nat /\ ~ \E txt : IsFormat(txt, N)
    BY <2>1
  <2>3. N # 0
    <3>1. IsFormat([n \in 0..0 |-> <<n>>], 0)
      BY DEF IsFormat
    <3> QED
      BY <2>2, <3>1
  <2>4. PICK g : IsFormat(g, N - 1)
    <3>1. N - 1 \in Nat /\ N - 1 \notin Undefined
      <4> HIDE DEF Undefined
      <4> QED
        BY <2>1, <2>2, <2>3
    <3> QED
      BY <3>1
  <2> DEFINE h == [n \in 0..N |-> IF n < 10 THEN <<n>>
                                  ELSE Append(g[n \div 10], n % 10)]
  <2>5. \A n \in 0..N - 1 : h[n] = g[n]
    <3>1. \A n \in 0..N - 1 : n \in 0..N
      BY <2>2
    <3> QED
      BY <3>1, <2>4, Zenon DEF IsFormat
  <2>6. IsFormat(h, N)
    <3>1. \A n \in 0..N : ~ (n < 10) => n \div 10 \in 0..N - 1
      BY <2>2, DecimalParts
    <3>2. \A n \in 0..N : ~ (n < 10) => h[n \div 10] = g[n \div 10]
      BY <2>5, <3>1
    <3> QED
      BY <3>2 DEF IsFormat
  <2> HIDE DEF h
  <2> QED
    BY <2>2, <2>6
<1> QED
  BY <1>1

LEMMA FormatOf ==
    ASSUME NEW N \in Nat
    PROVE  \E txt : IsFormat(txt, N) /\ FormatUint(N) = txt[N]
<1>1. \E txt : IsFormat(txt, N)
  BY FormatExists
<1> QED
  BY <1>1, Zenon DEF IsFormat, FormatUint

LEMMA FormatSteps ==
    ASSUME NEW N \in Nat, NEW txt, IsFormat(txt, N)
    PROVE  \A n \in 0..N :
              txt[n] = IF n < 10 THEN <<n>> ELSE Append(txt[n \div 10], n % 10)
  BY Zenon DEF IsFormat

\* A digit more.
LEMMA ValueAppend ==
    ASSUME NEW k \in Nat, NEW x \in Written(k), NEW d \in 0..9
    PROVE  /\ Append(x, d) \in Written(k + 1)
           /\ Value(Append(x, d)) = 10 * Value(x) + d
<1> DEFINE y == Append(x, d)
<1>1. /\ x \in Seq(Digits) /\ Len(x) = k /\ d \in Digits
      /\ k \in 0..k /\ k <= k + 1 /\ k + 1 \in Nat /\ k + 1 \in 1..k + 1
      /\ (k + 1) - 1 = k
  BY WrittenSeq DEF Digits
<1>2. /\ y \in Seq(Digits) /\ Len(y) = k + 1 /\ y[k + 1] = d
      /\ \A i \in 1..k : y[i] = x[i]
  BY <1>1
<1>3. y \in Written(k + 1)
  <2> HIDE DEF y
  <2> QED
    BY <1>2, LenProperties DEF Written
<1> HIDE DEF y
<1>4. PICK f : Prefixes(f, x, k) /\ Value(x) = f[k]
  BY <1>1, ValueOf
<1>5. PICK g : Prefixes(g, y, k + 1) /\ Value(y) = g[k + 1]
  BY <1>1, <1>2, ValueOf
<1>6. f[k] = g[k]
  <2>1. \A i \in 1..k : x[i] = y[i]
    BY <1>2
  <2>2. \A i \in 0..k : f[i] = g[i]
    BY <1>1, <1>4, <1>5, <2>1, HornerAgree DEF Prefixes
  <2> QED
    BY <1>1, <2>2
<1>7. g[k + 1] = 10 * g[k] + y[k + 1]
  BY <1>1, <1>3, <1>5, PrefixSteps
<1>8. Value(y) = 10 * Value(x) + d
  BY <1>2, <1>4, <1>5, <1>6, <1>7
<1> QED
  BY <1>3, <1>8 DEF y

LEMMA ValueDigit ==
    \A d \in 0..9 : <<d>> \in Written(1) /\ Value(<<d>>) = d
<1> TAKE d \in 0..9
<1> DEFINE x == <<d>>
<1>1. x \in Written(1) /\ Len(x) = 1 /\ x[1] = d
  BY DEF Written, Digits
<1> HIDE DEF x
<1>2. PICK f : Prefixes(f, x, 1) /\ Value(x) = f[1]
  <2>1. Len(x) \in Nat
    BY <1>1
  <2> QED
    BY <1>1, <2>1, ValueOf, Zenon
<1>3. f[0] = 0 /\ f[1] = 10 * f[1 - 1] + x[1]
  BY <1>1, <1>2, PrefixSteps
<1>4. Value(x) = d
  BY <1>1, <1>2, <1>3
<1> QED
  BY <1>1, <1>4 DEF x

\* Parsing what was formatted gives the number back.
LEMMA ParseFormat ==
    ASSUME NEW N \in Nat
    PROVE  Value(FormatUint(N)) = N
<1>1. PICK txt : IsFormat(txt, N) /\ FormatUint(N) = txt[N]
  BY FormatOf
<1> DEFINE Good(n) == (\E k \in Nat : txt[n] \in Written(k)) /\ Value(txt[n]) = n
           Bad == {n \in 0..N : ~ Good(n)}
<1>2. ASSUME Bad # {} PROVE FALSE
  <2>1. PICK n \in Bad : \A m \in Bad : n <= m
    <3>1. Bad \subseteq Nat
      OBVIOUS
    <3> HIDE DEF Bad
    <3> QED
      BY <1>2, <3>1, Smallest
  <2>2. n \in 0..N /\ ~ Good(n)
    BY <2>1
  <2>3. txt[n] = IF n < 10 THEN <<n>> ELSE Append(txt[n \div 10], n % 10)
    BY <1>1, <2>2, FormatSteps
  <2>4. CASE n < 10
    <3>1. n \in 0..9 /\ txt[n] = <<n>> /\ 1 \in Nat
      BY <2>2, <2>3, <2>4
    <3> QED
      BY <2>2, <3>1, ValueDigit
  <2>5. CASE ~ (n < 10)
    <3>1. /\ n \div 10 \in 0..N /\ n % 10 \in 0..9 /\ ~ (n <= n \div 10)
          /\ n = 10 * (n \div 10) + (n % 10)
      BY <2>2, <2>5, DecimalParts
    <3>2. Good(n \div 10)
      <4>1. n \div 10 \notin Bad
        <5> HIDE DEF Bad
        <5> QED
          BY <2>1, <3>1
      <4> QED
        BY <3>1, <4>1
    <3>3. PICK k \in Nat : txt[n \div 10] \in Written(k)
      BY <3>2
    <3>4. /\ Append(txt[n \div 10], n % 10) \in Written(k + 1)
          /\ Value(Append(txt[n \div 10], n % 10)) = 10 * (n \div 10) + (n % 10)
      BY <3>1, <3>2, <3>3, ValueAppend
    <3>5. txt[n] = Append(txt[n \div 10], n % 10) /\ k + 1 \in Nat
      BY <2>3, <2>5
    <3> QED
      BY <2>2, <3>1, <3>4, <3>5, Zenon
  <2> QED
    BY <2>4, <2>5
<1>3. N \in 0..N
  OBVIOUS
<1> QED
  BY <1>1, <1>2, <1>3

\* Formatting what was parsed gives the text back, unless it begins with 0.
LEMMA FormatParse ==
    ASSUME NEW n \in Nat \ {0}, NEW x \in Written(n), x[1] # 0
    PROVE  FormatUint(Value(x)) = x
<1>1. /\ x \in Seq(Digits) /\ Len(x) = n /\ n \in 1..n /\ n \in 0..n
      /\ \A i \in 1..n : x[i] \in 0..9
  BY WrittenSeq
<1>2. PICK f : Prefixes(f, x, n) /\ Value(x) = f[n]
  BY <1>1, ValueOf
<1>3. /\ f[0] = 0 /\ \A i \in 0..n : f[i] \in Nat
      /\ \A i \in 1..n : /\ f[i] = 10 * f[i - 1] + x[i]
                         /\ f[i] % 10 = x[i] /\ f[i] \div 10 = f[i - 1]
  BY <1>2, PrefixSteps
<1>4. \A i \in 0..n : \A j \in 0..i : f[j] <= f[i]
  BY <1>2, PrefixLeq
<1>5. PICK txt : IsFormat(txt, f[n]) /\ FormatUint(f[n]) = txt[f[n]]
  BY <1>1, <1>3, FormatOf
<1>6. \A m \in 0..f[n] :
         txt[m] = IF m < 10 THEN <<m>> ELSE Append(txt[m \div 10], m % 10)
  <2>1. f[n] \in Nat
    BY <1>1, <1>3
  <2> QED
    BY <1>5, <2>1, FormatSteps, Zenon
<1>7. \A i \in 1..n : f[i] \in 0..f[n]
  BY <1>1, <1>3, <1>4
<1> DEFINE P == {i \in 0..n : i # 0 => txt[f[i]] = SubSeq(x, 1, i)}
<1>8. 0 \in P
  OBVIOUS
<1>9. ASSUME NEW i \in 1..n, i - 1 \in P
      PROVE  i \in P
  <2>1. CASE i = 1
    <3>1. f[1] = x[1] /\ f[1] \in 0..f[n] /\ f[1] < 10
      <4>1. i - 1 = 0 /\ f[i] = 10 * f[i - 1] + x[i] /\ f[0] = 0 /\ x[i] \in 0..9
        BY <1>1, <1>3, <2>1
      <4> HIDE DEF P
      <4> QED
        BY <1>7, <2>1, <4>1
    <3>2. txt[f[1]] = <<x[1]>>
      BY <1>6, <3>1
    <3>3. SubSeq(x, 1, 1) = <<x[1]>>
      <4>1. /\ SubSeq(x, 1, 0) = <<>>
            /\ Append(SubSeq(x, 1, 0), x[1]) = SubSeq(x, 1, 1)
        BY <1>1, <2>1
      <4>2. Append(<<>>, x[1]) = <<x[1]>>
        BY <1>1, <2>1
      <4> QED
        BY <4>1, <4>2, Zenon
    <3> QED
      BY <2>1, <3>2, <3>3
  <2>2. CASE i # 1
    <3>1. /\ i - 1 \in 1..n /\ i - 1 \in 0..n /\ 1 \in 0..i - 1 /\ 1 \in 1..n
          /\ i \in 0..n
      BY <2>2
    <3>2. f[1] # 0 /\ f[1] <= f[i - 1] /\ f[1] \in Nat
      <4>1. f[1] % 10 = x[1] /\ 0 % 10 = 0
        BY <1>3, <3>1
      <4> QED
        BY <1>3, <1>4, <3>1, <4>1
    <3>3. /\ f[i - 1] \in Nat /\ x[i] \in 0..9 /\ f[i] = 10 * f[i - 1] + x[i]
          /\ f[i] % 10 = x[i] /\ f[i] \div 10 = f[i - 1]
      BY <1>1, <1>3, <3>1
    <3>4. ~ (f[i] < 10) /\ f[i] \in 0..f[n]
      <4>1. f[i - 1] >= 1
        BY <3>2, <3>3
      <4>2. ~ (10 * f[i - 1] + x[i] < 10)
        BY <3>3, <4>1
      <4> QED
        BY <1>7, <3>3, <4>2, Zenon
    <3>5. txt[f[i]] = Append(txt[f[i - 1]], x[i])
      BY <1>6, <3>3, <3>4
    <3>6. txt[f[i - 1]] = SubSeq(x, 1, i - 1)
      BY <1>9, <2>2
    <3>7. Append(SubSeq(x, 1, i - 1), x[i]) = SubSeq(x, 1, i)
      BY <1>1
    <3> QED
      BY <3>1, <3>5, <3>6, <3>7
  <2> QED
    BY <2>1, <2>2
<1> HIDE DEF P
<1>10. \A i \in 0..n : i \in P
  BY <1>8, <1>9, Reaches
<1>11. txt[f[n]] = SubSeq(x, 1, n)
  BY <1>1, <1>10 DEF P
<1>12. SubSeq(x, 1, n) = x
  BY <1>1
<1> QED
  BY <1>2, <1>5, <1>11, <1>12

-----------------------------------------------------------------------------
(***************************************************************************)
(* One request.  The inductive invariant says how far the text has come at *)
(* each stage, and with which verdict it left.                             *)
(***************************************************************************)

Accepted  == Parses(text) /\ number = Value(text)
StageInv ==
    /\ text \in Texts
    /\ stage \in {"parse", "check", "insert", "202", "422", "500"}
    /\ stage \in {"check", "insert", "202", "500"} => Accepted
    /\ stage \in {"insert", "202", "500"} => ValidLuhn(number)
    /\ stage = "422" => ~ (Parses(text) /\ ValidLuhn(Value(text)))

LEMMA StageInvariant == Spec => []StageInv
<1>1. Init => StageInv
  BY DEF Init, StageInv
<1>2. StageInv /\ [Next]_vars => StageInv'
  <2> SUFFICES ASSUME StageInv, [Next]_vars PROVE StageInv'
    OBVIOUS
  <2> USE DEF StageInv, Accepted
  <2>1. CASE Parse
    BY <2>1, Zenon DEF Parse
  <2>2. CASE Check
    BY <2>2, Zenon DEF Check
  <2>3. CASE Insert
    BY <2>3, Zenon DEF Insert
  <2>4. CASE Done \/ UNCHANGED vars
    BY <2>4, Zenon DEF Done, vars
  <2> QED
    BY <2>1, <2>2, <2>3, <2>4 DEF Next
<1> QED
  BY <1>1, <1>2, PTL DEF Spec

LEMMA ParsedWritten ==
    ASSUME text \in Texts, Parses(text)
    PROVE  \E n \in Nat \ {0} : text \in Written(n) /\ DOMAIN text = 1..n
<1>1. PICK n \in 0..MaxLen : text \in [1..n -> Digits \union {NoDigit}]
  BY DEF Texts
<1>2. MaxLen \in Nat /\ n \in Nat
  BY NumberAssumption
<1>3. n # 0
  BY <1>1 DEF Parses
<1>4. text \in Written(n)
  BY <1>1 DEF Parses, Written
<1> QED
  BY <1>1, <1>2, <1>3, <1>4

\* What passes the check of utils/common.go obeys the rule of Luhn on the text
\* that was loaded, and what is refused breaks it or is above every uint64.
THEOREM CheckIsTheRule == Spec => []CheckIsLuhn
<1>1. StageInv => CheckIsLuhn
  <2> SUFFICES ASSUME StageInv PROVE CheckIsLuhn
    OBVIOUS
  <2>1. Parses(text) => (ValidLuhn(Value(text)) <=> LuhnRule(text))
    BY ParsedWritten, ValidIsRule DEF StageInv
  <2> QED
    BY <2>1, Zenon DEF StageInv, Accepted, CheckIsLuhn
<1> QED
  BY <1>1, StageInvariant, PTL

\* Of a number that was accepted, no other with one digit mistyped or two
\* neighbours swapped would be.
THEOREM TyposAreRefused == Spec => []TypoRefused
<1>1. StageInv => TypoRefused
  <2> SUFFICES ASSUME StageInv, stage = "202",
                      NEW typo \in (Retyped \union Swapped) \ {text},
                      ValidLuhn(Value(typo))
               PROVE  FALSE
    BY Zenon DEF TypoRefused
  <2>1. Parses(text) /\ ValidLuhn(Value(text)) /\ text \in Texts
    BY DEF StageInv, Accepted
  <2>2. PICK n \in Nat \ {0} : text \in Written(n) /\ DOMAIN text = 1..n
    BY <2>1, ParsedWritten
  <2>3. LuhnRule(text)
    BY <2>1, <2>2, ValidIsRule
  <2>4. Len(text) = n /\ \A i \in 1..n : text[i] \in 0..9
    BY <2>2, WrittenSeq
  <2>5. CASE typo \in Retyped
    <3>1. PICK i \in 1..n, d \in 0..9 : typo = [text EXCEPT ![i] = d]
      BY <2>2, <2>5 DEF Retyped, Digits
    <3>2. text[i] # d /\ typo \in Written(n)
      BY <2>2, <3>1 DEF Written, Digits
    <3>3. ~ LuhnRule(typo)
      BY <2>2, <2>3, <3>1, <3>2, RetypedFails
    <3> QED
      BY <3>2, <3>3, ValidIsRule
  <2>6. CASE typo \in Swapped
    <3>1. PICK i \in 1..n - 1 :
             /\ {text[i], text[i + 1]} # {0, 9}
             /\ typo = [text EXCEPT ![i] = text[i + 1], ![i + 1] = text[i]]
      BY <2>4, <2>6, Zenon DEF Swapped
    <3>2. text[i] # text[i + 1] /\ typo \in Written(n)
      BY <2>2, <3>1 DEF Written, Digits
    <3>3. ~ LuhnRule(typo)
      BY <2>2, <2>3, <3>1, <3>2, SwappedFails
    <3> QED
      BY <3>2, <3>3, ValidIsRule
  <2> QED
    BY <2>5, <2>6
<1> QED
  BY <1>1, StageInvariant, PTL

\* The number that is stored, listed and asked about is the one that was
\* loaded; only zeros in front of it are lost.
THEOREM NumbersAreKept == Spec => []KeptAsLoaded
<1>1. StageInv => KeptAsLoaded
  <2> SUFFICES ASSUME StageInv, stage = "202" PROVE KeptAsLoaded
    BY DEF KeptAsLoaded
  <2>1. Parses(text) /\ number = Value(text) /\ text \in Texts
    BY DEF StageInv, Accepted
  <2>2. PICK n \in Nat \ {0} : text \in Written(n) /\ DOMAIN text = 1..n
    BY <2>1, ParsedWritten
  <2>3. number \in Nat
    <3>1. Len(text) = n /\ n \in Nat /\ n \in 0..n
      BY <2>2, WrittenSeq
    <3>2. PICK f : Prefixes(f, text, n) /\ Value(text) = f[n]
      BY <3>1, ValueOf
    <3>3. f[n] \in Nat
      BY <2>2, <3>1, <3>2, PrefixSteps
    <3> QED
      BY <2>1, <3>2, <3>3
  <2>4. Value(FormatUint(number)) = Value(text)
    BY <2>1, <2>3, ParseFormat
  <2>5. text[1] # 0 => FormatUint(number) = text
    BY <2>1, <2>2, FormatParse
  <2> QED
    BY <2>3, <2>4, <2>5 DEF KeptAsLoaded
<1> QED
  BY <1>1, StageInvariant, PTL

=============================================================================
