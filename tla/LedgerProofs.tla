---------------------------- MODULE LedgerProofs ----------------------------
(***************************************************************************)
(* The books of PgStore, proved for all values of its constants: the rows  *)
(* of orders, balances and withdrawals agree about the points of a user,   *)
(* and the statements of the store implement the atomic ledger of          *)
(* Ledger.tla.                                                             *)
(*                                                                         *)
(* Amounts are added up with SumFunction of the community modules.  What   *)
(* the proofs need to know of it comes first: by induction on the size of  *)
(* a set, in the form of a smallest counterexample.                        *)
(***************************************************************************)
EXTENDS PgStoreProofs, FiniteSetTheorems, WellFoundedInduction

-----------------------------------------------------------------------------
(***************************************************************************)
(* Sums over finite sets.                                                  *)
(***************************************************************************)

\* The element of a set that a sum adds first.
First(s) == CHOOSE x \in s : TRUE

\* sum[s] is the sum of f over s, for every set s of D.
Adds(sum, f, D) ==
    sum = [s \in D |-> IF s = {} THEN 0
                       ELSE f[First(s)] + sum[s \ {First(s)}]]

\* A set of natural numbers has a smallest one.
LEMMA Smallest ==
    ASSUME NEW A, A \subseteq Nat, A # {}
    PROVE  \E n \in A : \A m \in A : n <= m
<1> DEFINE R == {ss \in Nat \X Nat : ss[1] < ss[2]}
<1>1. IsWellFoundedOn(R, Nat)
  BY NatLessThanWellFounded, Zenon DEF OpToRel
<1>2. PICK n \in A : \A m \in A : ~ (<<m, n>> \in R)
  <2> HIDE DEF R
  <2> QED BY <1>1, WFMin
<1>3. \A m \in A : ~ (m < n)
  BY <1>2
<1> QED BY <1>3

\* A property that some subset of a finite set lacks is lacked by one that
\* is empty, or whose subset without First has the property.
LEMMA SmallestSubset ==
    ASSUME NEW S, IsFiniteSet(S), NEW B \in SUBSET (SUBSET S), B # {}
    PROVE  \E s \in B : \A t \in SUBSET s : t # s => t \notin B
<1> DEFINE A == {Cardinality(s) : s \in B}
<1>1. \A s \in B : IsFiniteSet(s) /\ Cardinality(s) \in Nat
  BY FS_Subset, FS_CardinalityType
<1>2. PICK n \in A : \A m \in A : n <= m
  <2>1. A \subseteq Nat /\ A # {}
    BY <1>1
  <2> HIDE DEF A
  <2> QED BY <2>1, Smallest
<1>3. PICK s \in B : n = Cardinality(s)
  BY <1>2
<1>4. ASSUME NEW t \in SUBSET s, t # s, t \in B PROVE FALSE
  <2>1. Cardinality(t) <= Cardinality(s) /\ Cardinality(t) # Cardinality(s)
    BY <1>1, <1>4, FS_Subset
  <2>2. Cardinality(s) <= Cardinality(t)
    BY <1>2, <1>3, <1>4
  <2> QED BY <2>1, <2>2, <1>1, <1>4
<1> QED BY <1>4

LEMMA FirstIn == ASSUME NEW s, s # {} PROVE First(s) \in s
  BY DEF First

\* There is a function that adds up f over every subset of a finite set:
\* the recursive definition of the sum defines something.
LEMMA AddsExists ==
    ASSUME NEW f, NEW S, IsFiniteSet(S)
    PROVE  \E sum : Adds(sum, f, SUBSET S)
<1> DEFINE Upto(n) == {s \in SUBSET S : Cardinality(s) <= n}
           Undefined == {n \in Nat : ~ \E sum : Adds(sum, f, Upto(n))}
<1>0. \A s \in SUBSET S : IsFiniteSet(s) /\ Cardinality(s) \in Nat
  BY FS_Subset, FS_CardinalityType
<1>1. Undefined = {}
  <2> SUFFICES ASSUME Undefined # {} PROVE FALSE
    OBVIOUS
  <2>1. PICK n \in Undefined : \A m \in Undefined : n <= m
    <3>1. Undefined \subseteq Nat
      OBVIOUS
    <3> HIDE DEF Undefined
    <3> QED BY <3>1, Smallest
  <2>2. n \in Nat /\ ~ \E sum : Adds(sum, f, Upto(n))
    BY <2>1
  <2>3. CASE n = 0
    <3> DEFINE g == [s \in Upto(0) |-> 0]
    <3>1. \A s \in Upto(0) : s = {}
      BY <1>0, FS_EmptySet
    <3>2. Adds(g, f, Upto(0))
      BY <3>1 DEF Adds
    <3> QED BY <2>2, <2>3, <3>2
  <2>4. CASE n # 0
    <3>1. n - 1 \in Nat /\ n - 1 \notin Undefined
      <4> HIDE DEF Upto
      <4> QED BY <2>1, <2>2, <2>4
    <3>2. PICK g : Adds(g, f, Upto(n - 1))
      BY <3>1
    <3> DEFINE h == [s \in Upto(n) |->
                       IF s = {} THEN 0 ELSE f[First(s)] + g[s \ {First(s)}]]
    <3>3. \A s \in Upto(n - 1) : s \in Upto(n) /\ h[s] = g[s]
      <4>1. \A s \in Upto(n - 1) : s \in Upto(n)
        BY <1>0, <2>2
      <4> HIDE DEF Upto
      <4> QED BY <4>1, <3>2 DEF Adds
    <3>4. \A s \in Upto(n) : s # {} => s \ {First(s)} \in Upto(n - 1)
      BY <1>0, <2>2, FirstIn, FS_RemoveElement
    <3>5. Adds(h, f, Upto(n))
      <4> HIDE DEF Upto
      <4> QED BY <3>3, <3>4 DEF Adds
    <3> QED BY <2>2, <3>5
  <2> QED BY <2>3, <2>4
<1>2. Cardinality(S) \in Nat /\ Upto(Cardinality(S)) = SUBSET S
  BY <1>0, FS_Subset, FS_CardinalityType
<1>3. \E sum : Adds(sum, f, Upto(Cardinality(S)))
  BY <1>1, <1>2
<1> QED BY <1>2, <1>3

\* Two such functions agree on the sets they both have.
LEMMA AddsAgree ==
    ASSUME NEW f, NEW S, IsFiniteSet(S), NEW T \in SUBSET S
    PROVE  \A a, b :
              Adds(a, f, SUBSET S) /\ Adds(b, f, SUBSET T) => a[T] = b[T]
<1> SUFFICES ASSUME NEW a, Adds(a, f, SUBSET S), NEW b, Adds(b, f, SUBSET T)
             PROVE  a[T] = b[T]
  OBVIOUS
<1> DEFINE B == {s \in SUBSET T : a[s] # b[s]}
<1>1. B = {}
  <2> SUFFICES ASSUME B # {} PROVE FALSE
    OBVIOUS
  <2>1. IsFiniteSet(T)
    BY FS_Subset
  <2>2. PICK s \in B : \A t \in SUBSET s : t # s => t \notin B
    <3>1. B \in SUBSET (SUBSET T)
      OBVIOUS
    <3> HIDE DEF B
    <3> QED BY <2>1, <3>1, SmallestSubset
  <2>3. s # {}
    BY <2>2 DEF Adds
  <2>4. a[s \ {First(s)}] = b[s \ {First(s)}]
    BY <2>2, <2>3, FirstIn
  <2>5. /\ a[s] = f[First(s)] + a[s \ {First(s)}]
        /\ b[s] = f[First(s)] + b[s \ {First(s)}]
    <3>1. s \in SUBSET S /\ s \in SUBSET T
      BY <2>2
    <3> QED BY <3>1, <2>3 DEF Adds
  <2> QED BY <2>2, <2>4, <2>5
<1> QED BY <1>1

LEMMA SumAdds ==
    ASSUME NEW f, NEW S, IsFiniteSet(S)
    PROVE  \E a : /\ Adds(a, f, SUBSET S)
                  /\ \A T \in SUBSET S : SumFunctionOnSet(f, T) = a[T]
<1>1. \A T : SumFunctionOnSet(f, T) = (CHOOSE it : Adds(it, f, SUBSET T))[T]
  BY Zenon DEF SumFunctionOnSet, FoldFunctionOnSet, MapThenFoldSet,
               Adds, First
<1>2. PICK a : Adds(a, f, SUBSET S)
  BY AddsExists
<1>3. ASSUME NEW T \in SUBSET S PROVE SumFunctionOnSet(f, T) = a[T]
  <2> DEFINE b == CHOOSE it : Adds(it, f, SUBSET T)
  <2>1. Adds(b, f, SUBSET T)
    <3>1. \E it : Adds(it, f, SUBSET T)
      BY FS_Subset, AddsExists
    <3> QED BY <3>1
  <2>2. SumFunctionOnSet(f, T) = b[T]
    BY <1>1
  <2> HIDE DEF b
  <2>3. a[T] = b[T]
    <3>1. \A c, d : Adds(c, f, SUBSET S) /\ Adds(d, f, SUBSET T) => c[T] = d[T]
      BY AddsAgree
    <3> QED BY <1>2, <2>1, <3>1
  <2> QED BY <2>2, <2>3
<1> QED BY <1>2, <1>3

-----------------------------------------------------------------------------
LEMMA SumEmpty == ASSUME NEW f PROVE SumFunctionOnSet(f, {}) = 0
  BY DEF SumFunctionOnSet, FoldFunctionOnSet, MapThenFoldSet

\* The first element and the rest.
LEMMA SumFirst ==
    ASSUME NEW f, NEW S, IsFiniteSet(S), S # {}
    PROVE  /\ First(S) \in S
           /\ SumFunctionOnSet(f, S) =
                 f[First(S)] + SumFunctionOnSet(f, S \ {First(S)})
<1>1. PICK a : /\ Adds(a, f, SUBSET S)
               /\ \A T \in SUBSET S : SumFunctionOnSet(f, T) = a[T]
  BY SumAdds
<1>2. First(S) \in S
  BY FirstIn
<1>3. a[S] = f[First(S)] + a[S \ {First(S)}]
  BY <1>1 DEF Adds
<1>4. S \in SUBSET S /\ S \ {First(S)} \in SUBSET S
  OBVIOUS
<1> QED BY <1>1, <1>2, <1>3, <1>4

LEMMA SumNat ==
    ASSUME NEW f, NEW S, IsFiniteSet(S), \A x \in S : f[x] \in Nat
    PROVE  SumFunctionOnSet(f, S) \in Nat
<1> DEFINE B == {s \in SUBSET S : SumFunctionOnSet(f, s) \notin Nat}
<1>1. B = {}
  <2> SUFFICES ASSUME B # {} PROVE FALSE
    OBVIOUS
  <2>1. PICK s \in B : \A t \in SUBSET s : t # s => t \notin B
    <3>1. B \in SUBSET (SUBSET S)
      OBVIOUS
    <3> HIDE DEF B
    <3> QED BY <3>1, SmallestSubset
  <2>2. s # {}
    <3>1. SumFunctionOnSet(f, {}) \in Nat
      BY SumEmpty
    <3> QED BY <2>1, <3>1
  <2>3. IsFiniteSet(s)
    BY <2>1, FS_Subset
  <2>4. /\ First(s) \in s
        /\ SumFunctionOnSet(f, s) =
              f[First(s)] + SumFunctionOnSet(f, s \ {First(s)})
    BY <2>2, <2>3, SumFirst
  <2>5. SumFunctionOnSet(f, s \ {First(s)}) \in Nat
    BY <2>1, <2>4
  <2> QED BY <2>1, <2>4, <2>5
<1> QED BY <1>1

LEMMA SumInt ==
    ASSUME NEW f, NEW S, IsFiniteSet(S), \A x \in S : f[x] \in Int
    PROVE  SumFunctionOnSet(f, S) \in Int
<1> DEFINE B == {s \in SUBSET S : SumFunctionOnSet(f, s) \notin Int}
<1>1. B = {}
  <2> SUFFICES ASSUME B # {} PROVE FALSE
    OBVIOUS
  <2>1. PICK s \in B : \A t \in SUBSET s : t # s => t \notin B
    <3>1. B \in SUBSET (SUBSET S)
      OBVIOUS
    <3> HIDE DEF B
    <3> QED BY <3>1, SmallestSubset
  <2>2. s # {}
    <3>1. SumFunctionOnSet(f, {}) \in Int
      BY SumEmpty
    <3> QED BY <2>1, <3>1
  <2>3. IsFiniteSet(s)
    BY <2>1, FS_Subset
  <2>4. /\ First(s) \in s
        /\ SumFunctionOnSet(f, s) =
              f[First(s)] + SumFunctionOnSet(f, s \ {First(s)})
    BY <2>2, <2>3, SumFirst
  <2>5. SumFunctionOnSet(f, s \ {First(s)}) \in Int
    BY <2>1, <2>4
  <2> QED BY <2>1, <2>4, <2>5
<1> QED BY <1>1

\* Any element and the rest.
LEMMA SumRemove ==
    ASSUME NEW f, NEW S, IsFiniteSet(S), \A x \in S : f[x] \in Int
    PROVE  \A x \in S : SumFunctionOnSet(f, S) =
                          f[x] + SumFunctionOnSet(f, S \ {x})
<1> DEFINE Bad(s, x) == SumFunctionOnSet(f, s) #
                          f[x] + SumFunctionOnSet(f, s \ {x})
           B == {s \in SUBSET S : \E x \in s : Bad(s, x)}
<1>1. B = {}
  <2> SUFFICES ASSUME B # {} PROVE FALSE
    OBVIOUS
  <2>1. PICK s \in B : \A t \in SUBSET s : t # s => t \notin B
    <3>1. B \in SUBSET (SUBSET S)
      OBVIOUS
    <3> HIDE DEF B
    <3> QED BY <3>1, SmallestSubset
  <2>2. PICK x \in s : Bad(s, x)
    BY <2>1
  <2> DEFINE y == First(s)
             Rest == (s \ {x}) \ {y}
  <2>3. s \in SUBSET S /\ s # {} /\ IsFiniteSet(s)
    BY <2>1, <2>2, FS_Subset
  <2>4. /\ y \in s
        /\ SumFunctionOnSet(f, s) = f[y] + SumFunctionOnSet(f, s \ {y})
    BY <2>3, SumFirst
  <2> HIDE DEF y
  <2>5. x # y
    BY <2>2, <2>4
  <2>6. \A z \in s, t \in s : z # t =>
          SumFunctionOnSet(f, s \ {z}) =
            f[t] + SumFunctionOnSet(f, (s \ {z}) \ {t})
    <3> SUFFICES ASSUME NEW z \in s, NEW t \in s, z # t
                 PROVE  ~ Bad(s \ {z}, t)
      OBVIOUS
    <3>1. s \ {z} \in SUBSET S /\ s \ {z} \notin B /\ t \in s \ {z}
      BY <2>1, <2>3
    <3> HIDE DEF Bad
    <3> QED BY <3>1
  <2>7. /\ SumFunctionOnSet(f, s \ {y}) = f[x] + SumFunctionOnSet(f, Rest)
        /\ SumFunctionOnSet(f, s \ {x}) = f[y] + SumFunctionOnSet(f, Rest)
    <3>1. (s \ {y}) \ {x} = Rest
      OBVIOUS
    <3> QED BY <2>4, <2>5, <2>6, <3>1
  <2>8. /\ f[x] \in Int /\ f[y] \in Int
        /\ SumFunctionOnSet(f, Rest) \in Int
    <3>1. Rest \in SUBSET S
      BY <2>3
    <3>2. IsFiniteSet(Rest) /\ \A z \in Rest : f[z] \in Int
      BY <3>1, FS_Subset
    <3> HIDE DEF Rest
    <3> QED BY <2>3, <2>4, <3>2, SumInt
  <2> HIDE DEF Rest
  <2> QED BY <2>2, <2>4, <2>7, <2>8
<1> QED BY <1>1

LEMMA SumZero ==
    ASSUME NEW f, NEW S, IsFiniteSet(S), \A x \in S : f[x] = 0
    PROVE  SumFunctionOnSet(f, S) = 0
<1> DEFINE B == {s \in SUBSET S : SumFunctionOnSet(f, s) # 0}
<1>1. B = {}
  <2> SUFFICES ASSUME B # {} PROVE FALSE
    OBVIOUS
  <2>1. PICK s \in B : \A t \in SUBSET s : t # s => t \notin B
    <3>1. B \in SUBSET (SUBSET S)
      OBVIOUS
    <3> HIDE DEF B
    <3> QED BY <3>1, SmallestSubset
  <2>2. s # {}
    <3>1. SumFunctionOnSet(f, {}) = 0
      BY SumEmpty
    <3> QED BY <2>1, <3>1
  <2>3. IsFiniteSet(s)
    BY <2>1, FS_Subset
  <2>4. /\ First(s) \in s
        /\ SumFunctionOnSet(f, s) =
              f[First(s)] + SumFunctionOnSet(f, s \ {First(s)})
    BY <2>2, <2>3, SumFirst
  <2>5. SumFunctionOnSet(f, s \ {First(s)}) = 0
    BY <2>1, <2>4
  <2> QED BY <2>1, <2>4, <2>5
<1> QED BY <1>1

\* A sum over S of values that are zero outside of T is the sum over T.
LEMMA SumPart ==
    ASSUME NEW f, NEW g, NEW S, IsFiniteSet(S), NEW T \in SUBSET S,
           \A x \in S : g[x] \in Nat,
           \A x \in T : f[x] = g[x],
           \A x \in S \ T : g[x] = 0
    PROVE  SumFunctionOnSet(g, S) = SumFunctionOnSet(f, T)
<1> DEFINE B == {s \in SUBSET S :
                  SumFunctionOnSet(g, s) # SumFunctionOnSet(f, s \cap T)}
<1>1. B = {}
  <2> SUFFICES ASSUME B # {} PROVE FALSE
    OBVIOUS
  <2>1. PICK s \in B : \A t \in SUBSET s : t # s => t \notin B
    <3>1. B \in SUBSET (SUBSET S)
      OBVIOUS
    <3> HIDE DEF B
    <3> QED BY <3>1, SmallestSubset
  <2>2. s # {}
    <3>1. {} \cap T = {} /\ SumFunctionOnSet(g, {}) = SumFunctionOnSet(f, {})
      BY SumEmpty
    <3> QED BY <2>1, <3>1
  <2>3. s \in SUBSET S /\ IsFiniteSet(s)
    BY <2>1, FS_Subset
  <2> DEFINE x == First(s)
             Rest == s \ {x}
  <2>4. x \in s /\ SumFunctionOnSet(g, s) = g[x] + SumFunctionOnSet(g, Rest)
    BY <2>2, <2>3, SumFirst
  <2> HIDE DEF x
  <2>5. SumFunctionOnSet(g, Rest) = SumFunctionOnSet(f, Rest \cap T)
    BY <2>1, <2>3, <2>4
  <2>6. CASE x \in T
    <3>1. s \cap T \in SUBSET S /\ (s \cap T) \ {x} = Rest \cap T
      OBVIOUS
    <3>2. IsFiniteSet(s \cap T) /\ \A z \in s \cap T : f[z] \in Nat
      BY <3>1, FS_Subset
    <3>3. SumFunctionOnSet(f, s \cap T) =
            f[x] + SumFunctionOnSet(f, Rest \cap T)
      <4>1. x \in s \cap T
        BY <2>4, <2>6
      <4>2. SumFunctionOnSet(f, s \cap T) =
              f[x] + SumFunctionOnSet(f, (s \cap T) \ {x})
        BY <3>2, <4>1, SumRemove
      <4> QED BY <3>1, <4>2, Zenon
    <3>4. f[x] = g[x]
      BY <2>6
    <3> HIDE DEF Rest
    <3>5. SumFunctionOnSet(g, s) = SumFunctionOnSet(f, s \cap T)
      BY <2>4, <2>5, <3>3, <3>4
    <3> QED BY <2>1, <3>5
  <2>7. CASE x \notin T
    <3>1. SumFunctionOnSet(f, Rest \cap T) = SumFunctionOnSet(f, s \cap T)
      <4>1. Rest \cap T = s \cap T
        BY <2>7
      <4> QED BY <4>1, Zenon
    <3>2. g[x] = 0
      BY <2>3, <2>4, <2>7
    <3>3. SumFunctionOnSet(g, Rest) \in Nat
      <4>1. IsFiniteSet(Rest) /\ Rest \in SUBSET S
        BY <2>3, FS_Subset
      <4> HIDE DEF Rest
      <4> QED BY <4>1, SumNat
    <3> HIDE DEF Rest
    <3>4. SumFunctionOnSet(g, s) = SumFunctionOnSet(f, s \cap T)
      BY <2>4, <2>5, <3>1, <3>2, <3>3
    <3> QED BY <2>1, <3>4
  <2> QED BY <2>6, <2>7
<1>2. S \cap T = T /\ S \in SUBSET S
  OBVIOUS
<1> HIDE DEF B
<1>3. S \notin B
  BY <1>1
<1> QED BY <1>2, <1>3 DEF B

\* Sums are monotonic in the values.
LEMMA SumLeq ==
    ASSUME NEW f, NEW g, NEW S, IsFiniteSet(S),
           \A x \in S : f[x] \in Nat /\ g[x] \in Nat /\ f[x] <= g[x]
    PROVE  SumFunctionOnSet(f, S) <= SumFunctionOnSet(g, S)
<1> DEFINE B == {s \in SUBSET S :
                  ~ (SumFunctionOnSet(f, s) <= SumFunctionOnSet(g, s))}
<1>1. B = {}
  <2> SUFFICES ASSUME B # {} PROVE FALSE
    OBVIOUS
  <2>1. PICK s \in B : \A t \in SUBSET s : t # s => t \notin B
    <3>1. B \in SUBSET (SUBSET S)
      OBVIOUS
    <3> HIDE DEF B
    <3> QED BY <3>1, SmallestSubset
  <2>2. s # {}
    <3>1. SumFunctionOnSet(f, {}) <= SumFunctionOnSet(g, {})
      BY SumEmpty
    <3> QED BY <2>1, <3>1
  <2>3. s \in SUBSET S /\ IsFiniteSet(s)
    BY <2>1, FS_Subset
  <2> DEFINE x == First(s)
             Rest == s \ {x}
  <2>4. /\ x \in s
        /\ SumFunctionOnSet(f, s) = f[x] + SumFunctionOnSet(f, Rest)
        /\ SumFunctionOnSet(g, s) = g[x] + SumFunctionOnSet(g, Rest)
    BY <2>2, <2>3, SumFirst
  <2> HIDE DEF x
  <2>5. SumFunctionOnSet(f, Rest) <= SumFunctionOnSet(g, Rest)
    BY <2>1, <2>3, <2>4
  <2>6. SumFunctionOnSet(f, Rest) \in Nat /\ SumFunctionOnSet(g, Rest) \in Nat
    <3>1. IsFiniteSet(Rest) /\ Rest \in SUBSET S
      BY <2>3, FS_Subset
    <3> HIDE DEF Rest
    <3> QED BY <3>1, SumNat
  <2>7. f[x] \in Nat /\ g[x] \in Nat /\ f[x] <= g[x]
    BY <2>3, <2>4
  <2> HIDE DEF Rest
  <2> QED BY <2>1, <2>4, <2>5, <2>6, <2>7
<1> QED BY <1>1

\* Two parts of a set.
LEMMA SumSplit ==
    ASSUME NEW f, NEW S, IsFiniteSet(S), NEW T \in SUBSET S,
           \A x \in S : f[x] \in Nat
    PROVE  SumFunctionOnSet(f, S) =
             SumFunctionOnSet(f, T) + SumFunctionOnSet(f, S \ T)
<1> DEFINE Split(s) == SumFunctionOnSet(f, s) =
             SumFunctionOnSet(f, s \cap T) + SumFunctionOnSet(f, s \ T)
           B == {s \in SUBSET S : ~ Split(s)}
<1>1. B = {}
  <2> SUFFICES ASSUME B # {} PROVE FALSE
    OBVIOUS
  <2>1. PICK s \in B : \A t \in SUBSET s : t # s => t \notin B
    <3>1. B \in SUBSET (SUBSET S)
      OBVIOUS
    <3> HIDE DEF B
    <3> QED BY <3>1, SmallestSubset
  <2>2. s # {}
    <3>1. {} \cap T = {} /\ {} \ T = {} /\ SumFunctionOnSet(f, {}) = 0
      BY SumEmpty
    <3>2. Split({})
      BY <3>1
    <3> HIDE DEF Split
    <3> QED BY <2>1, <3>2
  <2>3. s \in SUBSET S /\ IsFiniteSet(s)
    BY <2>1, FS_Subset
  <2> DEFINE x == First(s)
             Rest == s \ {x}
  <2>4. x \in s /\ SumFunctionOnSet(f, s) = f[x] + SumFunctionOnSet(f, Rest)
    BY <2>2, <2>3, SumFirst
  <2> HIDE DEF x
  <2>5. Split(Rest)
    <3>1. Rest \in SUBSET S /\ Rest \notin B
      BY <2>1, <2>3, <2>4
    <3> HIDE DEF Split
    <3> QED BY <3>1
  <2>6. \A t \in SUBSET s : /\ IsFiniteSet(t)
                            /\ \A z \in t : f[z] \in Nat
                            /\ SumFunctionOnSet(f, t) \in Nat
    <3> SUFFICES ASSUME NEW t \in SUBSET s
                 PROVE  /\ IsFiniteSet(t)
                        /\ \A z \in t : f[z] \in Nat
                        /\ SumFunctionOnSet(f, t) \in Nat
      OBVIOUS
    <3>1. IsFiniteSet(t) /\ \A z \in t : f[z] \in Nat
      BY <2>3, FS_Subset
    <3> QED BY <3>1, SumNat
  <2>7. CASE x \in T
    <3>1. (s \cap T) \ {x} = Rest \cap T /\ s \ T = Rest \ T /\ x \in s \cap T
      BY <2>4, <2>7
    <3>2. /\ SumFunctionOnSet(f, s \cap T) =
               f[x] + SumFunctionOnSet(f, Rest \cap T)
          /\ SumFunctionOnSet(f, s \ T) = SumFunctionOnSet(f, Rest \ T)
      <4>1. IsFiniteSet(s \cap T) /\ \A z \in s \cap T : f[z] \in Nat
        BY <2>6
      <4>2. SumFunctionOnSet(f, s \cap T) =
              f[x] + SumFunctionOnSet(f, (s \cap T) \ {x})
        BY <3>1, <4>1, SumRemove
      <4> QED BY <3>1, <4>2, Zenon
    <3>3. /\ f[x] \in Nat
          /\ SumFunctionOnSet(f, Rest \cap T) \in Nat
          /\ SumFunctionOnSet(f, Rest \ T) \in Nat
      BY <2>3, <2>4, <2>6
    <3> HIDE DEF Rest
    <3>4. Split(s)
      BY <2>4, <2>5, <3>2, <3>3
    <3> HIDE DEF Split
    <3> QED BY <2>1, <3>4
  <2>8. CASE x \notin T
    <3>1. (s \ T) \ {x} = Rest \ T /\ s \cap T = Rest \cap T /\ x \in s \ T
      BY <2>4, <2>8
    <3>2. /\ SumFunctionOnSet(f, s \ T) =
               f[x] + SumFunctionOnSet(f, Rest \ T)
          /\ SumFunctionOnSet(f, s \cap T) = SumFunctionOnSet(f, Rest \cap T)
      <4>1. IsFiniteSet(s \ T) /\ \A z \in s \ T : f[z] \in Nat
        BY <2>6
      <4>2. SumFunctionOnSet(f, s \ T) =
              f[x] + SumFunctionOnSet(f, (s \ T) \ {x})
        BY <3>1, <4>1, SumRemove
      <4> QED BY <3>1, <4>2, Zenon
    <3>3. /\ f[x] \in Nat
          /\ SumFunctionOnSet(f, Rest \cap T) \in Nat
          /\ SumFunctionOnSet(f, Rest \ T) \in Nat
      BY <2>3, <2>4, <2>6
    <3> HIDE DEF Rest
    <3>4. Split(s)
      BY <2>4, <2>5, <3>2, <3>3
    <3> HIDE DEF Split
    <3> QED BY <2>1, <3>4
  <2> QED BY <2>7, <2>8
<1>2. S \in SUBSET S /\ S \cap T = T
  OBVIOUS
<1>3. Split(S)
  BY <1>1, <1>2
<1> QED BY <1>2, <1>3

\* The sum of a function with a known domain.
LEMMA SumDomain ==
    ASSUME NEW S, NEW f, DOMAIN f = S
    PROVE  SumFunction(f) = SumFunctionOnSet(f, S)
  BY Zenon DEF SumFunction

\* Functions that agree on a set have the same sum over it.
LEMMA SumSame ==
    ASSUME NEW f, NEW g, NEW S, IsFiniteSet(S), \A x \in S : g[x] = f[x]
    PROVE  SumFunctionOnSet(g, S) = SumFunctionOnSet(f, S)
<1> DEFINE B == {s \in SUBSET S :
                  SumFunctionOnSet(g, s) # SumFunctionOnSet(f, s)}
<1>1. B = {}
  <2> SUFFICES ASSUME B # {} PROVE FALSE
    OBVIOUS
  <2>1. PICK s \in B : \A t \in SUBSET s : t # s => t \notin B
    <3>1. B \in SUBSET (SUBSET S)
      OBVIOUS
    <3> HIDE DEF B
    <3> QED BY <3>1, SmallestSubset
  <2>2. s # {}
    <3>1. SumFunctionOnSet(g, {}) = SumFunctionOnSet(f, {})
      BY SumEmpty
    <3> QED BY <2>1, <3>1
  <2>3. IsFiniteSet(s)
    BY <2>1, FS_Subset
  <2>4. /\ First(s) \in s
        /\ SumFunctionOnSet(f, s) =
              f[First(s)] + SumFunctionOnSet(f, s \ {First(s)})
        /\ SumFunctionOnSet(g, s) =
              g[First(s)] + SumFunctionOnSet(g, s \ {First(s)})
    BY <2>2, <2>3, SumFirst
  <2>5. SumFunctionOnSet(g, s \ {First(s)}) =
           SumFunctionOnSet(f, s \ {First(s)})
    BY <2>1, <2>4
  <2> QED BY <2>1, <2>4, <2>5
<1> QED BY <1>1

\* One more element.
LEMMA SumInsert ==
    ASSUME NEW f, NEW g, NEW S, IsFiniteSet(S), NEW x, x \notin S,
           \A y \in S : f[y] \in Int /\ g[y] = f[y],
           g[x] \in Int
    PROVE  SumFunctionOnSet(g, S \union {x}) = SumFunctionOnSet(f, S) + g[x]
<1> DEFINE U == S \union {x}
<1>1. IsFiniteSet(U)
  BY FS_AddElement
<1>2. x \in U /\ U \ {x} = S
  OBVIOUS
<1>3. \A y \in U : g[y] \in Int
  OBVIOUS
<1>4. SumFunctionOnSet(g, U) = g[x] + SumFunctionOnSet(g, U \ {x})
  <2> HIDE DEF U
  <2> QED
    BY <1>1, <1>2, <1>3, SumRemove
<1>5. SumFunctionOnSet(g, U \ {x}) = SumFunctionOnSet(g, S)
  BY <1>2, Zenon
<1>6. SumFunctionOnSet(g, S) = SumFunctionOnSet(f, S)
  BY SumSame
<1>7. SumFunctionOnSet(f, S) \in Int
  BY SumInt
<1> HIDE DEF U
<1>8. SumFunctionOnSet(g, U) = SumFunctionOnSet(f, S) + g[x]
  BY <1>4, <1>5, <1>6, <1>7
<1> QED
  BY <1>8 DEF U

\* On the set T the values of h come in the place of those of f.
LEMMA SumReplace ==
    ASSUME NEW f, NEW g, NEW h, NEW S, IsFiniteSet(S), NEW T \in SUBSET S,
           \A x \in S : f[x] \in Nat /\ g[x] \in Nat,
           \A x \in T : g[x] = h[x],
           \A x \in S \ T : g[x] = f[x]
    PROVE  /\ SumFunctionOnSet(f, S) \in Nat
           /\ SumFunctionOnSet(h, T) \in Nat
           /\ SumFunctionOnSet(g, S) <=
                SumFunctionOnSet(f, S) + SumFunctionOnSet(h, T)
           /\ (\A x \in T : f[x] = 0) =>
                SumFunctionOnSet(g, S) =
                  SumFunctionOnSet(f, S) + SumFunctionOnSet(h, T)
<1>1. IsFiniteSet(T) /\ IsFiniteSet(S \ T)
  BY FS_Subset, FS_Difference
<1>2. /\ SumFunctionOnSet(g, S) =
           SumFunctionOnSet(g, T) + SumFunctionOnSet(g, S \ T)
      /\ SumFunctionOnSet(f, S) =
           SumFunctionOnSet(f, T) + SumFunctionOnSet(f, S \ T)
  BY SumSplit
<1>3. SumFunctionOnSet(g, T) = SumFunctionOnSet(h, T)
  BY <1>1, SumSame
<1>4. SumFunctionOnSet(g, S \ T) = SumFunctionOnSet(f, S \ T)
  BY <1>1, SumSame
<1>5. /\ SumFunctionOnSet(f, T) \in Nat
      /\ SumFunctionOnSet(f, S \ T) \in Nat
      /\ SumFunctionOnSet(g, T) \in Nat
  BY <1>1, SumNat
<1>6. (\A x \in T : f[x] = 0) => SumFunctionOnSet(f, T) = 0
  BY <1>1, SumZero
<1> QED
  BY <1>2, <1>3, <1>4, <1>5, <1>6


-----------------------------------------------------------------------------
(***************************************************************************)
(* What a step does to the books: the steps of PgNext, those with the same *)
(* effect taken together.                                                  *)
(***************************************************************************)

NewOrder(u) == [user |-> u, status |-> "NEW", accrual |-> 0]

Accepted(u, o) ==
    /\ orders[o] = NoRow
    /\ orders' = [orders EXCEPT ![o] = NewOrder(u)]
    /\ UNCHANGED <<balances, withdrawals, written, pc, arg, batch, credited,
                   overlap>>

LEMMA BookCases ==
    ASSUME [PgNext]_pgVars
    PROVE  \/ UNCHANGED <<tables, written, pc, arg, batch, credited, overlap>>
           \/ \E u \in Users, o \in OrderIds : Accepted(u, o)
           \/ \E h \in Handlers, u \in Users, o \in OrderIds, m \in Sums :
                 InsertWithdraw(h, u, o, m)
           \/ \E h \in Handlers : \/ SelectEnough(h)
                                  \/ DecBalance(h)
                                  \/ InsertWithdrawal(h)
           \/ \E b \in [OrderIds -> Rows \union {NoRow}] :
                 UpdateOrdersBalancesBatch(b) /\ Batch(b)
           \/ \E o \in OrderIds : UpdateOrder(o) \/ CreditBalance(o)
           \/ \E t \in Txns : Rollback(t)
           \/ \E t \in Txns : /\ AtCommit(t)
                              /\ Publish(t) /\ Release(t)
                              /\ UNCHANGED overlap
           \/ \E t \in Callers : LoseCommit(t)
           \/ Restart
<1> USE DEF Txns, Callers
<1>1. ASSUME NEW h \in Handlers, Request(h)
      PROVE  \/ UNCHANGED <<tables, written, pc, arg, batch, credited,
                             overlap>>
             \/ \E u \in Users, o \in OrderIds : Accepted(u, o)
             \/ \E u \in Users, o \in OrderIds, m \in Sums :
                   InsertWithdraw(h, u, o, m)
  BY <1>1 DEF Request, InsertOrder, InsertOrderFails, Accepted, NewOrder,
              tables
<1>2. ASSUME NEW h \in Handlers, Statement(h)
      PROVE  \/ SelectEnough(h) \/ DecBalance(h) \/ InsertWithdrawal(h)
             \/ Rollback(h)
  BY <1>2 DEF Statement, SelectNotEnough, SelectFails, WithdrawalExists
<1>3. ASSUME NEW o \in OrderIds, BatchStatement(o)
      PROVE  UpdateOrder(o) \/ CreditBalance(o) \/ Rollback(Loop)
  BY <1>3 DEF BatchStatement, UpdateRejected
<1>4. ASSUME NEW t \in Callers, Commit(t) \/ Fail(t)
      PROVE  \/ AtCommit(t) /\ Publish(t) /\ Release(t) /\ UNCHANGED overlap
             \/ Rollback(t)
  BY <1>4 DEF Commit, Fail
<1>5. ASSUME LateCommit \/ LateAbort
      PROVE  \/ /\ AtCommit(Zombie) /\ Publish(Zombie) /\ Release(Zombie)
                /\ UNCHANGED overlap
             \/ Rollback(Zombie)
  BY <1>5 DEF LateCommit, LateAbort, AtCommit, Rollback
<1>6. CASE UNCHANGED pgVars
  BY <1>6 DEF pgVars, tables, written
<1>7. CASE PgNext
  <2>1. CASE \E h \in Handlers : Request(h) \/ Statement(h)
    BY <2>1, <1>1, <1>2
  <2>2. CASE \E b \in [OrderIds -> Rows \union {NoRow}] :
                UpdateOrdersBalancesBatch(b) /\ Batch(b) /\ Bounded(b)
    BY <2>2
  <2>3. CASE \E o \in OrderIds : BatchStatement(o)
    BY <2>3, <1>3
  <2>4. CASE \E t \in Callers : Commit(t) \/ Fail(t) \/ LoseCommit(t)
    BY <2>4, <1>4
  <2>5. CASE LateCommit \/ LateAbort
    BY <2>5, <1>5
  <2>6. CASE Restart
    BY <2>6
  <2> QED
    BY <1>7, <2>1, <2>2, <2>3, <2>4, <2>5, <2>6 DEF PgNext
<1> QED
  BY <1>6, <1>7

\* What a transaction leaves when it ends.
LEMMA Released ==
    ASSUME TypeOK, NEW t \in Txns, Release(t)
    PROVE  /\ \A s \in Txns, o \in OrderIds :
                 /\ uOrders'[s][o] = IF s = t THEN NoRow ELSE uOrders[s][o]
                 /\ uWithdrawals'[s][o] = IF s = t THEN NoRow
                                                   ELSE uWithdrawals[s][o]
           /\ \A s \in Txns, u \in Users :
                 uBalances'[s][u] = IF s = t THEN NoRow ELSE uBalances[s][u]
           /\ \A s \in Txns : /\ pc'[s] = IF s = t THEN "idle" ELSE pc[s]
                              /\ arg'[s] = IF s = t THEN NoRow ELSE arg[s]
           /\ t = Loop => batch' = NoOrders /\ credited' = {}
           /\ t # Loop => batch' = batch /\ credited' = credited
  BY DEF TypeOK, Release, NoOrders, NoBalances

LEMMA Published ==
    ASSUME TypeOK, NEW t \in Txns, Publish(t)
    PROVE  \A o \in OrderIds :
              /\ orders'[o] = IF uOrders[t][o] # NoRow THEN uOrders[t][o]
                                                       ELSE orders[o]
              /\ withdrawals'[o] = IF uWithdrawals[t][o] # NoRow
                                   THEN uWithdrawals[t][o] ELSE withdrawals[o]
  BY DEF TypeOK, Publish, Over

\* What a lost COMMIT has written goes on to the Zombie.
LEMMA Lost ==
    ASSUME TypeOK, NEW t \in Callers, LoseCommit(t)
    PROVE  /\ t \in Txns /\ Zombie \in Txns /\ Loop \in Txns
           /\ t # Zombie /\ Loop # Zombie
           /\ UNCHANGED <<orders, balances, withdrawals, overlap>>
           /\ pc[Zombie] = "idle" /\ pc[t] \in {"commit", "batch"}
           /\ pc[t] = "batch" => credited = InBatch
           /\ \A s \in Txns, o \in OrderIds :
                 /\ uOrders'[s][o] = IF s = t THEN NoRow
                                     ELSE IF s = Zombie THEN uOrders[t][o]
                                     ELSE uOrders[s][o]
                 /\ uWithdrawals'[s][o] = IF s = t THEN NoRow
                                          ELSE IF s = Zombie
                                          THEN uWithdrawals[t][o]
                                          ELSE uWithdrawals[s][o]
           /\ \A s \in Txns, u \in Users :
                 uBalances'[s][u] = IF s = t THEN NoRow
                                    ELSE IF s = Zombie THEN uBalances[t][u]
                                    ELSE uBalances[s][u]
           /\ \A s \in Txns :
                 /\ pc'[s] = IF s = t THEN "idle"
                             ELSE IF s = Zombie THEN "commit" ELSE pc[s]
                 /\ arg'[s] = IF s = t THEN NoRow
                              ELSE IF s = Zombie THEN arg[t] ELSE arg[s]
           /\ t = Loop => batch' = NoOrders /\ credited' = {}
           /\ t # Loop => batch' = batch /\ credited' = credited
<1>1. /\ t \in Txns /\ Zombie \in Txns /\ Loop \in Txns
      /\ t # Zombie /\ Loop # Zombie
  BY PgAssumption DEF Txns, Callers
<1> QED
  BY <1>1 DEF LoseCommit, AtCommit, TypeOK, NoOrders, NoBalances, tables

-----------------------------------------------------------------------------
(***************************************************************************)
(* The rows that transactions have written.                                *)
(***************************************************************************)

LEMMA RowsWrittenRelease ==
    ASSUME TypeOK, PcShape, RowsWritten, NEW t \in Txns, Rollback(t)
    PROVE  RowsWritten'
<1> USE DEF RowsWritten
<1>1. UNCHANGED <<orders, withdrawals>> /\ Release(t)
  BY DEF Rollback, tables
<1>2. Loop \in Txns
  BY DEF Txns
<1>3. OnlyBatches' /\ OwnersKept' /\ WrittenOnce' /\ AskedRecorded'
  BY <1>1, Released DEF OnlyBatches, OwnersKept, WrittenOnce, AskedRecorded
<1>4. BatchOwned' /\ BatchWritten'
  BY <1>1, <1>2, Released
     DEF BatchOwned, BatchWritten, InBatch, Present, NoOrders, TypeOK
<1> QED
  BY <1>3, <1>4

LEMMA RowsWrittenCommit ==
    ASSUME TypeOK, PcShape, RowsWritten, NEW t \in Txns, Publish(t), Release(t)
    PROVE  RowsWritten'
<1> USE DEF RowsWritten
<1>1. Loop \in Txns
  BY DEF Txns
<1>2. OnlyBatches' /\ OwnersKept' /\ AskedRecorded'
  BY Released, Published DEF OnlyBatches, OwnersKept, AskedRecorded
<1>3. WrittenOnce'
  BY Released, Published DEF WrittenOnce
<1>4. CASE t = Loop
  <2>1. InBatch' = {} /\ credited' = {}
    BY <1>4, Released DEF InBatch, Present, NoOrders
  <2>2. \A o \in OrderIds : uOrders'[Loop][o] = NoRow
    BY <1>1, <1>4, Released
  <2> QED
    BY <1>2, <1>3, <2>1, <2>2 DEF BatchOwned, BatchWritten
<1>5. CASE t # Loop
  <2>1. batch' = batch /\ credited' = credited /\ InBatch' = InBatch
    BY <1>5, Released DEF InBatch
  <2>2. \A o \in OrderIds : uOrders'[Loop][o] = uOrders[Loop][o]
    BY <1>1, <1>5, Released
  <2>3. InBatch \subseteq OrderIds
    BY DEF InBatch, Present, TypeOK
  <2>4. BatchWritten'
    BY <2>1, <2>2, <2>3 DEF BatchWritten
  <2>5. BatchOwned'
    BY <2>1, <2>3, Published DEF BatchOwned, OwnersKept
  <2> QED
    BY <1>2, <1>3, <2>4, <2>5
<1> QED
  BY <1>4, <1>5

LEMMA RowsWrittenLose ==
    ASSUME TypeOK, PcShape, RowsWritten, NEW t \in Callers, LoseCommit(t)
    PROVE  RowsWritten'
<1> USE DEF RowsWritten
<1>1. OnlyBatches' /\ OwnersKept' /\ WrittenOnce'
  BY Lost DEF OnlyBatches, OwnersKept, WrittenOnce
<1>2. AskedRecorded'
  <2> SUFFICES ASSUME NEW s \in Txns, NEW o \in OrderIds
               PROVE  /\ uWithdrawals'[s][o] # NoRow <=>
                           arg'[s] # NoRow /\ pc'[s] = "commit"
                                          /\ arg'[s].order = o
                      /\ uWithdrawals'[s][o] # NoRow =>
                           uWithdrawals'[s][o] =
                              [user |-> arg'[s].user,
                               sum  |-> Round(arg'[s].sum)]
    BY DEF AskedRecorded
  <2>1. CASE s = t
    BY <2>1, Lost
  <2>2. CASE s = Zombie
    <3>1. t \in Txns /\ t # Zombie /\ pc[t] \in {"commit", "batch"}
      BY Lost
    <3>2. /\ uWithdrawals'[s][o] = uWithdrawals[t][o]
          /\ pc'[s] = "commit" /\ arg'[s] = arg[t]
      BY <2>2, <3>1, Lost
    <3>3. arg[t] # NoRow => pc[t] = "commit"
      BY <3>1 DEF PcShape, Txns
    <3> QED
      BY <3>1, <3>2, <3>3 DEF AskedRecorded
  <2>3. CASE s # t /\ s # Zombie
    <3>1. /\ uWithdrawals'[s][o] = uWithdrawals[s][o]
          /\ pc'[s] = pc[s] /\ arg'[s] = arg[s]
      BY <2>3, Lost
    <3> QED
      BY <3>1 DEF AskedRecorded
  <2> QED
    BY <2>1, <2>2, <2>3
<1>3. BatchOwned' /\ BatchWritten'
  BY Lost DEF BatchOwned, BatchWritten, InBatch, Present, NoOrders, TypeOK
<1> QED
  BY <1>1, <1>2, <1>3

\* The order number is new, so no transaction is writing its row.
LEMMA RowsWrittenAccept ==
    ASSUME TypeOK, PcShape, RowsWritten, NEW u \in Users, NEW o \in OrderIds,
           Accepted(u, o)
    PROVE  RowsWritten'
<1> USE DEF RowsWritten, Accepted, written
<1>1. /\ orders[o] = NoRow
      /\ \A p \in OrderIds \ {o} : orders'[p] = orders[p]
  BY DEF TypeOK
<1>2. /\ \A t \in Txns : uOrders[t][o] = NoRow
      /\ o \notin InBatch
  BY <1>1 DEF OwnersKept, BatchOwned
<1>3. InBatch' = InBatch /\ InBatch \subseteq OrderIds
  BY DEF InBatch, Present, TypeOK
<1>4. OwnersKept'
  BY <1>1, <1>2 DEF OwnersKept
<1>5. BatchOwned'
  BY <1>1, <1>2, <1>3 DEF BatchOwned
<1>6. OnlyBatches' /\ WrittenOnce' /\ AskedRecorded'
  BY DEF OnlyBatches, WrittenOnce, AskedRecorded
<1>7. BatchWritten'
  BY <1>3 DEF BatchWritten
<1> QED
  BY <1>4, <1>5, <1>6, <1>7

\* A withdrawal that starts, compares or takes the sum records nothing yet.
LEMMA RowsWrittenAsk ==
    ASSUME TypeOK, PcShape, RowsWritten, NEW h \in Handlers,
           UNCHANGED <<orders, withdrawals, uOrders, uWithdrawals, batch,
                       credited>>,
           pc[h] # "commit", pc'[h] # "commit", pc'[h] # "idle",
           \A s \in Txns \ {h} : pc'[s] = pc[s] /\ arg'[s] = arg[s]
    PROVE  RowsWritten'
<1> USE DEF RowsWritten
<1>1. h \in Txns /\ h # Loop /\ h # Zombie
  BY PgAssumption DEF Txns
<1>2. OnlyBatches'
  BY <1>1 DEF OnlyBatches
<1>3. OwnersKept' /\ WrittenOnce'
  BY DEF OwnersKept, WrittenOnce
<1>4. AskedRecorded'
  <2>1. \A p \in OrderIds : uWithdrawals'[h][p] = NoRow
    BY <1>1 DEF AskedRecorded
  <2>2. \A s \in Txns \ {h} : /\ pc'[s] = pc[s] /\ arg'[s] = arg[s]
                              /\ uWithdrawals'[s] = uWithdrawals[s]
    OBVIOUS
  <2> QED
    BY <1>1, <2>1, <2>2 DEF AskedRecorded
<1>5. BatchOwned' /\ BatchWritten'
  BY DEF BatchOwned, BatchWritten, InBatch
<1> QED
  BY <1>2, <1>3, <1>4, <1>5

\* The INSERT finds the number free: no other transaction is recording it.
LEMMA RowsWrittenRecord ==
    ASSUME TypeOK, PcShape, RowsWritten, NEW h \in Handlers,
           InsertWithdrawal(h)
    PROVE  RowsWritten'
<1> USE DEF RowsWritten, tables
<1> DEFINE o == arg[h].order
           w == [user |-> arg[h].user, sum |-> Round(arg[h].sum)]
<1>1. h \in Txns /\ h # Loop /\ h # Zombie
  BY PgAssumption DEF Txns
<1>2. /\ arg[h] # NoRow /\ pc[h] = "insert"
      /\ arg[h].user \in Users /\ o \in OrderIds /\ arg[h].sum \in Int
  BY <1>1, AskedType DEF InsertWithdrawal, PcShape
<1>3. w # NoRow
  BY <1>2, RoundInt, PgAssumption DEF Withdrawal
<1>4. UNCHANGED <<orders, withdrawals, uOrders, arg, batch, credited>>
  BY DEF InsertWithdrawal
<1>5. /\ pc'[h] = "commit" /\ uWithdrawals'[h][o] = w
      /\ \A p \in OrderIds \ {o} : uWithdrawals'[h][p] = uWithdrawals[h][p]
      /\ \A s \in Txns \ {h} : /\ pc'[s] = pc[s]
                                /\ \A p \in OrderIds :
                                      uWithdrawals'[s][p] = uWithdrawals[s][p]
  BY <1>1, <1>2 DEF InsertWithdrawal, TypeOK
<1>6. /\ withdrawals[o] = NoRow
      /\ \A s \in Txns \ {h} : uWithdrawals[s][o] = NoRow
  BY DEF InsertWithdrawal, WithdrawalFree
<1>7. \A p \in OrderIds : uWithdrawals[h][p] = NoRow
  BY <1>1, <1>2 DEF AskedRecorded
<1> HIDE DEF o, w
<1>8. OnlyBatches'
  BY <1>1, <1>4, <1>5 DEF OnlyBatches
<1>9. OwnersKept'
  BY <1>4 DEF OwnersKept
<1>10. WrittenOnce'
  BY <1>1, <1>4, <1>5, <1>6, <1>7 DEF WrittenOnce
<1>11. AskedRecorded'
  <2>1. \A p \in OrderIds :
           /\ uWithdrawals'[h][p] # NoRow <=>
                arg'[h] # NoRow /\ pc'[h] = "commit" /\ arg'[h].order = p
           /\ uWithdrawals'[h][p] # NoRow =>
                uWithdrawals'[h][p] = [user |-> arg'[h].user,
                                       sum  |-> Round(arg'[h].sum)]
    BY <1>2, <1>3, <1>4, <1>5, <1>7 DEF o, w
  <2> QED
    BY <1>4, <1>5, <2>1 DEF AskedRecorded
<1>12. BatchOwned' /\ BatchWritten'
  BY <1>4 DEF BatchOwned, BatchWritten, InBatch
<1> QED
  BY <1>8, <1>9, <1>10, <1>11, <1>12

\* A batch starts with nothing written.
LEMMA RowsWrittenBatch ==
    ASSUME TypeOK, PcShape, RowsWritten,
           NEW b \in [OrderIds -> Rows \union {NoRow}],
           UpdateOrdersBalancesBatch(b), Batch(b)
    PROVE  RowsWritten'
<1> USE DEF RowsWritten, tables, written
<1>1. Loop \in Txns
  BY DEF Txns
<1>2. /\ UNCHANGED <<orders, withdrawals, uOrders, uWithdrawals, arg>>
      /\ pc[Loop] = "idle" /\ pc'[Loop] = "batch"
      /\ \A s \in Txns \ {Loop} : pc'[s] = pc[s]
      /\ batch' = b /\ credited' = {}
  BY <1>1 DEF UpdateOrdersBalancesBatch, TypeOK
<1>3. \A o \in OrderIds : uOrders[Loop][o] = NoRow
  BY <1>1, <1>2 DEF OnlyBatches
<1>4. arg[Loop] = NoRow
  BY DEF PcShape
<1>5. OnlyBatches'
  BY <1>1, <1>2, <1>3 DEF OnlyBatches
<1>6. AskedRecorded'
  BY <1>1, <1>2, <1>4 DEF AskedRecorded
<1>7. OwnersKept' /\ WrittenOnce'
  BY <1>2 DEF OwnersKept, WrittenOnce
<1>8. BatchOwned'
  BY <1>2 DEF BatchOwned, InBatch, Batch
<1>9. BatchWritten'
  BY <1>2, <1>3 DEF BatchWritten
<1> QED
  BY <1>5, <1>6, <1>7, <1>8, <1>9

\* The batch writes the row of an order of its own, for the user it has.
LEMMA RowsWrittenUpdate ==
    ASSUME TypeOK, PcShape, RowsWritten, NEW o \in OrderIds, UpdateOrder(o)
    PROVE  RowsWritten'
<1> USE DEF RowsWritten, tables
<1> DEFINE r == [user    |-> orders[o].user,
                 status  |-> batch[o].status,
                 accrual |-> Round(batch[o].accrual)]
<1>1. Loop \in Txns
  BY DEF Txns
<1>2. /\ pc[Loop] = "batch" /\ o \in InBatch /\ uOrders[Loop][o] = NoRow
      /\ orders[o] # NoRow
      /\ \A s \in Txns \ {Loop} : uOrders[s][o] = NoRow
      /\ UNCHANGED <<orders, withdrawals, uWithdrawals, pc, arg, batch,
                     credited>>
  BY DEF UpdateOrder, OrderFree
<1>3. /\ uOrders'[Loop][o] = r
      /\ \A p \in OrderIds \ {o} : uOrders'[Loop][p] = uOrders[Loop][p]
      /\ \A s \in Txns \ {Loop} : \A p \in OrderIds :
            uOrders'[s][p] = uOrders[s][p]
  BY <1>1 DEF UpdateOrder, TypeOK
<1>4. batch[o] \in Rows /\ orders[o].user = batch[o].user
  BY <1>2 DEF TypeOK, InBatch, Present, BatchOwned
<1>5. PICK a \in Updates : /\ batch[o].status = a.status
                           /\ batch[o].accrual = a.accrual
  BY <1>4 DEF Rows
<1>6. r # NoRow
  <2>1. r \in Order
    BY <1>2, <1>4, RowType, RoundNat DEF Order, UpdateOrder
  <2> QED
    BY <2>1, PgAssumption
<1>7. /\ r.status = a.status /\ r.accrual = Round(a.accrual)
      /\ r.user = orders[o].user
      /\ r = [user |-> batch[o].user, status |-> batch[o].status,
              accrual |-> Round(batch[o].accrual)]
  BY <1>4, <1>5
<1> HIDE DEF r
<1>8. arg[Loop] = NoRow
  BY DEF PcShape
<1>9. OnlyBatches'
  <2>1. ASSUME NEW p \in OrderIds, uOrders'[Loop][p] # NoRow
        PROVE  \E c \in Updates :
                  /\ uOrders'[Loop][p].status = c.status
                  /\ uOrders'[Loop][p].accrual = Round(c.accrual)
    BY <1>1, <1>3, <1>7, <2>1 DEF OnlyBatches
  <2>2. \A s \in Txns \ {Loop}, p \in OrderIds : uOrders'[s][p] = uOrders[s][p]
    BY <1>3
  <2>3. ASSUME NEW s \in Txns, NEW p \in OrderIds, uOrders'[s][p] # NoRow
        PROVE  /\ s \in {Loop, Zombie} /\ arg[s] = NoRow /\ pc[s] # "idle"
               /\ \E c \in Updates :
                     /\ uOrders'[s][p].status = c.status
                     /\ uOrders'[s][p].accrual = Round(c.accrual)
    <3>1. CASE s = Loop
      BY <1>2, <1>8, <2>1, <2>3, <3>1
    <3>2. CASE s # Loop
      BY <2>2, <2>3, <3>2 DEF OnlyBatches
    <3> QED
      BY <3>1, <3>2
  <2> QED
    BY <1>2, <2>3 DEF OnlyBatches
<1>10. OwnersKept'
  BY <1>1, <1>2, <1>3, <1>7 DEF OwnersKept
<1>11. BatchOwned' /\ WrittenOnce' /\ AskedRecorded'
  BY <1>2 DEF BatchOwned, WrittenOnce, AskedRecorded, InBatch
<1>12. BatchWritten'
  <2>1. credited = {}
    BY <1>2 DEF BatchWritten
  <2>2. InBatch' = InBatch
    BY <1>2 DEF InBatch
  <2> QED
    BY <1>1, <1>2, <1>3, <1>7, <2>1, <2>2 DEF BatchWritten
<1> QED
  BY <1>9, <1>10, <1>11, <1>12

LEMMA RowsWrittenCredit ==
    ASSUME TypeOK, PcShape, RowsWritten, NEW o \in OrderIds, CreditBalance(o)
    PROVE  RowsWritten'
<1> USE DEF RowsWritten, tables
<1>1. /\ o \in InBatch
      /\ \A p \in InBatch : uOrders[Loop][p] # NoRow
      /\ credited' = credited \union {o}
      /\ UNCHANGED <<orders, withdrawals, uOrders, uWithdrawals, pc, arg,
                     batch>>
  BY DEF CreditBalance
<1>2. OnlyBatches' /\ OwnersKept' /\ WrittenOnce' /\ AskedRecorded'
  BY <1>1 DEF OnlyBatches, OwnersKept, WrittenOnce, AskedRecorded
<1>3. InBatch' = InBatch /\ InBatch \subseteq OrderIds
  BY <1>1 DEF InBatch, Present, TypeOK
<1>4. BatchOwned' /\ BatchWritten'
  BY <1>1, <1>3 DEF BatchOwned, BatchWritten
<1> QED
  BY <1>2, <1>4

\* Nothing is written when the process starts.
LEMMA NothingWritten ==
    ASSUME \A t \in Txns, o \in OrderIds :
              uOrders[t][o] = NoRow /\ uWithdrawals[t][o] = NoRow,
           \A t \in Txns : arg[t] = NoRow,
           InBatch = {}, credited = {}
    PROVE  RowsWritten
  BY DEF RowsWritten, OnlyBatches, OwnersKept, BatchOwned, WrittenOnce,
         AskedRecorded, BatchWritten, Txns

LEMMA RowsWrittenStep ==
    ASSUME TypeOK, PcShape, RowsWritten, [PgNext]_pgVars
    PROVE  RowsWritten'
<1>1. CASE UNCHANGED <<tables, written, pc, arg, batch, credited, overlap>>
  BY <1>1 DEF RowsWritten, OnlyBatches, OwnersKept, BatchOwned, WrittenOnce,
              AskedRecorded, BatchWritten, InBatch, tables, written
<1>2. ASSUME NEW h \in Handlers, NEW u \in Users, NEW o \in OrderIds,
             NEW m \in Sums, InsertWithdraw(h, u, o, m)
      PROVE  RowsWritten'
  BY <1>2, RowsWrittenAsk DEF InsertWithdraw, TypeOK, Txns, tables, written
<1>3. ASSUME NEW h \in Handlers, SelectEnough(h)
      PROVE  RowsWritten'
  BY <1>3, RowsWrittenAsk DEF SelectEnough, TypeOK, Txns, tables, written
<1>4. ASSUME NEW h \in Handlers, DecBalance(h)
      PROVE  RowsWritten'
  BY <1>4, RowsWrittenAsk DEF DecBalance, TypeOK, Txns, tables
<1>5. CASE Restart
  <2>1. /\ \A t \in Txns, o \in OrderIds :
               uOrders'[t][o] = NoRow /\ uWithdrawals'[t][o] = NoRow
        /\ \A t \in Txns : arg'[t] = NoRow
        /\ InBatch' = {} /\ credited' = {}
    BY <1>5 DEF Restart, NoOrders, InBatch, Present
  <2> QED
    BY <2>1 DEF RowsWritten, OnlyBatches, OwnersKept, BatchOwned, WrittenOnce,
                AskedRecorded, BatchWritten, Txns
<1> QED
  BY <1>1, <1>2, <1>3, <1>4, <1>5, BookCases, RowsWrittenAccept,
     RowsWrittenRecord, RowsWrittenBatch, RowsWrittenUpdate, RowsWrittenCredit,
     RowsWrittenRelease, RowsWrittenCommit, RowsWrittenLose

-----------------------------------------------------------------------------
(***************************************************************************)
(* What a batch pays.                                                      *)
(***************************************************************************)

\* The row of balances that goes with the rows `rows` of the orders S.
Pay(row, held, S, rows) ==
    /\ row # NoRow <=> S # {}
    /\ row # NoRow =>
         row = [current   |-> held.current
                                + SumFunction([o \in S |-> rows[o].accrual]),
                withdrawn |-> held.withdrawn]

Pays(t, u) == arg[t] = NoRow =>
                Pay(uBalances[t][u], Held(u), PaidBy(t, u), uOrders[t])

LEMMA BatchPaysEach == BatchPays <=> \A t \in Txns, u \in Users : Pays(t, u)
  BY DEF BatchPays, Pays, Pay

\* Nothing written, nothing paid.
LEMMA PaysNothing ==
    ASSUME NEW row, NEW held, NEW S, NEW rows, row = NoRow, S = {}
    PROVE  Pay(row, held, S, rows)
  BY DEF Pay

LEMMA PaidBySame ==
    ASSUME NEW t \in Txns, NEW u \in Users, uOrders'[t] = uOrders[t],
           t = Loop => credited' = credited
    PROVE  PaidBy(t, u)' = PaidBy(t, u)
  BY DEF PaidBy

\* A transaction that did nothing in this step, to a row that stayed.
LEMMA PaysSame ==
    ASSUME NEW t \in Txns, NEW u \in Users, Pays(t, u),
           arg'[t] = arg[t], uOrders'[t] = uOrders[t],
           uBalances'[t][u] = uBalances[t][u],
           t = Loop => credited' = credited,
           uBalances[t][u] # NoRow => Held(u)' = Held(u)
    PROVE  Pays(t, u)'
<1>1. PaidBy(t, u)' = PaidBy(t, u)
  BY PaidBySame
<1> SUFFICES ASSUME arg[t] = NoRow
             PROVE  Pay(uBalances[t][u], Held(u)', PaidBy(t, u), uOrders[t])
  BY <1>1, Zenon DEF Pays
<1>2. Pay(uBalances[t][u], Held(u), PaidBy(t, u), uOrders[t])
  BY DEF Pays
<1>3. CASE uBalances[t][u] = NoRow
  BY <1>2, <1>3 DEF Pay
<1>4. CASE uBalances[t][u] # NoRow
  BY <1>2, <1>4, Zenon
<1> QED
  BY <1>3, <1>4

\* The orders that are paid are orders whose rows the batch has written.
LEMMA PaidFinite ==
    ASSUME TypeOK, RowsWritten, NEW t \in Txns, NEW u \in Users
    PROVE  /\ IsFiniteSet(PaidBy(t, u))
           /\ \A o \in PaidBy(t, u) : /\ o \in OrderIds
                                      /\ uOrders[t][o] # NoRow
                                      /\ uOrders[t][o] \in Order
                                      /\ uOrders[t][o].accrual \in Nat
                                      /\ orders[o] # NoRow
                                      /\ orders[o].user = u
<1>1. \A o \in PaidBy(t, u) : o \in OrderIds /\ uOrders[t][o] # NoRow
                              /\ uOrders[t][o].user = u
  <2>1. credited # {} => \A o \in InBatch : uOrders[Loop][o] # NoRow
    BY DEF RowsWritten, BatchWritten
  <2>2. credited \subseteq InBatch
    BY DEF RowsWritten, BatchWritten
  <2>3. InBatch \subseteq OrderIds
    BY DEF TypeOK, InBatch, Present
  <2>4. Present(uOrders[t]) \subseteq {o \in OrderIds : uOrders[t][o] # NoRow}
    BY DEF TypeOK, Present
  <2> QED
    BY <2>1, <2>2, <2>3, <2>4 DEF PaidBy
<1>2. PaidBy(t, u) \subseteq OrderIds
  BY <1>1
<1>3. IsFiniteSet(PaidBy(t, u))
  BY <1>2, OrderIdsFinite, FS_Subset
<1>4. \A o \in PaidBy(t, u) : /\ uOrders[t][o] \in Order
                              /\ uOrders[t][o].accrual \in Nat
  BY <1>1 DEF TypeOK, Order
<1> QED
  BY <1>1, <1>3, <1>4 DEF RowsWritten, OwnersKept

\* At its COMMIT a batch has paid all it has written.
LEMMA PaidAll ==
    ASSUME TypeOK, PcShape, RowsWritten, NEW t \in Txns, NEW u \in Users,
           AtCommit(t)
    PROVE  PaidBy(t, u) = {o \in Present(uOrders[t]) : uOrders[t][o].user = u}
<1>1. CASE t # Loop
  BY <1>1 DEF PaidBy
<1>2. CASE t = Loop
  <2>1. credited = InBatch
    BY <1>2 DEF AtCommit, PcShape
  <2>2. Present(uOrders[Loop]) \subseteq InBatch
    BY <1>2 DEF RowsWritten, BatchWritten, Present, TypeOK
  <2>3. InBatch \subseteq Present(uOrders[Loop])
    BY <1>2, <2>1 DEF RowsWritten, BatchWritten, Present, TypeOK, InBatch
  <2> QED
    BY <1>2, <2>1, <2>2, <2>3 DEF PaidBy
<1> QED
  BY <1>1, <1>2

\* A credit pays one more order.
LEMMA PaysCredit ==
    ASSUME TypeOK, FundsInv, RowsWritten, BatchPays, NEW o \in OrderIds,
           CreditBalance(o)
    PROVE  BatchPays'
<1> USE DEF tables
<1>1. o \in InBatch /\ batch[o] \in Rows
  BY DEF CreditBalance, TypeOK, InBatch, Present
<1>2. PICK u \in Users : u = batch[o].user
  BY <1>1, RowType
<1>3. PICK a \in Nat : a = Round(batch[o].accrual)
  BY <1>1, RowType, RoundNat
<1> DEFINE base == IF uBalances[Loop][u] # NoRow THEN uBalances[Loop][u]
                                                 ELSE Held(u)
           b == [current |-> base.current + a, withdrawn |-> base.withdrawn]
           S == PaidBy(Loop, u)
           f == [p \in S |-> uOrders[Loop][p].accrual]
           g == [p \in S \union {o} |-> uOrders[Loop][p].accrual]
<1>4. /\ UNCHANGED <<balances, uOrders, arg>>
      /\ o \in InBatch \ credited
      /\ \A p \in InBatch : uOrders[Loop][p] # NoRow
      /\ uBalances' = [uBalances EXCEPT
                          ![Loop] = [uBalances[Loop] EXCEPT ![u] = b]]
      /\ credited' = credited \union {o}
  BY <1>2, <1>3 DEF CreditBalance
<1>5. Loop \in Txns
  BY DEF Txns
<1>6. Held(u) \in Balance /\ base \in Balance
  BY <1>5, HeldType DEF TypeOK
<1>7. uOrders[Loop][o] = [user    |-> u,
                          status  |-> batch[o].status,
                          accrual |-> a]
  BY <1>4, <1>2, <1>3 DEF RowsWritten, BatchWritten
<1>8. arg[Loop] = NoRow
  BY DEF FundsInv, PcShape
<1>9. Pay(uBalances[Loop][u], Held(u), S, uOrders[Loop])
  BY <1>5, <1>8, BatchPaysEach DEF Pays
<1>10. /\ IsFiniteSet(S)
       /\ \A p \in S : f[p] \in Nat /\ g[p] = f[p]
       /\ o \notin S
       /\ g[o] = a
  <2>1. IsFiniteSet(S) /\ \A p \in S : uOrders[Loop][p].accrual \in Nat
    BY <1>5, PaidFinite
  <2>2. o \notin S
    BY <1>4 DEF PaidBy
  <2> QED
    BY <1>7, <2>1, <2>2
<1>11. PaidBy(Loop, u)' = S \union {o}
  BY <1>4, <1>7 DEF PaidBy
<1>12. \A v \in Users \ {u} : PaidBy(Loop, v)' = PaidBy(Loop, v)
  BY <1>4, <1>7 DEF PaidBy
<1>13. SumFunction(f) \in Nat /\ SumFunction(g) = SumFunction(f) + a
  <2>1. DOMAIN f = S /\ DOMAIN g = S \union {o}
    OBVIOUS
  <2>2. /\ SumFunction(f) = SumFunctionOnSet(f, S)
        /\ SumFunction(g) = SumFunctionOnSet(g, S \union {o})
    BY <2>1, SumDomain, Zenon
  <2> HIDE DEF f, g, S
  <2>3. SumFunctionOnSet(f, S) \in Nat
    BY <1>10, SumNat
  <2>4. SumFunctionOnSet(g, S \union {o}) = SumFunctionOnSet(f, S) + g[o]
    BY <1>10, SumInsert
  <2> QED
    BY <1>10, <2>2, <2>3, <2>4
<1>14. base.current = Held(u).current + (IF S = {} THEN 0 ELSE SumFunction(f))
       /\ base.withdrawn = Held(u).withdrawn
  <2>1. CASE uBalances[Loop][u] = NoRow
    BY <1>6, <1>9, <2>1 DEF Pay, Balance
  <2>2. CASE uBalances[Loop][u] # NoRow
    BY <1>9, <2>2 DEF Pay
  <2> QED
    BY <2>1, <2>2
<1>15. S = {} => SumFunction(f) = 0
  <2> SUFFICES ASSUME S = {} PROVE SumFunction(f) = 0
    OBVIOUS
  <2>1. SumFunction(f) = SumFunctionOnSet(f, S)
    BY SumDomain
  <2>2. SumFunctionOnSet(f, S) = SumFunctionOnSet(f, {})
    BY Zenon
  <2> QED
    BY <2>1, <2>2, SumEmpty
<1>16. b = [current   |-> Held(u).current + SumFunction(g),
            withdrawn |-> Held(u).withdrawn]
  <2> HIDE DEF f, g, base, S
  <2> QED
    BY <1>6, <1>13, <1>14, <1>15 DEF Balance
<1>17. b # NoRow
  BY <1>6, PgAssumption DEF Balance
<1>18. \A v \in Users : Held(v)' = Held(v)
  BY <1>4 DEF Held
<1>19. /\ uBalances'[Loop][u] = b
       /\ \A v \in Users \ {u} : uBalances'[Loop][v] = uBalances[Loop][v]
       /\ \A t \in Txns \ {Loop} : uBalances'[t] = uBalances[t]
  BY <1>4, <1>5 DEF TypeOK
<1>20. Pays(Loop, u)'
  <2>1. Pay(b, Held(u), S \union {o}, uOrders[Loop])
    BY <1>16, <1>17 DEF Pay
  <2> HIDE DEF b, S
  <2> QED
    BY <1>4, <1>11, <1>18, <1>19, <2>1, Zenon DEF Pays
<1> HIDE DEF b, S
<1>21. ASSUME NEW t \in Txns, NEW v \in Users, t # Loop \/ v # u
       PROVE  Pays(t, v)'
  <2>1. /\ arg'[t] = arg[t] /\ uOrders'[t] = uOrders[t]
        /\ uBalances'[t][v] = uBalances[t][v] /\ Held(v)' = Held(v)
        /\ PaidBy(t, v)' = PaidBy(t, v)
    <3>1. t # Loop => PaidBy(t, v)' = PaidBy(t, v)
      BY <1>4, PaidBySame
    <3> QED
      BY <1>4, <1>12, <1>18, <1>19, <1>21, <3>1
  <2>2. Pays(t, v)
    BY BatchPaysEach
  <2> QED
    BY <2>1, <2>2, Zenon DEF Pays
<1> QED
  BY <1>20, <1>21 DEF BatchPays, Pays, Pay

\* A transaction that holds nothing has paid nothing.
LEMMA PaysEmpty ==
    ASSUME NEW t \in Txns, NEW u \in Users, uBalances'[t][u] = NoRow,
           PaidBy(t, u)' = {}
    PROVE  Pays(t, u)'
  BY DEF Pays, Pay

LEMMA PaidByEmpty ==
    ASSUME TypeOK', NEW t \in Txns, NEW u \in Users,
           \A o \in OrderIds : uOrders'[t][o] = NoRow,
           t = Loop => credited' = {}
    PROVE  PaidBy(t, u)' = {}
  BY DEF PaidBy, Present, TypeOK

\* A transaction that ends: what the others have written is untouched, and
\* so are the balances they have computed it from.
LEMMA PaysRelease ==
    ASSUME TypeOK, TypeOK', BatchPays, NEW t \in Txns, Release(t),
           \A s \in Txns \ {t}, u \in Users :
              uBalances[s][u] # NoRow => Held(u)' = Held(u)
    PROVE  BatchPays'
<1>1. ASSUME NEW s \in Txns, NEW u \in Users, s = t
      PROVE  Pays(s, u)'
  <2>1. \A o \in OrderIds : uOrders'[s][o] = NoRow
    BY <1>1, Released
  <2>2. uBalances'[s][u] = NoRow /\ (s = Loop => credited' = {})
    BY <1>1, Released
  <2> QED
    BY <2>1, <2>2, PaidByEmpty, PaysEmpty
<1>2. ASSUME NEW s \in Txns, NEW u \in Users, s # t
      PROVE  Pays(s, u)'
  <2>1. /\ arg'[s] = arg[s] /\ uOrders'[s] = uOrders[s]
        /\ uBalances'[s][u] = uBalances[s][u]
        /\ s = Loop => credited' = credited
    BY <1>2 DEF Release, TypeOK
  <2>2. Pays(s, u)
    BY BatchPaysEach
  <2> QED
    BY <1>2, <2>1, <2>2, PaysSame
<1> QED
  BY <1>1, <1>2 DEF BatchPays, Pays, Pay

\* The others of a transaction that is a withdrawal after the step.
LEMMA PaysAsk ==
    ASSUME BatchPays, NEW h \in Handlers, arg'[h] # NoRow,
           UNCHANGED <<balances, uOrders, credited>>,
           \A s \in Txns \ {h} : /\ arg'[s] = arg[s]
                                 /\ uBalances'[s] = uBalances[s]
    PROVE  BatchPays'
<1>1. ASSUME NEW s \in Txns, NEW u \in Users, s # h
      PROVE  Pays(s, u)'
  <2>1. Held(u)' = Held(u)
    BY DEF Held
  <2>2. Pays(s, u)
    BY BatchPaysEach
  <2> QED
    BY <1>1, <2>1, <2>2, PaysSame
<1>2. \A u \in Users : Pays(h, u)'
  BY DEF Pays
<1> QED
  BY <1>1, <1>2 DEF BatchPays, Pays, Pay

\* The Zombie has paid what the loop had paid: all it has written.
LEMMA PaysLose ==
    ASSUME TypeOK, TypeOK', FundsInv, RowsWritten, BatchPays,
           NEW t \in Callers, LoseCommit(t)
    PROVE  BatchPays'
<1>1. /\ t \in Txns /\ Zombie \in Txns /\ Loop \in Txns
      /\ t # Zombie /\ Loop # Zombie
  BY Lost
<1>2. \A u \in Users : Held(u)' = Held(u)
  BY Lost DEF Held
<1>3. ASSUME NEW u \in Users
      PROVE  Pays(t, u)'
  <2>1. /\ \A o \in OrderIds : uOrders'[t][o] = NoRow
        /\ uBalances'[t][u] = NoRow /\ (t = Loop => credited' = {})
    BY <1>1, Lost
  <2> QED
    BY <1>1, <2>1, PaidByEmpty, PaysEmpty
<1>4. ASSUME NEW u \in Users, NEW s \in Txns, s # t, s # Zombie
      PROVE  Pays(s, u)'
  <2>1. /\ arg'[s] = arg[s] /\ uOrders'[s] = uOrders[s]
        /\ uBalances'[s][u] = uBalances[s][u]
        /\ s = Loop => credited' = credited
    BY <1>1, <1>4 DEF LoseCommit, TypeOK
  <2>2. Pays(s, u)
    BY BatchPaysEach
  <2> QED
    BY <1>2, <2>1, <2>2, PaysSame
<1>5. ASSUME NEW u \in Users
      PROVE  Pays(Zombie, u)'
  <2>1. /\ arg'[Zombie] = arg[t] /\ uOrders'[Zombie] = uOrders[t]
        /\ uBalances'[Zombie][u] = uBalances[t][u] /\ Held(u)' = Held(u)
    BY <1>1, <1>2 DEF LoseCommit, TypeOK
  <2>2. Pays(t, u)
    BY <1>1, BatchPaysEach
  <2>3. PaidBy(t, u) = {o \in Present(uOrders[t]) : uOrders[t][o].user = u}
    BY <1>1, PaidAll DEF LoseCommit, FundsInv
  <2>4. PaidBy(Zombie, u)' =
          {o \in Present(uOrders'[Zombie]) : uOrders'[Zombie][o].user = u}
    BY <1>1 DEF PaidBy, Present
  <2>5. PaidBy(Zombie, u)' = PaidBy(t, u)
    BY <2>1, <2>3, <2>4
  <2> QED
    BY <2>1, <2>2, <2>5, Zenon DEF Pays
<1> QED
  BY <1>3, <1>4, <1>5 DEF BatchPays, Pays, Pay

LEMMA BatchPaysStep ==
    ASSUME TypeOK, TypeOK', FundsInv, RowsWritten, RowsWritten', BatchPays,
           [PgNext]_pgVars
    PROVE  BatchPays'
<1> USE DEF tables, written
<1>1. CASE UNCHANGED <<balances, uOrders, uBalances, arg, credited>>
  <2>1. ASSUME NEW s \in Txns, NEW u \in Users
        PROVE  Pays(s, u)'
    <3>1. Held(u)' = Held(u)
      BY <1>1 DEF Held
    <3>2. Pays(s, u)
      BY BatchPaysEach
    <3> QED
      BY <1>1, <3>1, <3>2, PaysSame
  <2> QED
    BY <2>1 DEF BatchPays, Pays, Pay
<1>2. ASSUME NEW h \in Handlers, NEW u \in Users, NEW o \in OrderIds,
             NEW m \in Sums, InsertWithdraw(h, u, o, m)
      PROVE  BatchPays'
  <2>1. arg'[h] # NoRow
    BY <1>2, PgAssumption DEF InsertWithdraw, TypeOK, Txns, Asked
  <2> QED
    BY <1>2, <2>1, PaysAsk DEF InsertWithdraw, TypeOK, Txns
<1>3. ASSUME NEW h \in Handlers,
             SelectEnough(h) \/ DecBalance(h) \/ InsertWithdrawal(h)
      PROVE  BatchPays'
  <2>1. arg'[h] # NoRow
    BY <1>3 DEF SelectEnough, DecBalance, InsertWithdrawal, FundsInv, PcShape
  <2> QED
    BY <1>3, <2>1, PaysAsk
       DEF SelectEnough, DecBalance, InsertWithdrawal, TypeOK, Txns
<1>4. ASSUME NEW b \in [OrderIds -> Rows \union {NoRow}],
             UpdateOrdersBalancesBatch(b)
      PROVE  BatchPays'
  <2>1. ASSUME NEW s \in Txns, NEW u \in Users, s # Loop
        PROVE  Pays(s, u)'
    <3>1. Held(u)' = Held(u)
      BY <1>4 DEF UpdateOrdersBalancesBatch, Held
    <3>2. Pays(s, u)
      BY BatchPaysEach
    <3> QED
      BY <1>4, <2>1, <3>1, <3>2, PaysSame DEF UpdateOrdersBalancesBatch
  <2>2. ASSUME NEW u \in Users
        PROVE  Pays(Loop, u)'
    <3>1. /\ Loop \in Txns
          /\ uBalances'[Loop][u] = NoRow /\ credited' = {}
      BY <1>4 DEF UpdateOrdersBalancesBatch, Txns, FundsInv, LockExclusion
    <3>2. PaidBy(Loop, u)' = {}
      BY <3>1 DEF PaidBy
    <3> QED
      BY <3>1, <3>2, PaysEmpty
  <2> QED
    BY <2>1, <2>2 DEF BatchPays, Pays, Pay
<1>5. ASSUME NEW o \in OrderIds, UpdateOrder(o)
      PROVE  BatchPays'
  <2>1. Loop \in Txns
    BY DEF Txns
  <2>2. credited = {} /\ credited' = {}
    BY <1>5 DEF UpdateOrder, RowsWritten, BatchWritten
  <2>3. ASSUME NEW s \in Txns, NEW u \in Users, s # Loop
        PROVE  Pays(s, u)'
    <3>1. /\ Held(u)' = Held(u) /\ arg'[s] = arg[s]
          /\ uOrders'[s] = uOrders[s] /\ uBalances'[s][u] = uBalances[s][u]
      BY <1>5, <2>3 DEF UpdateOrder, Held, TypeOK
    <3>2. Pays(s, u)
      BY BatchPaysEach
    <3> QED
      BY <2>3, <3>1, <3>2, PaysSame
  <2>4. ASSUME NEW u \in Users
        PROVE  Pays(Loop, u)'
    <3>1. arg[Loop] = NoRow
      BY DEF FundsInv, PcShape
    <3>2. PaidBy(Loop, u) = {} /\ PaidBy(Loop, u)' = {}
      BY <2>2 DEF PaidBy
    <3>3. uBalances[Loop][u] = NoRow
      BY <2>1, <3>1, <3>2 DEF BatchPays
    <3>4. uBalances'[Loop][u] = NoRow
      BY <1>5, <3>3 DEF UpdateOrder
    <3> QED
      BY <2>1, <3>2, <3>4, PaysEmpty
  <2> QED
    BY <2>3, <2>4 DEF BatchPays, Pays, Pay
<1>6. ASSUME NEW t \in Txns, Rollback(t)
      PROVE  BatchPays'
  <2>1. \A u \in Users : Held(u)' = Held(u)
    BY <1>6 DEF Rollback, Held
  <2> QED
    BY <1>6, <2>1, PaysRelease DEF Rollback
<1>7. ASSUME NEW t \in Txns, Publish(t), Release(t)
      PROVE  BatchPays'
  <2>1. \A s \in Txns \ {t}, u \in Users :
           uBalances[s][u] # NoRow => uBalances[t][u] = NoRow
    BY DEF FundsInv, LockExclusion
  <2>2. \A u \in Users : uBalances[t][u] = NoRow => Held(u)' = Held(u)
    BY <1>7, PublishHeld
  <2> QED
    BY <1>7, <2>1, <2>2, PaysRelease
<1>8. CASE Restart
  <2>1. ASSUME NEW t \in Txns, NEW u \in Users
        PROVE  Pays(t, u)'
    <3>1. /\ \A o \in OrderIds : uOrders'[t][o] = NoRow
          /\ uBalances'[t][u] = NoRow /\ credited' = {}
      BY <1>8 DEF Restart, NoOrders, NoBalances
    <3> QED
      BY <3>1, PaidByEmpty, PaysEmpty
  <2> QED
    BY <2>1 DEF BatchPays, Pays, Pay
<1>9. ASSUME NEW u \in Users, NEW o \in OrderIds, Accepted(u, o)
      PROVE  BatchPays'
  BY <1>1, <1>9 DEF Accepted
<1> QED
  BY <1>1, <1>2, <1>3, <1>4, <1>5, <1>6, <1>7, <1>8, <1>9, BookCases,
     PaysCredit, PaysLose

-----------------------------------------------------------------------------
(***************************************************************************)
(* The sums.                                                               *)
(***************************************************************************)

LEMMA OwnedFinite ==
    ASSUME TypeOK, NEW u \in Users
    PROVE  /\ IsFiniteSet(Owned(orders, u))
           /\ IsFiniteSet(Owned(withdrawals, u))
           /\ \A o \in Owned(orders, u) : /\ o \in OrderIds
                                          /\ orders[o] \in Order
                                          /\ orders[o].accrual \in Nat
           /\ \A o \in Owned(withdrawals, u) : /\ o \in OrderIds
                                               /\ withdrawals[o] \in Withdrawal
                                               /\ withdrawals[o].sum \in Int
<1>1. /\ Owned(orders, u) \subseteq OrderIds
      /\ Owned(withdrawals, u) \subseteq OrderIds
  BY DEF TypeOK, Owned, Present
<1>2. IsFiniteSet(Owned(orders, u)) /\ IsFiniteSet(Owned(withdrawals, u))
  BY <1>1, OrderIdsFinite, FS_Subset
<1> QED
  BY <1>1, <1>2 DEF TypeOK, Owned, Present, Order, Withdrawal

\* A set is the set of the orders of a user if it has them as members.
LEMMA OwnedIs ==
    ASSUME NEW table, DOMAIN table = OrderIds, NEW u,
           NEW S, S \subseteq OrderIds,
           \A o \in OrderIds :
              o \in S <=> table[o] # NoRow /\ table[o].user = u
    PROVE  Owned(table, u) = S
  BY DEF Owned, Present

\* What the accruals and the withdrawals of user u add up to.
AccrualsOf(u) == SumFunction([o \in Owned(orders, u) |-> orders[o].accrual])
SpentBy(u) == SumFunction([o \in Owned(withdrawals, u) |-> withdrawals[o].sum])

LEMMA SumsType ==
    ASSUME TypeOK, NEW u \in Users
    PROVE  AccrualsOf(u) \in Nat /\ SpentBy(u) \in Int
<1> DEFINE S == Owned(orders, u)
           T == Owned(withdrawals, u)
           f == [o \in S |-> orders[o].accrual]
           g == [o \in T |-> withdrawals[o].sum]
<1>1. /\ IsFiniteSet(S) /\ \A o \in S : f[o] \in Nat
      /\ IsFiniteSet(T) /\ \A o \in T : g[o] \in Int
  BY OwnedFinite
<1>2. DOMAIN f = S /\ DOMAIN g = T
  OBVIOUS
<1>3. AccrualsOf(u) = SumFunction(f) /\ SpentBy(u) = SumFunction(g)
  BY Zenon DEF AccrualsOf, SpentBy
<1> HIDE DEF f, g, S, T
<1>4. SumFunctionOnSet(f, S) \in Nat /\ SumFunctionOnSet(g, T) \in Int
  BY <1>1, SumNat, SumInt
<1> QED
  BY <1>2, <1>3, <1>4, SumDomain

\* An accepted order adds nothing to the accruals of anybody.
LEMMA AccrualsAccept ==
    ASSUME TypeOK, NEW v \in Users, NEW o \in OrderIds, Accepted(v, o),
           NEW u \in Users
    PROVE  AccrualsOf(u)' = AccrualsOf(u)
<1> DEFINE S == Owned(orders, u)
           T == Owned(orders', u)
           f == [p \in S |-> orders[p].accrual]
           g == [p \in T |-> orders'[p].accrual]
<1>1. /\ orders'[o] = NewOrder(v) /\ orders[o] = NoRow
      /\ \A p \in OrderIds \ {o} : orders'[p] = orders[p]
      /\ DOMAIN orders = OrderIds /\ DOMAIN orders' = OrderIds
  BY DEF Accepted, TypeOK
<1>2. NewOrder(v) # NoRow /\ NewOrder(v).user = v /\ NewOrder(v).accrual = 0
  <2>1. NewOrder(v) \in Order
    BY DEF NewOrder, Order, Statuses
  <2> QED
    BY <2>1, PgAssumption DEF NewOrder
<1>3. IsFiniteSet(S) /\ \A p \in S : f[p] \in Nat /\ p \in OrderIds
  BY OwnedFinite
<1>4. o \notin S /\ \A p \in S : f[p] = orders'[p].accrual
  BY <1>1, <1>3 DEF Owned, Present
<1>5. T = IF u = v THEN S \union {o} ELSE S
  BY <1>1, <1>2 DEF Owned, Present
<1>6. g[o] = 0 \/ u # v
  BY <1>1, <1>2, <1>5
<1>7. \A p \in S : g[p] = f[p]
  BY <1>4, <1>5
<1>8. DOMAIN f = S /\ DOMAIN g = T
  OBVIOUS
<1>9. AccrualsOf(u) = SumFunction(f) /\ AccrualsOf(u)' = SumFunction(g)
  BY Zenon DEF AccrualsOf
<1> HIDE DEF f, g, S, T
<1>10. /\ SumFunction(f) = SumFunctionOnSet(f, S)
       /\ SumFunction(g) = SumFunctionOnSet(g, T)
       /\ SumFunctionOnSet(f, S) \in Nat
  BY <1>3, <1>8, SumDomain, SumNat
<1>11. CASE u = v
  <2>1. g[o] = 0 /\ T = S \union {o}
    BY <1>5, <1>6, <1>11
  <2>2. SumFunctionOnSet(g, S \union {o}) = SumFunctionOnSet(f, S) + g[o]
    <3>1. /\ IsFiniteSet(S) /\ o \notin S /\ g[o] \in Nat
          /\ \A p \in S : f[p] \in Nat /\ g[p] = f[p]
      BY <1>3, <1>4, <1>7, <2>1
    <3> QED
      BY <3>1, SumInsert
  <2>3. SumFunctionOnSet(g, T) = SumFunctionOnSet(g, S \union {o})
    BY <2>1, Zenon
  <2> QED
    BY <1>9, <1>10, <2>1, <2>2, <2>3
<1>12. CASE u # v
  <2>1. SumFunctionOnSet(g, T) = SumFunctionOnSet(g, S)
    BY <1>5, <1>12, Zenon
  <2>2. SumFunctionOnSet(g, S) = SumFunctionOnSet(f, S)
    BY <1>3, <1>7, SumSame
  <2> QED
    BY <1>9, <1>10, <2>1, <2>2
<1> QED
  BY <1>11, <1>12

\* A COMMIT of a batch: its rows come in the place of those of its orders.
LEMMA AccrualsPublish ==
    ASSUME TypeOK, TypeOK', PcShape, RowsWritten, NEW t \in Txns, Publish(t),
           AtCommit(t), NEW u \in Users
    PROVE  LET new == SumFunction(
                         [o \in PaidBy(t, u) |-> uOrders[t][o].accrual])
           IN  /\ new \in Nat
               /\ AccrualsOf(u)' \in Nat
               /\ AccrualsOf(u)' <= AccrualsOf(u) + new
               /\ (\A o \in PaidBy(t, u) : orders[o].accrual = 0) =>
                     AccrualsOf(u)' = AccrualsOf(u) + new
<1> DEFINE S == Owned(orders, u)
           P == PaidBy(t, u)
           f == [o \in S |-> orders[o].accrual]
           g == [o \in S |-> orders'[o].accrual]
           h == [o \in P |-> uOrders[t][o].accrual]
<1>1. /\ \A o \in OrderIds : orders'[o] = IF uOrders[t][o] # NoRow
                                          THEN uOrders[t][o] ELSE orders[o]
      /\ DOMAIN orders = OrderIds /\ DOMAIN orders' = OrderIds
  BY Published DEF TypeOK
<1>2. \A o \in OrderIds : o \in P <=> /\ uOrders[t][o] # NoRow
                                      /\ uOrders[t][o].user = u
  BY PaidAll DEF Present, TypeOK
<1>3. P \subseteq OrderIds /\ S \subseteq OrderIds
  BY PaidFinite, OwnedFinite
<1>4. \A o \in OrderIds : uOrders[t][o] # NoRow =>
         orders[o] # NoRow /\ uOrders[t][o].user = orders[o].user
  BY DEF RowsWritten, OwnersKept
<1>5. \A o \in OrderIds : o \in S <=> orders[o] # NoRow /\ orders[o].user = u
  BY <1>1 DEF Owned, Present
<1>6. P \in SUBSET S
  BY <1>2, <1>3, <1>4, <1>5
<1>7. Owned(orders', u) = S
  <2>1. \A o \in OrderIds :
           o \in S <=> orders'[o] # NoRow /\ orders'[o].user = u
    BY <1>1, <1>4, <1>5
  <2> QED
    BY <1>1, <1>3, <2>1, OwnedIs
<1>8. /\ IsFiniteSet(S)
      /\ \A o \in S : f[o] \in Nat
  BY OwnedFinite
<1>9. \A o \in P : g[o] = h[o] /\ g[o] \in Nat
  BY <1>1, <1>2, <1>6, PaidFinite
<1>10. \A o \in S \ P : g[o] = f[o]
  BY <1>1, <1>2, <1>3, <1>4, <1>5
<1>11. \A o \in S : f[o] \in Nat /\ g[o] \in Nat
  <2> HIDE DEF f, g, h, S, P
  <2> QED
    BY <1>8, <1>9, <1>10
<1>12. DOMAIN f = S /\ DOMAIN g = S /\ DOMAIN h = P
  OBVIOUS
<1>13. AccrualsOf(u) = SumFunction(f) /\ AccrualsOf(u)' = SumFunction(g)
  BY <1>7, Zenon DEF AccrualsOf
<1>14. \A o \in P : f[o] = orders[o].accrual
  BY <1>6
<1> HIDE DEF f, g, h, S, P
<1>15. /\ SumFunctionOnSet(f, S) \in Nat
       /\ SumFunctionOnSet(g, S) \in Nat
       /\ SumFunctionOnSet(h, P) \in Nat
       /\ SumFunctionOnSet(g, S) <=
            SumFunctionOnSet(f, S) + SumFunctionOnSet(h, P)
       /\ (\A o \in P : f[o] = 0) =>
            SumFunctionOnSet(g, S) =
              SumFunctionOnSet(f, S) + SumFunctionOnSet(h, P)
  <2>1. SumFunctionOnSet(g, S) \in Nat
    BY <1>8, <1>11, SumNat
  <2> QED
    BY <1>6, <1>8, <1>9, <1>10, <1>11, <2>1, SumReplace
<1>16. /\ SumFunction(f) = SumFunctionOnSet(f, S)
       /\ SumFunction(g) = SumFunctionOnSet(g, S)
       /\ SumFunction(h) = SumFunctionOnSet(h, P)
  BY <1>12, SumDomain
<1>17. /\ SumFunction(h) \in Nat
       /\ AccrualsOf(u)' \in Nat
       /\ AccrualsOf(u)' <= AccrualsOf(u) + SumFunction(h)
       /\ (\A o \in P : orders[o].accrual = 0) =>
             AccrualsOf(u)' = AccrualsOf(u) + SumFunction(h)
  BY <1>13, <1>14, <1>15, <1>16
<1> QED
  BY <1>17, Zenon DEF h, P

\* The COMMIT of a withdrawal records what was asked for, in a new row.
LEMMA CommitRecords ==
    ASSUME TypeOK, PcShape, RowsWritten, NEW t \in Txns, Publish(t),
           AtCommit(t), arg[t] # NoRow
    PROVE  /\ arg[t].user \in Users /\ arg[t].order \in OrderIds
           /\ Round(arg[t].sum) \in Int
           /\ withdrawals[arg[t].order] = NoRow
           /\ withdrawals' = [withdrawals EXCEPT ![arg[t].order] =
                                [user |-> arg[t].user,
                                 sum  |-> Round(arg[t].sum)]]
           /\ withdrawals'[arg[t].order] # NoRow
<1>1. /\ arg[t].user \in Users /\ arg[t].order \in OrderIds
      /\ arg[t].sum \in Int
  BY PgAssumption DEF TypeOK, Asked
<1>2. Round(arg[t].sum) \in Int
  BY <1>1, RoundInt
<1>3. pc[t] = "commit"
  BY DEF AtCommit, PcShape, Txns
<1>4. PICK o \in OrderIds : o = arg[t].order
  BY <1>1
<1>5. /\ uWithdrawals[t][o] # NoRow
      /\ uWithdrawals[t][o] = [user |-> arg[t].user, sum |-> Round(arg[t].sum)]
      /\ \A p \in OrderIds \ {o} : uWithdrawals[t][p] = NoRow
  BY <1>3, <1>4 DEF RowsWritten, AskedRecorded
<1>6. withdrawals[o] = NoRow
  BY <1>5 DEF RowsWritten, WrittenOnce
<1>7. /\ withdrawals'[o] = uWithdrawals[t][o]
      /\ \A p \in OrderIds \ {o} : withdrawals'[p] = withdrawals[p]
      /\ DOMAIN withdrawals = OrderIds
      /\ withdrawals' = [p \in OrderIds |-> withdrawals'[p]]
  BY <1>5, Published DEF TypeOK, Publish, Over
<1>8. withdrawals' = [withdrawals EXCEPT ![o] =
                        [user |-> arg[t].user, sum |-> Round(arg[t].sum)]]
  BY <1>5, <1>7 DEF TypeOK
<1> QED
  BY <1>1, <1>2, <1>4, <1>5, <1>6, <1>7, <1>8

\* A COMMIT of a withdrawal: one more row, of the user who has asked.
LEMMA SpentPublish ==
    ASSUME TypeOK, TypeOK', PcShape, RowsWritten, NEW t \in Txns, Publish(t),
           AtCommit(t), arg[t] # NoRow, NEW u \in Users
    PROVE  SpentBy(u)' = IF arg[t].user = u THEN SpentBy(u) + Round(arg[t].sum)
                                            ELSE SpentBy(u)
<1> DEFINE S == Owned(withdrawals, u)
           T == Owned(withdrawals', u)
           f == [p \in S |-> withdrawals[p].sum]
           g == [p \in T |-> withdrawals'[p].sum]
<1>1. PICK o \in OrderIds : o = arg[t].order
  BY CommitRecords
<1>2. PICK w \in Withdrawal :
         w = [user |-> arg[t].user, sum |-> Round(arg[t].sum)]
  BY CommitRecords DEF Withdrawal
<1>3. /\ withdrawals[o] = NoRow /\ withdrawals'[o] = w
      /\ \A p \in OrderIds \ {o} : withdrawals'[p] = withdrawals[p]
      /\ DOMAIN withdrawals = OrderIds /\ DOMAIN withdrawals' = OrderIds
  BY <1>1, <1>2, CommitRecords DEF TypeOK
<1>4. /\ w # NoRow /\ w.user = arg[t].user
      /\ w.sum = Round(arg[t].sum) /\ w.sum \in Int
  BY <1>2, PgAssumption DEF Withdrawal
<1>5. IsFiniteSet(S) /\ \A p \in S : f[p] \in Int /\ p \in OrderIds
  BY OwnedFinite
<1>6. o \notin S /\ \A p \in S : f[p] = withdrawals'[p].sum
  BY <1>3, <1>5 DEF Owned, Present
<1>7. T = IF arg[t].user = u THEN S \union {o} ELSE S
  BY <1>3, <1>4 DEF Owned, Present
<1>8. g[o] = w.sum \/ arg[t].user # u
  BY <1>3, <1>7
<1>9. \A p \in S : f[p] \in Int /\ g[p] = f[p]
  BY <1>5, <1>6, <1>7
<1>10. DOMAIN f = S /\ DOMAIN g = T
  OBVIOUS
<1>11. SpentBy(u) = SumFunction(f) /\ SpentBy(u)' = SumFunction(g)
  BY Zenon DEF SpentBy
<1> HIDE DEF f, g, S, T
<1>12. /\ SumFunction(f) = SumFunctionOnSet(f, S)
       /\ SumFunction(g) = SumFunctionOnSet(g, T)
       /\ SumFunctionOnSet(f, S) \in Int
  BY <1>5, <1>10, SumDomain, SumInt
<1>13. CASE arg[t].user = u
  <2>1. g[o] = w.sum /\ g[o] \in Int /\ T = S \union {o}
    BY <1>4, <1>7, <1>8, <1>13
  <2>2. SumFunctionOnSet(g, S \union {o}) = SumFunctionOnSet(f, S) + g[o]
    BY <1>5, <1>6, <1>9, <2>1, SumInsert
  <2>3. SumFunctionOnSet(g, T) = SumFunctionOnSet(g, S \union {o})
    BY <2>1, Zenon
  <2> QED
    BY <1>4, <1>11, <1>12, <1>13, <2>1, <2>2, <2>3
<1>14. CASE arg[t].user # u
  <2>1. SumFunctionOnSet(g, T) = SumFunctionOnSet(g, S)
    BY <1>7, <1>14, Zenon
  <2>2. SumFunctionOnSet(g, S) = SumFunctionOnSet(f, S)
    BY <1>5, <1>9, SumSame
  <2> QED
    BY <1>11, <1>12, <1>14, <2>1, <2>2
<1> QED
  BY <1>13, <1>14

\* Only an accepted order, a COMMIT or a restart changes a table.
LEMMA TablesSame ==
    ASSUME [PgNext]_pgVars
    PROVE  \/ UNCHANGED tables
           \/ \E u \in Users, o \in OrderIds : Accepted(u, o)
           \/ \E t \in Txns : AtCommit(t) /\ Publish(t) /\ Release(t)
           \/ Restart
  BY BookCases DEF InsertWithdraw, SelectEnough, DecBalance, InsertWithdrawal,
     UpdateOrdersBalancesBatch, UpdateOrder, CreditBalance, LoseCommit,
     Rollback, tables

\* A user without a recorded sum below zero has not committed one now.
LEMMA CommitSign ==
    ASSUME TypeOK, TypeOK', PcShape, RowsWritten, NEW t \in Txns, Publish(t),
           AtCommit(t), arg[t] # NoRow,
           NEW u \in Users, u = arg[t].user, NoNegativeSum(u)'
    PROVE  Round(arg[t].sum) >= 0
<1>1. PICK o \in OrderIds : o = arg[t].order
  BY CommitRecords
<1>2. /\ withdrawals'[o] # NoRow /\ DOMAIN withdrawals' = OrderIds
      /\ withdrawals'[o] = [user |-> arg[t].user, sum |-> Round(arg[t].sum)]
  BY <1>1, CommitRecords DEF TypeOK
<1>3. withdrawals'[o].user = arg[t].user
      /\ withdrawals'[o].sum = Round(arg[t].sum)
  BY <1>2
<1> QED
  BY <1>2, <1>3 DEF NoNegativeSum, Owned, Present

\* Only a restart takes a row away or changes one that is listed: an order
\* keeps its user, a withdrawal stays as it is.
LEMMA RowsKept ==
    ASSUME TypeOK, RowsWritten, [PgNext]_pgVars, ~Restart, NEW o \in OrderIds
    PROVE  /\ orders[o] # NoRow =>
                orders'[o] # NoRow /\ orders'[o].user = orders[o].user
           /\ withdrawals[o] # NoRow => withdrawals'[o] = withdrawals[o]
<1>1. CASE UNCHANGED tables
  BY <1>1 DEF tables
<1>2. ASSUME NEW v \in Users, NEW p \in OrderIds, Accepted(v, p)
      PROVE  /\ orders[o] # NoRow => orders'[o] = orders[o]
             /\ withdrawals' = withdrawals
  BY <1>2 DEF Accepted, TypeOK
<1>3. ASSUME NEW t \in Txns, Publish(t)
      PROVE  /\ orders[o] # NoRow =>
                  orders'[o] # NoRow /\ orders'[o].user = orders[o].user
             /\ withdrawals[o] # NoRow => withdrawals'[o] = withdrawals[o]
  BY <1>3, Published DEF RowsWritten, OwnersKept, WrittenOnce
<1> QED
  BY <1>1, <1>2, <1>3, TablesSame

\* A sum below zero stays recorded.
LEMMA SignsStay ==
    ASSUME TypeOK, TypeOK', RowsWritten, [PgNext]_pgVars, ~Restart,
           NEW u \in Users, NoNegativeSum(u)'
    PROVE  NoNegativeSum(u)
<1>1. \A o \in OrderIds : withdrawals[o] # NoRow =>
         withdrawals'[o] = withdrawals[o]
  BY RowsKept
<1> QED
  BY <1>1 DEF NoNegativeSum, Owned, Present, TypeOK

\* What a COMMIT does to one user: a batch adds the accruals it has written,
\* a withdrawal moves its sum within the balance of its user.
LEMMA CommitBooks ==
    ASSUME TypeOK, TypeOK', FundsInv, RowsWritten, BatchPays, NEW t \in Txns,
           Publish(t), AtCommit(t), NEW u \in Users
    PROVE  /\ arg[t] = NoRow =>
                LET new == SumFunction(
                              [o \in PaidBy(t, u) |-> uOrders[t][o].accrual])
                IN  /\ Held(u)'.withdrawn = Held(u).withdrawn
                    /\ new \in Nat
                    /\ Held(u)'.current = Held(u).current + new
                    /\ SpentBy(u)' = SpentBy(u)
           /\ arg[t] # NoRow =>
                /\ AccrualsOf(u)' = AccrualsOf(u)
                /\ NoNegativeSum(u)' =>
                     Held(u)'.current + Held(u)'.withdrawn =
                       Held(u).current + Held(u).withdrawn
                /\ Held(u).withdrawn = SpentBy(u) =>
                     Held(u)'.withdrawn = SpentBy(u)'
<1>1. /\ uBalances[t][u] = NoRow => Held(u)' = Held(u)
      /\ uBalances[t][u] # NoRow => Held(u)' = uBalances[t][u]
  BY PublishHeld
<1>2. Held(u) \in Balance /\ Held(u)' \in Balance /\ SpentBy(u) \in Int
  BY <1>1, HeldType, SumsType DEF TypeOK
<1>3. ASSUME arg[t] = NoRow
      PROVE  LET new == SumFunction(
                         [o \in PaidBy(t, u) |-> uOrders[t][o].accrual])
             IN  /\ Held(u)'.withdrawn = Held(u).withdrawn
                 /\ new \in Nat
                 /\ Held(u)'.current = Held(u).current + new
                 /\ SpentBy(u)' = SpentBy(u)
  <2> DEFINE P == PaidBy(t, u)
             h == [o \in P |-> uOrders[t][o].accrual]
  <2>1. Pay(uBalances[t][u], Held(u), P, uOrders[t])
    BY <1>3, BatchPaysEach DEF Pays
  <2>2. SumFunction(h) \in Nat /\ (P = {} => SumFunction(h) = 0)
    <3>1. IsFiniteSet(P) /\ (\A o \in P : h[o] \in Nat) /\ DOMAIN h = P
      BY PaidFinite
    <3> HIDE DEF P, h
    <3>2. /\ SumFunctionOnSet(h, P) \in Nat
          /\ SumFunction(h) = SumFunctionOnSet(h, P)
      BY <3>1, SumNat, SumDomain
    <3>3. P = {} => SumFunctionOnSet(h, P) = 0
      BY <3>1, SumZero
    <3> QED
      BY <3>2, <3>3
  <2>3. Held(u)'.withdrawn = Held(u).withdrawn
        /\ Held(u)'.current = Held(u).current + SumFunction(h)
    <3>1. CASE uBalances[t][u] = NoRow
      <4>1. P = {}
        BY <2>1, <3>1 DEF Pay
      <4> HIDE DEF P, h
      <4> QED
        BY <1>1, <1>2, <2>2, <3>1, <4>1 DEF Balance
    <3>2. CASE uBalances[t][u] # NoRow
      BY <1>1, <2>1, <3>2 DEF Pay
    <3> QED
      BY <3>1, <3>2
  <2>4. SpentBy(u)' = SpentBy(u)
    <3>1. \A o \in OrderIds : withdrawals'[o] = withdrawals[o]
      BY <1>3, Published DEF RowsWritten, AskedRecorded
    <3>2. withdrawals' = withdrawals
      BY <3>1 DEF TypeOK
    <3> QED
      BY <3>2, Zenon DEF SpentBy, Owned, Present
  <2> QED
    BY <2>2, <2>3, <2>4
<1>4. ASSUME arg[t] # NoRow
      PROVE  /\ AccrualsOf(u)' = AccrualsOf(u)
             /\ NoNegativeSum(u)' =>
                  Held(u)'.current + Held(u)'.withdrawn =
                    Held(u).current + Held(u).withdrawn
             /\ Held(u).withdrawn = SpentBy(u) =>
                  Held(u)'.withdrawn = SpentBy(u)'
  <2>1. AccrualsOf(u)' = AccrualsOf(u)
    <3>1. \A o \in OrderIds : orders'[o] = orders[o]
      BY <1>4, Published DEF RowsWritten, OnlyBatches
    <3>2. orders' = orders
      BY <3>1 DEF TypeOK
    <3> QED
      BY <3>2, Zenon DEF AccrualsOf, Owned, Present
  <2>2. PICK a \in Int :
           /\ a = Round(arg[t].sum)
           /\ arg[t].user # u => Held(u)' = Held(u)
           /\ arg[t].user = u => /\ Held(u)' = Decreased(u, a)
                                 /\ balances[u] = NoRow => a <= 0
    BY <1>4, CommitMoves
  <2>3. arg[t].user = u /\ NoNegativeSum(u)' => a >= 0
    BY <1>4, <2>2, CommitSign DEF FundsInv
  <2>4. arg[t].user = u =>
           /\ Held(u)'.withdrawn = Held(u).withdrawn + a
           /\ NoNegativeSum(u)' => Held(u)'.current + Held(u)'.withdrawn =
                                     Held(u).current + Held(u).withdrawn
    <3>1. CASE balances[u] = NoRow
      BY <2>2, <2>3, <3>1 DEF Held, Decreased
    <3>2. CASE balances[u] # NoRow
      BY <1>2, <2>2, <3>2 DEF Held, Decreased, Balance
    <3> QED
      BY <3>1, <3>2
  <2>5. SpentBy(u)' = IF arg[t].user = u THEN SpentBy(u) + a ELSE SpentBy(u)
    BY <1>4, <2>2, SpentPublish DEF FundsInv
  <2> QED
    BY <1>2, <2>1, <2>2, <2>4, <2>5
<1> QED
  BY <1>3, <1>4

Recorded(u) == Held(u).withdrawn = SpentBy(u)
InBalance(u) == NoNegativeSum(u) =>
                   AccrualsOf(u) <= Held(u).current + Held(u).withdrawn

LEMMA SumsEach ==
    /\ WithdrawnIsRecorded <=> \A u \in Users : Recorded(u)
    /\ AccrualsHeld <=> \A u \in Users : InBalance(u)
  BY DEF WithdrawnIsRecorded, AccrualsHeld, Recorded, InBalance, SpentBy,
         AccrualsOf

\* Without rows every sum is zero.
LEMMA SumsNothing ==
    ASSUME NEW table, table = NoOrders, NEW u, NEW f, DOMAIN f = Owned(table, u)
    PROVE  SumFunction(f) = 0
<1>1. DOMAIN f = {}
  BY DEF Owned, Present, NoOrders
<1>2. SumFunction(f) = SumFunctionOnSet(f, {})
  BY <1>1, SumDomain
<1> QED
  BY <1>2, SumEmpty

LEMMA SumsStep ==
    ASSUME TypeOK, TypeOK', FundsInv, RowsWritten, BatchPays, [PgNext]_pgVars,
           NEW u \in Users, Recorded(u), InBalance(u)
    PROVE  Recorded(u)' /\ InBalance(u)'
<1>1. CASE UNCHANGED tables
  <2>1. UNCHANGED <<orders, balances, withdrawals>>
    BY <1>1 DEF tables
  <2> QED
    BY <2>1, Zenon DEF Recorded, InBalance, NoNegativeSum, Held, SpentBy,
                       AccrualsOf, Owned, Present
<1>2. ASSUME NEW v \in Users, NEW o \in OrderIds, Accepted(v, o)
      PROVE  Recorded(u)' /\ InBalance(u)'
  <2>1. AccrualsOf(u)' = AccrualsOf(u)
    BY <1>2, AccrualsAccept
  <2>2. UNCHANGED <<balances, withdrawals>>
    BY <1>2 DEF Accepted
  <2>3. /\ Held(u)' = Held(u) /\ SpentBy(u)' = SpentBy(u)
        /\ NoNegativeSum(u)' <=> NoNegativeSum(u)
    BY <2>2, Zenon DEF Held, SpentBy, NoNegativeSum, Owned, Present
  <2> QED
    BY <2>1, <2>3 DEF Recorded, InBalance
<1>3. ASSUME NEW t \in Txns, AtCommit(t), Publish(t), Release(t), ~Restart
      PROVE  Recorded(u)' /\ InBalance(u)'
  <2>1. Held(u) \in Balance /\ SpentBy(u) \in Int /\ AccrualsOf(u) \in Nat
    BY HeldType, SumsType
  <2>2. NoNegativeSum(u)' => NoNegativeSum(u)
    BY <1>3, SignsStay
  <2>3. CASE arg[t] # NoRow
    <3>1. /\ AccrualsOf(u)' = AccrualsOf(u)
          /\ NoNegativeSum(u)' => Held(u)'.current + Held(u)'.withdrawn =
                                    Held(u).current + Held(u).withdrawn
          /\ Held(u).withdrawn = SpentBy(u) => Held(u)'.withdrawn = SpentBy(u)'
      BY <1>3, <2>3, CommitBooks
    <3> QED
      BY <2>2, <3>1 DEF Recorded, InBalance
  <2>4. CASE arg[t] = NoRow
    <3>1. PICK new \in Nat : /\ Held(u)'.withdrawn = Held(u).withdrawn
                            /\ Held(u)'.current = Held(u).current + new
                            /\ SpentBy(u)' = SpentBy(u)
                            /\ AccrualsOf(u)' \in Nat
                            /\ AccrualsOf(u)' <= AccrualsOf(u) + new
      BY <1>3, <2>4, CommitBooks, AccrualsPublish DEF FundsInv
    <3> QED
      BY <2>1, <2>2, <3>1 DEF Recorded, InBalance, Balance
  <2> QED
    BY <2>3, <2>4
<1>4. CASE Restart
  <2>1. /\ orders' = NoOrders /\ withdrawals' = NoOrders
        /\ \A v \in Users : balances'[v] = NoRow
    BY <1>4 DEF Restart, NoBalances
  <2>2. Held(u)' = [current |-> 0, withdrawn |-> 0]
    BY <2>1 DEF Held
  <2>3. SpentBy(u)' = 0 /\ AccrualsOf(u)' = 0
    BY <2>1, SumsNothing, Zenon DEF SpentBy, AccrualsOf
  <2> QED
    BY <2>2, <2>3 DEF Recorded, InBalance
<1> QED
  BY <1>1, <1>2, <1>3, <1>4, TablesSame

\* A user who has not raced keeps a balance that is not negative as long as
\* no sum below zero is recorded.
Spared(u) == u \notin overlap /\ NoNegativeSum(u) => Held(u).current >= 0

LEMMA SparedStep ==
    ASSUME TypeOK, TypeOK', FundsInv, RowsWritten, [PgNext]_pgVars,
           NEW u \in Users, Spared(u)
    PROVE  Spared(u)'
<1>1. CASE Restart
  BY <1>1 DEF Restart, Spared, Held, NoBalances
<1>2. CASE ~Restart
  <2> SUFFICES ASSUME u \notin overlap', NoNegativeSum(u)'
               PROVE  Held(u)'.current >= 0
    BY DEF Spared
  <2>1. u \notin overlap
    BY <1>2, StepCases DEF InsertWithdraw, SelectEnough, DecBalance,
         InsertWithdrawal, UpdateOrdersBalancesBatch, CreditBalance, LoseCommit
  <2>2. Held(u) \in Balance /\ Held(u).current >= 0
    BY <1>2, <2>1, HeldType, SignsStay DEF Spared
  <2>3. CASE UNCHANGED balances
    BY <2>2, <2>3 DEF Held
  <2>4. ASSUME NEW t \in Txns, AtCommit(t), Publish(t)
        PROVE  Held(u)'.current >= 0
    <3>1. CASE arg[t] = NoRow
      <4>1. \/ Held(u)' = Held(u)
            \/ Held(u)' = uBalances[t][u] /\ uBalances[t][u] # NoRow
        BY <2>4, PublishHeld
      <4>2. uBalances[t][u] # NoRow => uBalances[t][u] \in Balance
        BY DEF TypeOK
      <4> QED
        BY <2>2, <3>1, <4>1, <4>2 DEF FundsInv, CreditsAdd, Balance
    <3>2. CASE arg[t] # NoRow /\ arg[t].user # u
      BY <2>2, <2>4, <3>2, CommitMoves
    <3>3. CASE arg[t] # NoRow /\ arg[t].user = u
      <4>1. PICK a \in Int : /\ a = Round(arg[t].sum)
                             /\ Held(u)' = Decreased(u, a)
                             /\ balances[u] = NoRow => a <= 0
                             /\ a <= Held(u).current
        BY <2>1, <2>4, <3>3, CommitMoves
      <4>2. a >= 0
        BY <2>4, <3>3, <4>1, CommitSign DEF FundsInv
      <4>3. CASE balances[u] = NoRow
        BY <4>1, <4>2, <4>3 DEF Decreased
      <4>4. CASE balances[u] # NoRow
        BY <2>2, <4>1, <4>4 DEF Decreased, Held, Balance
      <4> QED
        BY <4>3, <4>4
    <3> QED
      BY <3>1, <3>2, <3>3
  <2> QED
    BY <1>2, <2>3, <2>4, TablesSame DEF tables, Accepted
<1> QED
  BY <1>1, <1>2

LEMMA BooksInit == PgInit => BooksInv
<1> SUFFICES ASSUME PgInit PROVE BooksInv
  OBVIOUS
<1>1. /\ orders = NoOrders /\ withdrawals = NoOrders
      /\ \A u \in Users : balances[u] = NoRow
      /\ \A t \in Txns, o \in OrderIds :
            uOrders[t][o] = NoRow /\ uWithdrawals[t][o] = NoRow
      /\ \A t \in Txns, u \in Users : uBalances[t][u] = NoRow
      /\ \A t \in Txns : arg[t] = NoRow
      /\ InBatch = {} /\ credited = {}
  BY DEF PgInit, NoOrders, NoBalances, InBatch, Present
<1>2. RowsWritten
  BY <1>1, NothingWritten
<1>3. BatchPays
  <2>1. \A t \in Txns, u \in Users : PaidBy(t, u) = {}
    BY <1>1, TypeInit DEF PaidBy, Present, TypeOK
  <2> QED
    BY <1>1, <2>1 DEF BatchPays
<1>4. ASSUME NEW u \in Users
      PROVE  Recorded(u) /\ InBalance(u) /\ Spared(u)
  <2>1. Held(u) = [current |-> 0, withdrawn |-> 0]
    BY <1>1 DEF Held
  <2>2. SpentBy(u) = 0 /\ AccrualsOf(u) = 0
    BY <1>1, SumsNothing, Zenon DEF SpentBy, AccrualsOf
  <2> QED
    BY <2>1, <2>2 DEF Recorded, InBalance, Spared
<1> QED
  BY <1>2, <1>3, <1>4, SumsEach DEF BooksInv, CoveredUnlessRaced, Spared

LEMMA BooksStep ==
    ASSUME TypeOK, FundsInv, BooksInv, [PgNext]_pgVars
    PROVE  BooksInv'
<1> USE DEF BooksInv
<1>1. TypeOK' /\ PcShape
  BY TypeStep DEF FundsInv
<1>2. RowsWritten'
  BY <1>1, RowsWrittenStep
<1>3. BatchPays'
  BY <1>1, <1>2, BatchPaysStep
<1>4. \A u \in Users : Recorded(u)' /\ InBalance(u)'
  BY <1>1, SumsEach, SumsStep
<1>5. CoveredUnlessRaced'
  BY <1>1, SparedStep DEF CoveredUnlessRaced, Spared
<1> QED
  BY <1>2, <1>3, <1>4, <1>5 DEF WithdrawnIsRecorded, AccrualsHeld, Recorded,
                                InBalance, SpentBy, AccrualsOf

\* The books are kept: what every transaction has written to one table is
\* what it has written to the others, so the rows of balances, orders and
\* withdrawals never disagree about the points of a user.
THEOREM BooksKept == PgSpec => [](TypeOK /\ FundsInv /\ BooksInv)
<1>1. PgInit => TypeOK /\ FundsInv /\ BooksInv
  BY TypeInit, FundsInit, BooksInit
<1>2. TypeOK /\ FundsInv /\ BooksInv /\ [PgNext]_pgVars
        => (TypeOK /\ FundsInv /\ BooksInv)'
  BY TypeStep, FundsStep, BooksStep DEF FundsInv
<1> QED
  BY <1>1, <1>2, PTL DEF PgSpec

\* The withdrawals of a user add up to what the balance calls withdrawn.
THEOREM WithdrawalsRecorded == PgSpec => []WithdrawnIsRecorded
<1>1. BooksInv => WithdrawnIsRecorded
  BY DEF BooksInv
<1> QED
  BY <1>1, BooksKept, PTL

\* Rows of orders and withdrawals, and those of balances, are locked by
\* withdrawals that have taken their points and by batches: whom a statement
\* waits for is further in its transaction, so the furthest can go on.
LEMMA SomeoneGoesOn ==
    ASSUME TypeOK, FundsInv, BooksInv, NEW t \in Txns, pc[t] # "idle"
    PROVE  \E s \in Txns : pc[s] # "idle" /\ GoesOn(s)
<1> SUFFICES ASSUME \A s \in Txns : pc[s] # "idle" => ~GoesOn(s)
             PROVE  FALSE
  OBVIOUS
<1>1. \A s \in Txns : pc[s] # "select" /\ pc[s] # "commit"
  BY DEF GoesOn, AtCommit
<1>2. \A s \in Txns : pc[s] # "insert"
  <2> SUFFICES ASSUME NEW s \in Txns, pc[s] = "insert" PROVE FALSE
    OBVIOUS
  <2>1. ~WithdrawalFree(s, arg[s].order)
    BY DEF GoesOn
  <2>2. s \in Handlers
    BY DEF FundsInv, PcShape, Txns
  <2>3. arg[s].order \in OrderIds
    BY <2>2, AskedType DEF FundsInv
  <2>4. PICK r \in Txns : uWithdrawals[r][arg[s].order] # NoRow
    BY <2>1 DEF WithdrawalFree
  <2>5. pc[r] = "commit"
    BY <2>3, <2>4 DEF BooksInv, RowsWritten, AskedRecorded
  <2> QED
    BY <1>1, <2>5
<1>3. pc[Zombie] = "idle"
  BY <1>1 DEF FundsInv, PcShape, Txns
<1>4. \A s \in Txns, u \in Users : uBalances[s][u] # NoRow => s = Loop
  <2> SUFFICES ASSUME NEW s \in Txns, NEW u \in Users,
                      uBalances[s][u] # NoRow
               PROVE  s = Loop
    OBVIOUS
  <2>1. arg[s] = NoRow
    BY <1>1, <1>2 DEF FundsInv, WithdrawalMoves, Taken
  <2>2. pc[s] # "idle"
    BY DEF FundsInv, LockExclusion
  <2> QED
    BY <1>3, <2>1, <2>2 DEF FundsInv, PcShape, Txns
<1>5. pc[Loop] # "batch"
  <2> SUFFICES ASSUME pc[Loop] = "batch" PROVE FALSE
    OBVIOUS
  <2>1. Loop \in Txns
    BY DEF Txns
  <2>2. \A o \in InBatch : OrderFree(Loop, o)
    <3>1. InBatch \subseteq OrderIds
      BY DEF InBatch, Present, TypeOK
    <3> QED
      BY <1>3, <3>1 DEF OrderFree, BooksInv, RowsWritten, OnlyBatches
  <2>3. \A o \in InBatch : BalanceFree(Loop, batch[o].user)
    <3>1. \A o \in InBatch : batch[o].user \in Users
      BY DEF InBatch, Present, TypeOK, Rows
    <3> QED
      BY <1>4, <3>1 DEF BalanceFree
  <2> QED
    BY <2>1, <2>2, <2>3 DEF GoesOn
<1>6. \A s \in Txns : pc[s] # "dec"
  <2> SUFFICES ASSUME NEW s \in Txns, pc[s] = "dec" PROVE FALSE
    OBVIOUS
  <2>1. ~BalanceFree(s, arg[s].user)
    BY DEF GoesOn
  <2>2. s \in Handlers
    BY DEF FundsInv, PcShape, Txns
  <2>3. arg[s].user \in Users
    BY <2>2, AskedType DEF FundsInv
  <2>4. uBalances[Loop][arg[s].user] # NoRow
    BY <1>4, <2>1, <2>3 DEF BalanceFree
  <2>5. Loop \in Txns /\ pc[Loop] # "idle"
    BY <2>3, <2>4 DEF FundsInv, LockExclusion, Txns
  <2> QED
    BY <1>5, <2>5 DEF FundsInv, PcShape
<1> QED
  BY <1>1, <1>2, <1>5, <1>6 DEF TypeOK, FundsInv, PcShape, Txns

\* No load on the store ends in a deadlock: although withdrawals, batches of
\* any size and a commit whose answer was lost each keep several rows to
\* their end, some transaction under way always finds its next row free.
THEOREM FreeOfDeadlock == PgSpec => []NeverDeadlocked
<1>1. TypeOK /\ FundsInv /\ BooksInv => NeverDeadlocked
  BY SomeoneGoesOn DEF NeverDeadlocked
<1> QED
  BY <1>1, BooksKept, PTL

\* InsertWithdraw reads the balance without a lock, yet a user who never has
\* two withdrawals in progress at once, and never withdraws a sum below zero,
\* cannot overdraw: neither a batch of the loop, nor a commit whose answer was
\* lost, nor the rounding of a sum comes between the comparison and the change
\* of the balance, and the INSERT branch gives nothing to such a user.
THEOREM FundsCovered == PgSpec => []CoveredUnlessRaced
<1>1. BooksInv => CoveredUnlessRaced
  BY DEF BooksInv
<1> QED
  BY <1>1, BooksKept, PTL

\* What a step of the store does to the points of a user.
LEMMA EarnedStep ==
    ASSUME TypeOK, TypeOK', FundsInv, RowsWritten, [PgNext]_pgVars, ~Restart,
           NEW u \in Users
    PROVE  /\ \/ Held(u)'.withdrawn >= Held(u).withdrawn
              \/ RecordsNegative(u)
           /\ \/ Held(u)'.current + Held(u)'.withdrawn
                    >= Held(u).current + Held(u).withdrawn
              \/ RecordsNegative(u) /\ balances[u] = NoRow
<1>1. Held(u) \in Balance
  BY HeldType
<1>2. CASE Held(u)' = Held(u)
  BY <1>1, <1>2 DEF Balance
<1>3. CASE UNCHANGED balances
  BY <1>2, <1>3 DEF Held
<1>4. ASSUME NEW t \in Txns, AtCommit(t), Publish(t), arg[t] = NoRow,
             Held(u)' # Held(u)
      PROVE  /\ Held(u)'.withdrawn >= Held(u).withdrawn
             /\ Held(u)'.current + Held(u)'.withdrawn
                   >= Held(u).current + Held(u).withdrawn
  <2>1. uBalances[t][u] # NoRow /\ Held(u)' = uBalances[t][u]
    BY <1>4, PublishHeld
  <2>2. Held(u)' \in Balance
    BY <2>1 DEF TypeOK
  <2> QED
    BY <1>1, <1>4, <2>1, <2>2 DEF FundsInv, CreditsAdd, Balance
<1>5. ASSUME NEW t \in Txns, AtCommit(t), Publish(t), arg[t] # NoRow,
             arg[t].user = u
      PROVE  /\ \/ Held(u)'.withdrawn >= Held(u).withdrawn
                \/ RecordsNegative(u)
             /\ \/ Held(u)'.current + Held(u)'.withdrawn
                      >= Held(u).current + Held(u).withdrawn
                \/ RecordsNegative(u) /\ balances[u] = NoRow
  <2>1. PICK a \in Int : /\ a = Round(arg[t].sum)
                         /\ Held(u)' = Decreased(u, a)
                         /\ balances[u] = NoRow => a <= 0
    BY <1>5, CommitMoves
  <2>2. a < 0 => RecordsNegative(u)
    <3>1. PICK o \in OrderIds : o = arg[t].order
      BY <1>5, CommitRecords DEF FundsInv
    <3>2. /\ withdrawals[o] = NoRow /\ withdrawals'[o] # NoRow
          /\ withdrawals'[o] = [user |-> u, sum |-> a]
      BY <1>5, <2>1, <3>1, CommitRecords DEF FundsInv, TypeOK
    <3> QED
      BY <3>2 DEF RecordsNegative
  <2>3. CASE balances[u] = NoRow
    BY <2>1, <2>2, <2>3 DEF Decreased, Held
  <2>4. CASE balances[u] # NoRow
    BY <1>1, <2>1, <2>2, <2>4 DEF Decreased, Held, Balance
  <2> QED
    BY <2>3, <2>4
<1>6. ASSUME NEW t \in Txns, AtCommit(t), Publish(t), arg[t] # NoRow,
             arg[t].user # u
      PROVE  Held(u)' = Held(u)
  BY <1>6, CommitMoves
<1>7. \/ UNCHANGED balances
      \/ \E t \in Txns : AtCommit(t) /\ Publish(t)
  BY TablesSame DEF tables, Accepted
<1> QED
  BY <1>2, <1>3, <1>4, <1>5, <1>6, <1>7

\* No interleaving of withdrawals and batches, and no commit whose answer
\* was lost, makes points that were earned disappear: every change of a
\* balance starts from the row as it is when the change becomes visible.
\* Only a restart does, or a sum below zero that makes the first row of its
\* user; what was withdrawn shrinks by a restart or a sum below zero only.
THEOREM EarnedKept == PgSpec => EarnedNeverLost
<1>1. TypeOK /\ FundsInv /\ BooksInv /\ TypeOK' /\ [PgNext]_pgVars =>
        [\/ Restart
         \/ \A u \in Users :
               /\ \/ Held(u)'.withdrawn >= Held(u).withdrawn
                  \/ RecordsNegative(u)
               /\ \/ Held(u)'.current + Held(u)'.withdrawn
                        >= Held(u).current + Held(u).withdrawn
                  \/ RecordsNegative(u) /\ balances[u] = NoRow]_pgVars
  BY EarnedStep DEF BooksInv
<1> QED
  BY <1>1, BooksKept, PTL DEF PgSpec, EarnedNeverLost

-----------------------------------------------------------------------------
(***************************************************************************)
(* The store implements the ledger.                                        *)
(***************************************************************************)

\* The COMMIT of a withdrawal is the atomic withdrawal: its guard was checked
\* against a row that has not lost points since, or the user has raced.
LEMMA CommitWithdraws ==
    ASSUME TypeOK, TypeOK', FundsInv, RowsWritten, NEW t \in Txns, Publish(t),
           AtCommit(t), UNCHANGED overlap, arg[t] # NoRow
    PROVE  AtomicLedger!Next
<1>1. PICK u \in Users, o \in OrderIds, m \in Sums :
           arg[t] = [user |-> u, order |-> o, sum |-> m]
  BY DEF TypeOK, Asked
<1>2. PICK a \in Int : a = Round(m)
  BY RoundInt, PgAssumption
<1>3. arg[t].user = u /\ arg[t].order = o /\ Round(arg[t].sum) = a
  BY <1>1, <1>2
<1>4. orders' = orders
  <2>1. \A p \in OrderIds : orders'[p] = orders[p]
    BY Published DEF RowsWritten, OnlyBatches
  <2> QED
    BY <2>1 DEF TypeOK
<1>5. withdrawals[o] = NoRow
      /\ withdrawals' = [withdrawals EXCEPT ![o] = [user |-> u, sum |-> a]]
  BY <1>3, CommitRecords DEF FundsInv
<1>6. /\ balances' = [balances EXCEPT ![u] = Decreased(u, a)]
      /\ balances[u] = NoRow => a <= 0
  <2>1. /\ balances'[u] = Decreased(u, a)
        /\ balances[u] = NoRow => a <= 0
        /\ \A v \in Users \ {u} : balances'[v] = balances[v]
    BY <1>3, CommitMoves
  <2> QED
    BY <2>1 DEF TypeOK
<1>7. u \in overlap \/ a <= Held(u).current
  BY <1>3, CommitMoves
<1>8. Held(u) = AtomicLedger!Held(u)
  BY DEF Held, AtomicLedger!Held
<1>9. AtomicLedger!Withdraw(u, o, a)
  BY <1>4, <1>5, <1>6, <1>7, <1>8 DEF AtomicLedger!Withdraw, Decreased
<1> QED
  BY <1>2, <1>9 DEF AtomicLedger!Next

\* The ledger adds up as the store does.
LEMMA LedgerSum ==
    ASSUME NEW f
    PROVE  AtomicLedger!SumFunction(f) = SumFunction(f)
  BY Zenon DEF SumFunction, SumFunctionOnSet, FoldFunctionOnSet,
       MapThenFoldSet, AtomicLedger!SumFunction, AtomicLedger!SumFunctionOnSet,
       AtomicLedger!FoldFunctionOnSet, AtomicLedger!MapThenFoldSet

\* The COMMIT of a batch is a settlement of the orders it has written.
LEMMA CommitSettles ==
    ASSUME TypeOK, TypeOK', FundsInv, RowsWritten, BatchPays, NEW t \in Txns,
           Publish(t), AtCommit(t), UNCHANGED overlap, arg[t] = NoRow
    PROVE  AtomicLedger!Next
<1> DEFINE S == {o \in OrderIds : uOrders[t][o] # NoRow}
           answer == [o \in S |-> [status  |-> uOrders[t][o].status,
                                   accrual |-> uOrders[t][o].accrual]]
<1>1. \A o \in S : /\ orders[o] # NoRow /\ uOrders[t][o] \in Order
                   /\ uOrders[t][o].user = orders[o].user
                   /\ \E a \in Updates :
                         /\ uOrders[t][o].status = a.status
                         /\ uOrders[t][o].accrual = Round(a.accrual)
  BY DEF TypeOK, RowsWritten, OwnersKept, OnlyBatches
<1>2. S \in SUBSET AtomicLedger!Present(orders)
  BY <1>1 DEF AtomicLedger!Present, TypeOK
<1>3. answer \in [S -> {[status |-> a.status, accrual |-> Round(a.accrual)] :
                          a \in Updates}]
  BY <1>1
<1>4. UNCHANGED withdrawals
  <2>1. \A o \in OrderIds : withdrawals'[o] = withdrawals[o]
    BY Published DEF RowsWritten, AskedRecorded
  <2> QED
    BY <2>1 DEF TypeOK
<1>5. orders' = [o \in OrderIds |->
                    IF o \in S THEN [user    |-> orders[o].user,
                                     status  |-> answer[o].status,
                                     accrual |-> answer[o].accrual]
                               ELSE orders[o]]
  <2>1. \A o \in S : uOrders[t][o] = [user    |-> orders[o].user,
                                      status  |-> answer[o].status,
                                      accrual |-> answer[o].accrual]
    BY <1>1 DEF Order
  <2>2. \A o \in OrderIds : orders'[o] = IF o \in S THEN uOrders[t][o]
                                                    ELSE orders[o]
    BY Published
  <2> HIDE DEF S, answer
  <2> QED
    BY <2>1, <2>2 DEF TypeOK
<1>6. ASSUME NEW u \in Users
      PROVE  balances'[u] =
               IF \E o \in S : orders[o].user = u
               THEN [current   |-> AtomicLedger!Held(u).current
                                     + AtomicLedger!Credit(u, S, answer),
                     withdrawn |-> AtomicLedger!Held(u).withdrawn]
               ELSE balances[u]
  <2> DEFINE P == PaidBy(t, u)
             h == [o \in P |-> uOrders[t][o].accrual]
  <2>1. P = {o \in S : orders[o].user = u}
    <3>1. P = {o \in Present(uOrders[t]) : uOrders[t][o].user = u}
      BY PaidAll DEF FundsInv
    <3>2. Present(uOrders[t]) = S
      BY DEF Present, TypeOK
    <3> HIDE DEF S, P
    <3> QED
      BY <1>1, <3>1, <3>2
  <2>2. h = [o \in {p \in S : orders[p].user = u} |-> answer[o].accrual]
    <3>1. \A o \in P : o \in S /\ answer[o].accrual = uOrders[t][o].accrual
      BY <2>1
    <3>2. h = [o \in P |-> answer[o].accrual]
      BY <3>1
    <3> DEFINE Q == {p \in S : orders[p].user = u}
    <3>3. P = Q
      BY <2>1
    <3> HIDE DEF P, S, answer, h, Q
    <3>4. h = [o \in Q |-> answer[o].accrual]
      BY <3>2, <3>3, Zenon
    <3> QED
      BY <3>4, Zenon DEF Q
  <2>3. AtomicLedger!Credit(u, S, answer) = SumFunction(h)
    <3> HIDE DEF h, S, answer
    <3>1. AtomicLedger!Credit(u, S, answer) = AtomicLedger!SumFunction(h)
      BY <2>2, Zenon DEF AtomicLedger!Credit
    <3> QED
      BY <3>1, LedgerSum
  <2>4. AtomicLedger!Held(u) = Held(u)
    BY DEF Held, AtomicLedger!Held
  <2>5. Pay(uBalances[t][u], Held(u), P, uOrders[t])
    BY BatchPaysEach DEF Pays
  <2>6. /\ uBalances[t][u] = NoRow => balances'[u] = balances[u]
        /\ uBalances[t][u] # NoRow => balances'[u] = uBalances[t][u]
    BY PublishHeld
  <2>7. P # {} <=> \E o \in S : orders[o].user = u
    BY <2>1
  <2>8. /\ uBalances[t][u] # NoRow <=> P # {}
        /\ uBalances[t][u] # NoRow =>
             uBalances[t][u] = [current   |-> Held(u).current + SumFunction(h),
                                withdrawn |-> Held(u).withdrawn]
    BY <2>5, Zenon DEF Pay
  <2> HIDE DEF P, h, S, answer
  <2> QED
    BY <2>3, <2>4, <2>6, <2>7, <2>8
<1> HIDE DEF S, answer
<1>7. balances' = [u \in Users |->
                     IF \E o \in S : orders[o].user = u
                     THEN [current   |-> AtomicLedger!Held(u).current
                                           + AtomicLedger!Credit(u, S, answer),
                           withdrawn |-> AtomicLedger!Held(u).withdrawn]
                     ELSE balances[u]]
  BY <1>6 DEF TypeOK
<1>8. AtomicLedger!Settle(S, answer)
  BY <1>4, <1>5, <1>7, Zenon DEF AtomicLedger!Settle
<1> QED
  BY <1>2, <1>3, <1>8, Zenon DEF AtomicLedger!Next

\* Every step of the store is a step of the ledger or changes nothing in it.
LEMMA LedgerStep ==
    ASSUME TypeOK, FundsInv, BooksInv, [PgNext]_pgVars
    PROVE  [AtomicLedger!Next]_(AtomicLedger!vars)
<1> USE DEF tables, written
<1>1. CASE UNCHANGED <<tables, overlap>>
  BY <1>1 DEF AtomicLedger!vars
<1>2. ASSUME NEW u \in Users, NEW o \in OrderIds, Accepted(u, o)
      PROVE  AtomicLedger!Next
  <2>1. AtomicLedger!Accept(u, o)
    BY <1>2 DEF Accepted, NewOrder, AtomicLedger!Accept
  <2> QED
    BY <2>1 DEF AtomicLedger!Next
<1>3. ASSUME NEW h \in Handlers, NEW u \in Users, NEW o \in OrderIds,
             NEW m \in Sums, InsertWithdraw(h, u, o, m)
      PROVE  [AtomicLedger!Next]_(AtomicLedger!vars)
  <2>1. CASE UNCHANGED overlap
    BY <1>1, <1>3, <2>1 DEF InsertWithdraw
  <2>2. CASE overlap' = overlap \union {u}
    <3>1. AtomicLedger!Race(u)
      BY <1>3, <2>2 DEF InsertWithdraw, AtomicLedger!Race
    <3> QED
      BY <3>1 DEF AtomicLedger!Next
  <2> QED
    BY <1>3, <2>1, <2>2 DEF InsertWithdraw
<1>4. ASSUME NEW t \in Txns, AtCommit(t), Publish(t), UNCHANGED overlap
      PROVE  AtomicLedger!Next
  <2>1. TypeOK'
    BY TypeStep DEF FundsInv
  <2> QED
    BY <1>4, <2>1, CommitWithdraws, CommitSettles DEF BooksInv
<1>5. CASE Restart
  <2>1. AtomicLedger!Reset
    BY <1>5 DEF Restart, AtomicLedger!Reset, NoOrders, NoBalances
  <2> QED
    BY <2>1 DEF AtomicLedger!Next
<1>6. ASSUME NEW h \in Handlers,
             SelectEnough(h) \/ DecBalance(h) \/ InsertWithdrawal(h)
      PROVE  UNCHANGED <<tables, overlap>>
  BY <1>6 DEF SelectEnough, DecBalance, InsertWithdrawal
<1>7. ASSUME NEW o \in OrderIds, UpdateOrder(o) \/ CreditBalance(o)
      PROVE  UNCHANGED <<tables, overlap>>
  BY <1>7 DEF UpdateOrder, CreditBalance
<1>8. ASSUME NEW b, UpdateOrdersBalancesBatch(b)
      PROVE  UNCHANGED <<tables, overlap>>
  BY <1>8 DEF UpdateOrdersBalancesBatch
<1>9. ASSUME NEW t \in Txns, Rollback(t)
      PROVE  UNCHANGED <<tables, overlap>>
  BY <1>9 DEF Rollback
<1>10. ASSUME NEW t \in Callers, LoseCommit(t)
      PROVE  UNCHANGED <<tables, overlap>>
  BY <1>10 DEF LoseCommit
<1> QED
  BY <1>1, <1>2, <1>3, <1>4, <1>5, <1>6, <1>7, <1>8, <1>9, <1>10, BookCases

LEMMA LedgerInit == PgInit => AtomicLedger!Init
  BY DEF PgInit, AtomicLedger!Init, NoOrders, NoBalances

\* To everybody who sees committed rows only, the statements of pg.go are a
\* ledger that changes in single atomic steps, with the guard on the funds of
\* a withdrawal for every user who has not raced.
THEOREM StoreIsLedger == PgSpec => ImplementsLedger
<1>1. PgInit => AtomicLedger!Init
  BY LedgerInit
<1>2. TypeOK /\ FundsInv /\ BooksInv /\ [PgNext]_pgVars
        => [AtomicLedger!Next]_(AtomicLedger!vars)
  BY LedgerStep
<1> QED
  BY <1>1, <1>2, BooksKept, PTL DEF PgSpec, ImplementsLedger, AtomicLedger!Spec
=============================================================================
