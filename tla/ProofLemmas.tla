---------------------------- MODULE ProofLemmas ----------------------------
(***************************************************************************)
(* Facts that the proofs share: about the remainder, which the ring's      *)
(* wrapping counters and masked slot index and the numbering of the cells  *)
(* of a sweep rest on; induction stated for a set of numbers; and sums of  *)
(* integers over a finite set.                                             *)
(***************************************************************************)
EXTENDS Integers, Functions, FiniteSetTheorems, WellFoundedInduction, TLAPS

(* Quotient and remainder decompose a number.                              *)
LEMMA DivMod ==
    ASSUME NEW a \in Int, NEW n \in Nat \ {0}
    PROVE  /\ a \div n \in Int
           /\ a % n \in 0 .. n - 1
           /\ a = n * (a \div n) + (a % n)
OBVIOUS

(* A positive multiple of n is at least n.                                 *)
LEMMA MultipleIsFar ==
    ASSUME NEW n \in Nat \ {0}, NEW d \in Int, d >= 1
    PROVE  n * d >= n
OBVIOUS

(* Quotient and remainder are unique.                                      *)
LEMMA DivModUnique ==
    ASSUME NEW n \in Nat \ {0}, NEW p \in Int, NEW q \in Int,
           NEW r \in 0 .. n - 1, NEW s \in 0 .. n - 1,
           n * p + r = n * q + s
    PROVE  p = q /\ r = s
<1>1. n * (p - q) = s - r /\ n * (q - p) = r - s
  OBVIOUS
<1>2. ~(p - q >= 1) /\ ~(q - p >= 1)
  BY <1>1, MultipleIsFar
<1>3. p = q
  BY <1>2
<1> QED BY <1>3

(* What fits the decomposition is the remainder.                           *)
LEMMA ModIs ==
    ASSUME NEW n \in Nat \ {0}, NEW a \in Int, NEW q \in Int, NEW r \in 0 .. n - 1,
           a = n * q + r
    PROVE  a % n = r
BY DivMod, DivModUnique

(* Adding a multiple of n changes nothing modulo n.                        *)
LEMMA ModShift ==
    ASSUME NEW n \in Nat \ {0}, NEW a \in Int, NEW k \in Int, NEW b \in Int,
           b = a + n * k
    PROVE  b % n = a % n
<1>1. a = n * (a \div n) + (a % n) /\ a \div n \in Int /\ a % n \in 0 .. n - 1
  BY DivMod
<1>2. b = n * ((a \div n) + k) + (a % n) /\ (a \div n) + k \in Int
  BY <1>1
<1> QED BY <1>1, <1>2, ModIs

(* Numbers less than n apart have different remainders.                    *)
LEMMA ModNear ==
    ASSUME NEW n \in Nat \ {0}, NEW a \in Int, NEW b \in Int, a < b, b < a + n
    PROVE  a % n # b % n
<1> SUFFICES ASSUME a % n = b % n PROVE FALSE
  OBVIOUS
<1> DEFINE d == (b \div n) - (a \div n)
<1>1. b - a = n * d /\ d \in Int
  BY DivMod
<1>2. ~(d >= 1)
  BY <1>1, MultipleIsFar
<1>3. ~(d <= 0)
  <2>1. ASSUME d <= 0 PROVE n * d <= 0
    BY <1>1, <2>1
  <2> QED BY <1>1, <2>1
<1> QED BY <1>1, <1>2, <1>3

(* Multiplication is associative, for provers that need to be told.        *)
LEMMA Associative ==
    ASSUME NEW a \in Int, NEW b \in Int, NEW c \in Int
    PROVE  (a * b) * c = a * (b * c)
OBVIOUS

(* Reducing modulo a multiple of n first changes nothing modulo n.         *)
LEMMA ModMod ==
    ASSUME NEW n \in Nat \ {0}, NEW k \in Nat \ {0}, NEW m \in Nat \ {0}, m = n * k,
           NEW a \in Int
    PROVE  (a % m) % n = a % n
<1> DEFINE q == a \div m
<1> DEFINE r == a % m
<1>0. q \in Int /\ r \in 0 .. m - 1 /\ a = m * q + r
  BY DivMod, Zenon
<1> HIDE DEF q, r
<1>1. q \in Int /\ r \in Int /\ a = m * q + r
  BY <1>0
<1> DEFINE z == k * q
<1>2. m * q = n * z /\ z \in Int
  <2>1. (n * k) * q = n * (k * q) /\ k * q \in Int
    BY <1>1, Associative
  <2> QED BY <2>1
<1> HIDE DEF z
<1>3. a = r + n * z
  BY <1>1, <1>2
<1>4. a % n = r % n
  BY ZenonT(60), <1>1, <1>2, <1>3, ModShift
<1> QED BY <1>4 DEF r

(* The wrapped difference of two wrapped counters is their true difference,*)
(* as long as that is less than the modulus.                               *)
LEMMA ModDifference ==
    ASSUME NEW n \in Nat \ {0}, NEW a \in Int, NEW b \in Int, b <= a, a < b + n
    PROVE  ((a % n) - (b % n)) % n = a - b
<1> DEFINE d == (a % n) - (b % n)
<1> DEFINE k == (b \div n) - (a \div n)
<1> DEFINE c == a - b
<1>1. d \in Int /\ k \in Int /\ c \in Int /\ d = c + n * k
  BY DivMod
<1>2. c = n * 0 + c /\ c \in 0 .. n - 1
  OBVIOUS
<1> HIDE DEF c, d, k
<1>3. d % n = c % n
  BY <1>1, ModShift
<1>4. c % n = c
  BY <1>1, <1>2, ModIs
<1> QED BY <1>3, <1>4 DEF c, d

(* The successor of a wrapped counter wraps to the wrapped successor.      *)
LEMMA ModSuccessor ==
    ASSUME NEW n \in Nat \ {0}, NEW a \in Int
    PROVE  ((a % n) + 1) % n = (a + 1) % n
<1> DEFINE b == (a % n) + 1
<1> DEFINE c == a + 1
<1> DEFINE q == a \div n
<1>1. q \in Int /\ b \in Int /\ c \in Int /\ c = b + n * q
  BY DivMod
<1> HIDE DEF b, c, q
<1>2. c % n = b % n
  BY <1>1, ModShift
<1> QED BY <1>2 DEF b, c

-----------------------------------------------------------------------------
(* Every set of numbers that is not empty has a least one.                 *)
LessThan == {ss \in Nat \X Nat : ss[1] < ss[2]}
LEMMA LeastNumber ==
    ASSUME NEW T, T \subseteq Nat, T # {}
    PROVE  \E x \in T : \A y \in T : x <= y
<1>1. IsWellFoundedOn(LessThan, Nat)
  BY NatLessThanWellFounded DEF OpToRel, LessThan
<1>2. \E x \in T : \A y \in T : ~(<<y, x>> \in LessThan)
  BY <1>1, WFMin
<1>3. \A x, y \in Nat : y < x => <<y, x>> \in LessThan
  BY DEF LessThan
<1>4. PICK x \in T : \A y \in T : ~(<<y, x>> \in LessThan)
  BY <1>2
<1>5. ASSUME NEW y \in T PROVE x <= y
  <2>1. ~(y < x) /\ y \in Nat /\ x \in Nat
    BY <1>3, <1>4
  <2> QED BY <2>1
<1> QED BY <1>5

(* A set that holds 0, and the successor of each number it holds, holds    *)
(* every number.                                                           *)
LEMMA SetInduction ==
    ASSUME NEW T, 0 \in T, \A n \in Nat : n \in T => n + 1 \in T
    PROVE  Nat \subseteq T
<1> DEFINE S == Nat \ T
<1> SUFFICES ASSUME S # {} PROVE FALSE
  OBVIOUS
<1>1. PICK x \in S : \A y \in S : x <= y
  <2>1. S \subseteq Nat
    OBVIOUS
  <2> HIDE DEF S
  <2> QED BY <2>1, LeastNumber
<1>2. x # 0 /\ x \in Nat /\ x - 1 \in Nat /\ x - 1 \in T
  BY <1>1
<1> QED BY <1>2

-----------------------------------------------------------------------------
(* Sums.  SumFunctionOnSet takes the elements of a set in an order of its  *)
(* own choice; the sum does not depend on it.                              *)

AnyOf(s) == CHOOSE x \in s : TRUE
Sums(g, f, S) ==
    g = [s \in SUBSET S |-> IF s = {} THEN 0 ELSE f[AnyOf(s)] + g[s \ {AnyOf(s)}]]
IntOn(f, S) == \A x \in S : f[x] \in Int
Small(S, n) == {s \in SUBSET S : Cardinality(s) <= n}

LEMMA AnyIsIn ==
    ASSUME NEW s, s # {}
    PROVE  AnyOf(s) \in s
  BY DEF AnyOf

LEMMA SubsetsAreFinite ==
    ASSUME NEW S, IsFiniteSet(S), NEW s \in SUBSET S
    PROVE  IsFiniteSet(s) /\ Cardinality(s) \in Nat
  BY FS_Subset, FS_CardinalityType

LEMMA OneLess ==
    ASSUME NEW S, IsFiniteSet(S), NEW s \in SUBSET S, NEW x \in s
    PROVE  s \ {x} \in SUBSET S /\ Cardinality(s \ {x}) = Cardinality(s) - 1
  BY SubsetsAreFinite, FS_RemoveElement

LEMMA EmptyIsZero ==
    ASSUME NEW S, IsFiniteSet(S), NEW s \in SUBSET S
    PROVE  Cardinality(s) = 0 <=> s = {}
  BY SubsetsAreFinite, FS_EmptySet

(* A function that sums every subset of a finite set exists.               *)
LEMMA SumsExist ==
    ASSUME NEW S, IsFiniteSet(S), NEW f
    PROVE  \E g : Sums(g, f, S)
<1> DEFINE Next1(g, s) == IF s = {} THEN 0 ELSE f[AnyOf(s)] + g[s \ {AnyOf(s)}]
           T == {n \in Nat : \E g : \A s \in Small(S, n) : g[s] = Next1(g, s)}
<1>1. 0 \in T
  <2>1. \A s \in Small(S, 0) : s = {}
    BY EmptyIsZero, SubsetsAreFinite DEF Small
  <2>2. \A s \in Small(S, 0) : [t \in {{}} |-> 0][s] = Next1([t \in {{}} |-> 0], s)
    BY <2>1
  <2> QED BY <2>2
<1>2. ASSUME NEW n \in Nat, n \in T PROVE n + 1 \in T
  <2>1. PICK g : \A s \in Small(S, n) : g[s] = Next1(g, s)
    BY <1>2
  <2>2. PICK h : h = [s \in SUBSET S |-> IF s \in Small(S, n) THEN g[s] ELSE Next1(g, s)]
    OBVIOUS
  <2>3. ASSUME NEW s \in Small(S, n + 1) PROVE h[s] = Next1(h, s)
    <3>1. s \in SUBSET S /\ Cardinality(s) <= n + 1
      BY DEF Small
    <3>2. h[s] = Next1(g, s)
      BY <2>1, <2>2, <3>1
    <3>3. CASE s = {}
      BY <3>2, <3>3
    <3>4. CASE s # {}
      <4>1. PICK x : x = AnyOf(s) /\ x \in s
        BY <3>4, AnyIsIn
      <4>2. s \ {x} \in Small(S, n)
        BY <3>1, <4>1, OneLess, SubsetsAreFinite DEF Small
      <4>3. h[s \ {x}] = g[s \ {x}]
        BY <2>2, <3>1, <4>2
      <4> QED BY <3>2, <3>4, <4>1, <4>3
    <3> QED BY <3>3, <3>4
  <2> HIDE DEF Next1
  <2> QED BY <2>3
<1>3. Nat \subseteq T
  <2> HIDE DEF T
  <2> QED BY <1>1, <1>2, SetInduction
<1>4. Cardinality(S) \in T
  BY <1>3, FS_CardinalityType
<1>5. PICK g : \A s \in Small(S, Cardinality(S)) : g[s] = Next1(g, s)
  BY <1>4
<1>6. ASSUME NEW s \in SUBSET S PROVE s \in Small(S, Cardinality(S))
  BY FS_Subset DEF Small
<1>7. PICK h : h = [s \in SUBSET S |-> g[s]]
  OBVIOUS
<1>8. h = [s \in SUBSET S |-> Next1(h, s)]
  <2>1. ASSUME NEW s \in SUBSET S PROVE h[s] = Next1(h, s)
    <3>1. g[s] = Next1(g, s)
      BY <1>5, <1>6
    <3>2. CASE s = {}
      BY <1>7, <3>1, <3>2
    <3>3. CASE s # {}
      <4>1. s \ {AnyOf(s)} \in SUBSET S
        OBVIOUS
      <4>2. h[s \ {AnyOf(s)}] = g[s \ {AnyOf(s)}] /\ h[s] = g[s]
        BY <1>7, <4>1
      <4> QED BY <3>1, <3>3, <4>2
    <3> QED BY <3>2, <3>3
  <2>2. DOMAIN h = SUBSET S
    BY <1>7
  <2>3. h = [s \in SUBSET S |-> h[s]]
    BY <1>7
  <2> HIDE DEF Next1
  <2> QED BY <2>1, <2>3
<1> QED BY <1>8 DEF Sums

LEMMA SumIs ==
    ASSUME NEW f, NEW S, IsFiniteSet(S)
    PROVE  \E g : Sums(g, f, S) /\ SumFunctionOnSet(f, S) = g[S]
<1> DEFINE G == CHOOSE g : Sums(g, f, S)
<1>1. Sums(G, f, S)
  BY SumsExist
<1>2. SumFunctionOnSet(f, S) = G[S]
  BY DEF SumFunctionOnSet, FoldFunctionOnSet, MapThenFoldSet, Sums, AnyOf
<1> HIDE DEF G
<1> QED BY <1>1, <1>2

(* Whatever superset it was defined for, the sum is the same number.       *)
LEMMA SumsAgree ==
    ASSUME NEW S, IsFiniteSet(S), NEW f, IntOn(f, S),
           NEW g, Sums(g, f, S), NEW R \in SUBSET S, NEW h, Sums(h, f, R)
    PROVE  \A s \in SUBSET R : h[s] = g[s] /\ h[s] \in Int
<1> DEFINE T == {n \in Nat : \A s \in SUBSET R : Cardinality(s) = n => h[s] = g[s] /\ h[s] \in Int}
<1>0. \A s \in SUBSET R : s \in SUBSET S
  OBVIOUS
<1>1. \A s \in SUBSET S : g[s] = IF s = {} THEN 0 ELSE f[AnyOf(s)] + g[s \ {AnyOf(s)}]
  BY DEF Sums
<1>2. \A s \in SUBSET R : h[s] = IF s = {} THEN 0 ELSE f[AnyOf(s)] + h[s \ {AnyOf(s)}]
  BY DEF Sums
<1>3. 0 \in T
  <2>1. ASSUME NEW s \in SUBSET R, Cardinality(s) = 0
        PROVE  h[s] = g[s] /\ h[s] \in Int
    <3>1. s \in SUBSET S
      BY <1>0
    <3>2. s = {}
      BY <2>1, <3>1, EmptyIsZero
    <3>3. h[s] = 0 /\ g[s] = 0
      BY <1>1, <1>2, <3>1, <3>2
    <3> QED BY <3>3
  <2> QED BY <2>1
<1>4. ASSUME NEW n \in Nat, n \in T PROVE n + 1 \in T
  <2>1. ASSUME NEW s \in SUBSET R, Cardinality(s) = n + 1
        PROVE  h[s] = g[s] /\ h[s] \in Int
    <3>1. s # {} /\ s \in SUBSET S
      BY <1>0, <2>1, EmptyIsZero
    <3>2. PICK x : x = AnyOf(s) /\ x \in s
      BY <3>1, AnyIsIn
    <3>3. s \ {x} \in SUBSET R /\ Cardinality(s \ {x}) = n
      BY <2>1, <3>1, <3>2, OneLess
    <3>4. h[s \ {x}] = g[s \ {x}] /\ h[s \ {x}] \in Int
      BY <1>4, <3>3
    <3>5. f[x] \in Int
      BY <3>1, <3>2 DEF IntOn
    <3>6. h[s] = f[x] + h[s \ {x}] /\ g[s] = f[x] + g[s \ {x}]
      BY <1>1, <1>2, <3>1, <3>2
    <3> QED BY <3>4, <3>5, <3>6
  <2> QED BY <2>1
<1>5. Nat \subseteq T
  <2> HIDE DEF T
  <2> QED BY <1>3, <1>4, SetInduction
<1>6. \A s \in SUBSET R : Cardinality(s) \in T
  BY <1>0, <1>5, SubsetsAreFinite
<1> QED BY <1>6

(* Any element may be taken first.                                         *)
LEMMA TakeFirst ==
    ASSUME NEW S, IsFiniteSet(S), NEW f, IntOn(f, S), NEW g, Sums(g, f, S),
           NEW U \in SUBSET S, NEW e \in U
    PROVE  g[U] = f[e] + g[U \ {e}]
<1> DEFINE T == {n \in Nat : \A s \in SUBSET S : Cardinality(s) = n =>
                                \A x \in s : g[s] = f[x] + g[s \ {x}]}
<1>1. \A s \in SUBSET S : g[s] = IF s = {} THEN 0 ELSE f[AnyOf(s)] + g[s \ {AnyOf(s)}]
  BY DEF Sums
<1>2. \A s \in SUBSET S : g[s] \in Int
  BY SumsAgree
<1>3. 0 \in T
  BY EmptyIsZero
<1>4. ASSUME NEW n \in Nat, n \in T PROVE n + 1 \in T
  <2>1. ASSUME NEW s \in SUBSET S, Cardinality(s) = n + 1, NEW x \in s
        PROVE  g[s] = f[x] + g[s \ {x}]
    <3>1. PICK c : c = AnyOf(s) /\ c \in s
      BY AnyIsIn
    <3>2. g[s] = f[c] + g[s \ {c}]
      BY <1>1, <3>1
    <3>3. CASE c # x
      <4>1. x \in s \ {c} /\ c \in s \ {x} /\ (s \ {c}) \ {x} = (s \ {x}) \ {c}
        BY <3>1, <3>3
      <4>2. s \ {c} \in SUBSET S /\ Cardinality(s \ {c}) = n
        BY <2>1, <3>1, OneLess
      <4>3. s \ {x} \in SUBSET S /\ Cardinality(s \ {x}) = n
        BY <2>1, OneLess
      <4>4. PICK rest : rest = (s \ {c}) \ {x} /\ rest = (s \ {x}) \ {c} /\ rest \in SUBSET S
        BY <4>1
      <4>5. g[s \ {c}] = f[x] + g[rest]
        BY <1>4, <4>1, <4>2, <4>4
      <4>6. g[s \ {x}] = f[c] + g[rest]
        BY <1>4, <4>1, <4>3, <4>4
      <4>7. f[x] \in Int /\ f[c] \in Int /\ g[rest] \in Int
        BY <1>2, <3>1, <4>4 DEF IntOn
      <4> QED BY <3>2, <4>5, <4>6, <4>7
    <3> QED BY <3>1, <3>2, <3>3
  <2> QED BY <2>1
<1>5. Nat \subseteq T
  <2> HIDE DEF T
  <2> QED BY <1>3, <1>4, SetInduction
<1>6. \A s \in SUBSET S : Cardinality(s) \in T
  BY <1>5, SubsetsAreFinite
<1> QED BY <1>6

LEMMA SumOfNone ==
    ASSUME NEW f
    PROVE  SumFunctionOnSet(f, {}) = 0
<1>1. PICK g : Sums(g, f, {}) /\ SumFunctionOnSet(f, {}) = g[{}]
  BY SumIs, FS_EmptySet
<1> QED BY <1>1 DEF Sums

LEMMA SumOfMore ==
    ASSUME NEW f, NEW S, IsFiniteSet(S), NEW x, x \notin S, IntOn(f, S \cup {x})
    PROVE  /\ SumFunctionOnSet(f, S) \in Int
           /\ SumFunctionOnSet(f, S \cup {x}) = SumFunctionOnSet(f, S) + f[x]
<1>1. PICK U : U = S \cup {x}
  OBVIOUS
<1>8. IsFiniteSet(U) /\ S \in SUBSET U /\ U \in SUBSET U /\ x \in U /\ U \ {x} = S
  BY <1>1, FS_AddElement
<1>2. PICK g : Sums(g, f, U) /\ SumFunctionOnSet(f, U) = g[U]
  BY <1>8, SumIs
<1>3. PICK h : Sums(h, f, S) /\ SumFunctionOnSet(f, S) = h[S]
  BY SumIs
<1>4. IntOn(f, U)
  BY <1>1
<1>5. h[S] = g[S] /\ h[S] \in Int
  BY <1>2, <1>3, <1>4, <1>8, SumsAgree
<1>6. g[U] = f[x] + g[U \ {x}]
  BY <1>2, <1>4, <1>8, TakeFirst
<1>7. g[U] = f[x] + g[S] /\ f[x] \in Int
  BY <1>4, <1>6, <1>8 DEF IntOn
<1> QED BY <1>1, <1>2, <1>3, <1>5, <1>7

(* Induction over the subsets of a finite set, one element more at a time. *)
LEMMA SubsetInduction ==
    ASSUME NEW S, IsFiniteSet(S), NEW T, {} \in T,
           \A s \in SUBSET S, x \in S : s \in T /\ x \notin s => s \cup {x} \in T
    PROVE  S \in T
<1> DEFINE U == {n \in Nat : \A s \in SUBSET S : Cardinality(s) = n => s \in T}
<1>1. 0 \in U
  BY EmptyIsZero
<1>2. ASSUME NEW n \in Nat, n \in U PROVE n + 1 \in U
  <2> SUFFICES ASSUME NEW s \in SUBSET S, Cardinality(s) = n + 1 PROVE s \in T
    OBVIOUS
  <2>1. s # {}
    BY EmptyIsZero, <1>2
  <2>2. PICK x \in s : TRUE
    BY <2>1
  <2>3. PICK r \in SUBSET S : r = s \ {x}
    OBVIOUS
  <2>4. Cardinality(r) = n /\ x \notin r /\ s = r \cup {x} /\ x \in S
    BY <1>2, <2>2, <2>3, OneLess
  <2>5. r \in T
    BY <1>2, <2>4
  <2> QED BY <2>4, <2>5
<1>3. Nat \subseteq U
  <2> HIDE DEF U
  <2> QED BY <1>1, <1>2, SetInduction
<1>4. S \in SUBSET S /\ Cardinality(S) \in Nat
  BY SubsetsAreFinite
<1>5. Cardinality(S) \in U
  BY <1>3, <1>4
<1> QED BY <1>4, <1>5

(* One function for each sum: equal terms, equal sums.                     *)
LEMMA SumOfSame ==
    ASSUME NEW S, IsFiniteSet(S), NEW f, IntOn(f, S), NEW g, \A x \in S : g[x] = f[x]
    PROVE  SumFunctionOnSet(f, S) \in Int /\ SumFunctionOnSet(g, S) = SumFunctionOnSet(f, S)
<1> DEFINE T == {s \in SUBSET S : /\ SumFunctionOnSet(f, s) \in Int
                                  /\ SumFunctionOnSet(g, s) = SumFunctionOnSet(f, s)}
<1>1. {} \in T
  BY SumOfNone
<1>2. ASSUME NEW s \in SUBSET S, NEW x \in S, s \in T, x \notin s PROVE s \cup {x} \in T
  <2>1. IsFiniteSet(s) /\ IntOn(f, s \cup {x}) /\ IntOn(g, s \cup {x})
    BY SubsetsAreFinite DEF IntOn
  <2>2. SumFunctionOnSet(f, s \cup {x}) = SumFunctionOnSet(f, s) + f[x]
    BY <1>2, <2>1, SumOfMore
  <2>3. SumFunctionOnSet(g, s \cup {x}) = SumFunctionOnSet(g, s) + g[x]
    BY <1>2, <2>1, SumOfMore
  <2>4. SumFunctionOnSet(f, s \cup {x}) \in Int
    BY <1>2, <2>2 DEF IntOn
  <2> QED BY <1>2, <2>2, <2>3, <2>4
<1>3. S \in T
  <2> HIDE DEF T
  <2> QED BY <1>1, <1>2, SubsetInduction
<1> QED BY <1>3

(* Sums are linear in their terms ...                                      *)
LEMMA SumOfBoth ==
    ASSUME NEW S, IsFiniteSet(S), NEW f, IntOn(f, S), NEW g, IntOn(g, S),
           NEW h, \A x \in S : h[x] = f[x] + g[x]
    PROVE  SumFunctionOnSet(h, S) = SumFunctionOnSet(f, S) + SumFunctionOnSet(g, S)
<1> DEFINE T == {s \in SUBSET S : /\ SumFunctionOnSet(f, s) \in Int /\ SumFunctionOnSet(g, s) \in Int
                                  /\ SumFunctionOnSet(h, s) = SumFunctionOnSet(f, s) + SumFunctionOnSet(g, s)}
<1>1. {} \in T
  BY SumOfNone
<1>2. ASSUME NEW s \in SUBSET S, NEW x \in S, s \in T, x \notin s PROVE s \cup {x} \in T
  <2>1. IsFiniteSet(s) /\ IntOn(f, s \cup {x}) /\ IntOn(g, s \cup {x}) /\ IntOn(h, s \cup {x})
    BY SubsetsAreFinite DEF IntOn
  <2>2. SumFunctionOnSet(f, s \cup {x}) = SumFunctionOnSet(f, s) + f[x]
    BY <1>2, <2>1, SumOfMore
  <2>3. SumFunctionOnSet(g, s \cup {x}) = SumFunctionOnSet(g, s) + g[x]
    BY <1>2, <2>1, SumOfMore
  <2>4. SumFunctionOnSet(h, s \cup {x}) = SumFunctionOnSet(h, s) + h[x]
    BY <1>2, <2>1, SumOfMore
  <2>5. f[x] \in Int /\ g[x] \in Int /\ h[x] = f[x] + g[x]
    BY DEF IntOn
  <2>6. PICK a, b, c, d : /\ a = SumFunctionOnSet(f, s) /\ b = SumFunctionOnSet(g, s)
                          /\ c = f[x] /\ d = g[x]
    OBVIOUS
  <2>7. a \in Int /\ b \in Int /\ c \in Int /\ d \in Int /\ SumFunctionOnSet(h, s) = a + b
    BY <1>2, <2>5, <2>6
  <2>8. /\ SumFunctionOnSet(f, s \cup {x}) = a + c /\ SumFunctionOnSet(g, s \cup {x}) = b + d
        /\ SumFunctionOnSet(h, s \cup {x}) = (a + b) + (c + d)
    BY <2>2, <2>3, <2>4, <2>5, <2>6, <2>7
  <2>9. (a + b) + (c + d) = (a + c) + (b + d) /\ a + c \in Int /\ b + d \in Int
    BY <2>7
  <2> QED BY <2>8, <2>9
<1>3. S \in T
  <2> HIDE DEF T
  <2> QED BY <1>1, <1>2, SubsetInduction
<1> QED BY <1>3

(* ... and between the bounds of the terms, as often as there are terms.   *)
LEMMA SumIsBounded ==
    ASSUME NEW S, IsFiniteSet(S), NEW f, IntOn(f, S), NEW low \in Int, NEW high \in Int,
           \A x \in S : low <= f[x] /\ f[x] <= high
    PROVE  /\ SumFunctionOnSet(f, S) \in Int
           /\ Cardinality(S) * low <= SumFunctionOnSet(f, S)
           /\ SumFunctionOnSet(f, S) <= Cardinality(S) * high
<1> DEFINE T == {s \in SUBSET S : /\ SumFunctionOnSet(f, s) \in Int
                                  /\ Cardinality(s) * low <= SumFunctionOnSet(f, s)
                                  /\ SumFunctionOnSet(f, s) <= Cardinality(s) * high}
<1>1. {} \in T
  <2>1. Cardinality({}) = 0
    BY FS_EmptySet
  <2> QED BY <2>1, SumOfNone
<1>2. ASSUME NEW s \in SUBSET S, NEW x \in S, s \in T, x \notin s PROVE s \cup {x} \in T
  <2>1. IsFiniteSet(s) /\ IntOn(f, s \cup {x}) /\ Cardinality(s) \in Nat
    BY SubsetsAreFinite DEF IntOn
  <2>2. SumFunctionOnSet(f, s \cup {x}) = SumFunctionOnSet(f, s) + f[x]
    BY <1>2, <2>1, SumOfMore
  <2>3. Cardinality(s \cup {x}) = Cardinality(s) + 1
    BY <1>2, <2>1, FS_AddElement
  <2>4. PICK n \in Nat, a \in Int, c \in Int :
          n = Cardinality(s) /\ a = SumFunctionOnSet(f, s) /\ c = f[x]
    BY <1>2, <2>1 DEF IntOn
  <2>5. n * low <= a /\ a <= n * high /\ low <= c /\ c <= high
    BY <1>2, <2>4
  <2>6. (n + 1) * low = n * low + low /\ (n + 1) * high = n * high + high
        /\ n * low \in Int /\ n * high \in Int
    OBVIOUS
  <2>7. (n + 1) * low <= a + c /\ a + c <= (n + 1) * high
    BY <2>5, <2>6
  <2>8. SumFunctionOnSet(f, s \cup {x}) = a + c /\ Cardinality(s \cup {x}) = n + 1
    BY <2>2, <2>3, <2>4
  <2> QED BY <2>7, <2>8
<1>3. S \in T
  <2> HIDE DEF T
  <2> QED BY <1>1, <1>2, SubsetInduction
<1> QED BY <1>3
=============================================================================
