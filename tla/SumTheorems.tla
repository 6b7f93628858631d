---------------------------- MODULE SumTheorems ----------------------------
(***************************************************************************)
(* What SumFunctionOnSet of the module Functions computes over a finite    *)
(* set of indices, for every function into the integers: the sums of       *)
(* amounts in the models (the claims of an envelope, the orders of an      *)
(* offer) are reasoned about with these facts. The folds are defined by a  *)
(* recursive function; induction is carried out on sets of naturals and    *)
(* on subsets of a finite set, through a minimal counterexample.           *)
(***************************************************************************)
EXTENDS Integers, Sequences, Functions, FiniteSets, FiniteSetTheorems, WellFoundedInduction, TLAPS

(* A set that has 0 and the successor of each natural in it has them all.  *)
LEMMA NatSetInduction ==
    ASSUME NEW K, 0 \in K, \A n \in Nat : n \in K => n + 1 \in K
    PROVE  Nat \subseteq K
<1> DEFINE T == Nat \ K
<1> SUFFICES ASSUME T # {} PROVE FALSE
  OBVIOUS
<1>1. PICK t \in T : \A y \in T : ~ (<<y, t>> \in OpToRel(<, Nat))
  <2>1. T \subseteq Nat
    OBVIOUS
  <2> HIDE DEF T
  <2> QED BY <2>1, NatLessThanWellFounded, WFMin, Zenon
<1>2. \A y \in T : ~ (y < t)
  BY <1>1 DEF OpToRel
<1>3. t # 0 /\ t - 1 \in Nat
  OBVIOUS
<1>4. t - 1 \notin T
  BY <1>2, <1>3
<1>5. t - 1 + 1 = t
  OBVIOUS
<1> QED BY <1>3, <1>4, <1>5

(* A set that has {} and, with a subset of S, that subset and one more
   element of S, has S.                                                    *)
LEMMA SetInduction ==
    ASSUME NEW S, IsFiniteSet(S), NEW K, {} \in K,
           \A T \in SUBSET S : \A x \in S \ T : T \in K => T \cup {x} \in K
    PROVE  S \in K
<1> DEFINE N == {n \in Nat : \A T \in SUBSET S : Cardinality(T) = n => T \in K}
<1>1. 0 \in N
  BY FS_EmptySet, FS_Subset
<1>2. ASSUME NEW n \in Nat, n \in N PROVE n + 1 \in N
  <2> SUFFICES ASSUME NEW T \in SUBSET S, Cardinality(T) = n + 1 PROVE T \in K
    OBVIOUS
  <2>1. IsFiniteSet(T)
    BY FS_Subset
  <2>2. PICK x \in T : TRUE
    BY FS_EmptySet, <2>1
  <2>3. Cardinality(T \ {x}) = n
    <3>1. Cardinality(T \ {x}) = Cardinality(T) - 1
      BY <2>1, <2>2, FS_RemoveElement
    <3> QED BY <3>1
  <2>4. T \ {x} \in K
    BY <1>2, <2>3
  <2>5. (T \ {x}) \cup {x} = T
    BY <2>2
  <2> QED BY <2>2, <2>4, <2>5
<1>3. Nat \subseteq N
  <2> HIDE DEF N
  <2> QED BY <1>1, <1>2, NatSetInduction
<1> QED BY <1>3, FS_CardinalityType

(* One unfolding of the recursive function behind the sum, and the function. *)
Step(f, it, s) == IF s = {} THEN 0 ELSE f[CHOOSE x \in s : TRUE] + it[s \ {CHOOSE x \in s : TRUE}]
Sums(f, S) == CHOOSE it : it = [s \in SUBSET S |-> Step(f, it, s)]

(* The sum over S is what that function has at S.                           *)
LEMMA SumUnfolded ==
    ASSUME NEW f, NEW S
    PROVE  SumFunctionOnSet(f, S) = Sums(f, S)[S]
BY DEF SumFunctionOnSet, FoldFunctionOnSet, MapThenFoldSet, Sums, Step

(* There is such a function: one for the subsets of each cardinality.       *)
LEMMA SumsExist ==
    ASSUME NEW f, NEW S, IsFiniteSet(S)
    PROVE  \E it : it = [s \in SUBSET S |-> Step(f, it, s)]
<1> DEFINE Upto(n, it) ==
        \A s \in SUBSET S : Cardinality(s) <= n => it[s] = Step(f, it, s)
<1> DEFINE N == {n \in Nat : \E it : Upto(n, it)}
<1>0. \A s \in SUBSET S : IsFiniteSet(s) /\ Cardinality(s) \in Nat
  BY FS_Subset, FS_CardinalityType
<1>1. 0 \in N
  <2> DEFINE it == [s \in SUBSET S |-> 0]
  <2>1. \A s \in SUBSET S : Cardinality(s) <= 0 => s = {}
    BY <1>0, FS_EmptySet
  <2>2. Upto(0, it)
    BY <2>1 DEF Step
  <2> QED BY <2>2
<1>2. ASSUME NEW n \in Nat, n \in N PROVE n + 1 \in N
  <2>1. PICK it : Upto(n, it)
    BY <1>2
  <2> DEFINE jt == [s \in SUBSET S |-> IF Cardinality(s) <= n THEN it[s] ELSE Step(f, it, s)]
  <2>2. ASSUME NEW s \in SUBSET S, s # {}, Cardinality(s) <= n + 1, NEW x \in s
        PROVE  jt[s \ {x}] = it[s \ {x}]
    <3>1. Cardinality(s \ {x}) = Cardinality(s) - 1
      BY <1>0, FS_RemoveElement
    <3>2. Cardinality(s \ {x}) <= n
      BY <1>0, <2>2, <3>1
    <3> QED BY <3>2
  <2>3. ASSUME NEW s \in SUBSET S, Cardinality(s) <= n + 1 PROVE jt[s] = Step(f, jt, s)
    <3>1. Step(f, jt, s) = Step(f, it, s)
      <4>1. CASE s = {}
        BY <4>1 DEF Step
      <4>2. CASE s # {}
        <5>1. (CHOOSE x \in s : TRUE) \in s
          BY <4>2
        <5>2. jt[s \ {CHOOSE x \in s : TRUE}] = it[s \ {CHOOSE x \in s : TRUE}]
          <6> HIDE DEF jt
          <6> QED BY <2>2, <2>3, <4>2, <5>1
        <5> HIDE DEF jt
        <5> QED BY <5>2 DEF Step
      <4> QED BY <4>1, <4>2
    <3>2. jt[s] = Step(f, it, s)
      <4> HIDE DEF Step
      <4> QED BY <2>1
    <3> QED BY <3>1, <3>2
  <2>4. Upto(n + 1, jt)
    <3> HIDE DEF jt
    <3> QED BY <2>3
  <2> HIDE DEF jt, Upto
  <2> QED BY <2>4
<1>3. Cardinality(S) \in N
  <2> HIDE DEF N
  <2> QED BY <1>0, <1>1, <1>2, NatSetInduction
<1>4. PICK it : Upto(Cardinality(S), it)
  BY <1>3
<1>5. \A s \in SUBSET S : it[s] = Step(f, it, s)
  BY <1>0, <1>4, FS_Subset
<1> DEFINE jt == [s \in SUBSET S |-> it[s]]
<1>6. \A s \in SUBSET S : Step(f, jt, s) = Step(f, it, s)
  BY DEF Step
<1>7. jt = [s \in SUBSET S |-> Step(f, jt, s)]
  <2>1. \A s \in SUBSET S : jt[s] = Step(f, jt, s)
    BY <1>5, <1>6
  <2> HIDE DEF Step
  <2> QED BY <2>1
<1> QED BY <1>7

(* The function is the one its recursion describes.                         *)
LEMMA SumsDefined ==
    ASSUME NEW f, NEW S, IsFiniteSet(S)
    PROVE  /\ \A s \in SUBSET S : Sums(f, S)[s] = Step(f, Sums(f, S), s)
           /\ DOMAIN Sums(f, S) = SUBSET S
<1>1. \E it : it = [s \in SUBSET S |-> Step(f, it, s)]
  BY SumsExist
<1>2. Sums(f, S) = [s \in SUBSET S |-> Step(f, Sums(f, S), s)]
  <2> HIDE DEF Step
  <2> QED BY <1>1, Zenon DEF Sums
<1>3. \A it : it = [s \in SUBSET S |-> Step(f, it, s)] =>
          /\ \A s \in SUBSET S : it[s] = Step(f, it, s)
          /\ DOMAIN it = SUBSET S
  OBVIOUS
<1> QED BY <1>2, <1>3

(* It has 0 at the empty set.                                               *)
LEMMA SumOfNone ==
    ASSUME NEW f, NEW S, IsFiniteSet(S)
    PROVE  Sums(f, S)[{}] = 0
<1>1. Sums(f, S)[{}] = Step(f, Sums(f, S), {})
  <2> HIDE DEF Step
  <2> QED BY SumsDefined
<1>2. Step(f, Sums(f, S), {}) = 0
  BY DEF Step
<1> QED BY <1>1, <1>2

(* The sum over a subset does not depend on the set it is a subset of.      *)
LEMMA SumsAgree ==
    ASSUME NEW f, NEW S, IsFiniteSet(S), NEW T \in SUBSET S
    PROVE  Sums(f, S)[T] = SumFunctionOnSet(f, T)
<1> DEFINE N == {n \in Nat : \A s \in SUBSET T : Cardinality(s) <= n => Sums(f, S)[s] = Sums(f, T)[s]}
<1>0. /\ \A s \in SUBSET T : IsFiniteSet(s) /\ Cardinality(s) \in Nat
      /\ IsFiniteSet(T)
  BY FS_Subset, FS_CardinalityType
<1>1. 0 \in N
  <2>1. \A s \in SUBSET T : Cardinality(s) <= 0 => s = {}
    BY <1>0, FS_EmptySet
  <2>2. Sums(f, S)[{}] = 0 /\ Sums(f, T)[{}] = 0
    BY <1>0, SumOfNone
  <2> QED BY <2>1, <2>2
<1>2. ASSUME NEW n \in Nat, n \in N PROVE n + 1 \in N
  <2> SUFFICES ASSUME NEW s \in SUBSET T, Cardinality(s) <= n + 1
               PROVE  Sums(f, S)[s] = Sums(f, T)[s]
    OBVIOUS
  <2>1. CASE s = {}
    BY <1>0, <2>1, SumOfNone
  <2>2. CASE s # {}
    <3> DEFINE x == CHOOSE x \in s : TRUE
    <3>1. x \in s
      BY <2>2
    <3> HIDE DEF x
    <3>2. Cardinality(s \ {x}) = Cardinality(s) - 1
      BY <1>0, <3>1, FS_RemoveElement
    <3>3. Cardinality(s \ {x}) <= n
      BY <1>0, <3>2
    <3>4. Sums(f, S)[s \ {x}] = Sums(f, T)[s \ {x}]
      BY <1>2, <3>3
    <3>5. Step(f, Sums(f, S), s) = Step(f, Sums(f, T), s)
      BY <3>4 DEF Step, x
    <3>6. Sums(f, S)[s] = Step(f, Sums(f, S), s)
      BY SumsDefined
    <3>7. Sums(f, T)[s] = Step(f, Sums(f, T), s)
      BY <1>0, SumsDefined
    <3> QED BY <3>5, <3>6, <3>7
  <2> QED BY <2>1, <2>2
<1>3. Cardinality(T) \in N
  <2> HIDE DEF N
  <2> QED BY <1>0, <1>1, <1>2, NatSetInduction
<1> QED BY <1>0, <1>3, SumUnfolded

(* The sum over no indices is 0. *)
THEOREM SumEmpty == \A f : SumFunctionOnSet(f, {}) = 0
<1> SUFFICES ASSUME NEW f PROVE SumFunctionOnSet(f, {}) = 0
  OBVIOUS
<1> QED BY FS_EmptySet, SumsDefined, SumUnfolded DEF Step

(* The sum takes out the element that CHOOSE picks.                         *)
LEMMA SumStep ==
    ASSUME NEW f, NEW S, IsFiniteSet(S), S # {}
    PROVE  \E x \in S : SumFunctionOnSet(f, S) = f[x] + SumFunctionOnSet(f, S \ {x})
<1> DEFINE x == CHOOSE x \in S : TRUE
<1>1. x \in S
  OBVIOUS
<1>2. Sums(f, S)[S] = f[x] + Sums(f, S)[S \ {x}]
  <2>1. Sums(f, S)[S] = Step(f, Sums(f, S), S)
    BY SumsDefined
  <2> QED BY <2>1 DEF Step
<1>3. Sums(f, S)[S \ {x}] = SumFunctionOnSet(f, S \ {x})
  <2> HIDE DEF x
  <2> QED BY SumsAgree
<1> HIDE DEF x
<1> QED BY <1>1, <1>2, <1>3, SumUnfolded

(* Any element may be taken out first; sums of integers are integers. *)
THEOREM SumTakeOut ==
    ASSUME NEW S, IsFiniteSet(S), NEW f, \A x \in S : f[x] \in Int
    PROVE  /\ SumFunctionOnSet(f, S) \in Int
           /\ \A x \in S : SumFunctionOnSet(f, S) = f[x] + SumFunctionOnSet(f, S \ {x})
<1> DEFINE Sum(s) == SumFunctionOnSet(f, s)
<1> DEFINE P(s) == Sum(s) \in Int /\ \A x \in s : Sum(s) = f[x] + Sum(s \ {x})
<1> DEFINE N == {n \in Nat : \A s \in SUBSET S : Cardinality(s) <= n => P(s)}
<1>0. /\ \A s \in SUBSET S : IsFiniteSet(s) /\ Cardinality(s) \in Nat
      /\ \A s \in SUBSET S : \A x \in s : Cardinality(s \ {x}) = Cardinality(s) - 1
  BY FS_Subset, FS_CardinalityType, FS_RemoveElement
<1>1. 0 \in N
  <2>1. \A s \in SUBSET S : Cardinality(s) <= 0 => s = {}
    BY <1>0, FS_EmptySet
  <2>2. P({})
    BY SumEmpty
  <2> HIDE DEF P
  <2> QED BY <2>1, <2>2
<1>2. ASSUME NEW n \in Nat, n \in N PROVE n + 1 \in N
  <2>1. SUFFICES ASSUME NEW s \in SUBSET S, Cardinality(s) <= n + 1 PROVE P(s)
    <3> HIDE DEF P
    <3> QED BY <2>1
  <2>2. CASE s = {}
    BY <2>2, SumEmpty
  <2>3. CASE s # {}
    <3>1. \A x \in s : P(s \ {x})
      <4> SUFFICES ASSUME NEW x \in s PROVE P(s \ {x})
        OBVIOUS
      <4>1. Cardinality(s \ {x}) <= n
        BY <1>0, <2>1
      <4> HIDE DEF P
      <4> QED BY <1>2, <4>1
    <3>2. PICK c \in s : Sum(s) = f[c] + Sum(s \ {c})
      <4> HIDE DEF P
      <4> QED BY <1>0, <2>3, SumStep
    <3> HIDE DEF Sum
    <3>3. Sum(s) \in Int
      BY <3>1, <3>2
    <3>4. ASSUME NEW x \in s, x # c PROVE Sum(s) = f[x] + Sum(s \ {x})
      <4>1. Sum(s \ {c}) = f[x] + Sum((s \ {c}) \ {x})
        BY <3>1, <3>4
      <4>2. Sum(s \ {x}) = f[c] + Sum((s \ {x}) \ {c})
        BY <3>1, <3>4
      <4>3. (s \ {c}) \ {x} = (s \ {x}) \ {c}
        OBVIOUS
      <4>4. Sum((s \ {x}) \ {c}) \in Int
        <5> DEFINE t == s \ {x}
        <5>1. \A y \in t : Sum(t \ {y}) \in Int
          <6>1. \A y \in t : Sum(t) = f[y] + Sum(t \ {y})
            BY <3>1
          <6>2. SUFFICES ASSUME NEW y \in t PROVE Cardinality(t \ {y}) <= n
            <7>1. \A r \in SUBSET S : Cardinality(r) <= n => Sum(r) \in Int
              BY <1>2
            <7> QED BY <6>2, <7>1
          <6>3. Cardinality(t) = Cardinality(s) - 1 /\ Cardinality(t \ {y}) = Cardinality(t) - 1
            BY <1>0
          <6> QED BY <1>0, <2>1, <6>3
        <5> QED BY <3>4, <5>1
      <4>5. f[x] \in Int /\ f[c] \in Int
        OBVIOUS
      <4>6. Sum((s \ {c}) \ {x}) = Sum((s \ {x}) \ {c})
        BY <4>3
      <4>7. \A a, b, r \in Int : a + (b + r) = b + (a + r)
        OBVIOUS
      <4>8. Sum(s) = f[c] + (f[x] + Sum((s \ {x}) \ {c}))
        BY <3>2, <4>1, <4>6
      <4> QED BY <4>2, <4>4, <4>5, <4>7, <4>8
    <3> QED BY <3>2, <3>3, <3>4
  <2> QED BY <2>2, <2>3
<1>3. Cardinality(S) \in N
  <2> HIDE DEF N
  <2> QED BY <1>0, <1>1, <1>2, NatSetInduction
<1> QED BY <1>0, <1>3

(* Sums of functions that agree, or are ordered, on the indices.           *)
THEOREM SumMonotone ==
    ASSUME NEW S, IsFiniteSet(S), NEW f, NEW g,
           \A x \in S : f[x] \in Int /\ g[x] \in Int /\ f[x] <= g[x]
    PROVE  SumFunctionOnSet(f, S) <= SumFunctionOnSet(g, S)
<1> DEFINE K == {T \in SUBSET S : SumFunctionOnSet(f, T) <= SumFunctionOnSet(g, T)}
<1>1. {} \in K
  BY SumEmpty
<1>2. ASSUME NEW T \in SUBSET S, NEW x \in S \ T, T \in K PROVE T \cup {x} \in K
  <2> DEFINE U == T \cup {x}
  <2>1. IsFiniteSet(U) /\ IsFiniteSet(T) /\ U \ {x} = T /\ x \in U
    BY FS_Subset
  <2>2. SumFunctionOnSet(f, U) = f[x] + SumFunctionOnSet(f, T) /\ SumFunctionOnSet(f, T) \in Int
    <3> HIDE DEF U
    <3>1. \A y \in U : f[y] \in Int
      BY DEF U
    <3>2. \A y \in T : f[y] \in Int
      OBVIOUS
    <3> QED BY <2>1, <3>1, <3>2, SumTakeOut
  <2>3. SumFunctionOnSet(g, U) = g[x] + SumFunctionOnSet(g, T) /\ SumFunctionOnSet(g, T) \in Int
    <3> HIDE DEF U
    <3>1. \A y \in U : g[y] \in Int
      BY DEF U
    <3>2. \A y \in T : g[y] \in Int
      OBVIOUS
    <3> QED BY <2>1, <3>1, <3>2, SumTakeOut
  <2>4. SumFunctionOnSet(f, T) <= SumFunctionOnSet(g, T) /\ f[x] <= g[x] /\ f[x] \in Int /\ g[x] \in Int
    BY <1>2
  <2>5. \A a, b, c, d \in Int : a <= b /\ c <= d => a + c <= b + d
    OBVIOUS
  <2>6. SumFunctionOnSet(f, U) <= SumFunctionOnSet(g, U)
    BY <2>2, <2>3, <2>4, <2>5
  <2> QED BY <2>6
<1>3. S \in K
  <2> HIDE DEF K
  <2> QED BY <1>1, <1>2, SetInduction
<1> QED BY <1>3

(* Equal terms have equal sums.                                             *)
THEOREM SumSame ==
    ASSUME NEW S, IsFiniteSet(S), NEW f, NEW g,
           \A x \in S : f[x] \in Int /\ f[x] = g[x]
    PROVE  SumFunctionOnSet(f, S) = SumFunctionOnSet(g, S)
<1>1. SumFunctionOnSet(f, S) <= SumFunctionOnSet(g, S)
  BY SumMonotone
<1>2. SumFunctionOnSet(g, S) <= SumFunctionOnSet(f, S)
  BY SumMonotone
<1>3. SumFunctionOnSet(f, S) \in Int /\ SumFunctionOnSet(g, S) \in Int
  BY SumTakeOut
<1> QED BY <1>1, <1>2, <1>3

(* A sum of naturals is a natural, and fewer indices give no more.         *)
THEOREM SumNat ==
    ASSUME NEW S, IsFiniteSet(S), NEW f, \A x \in S : f[x] \in Nat
    PROVE  /\ SumFunctionOnSet(f, S) \in Nat
           /\ \A x \in S : f[x] <= SumFunctionOnSet(f, S)
<1> DEFINE g == [x \in S |-> 0]
<1> DEFINE K == {T \in SUBSET S : SumFunctionOnSet(f, T) \in Nat}
<1>1. {} \in K
  BY SumEmpty
<1>2. ASSUME NEW T \in SUBSET S, NEW x \in S \ T, T \in K PROVE T \cup {x} \in K
  <2> DEFINE U == T \cup {x}
  <2>1. IsFiniteSet(U) /\ U \ {x} = T /\ x \in U /\ \A y \in U : f[y] \in Int
    BY FS_Subset
  <2>2. SumFunctionOnSet(f, U) = f[x] + SumFunctionOnSet(f, T)
    <3> HIDE DEF U
    <3> QED BY <2>1, SumTakeOut
  <2>3. SumFunctionOnSet(f, T) \in Nat /\ f[x] \in Nat
    BY <1>2
  <2>4. SumFunctionOnSet(f, U) \in Nat
    BY <2>2, <2>3
  <2> QED BY <2>4
<1>3. \A T \in SUBSET S : SumFunctionOnSet(f, T) \in Nat
  <2> SUFFICES ASSUME NEW T \in SUBSET S PROVE SumFunctionOnSet(f, T) \in Nat
    OBVIOUS
  <2> DEFINE L == {R \in SUBSET T : R \in K}
  <2>1. {} \in L /\ \A R \in SUBSET T : \A x \in T \ R : R \in L => R \cup {x} \in L
    <3> HIDE DEF K
    <3> QED BY <1>1, <1>2
  <2>2. T \in L
    <3> HIDE DEF L
    <3> QED BY <2>1, FS_Subset, SetInduction
  <2> QED BY <2>2
<1>4. ASSUME NEW x \in S PROVE f[x] <= SumFunctionOnSet(f, S)
  <2>1. SumFunctionOnSet(f, S) = f[x] + SumFunctionOnSet(f, S \ {x})
    BY SumTakeOut
  <2>2. SumFunctionOnSet(f, S \ {x}) \in Nat /\ f[x] \in Nat
    BY <1>3
  <2> QED BY <2>1, <2>2
<1> QED BY <1>3, <1>4

(* Changing one term changes the sum by as much.                           *)
THEOREM SumUpdate ==
    ASSUME NEW S, IsFiniteSet(S), NEW f, NEW g, NEW c \in S,
           \A x \in S : f[x] \in Int /\ g[x] \in Int /\ (x # c => f[x] = g[x])
    PROVE  SumFunctionOnSet(g, S) = SumFunctionOnSet(f, S) - f[c] + g[c]
<1>1. /\ SumFunctionOnSet(f, S) = f[c] + SumFunctionOnSet(f, S \ {c})
      /\ SumFunctionOnSet(g, S) = g[c] + SumFunctionOnSet(g, S \ {c})
  BY SumTakeOut
<1>2. IsFiniteSet(S \ {c})
  BY FS_Subset
<1>3. SumFunctionOnSet(f, S \ {c}) = SumFunctionOnSet(g, S \ {c})
  BY <1>2, SumSame
<1>4. SumFunctionOnSet(f, S \ {c}) \in Int /\ f[c] \in Int /\ g[c] \in Int
  BY <1>2, SumTakeOut
<1> QED BY <1>1, <1>3, <1>4

(* One more index adds its term.                                           *)
THEOREM SumAdd ==
    ASSUME NEW S, IsFiniteSet(S), NEW c, c \notin S, NEW f,
           \A x \in S \cup {c} : f[x] \in Int
    PROVE  SumFunctionOnSet(f, S \cup {c}) = f[c] + SumFunctionOnSet(f, S)
<1> DEFINE U == S \cup {c}
<1>1. IsFiniteSet(U) /\ c \in U /\ U \ {c} = S /\ \A x \in U : f[x] \in Int
  BY FS_AddElement
<1> HIDE DEF U
<1>2. SumFunctionOnSet(f, U) = f[c] + SumFunctionOnSet(f, S)
  BY <1>1, SumTakeOut
<1> QED BY <1>2 DEF U

(* A sum does not depend on the names of its indices.                      *)
THEOREM SumRenamed ==
    ASSUME NEW S, IsFiniteSet(S), NEW f, NEW g, NEW h, NEW R,
           \A x \in S : f[x] \in Int /\ g[h[x]] = f[x] /\ h[x] \in R,
           \A x, y \in S : h[x] = h[y] => x = y,
           \A y \in R : \E x \in S : h[x] = y
    PROVE  SumFunctionOnSet(g, R) = SumFunctionOnSet(f, S)
<1> DEFINE Img(T) == {h[x] : x \in T}
<1> DEFINE K == {T \in SUBSET S : IsFiniteSet(Img(T)) /\ SumFunctionOnSet(g, Img(T)) = SumFunctionOnSet(f, T)}
<1>1. {} \in K
  <2>1. Img({}) = {}
    OBVIOUS
  <2> HIDE DEF Img
  <2> QED BY <2>1, SumEmpty, FS_EmptySet
<1>2. ASSUME NEW T \in SUBSET S, NEW x \in S \ T, T \in K PROVE T \cup {x} \in K
  <2>1. Img(T \cup {x}) = Img(T) \cup {h[x]}
    OBVIOUS
  <2>2. h[x] \notin Img(T)
    OBVIOUS
  <2>3. \A y \in Img(T) \cup {h[x]} : g[y] \in Int
    OBVIOUS
  <2>4. IsFiniteSet(T) /\ x \notin T /\ \A y \in T \cup {x} : f[y] \in Int
    BY FS_Subset
  <2>5. g[h[x]] = f[x]
    OBVIOUS
  <2>6. IsFiniteSet(Img(T)) /\ SumFunctionOnSet(g, Img(T)) = SumFunctionOnSet(f, T)
    BY <1>2
  <2>7. T \cup {x} \in SUBSET S
    OBVIOUS
  <2>8. IsFiniteSet(Img(T) \cup {h[x]})
    BY <2>6, FS_AddElement
  <2> HIDE DEF Img
  <2>9. SumFunctionOnSet(g, Img(T) \cup {h[x]}) = g[h[x]] + SumFunctionOnSet(g, Img(T))
    BY <2>2, <2>3, <2>6, SumAdd
  <2>10. SumFunctionOnSet(f, T \cup {x}) = f[x] + SumFunctionOnSet(f, T)
    BY <2>4, SumAdd
  <2> QED BY <2>1, <2>5, <2>6, <2>7, <2>8, <2>9, <2>10
<1>3. S \in K
  <2> HIDE DEF K
  <2> QED BY <1>1, <1>2, SetInduction
<1>4. Img(S) = R
  OBVIOUS
<1> HIDE DEF Img
<1> QED BY <1>3, <1>4

(* A sum of zeros is 0.                                                    *)
THEOREM SumZero ==
    ASSUME NEW S, IsFiniteSet(S), NEW f, \A x \in S : f[x] = 0
    PROVE  SumFunctionOnSet(f, S) = 0
<1> DEFINE K == {T \in SUBSET S : SumFunctionOnSet(f, T) = 0}
<1>1. {} \in K
  BY SumEmpty
<1>2. ASSUME NEW T \in SUBSET S, NEW x \in S \ T, T \in K PROVE T \cup {x} \in K
  <2>1. IsFiniteSet(T) /\ \A y \in T \cup {x} : f[y] \in Int
    BY FS_Subset
  <2>2. SumFunctionOnSet(f, T \cup {x}) = f[x] + SumFunctionOnSet(f, T)
    BY <2>1, SumAdd
  <2>3. f[x] = 0 /\ SumFunctionOnSet(f, T) = 0
    BY <1>2
  <2>4. SumFunctionOnSet(f, T \cup {x}) = 0
    BY <2>2, <2>3
  <2> QED BY <2>4
<1>3. S \in K
  <2> HIDE DEF K
  <2> QED BY <1>1, <1>2, SetInduction
<1> QED BY <1>3

(* Taking d away from the terms at the indices in T takes the sum of d over T
   away from the sum.                                                       *)
THEOREM SumTaken ==
    ASSUME NEW S, IsFiniteSet(S), NEW T \in SUBSET S, NEW f, NEW g, NEW d,
           \A x \in S : f[x] \in Int /\ g[x] \in Int,
           \A x \in T : d[x] \in Int /\ f[x] = g[x] + d[x],
           \A x \in S \ T : f[x] = g[x]
    PROVE  /\ SumFunctionOnSet(f, S) \in Int /\ SumFunctionOnSet(g, S) \in Int
           /\ SumFunctionOnSet(d, T) \in Int
           /\ SumFunctionOnSet(f, S) = SumFunctionOnSet(g, S) + SumFunctionOnSet(d, T)
<1> DEFINE A(U) == SumFunctionOnSet(f, U)
           B(U) == SumFunctionOnSet(g, U)
           C(U) == SumFunctionOnSet(d, U \cap T)
<1>0. ASSUME NEW U \in SUBSET S PROVE A(U) \in Int /\ B(U) \in Int /\ C(U) \in Int
  <2>1. IsFiniteSet(U) /\ IsFiniteSet(U \cap T)
    BY FS_Subset
  <2>2. /\ \A x \in U : f[x] \in Int /\ g[x] \in Int
        /\ \A x \in U \cap T : d[x] \in Int
    OBVIOUS
  <2> QED BY <2>1, <2>2, SumTakeOut
<1> DEFINE K == {U \in SUBSET S : A(U) = B(U) + C(U)}
<1>1. {} \in K
  <2>1. {} \cap T = {}
    OBVIOUS
  <2>2. A({}) = 0 /\ B({}) = 0 /\ C({}) = 0
    BY <2>1, SumEmpty
  <2> HIDE DEF A, B, C
  <2> QED BY <2>2
<1>2. ASSUME NEW U \in SUBSET S, NEW x \in S \ U, U \in K PROVE U \cup {x} \in K
  <2>1. IsFiniteSet(U) /\ IsFiniteSet(U \cap T) /\ x \notin U /\ x \notin U \cap T
    BY FS_Subset
  <2>2. /\ \A y \in U \cup {x} : f[y] \in Int /\ g[y] \in Int
        /\ \A y \in U \cap T : d[y] \in Int
    OBVIOUS
  <2>3. A(U \cup {x}) = f[x] + A(U) /\ B(U \cup {x}) = g[x] + B(U)
    BY <2>1, <2>2, SumAdd
  <2>4. A(U) = B(U) + C(U) /\ U \cup {x} \in SUBSET S
    BY <1>2
  <2>5. f[x] \in Int /\ g[x] \in Int /\ A(U) \in Int /\ B(U) \in Int /\ C(U) \in Int
    BY <1>0
  <2>6. CASE x \in T
    <3>1. (U \cup {x}) \cap T = (U \cap T) \cup {x}
      BY <2>6
    <3>2. \A y \in (U \cap T) \cup {x} : d[y] \in Int
      BY <2>6
    <3>3. C(U \cup {x}) = d[x] + C(U)
      <4> DEFINE V == U \cap T
      <4>1. IsFiniteSet(V) /\ x \notin V /\ \A y \in V \cup {x} : d[y] \in Int
        BY <2>1, <3>2
      <4> HIDE DEF V
      <4>2. SumFunctionOnSet(d, V \cup {x}) = d[x] + SumFunctionOnSet(d, V)
        BY <4>1, SumAdd
      <4> QED BY <3>1, <4>2 DEF V
    <3>4. f[x] = g[x] + d[x] /\ d[x] \in Int
      BY <2>6
    <3> HIDE DEF A, B, C
    <3> QED BY <2>3, <2>4, <2>5, <3>3, <3>4
  <2>7. CASE x \notin T
    <3>1. (U \cup {x}) \cap T = U \cap T
      BY <2>7
    <3>2. C(U \cup {x}) = C(U)
      BY <3>1
    <3>3. f[x] = g[x]
      BY <2>7
    <3> HIDE DEF A, B, C
    <3> QED BY <2>3, <2>4, <2>5, <3>2, <3>3
  <2> QED BY <2>6, <2>7
<1>3. S \in K
  <2> HIDE DEF K
  <2> QED BY <1>1, <1>2, SetInduction
<1>4. S \cap T = T /\ S \in SUBSET S
  OBVIOUS
<1>5. A(S) = B(S) + C(S)
  BY <1>3
<1> QED BY <1>0, <1>4, <1>5

-----------------------------------------------------------------------------
(* Sequences of numbers.                                                   *)

(* The sum of a sequence is its first element and the sum of the others.    *)
THEOREM SumOfTail ==
    ASSUME NEW q \in Seq(Int), q # <<>>
    PROVE  SumFunction(q) \in Int /\ SumFunction(q) = Head(q) + SumFunction(Tail(q))
<1> DEFINE n == Len(q) - 1
           t == Tail(q)
           h == [i \in 1 .. n |-> i + 1]
<1>1. n \in Nat /\ DOMAIN q = 1 .. (n + 1) /\ DOMAIN t = 1 .. n
  OBVIOUS
<1>2. /\ \A i \in 1 .. n : t[i] = q[h[i]] /\ t[i] \in Int
      /\ \A i, j \in 1 .. n : h[i] = h[j] => i = j
  OBVIOUS
<1>3. /\ \A j \in (1 .. (n + 1)) \ {1} : \E i \in 1 .. n : h[i] = j
      /\ \A i \in 1 .. n : h[i] \in (1 .. (n + 1)) \ {1}
  <2>1. \A j \in (1 .. (n + 1)) \ {1} : j - 1 \in 1 .. n /\ h[j - 1] = j
    BY <1>1
  <2>2. \A i \in 1 .. n : h[i] \in (1 .. (n + 1)) \ {1}
    BY <1>1
  <2> HIDE DEF h, n
  <2> QED BY <2>1, <2>2
<1>4. Head(q) = q[1] /\ \A i \in 1 .. (n + 1) : q[i] \in Int
  OBVIOUS
<1>5. IsFiniteSet(1 .. n) /\ IsFiniteSet(1 .. (n + 1)) /\ 1 \in 1 .. (n + 1)
  <2>1. n \in Int /\ n + 1 \in Int /\ 1 \in 1 .. (n + 1)
    BY <1>1
  <2> HIDE DEF n
  <2>2. \A b \in Int : IsFiniteSet(1 .. b)
    BY FS_Interval
  <2> QED BY <2>1, <2>2
<1> HIDE DEF n, t, h
<1>6. SumFunctionOnSet(q, (1 .. (n + 1)) \ {1}) = SumFunctionOnSet(t, 1 .. n)
  <2> DEFINE A == 1 .. n
             B == (1 .. (n + 1)) \ {1}
  <2>1. /\ IsFiniteSet(A)
        /\ \A i \in A : t[i] \in Int /\ q[h[i]] = t[i] /\ h[i] \in B
        /\ \A i, j \in A : h[i] = h[j] => i = j
        /\ \A j \in B : \E i \in A : h[i] = j
    BY <1>2, <1>3, <1>5
  <2>2. SumFunctionOnSet(q, B) = SumFunctionOnSet(t, A)
    <3> HIDE DEF A, B
    <3> QED BY <2>1, SumRenamed
  <2> QED BY <2>2
<1>7. /\ SumFunctionOnSet(q, 1 .. (n + 1)) \in Int
      /\ SumFunctionOnSet(q, 1 .. (n + 1)) = q[1] + SumFunctionOnSet(q, (1 .. (n + 1)) \ {1})
  BY <1>4, <1>5, SumTakeOut
<1>8. SumFunction(q) = SumFunctionOnSet(q, 1 .. (n + 1)) /\ SumFunction(t) = SumFunctionOnSet(t, 1 .. n)
  BY <1>1 DEF SumFunction
<1> QED BY <1>3, <1>4, <1>6, <1>7, <1>8 DEF t

(* The sum of a sequence of naturals is a natural.                          *)
THEOREM SumOfSeq ==
    ASSUME NEW q \in Seq(Nat)
    PROVE  SumFunction(q) \in Nat
<1> DEFINE n == Len(q)
<1>1. n \in Nat /\ DOMAIN q = 1 .. n /\ \A i \in 1 .. n : q[i] \in Nat
  OBVIOUS
<1> HIDE DEF n
<1>2. IsFiniteSet(1 .. n)
  BY <1>1, FS_Interval
<1>3. SumFunctionOnSet(q, 1 .. n) \in Nat
  BY <1>1, <1>2, SumNat
<1> QED BY <1>1, <1>3 DEF SumFunction
=============================================================================
