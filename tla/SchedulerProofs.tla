---------------------------- MODULE SchedulerProofs ----------------------------
(***************************************************************************)
(* What a plan of the scheduler may contain, for every configuration and   *)
(* every observation.                                                      *)
(***************************************************************************)
EXTENDS Scheduler, FiniteSetTheorems, TLAPS

-----------------------------------------------------------------------------
(* Finite sets, sums over them and orders on them. *)

(***************************************************************************)
(* Induction over the subsets of a finite set, said with a set instead of  *)
(* a predicate: what holds of a subset whenever it holds of what is left   *)
(* of it without any one element holds of every subset.  Removal of        *)
(* elements is well-founded.                                               *)
(***************************************************************************)
LEMMA FiniteDescent ==
  ASSUME NEW S, IsFiniteSet(S), NEW Good,
         \A T \in SUBSET S : (\A x \in T : T \ {x} \in Good) => T \in Good
  PROVE  \A T \in SUBSET S : T \in Good
<1> DEFINE Bad == {T \in SUBSET S : T \notin Good}
<1> SUFFICES ASSUME Bad # {} PROVE FALSE
  OBVIOUS
<1>1. Bad \subseteq FiniteSubsetsOf(S)
  BY FS_Subset DEF FiniteSubsetsOf
<1>2. IsWellFoundedOn(StrictSubsetOrdering(S), FiniteSubsetsOf(S))
  BY FS_StrictSubsetOrderingWellFounded
<1> HIDE DEF Bad
<1>3. PICK T \in Bad : \A U \in Bad : <<U, T>> \notin StrictSubsetOrdering(S)
  BY <1>1, <1>2, WFMin
<1> USE DEF Bad
<1>4. ASSUME NEW x \in T PROVE T \ {x} \in Good
  <2>1. T \ {x} \in SUBSET S /\ T \ {x} # T
    BY <1>4
  <2> QED
    BY <1>3, <2>1 DEF StrictSubsetOrdering
<1> QED
  BY <1>4

(***************************************************************************)
(* The same upwards: from the empty set, one element at a time.            *)
(***************************************************************************)
LEMMA FiniteGrowth ==
  ASSUME NEW S, IsFiniteSet(S), NEW Good, {} \in Good,
         \A T \in SUBSET S, x \in S : T \in Good /\ x \notin T => T \cup {x} \in Good
  PROVE  \A T \in SUBSET S : T \in Good
<1>1. ASSUME NEW T \in SUBSET S, \A x \in T : T \ {x} \in Good
      PROVE  T \in Good
  <2>1. ASSUME NEW x \in T PROVE T \in Good
    <3>1. (T \ {x}) \cup {x} = T /\ T \ {x} \in SUBSET S
      OBVIOUS
    <3> QED
      BY <1>1, <3>1
  <2> QED
    BY <2>1
<1> QED
  BY <1>1, FiniteDescent

(***************************************************************************)
(* A finite set in which any two elements have an order has a first        *)
(* element: what the head of a sorted slice is.                            *)
(***************************************************************************)
LEMMA FirstExists ==
  ASSUME NEW S, IsFiniteSet(S), S # {}, NEW before,
         \A x, y, z \in S : <<x, y>> \in before /\ <<y, z>> \in before => <<x, z>> \in before,
         \A x, y \in S : x # y => <<x, y>> \in before \/ <<y, x>> \in before
  PROVE  \E x \in S : \A y \in S \ {x} : <<x, y>> \in before
<1> DEFINE Good == {T \in SUBSET S : T # {} => \E x \in T : \A y \in T \ {x} : <<x, y>> \in before}
<1>1. {} \in Good
  OBVIOUS
<1>2. ASSUME NEW T \in SUBSET S, NEW x \in S, T \in Good, x \notin T
      PROVE  T \cup {x} \in Good
  <2>1. CASE T = {}
    BY <2>1
  <2>2. CASE T # {}
    <3>1. PICK f \in T : \A y \in T \ {f} : <<f, y>> \in before
      BY <1>2, <2>2
    <3>2. CASE <<f, x>> \in before
      BY <3>1, <3>2
    <3>3. CASE <<x, f>> \in before
      <4>1. \A y \in T \ {f} : <<x, y>> \in before
        BY <3>1, <3>3
      <4> QED
        BY <3>3, <4>1
    <3> QED
      BY <1>2, <3>1, <3>2, <3>3
  <2> QED
    BY <2>1, <2>2
<1> HIDE DEF Good
<1>3. S \in Good
  BY <1>1, <1>2, FiniteGrowth
<1> QED
  BY <1>3 DEF Good

(* The element of a set that the library takes out first. *)
Some(T) == CHOOSE x \in T : TRUE

(* g is a function on D that sums f. *)
SumOn(g, f, D) ==
  g = [T \in D |-> IF T = {} THEN 0 ELSE f[Some(T)] + g[T \ {Some(T)}]]

(***************************************************************************)
(* The function the library's sum is the choice of exists,                 *)
(***************************************************************************)
LEMMA SumExists ==
  ASSUME NEW f, NEW S, IsFiniteSet(S)
  PROVE  \E g : SumOn(g, f, SUBSET S)
<1> DEFINE Level(n) == {T \in SUBSET S : Cardinality(T) <= n}
           Good == {T \in SUBSET S : \E g : SumOn(g, f, Level(Cardinality(T)))}
<1>0. \A T \in SUBSET S : IsFiniteSet(T) /\ Cardinality(T) \in Nat /\ Cardinality(T) <= Cardinality(S)
  BY FS_Subset, FS_CardinalityType
<1>1. {} \in Good
  <2> DEFINE g == [T \in {{}} |-> 0]
  <2>1. Level(0) = {{}} /\ Cardinality({}) = 0
    BY <1>0, FS_EmptySet
  <2>2. SumOn(g, f, {{}})
    BY DEF SumOn
  <2> QED
    BY <2>1, <2>2
<1>2. ASSUME NEW T \in SUBSET S, NEW x \in S, T \in Good, x \notin T
      PROVE  T \cup {x} \in Good
  <2> DEFINE n == Cardinality(T)
  <2>1. Cardinality(T \cup {x}) = n + 1 /\ n \in Nat
    BY <1>0, <1>2, FS_AddElement
  <2>2. PICK g : SumOn(g, f, Level(n))
    BY <1>2
  <2> DEFINE h == [U \in Level(n + 1) |-> IF U = {} THEN 0 ELSE f[Some(U)] + g[U \ {Some(U)}]]
  <2>3. ASSUME NEW U \in Level(n + 1), U # {}
        PROVE  g[U \ {Some(U)}] = h[U \ {Some(U)}]
    <3>1. Some(U) \in U
      BY <2>3 DEF Some
    <3>2. U \ {Some(U)} \in Level(n)
      BY <1>0, <2>1, <3>1, FS_RemoveElement
    <3>3. U \ {Some(U)} \in Level(n + 1)
      BY <1>0, <2>1, <3>2
    <3> QED
      BY <2>2, <3>2, <3>3 DEF SumOn
  <2> HIDE DEF n, Level
  <2>4. SumOn(h, f, Level(n + 1))
    BY <2>3 DEF SumOn
  <2>5. \E k : SumOn(k, f, Level(Cardinality(T \cup {x})))
    BY <2>1, <2>4
  <2> QED
    BY <2>5
<1>3. S \in Good
  <2> HIDE DEF Good
  <2> QED
    BY <1>1, <1>2, FiniteGrowth
<1>4. Level(Cardinality(S)) = SUBSET S
  BY <1>0
<1> QED
  BY <1>3, <1>4

SumUpTo(g, f, S) == SumOn(g, f, SUBSET S)

(***************************************************************************)
(* and on the sets they share any two of them agree.                       *)
(***************************************************************************)
LEMMA SumUnique ==
  ASSUME NEW f, NEW S, IsFiniteSet(S), NEW T \in SUBSET S,
         NEW g, SumUpTo(g, f, S), NEW h, SumUpTo(h, f, T)
  PROVE  g[T] = h[T]
<1> DEFINE Good == {U \in SUBSET T : g[U] = h[U]}
<1>1. IsFiniteSet(T)
  BY FS_Subset
<1>2. ASSUME NEW U \in SUBSET T, \A x \in U : U \ {x} \in Good
      PROVE  U \in Good
  <2>1. U \in SUBSET S
    OBVIOUS
  <2>2. CASE U = {}
    BY <2>1, <2>2 DEF SumOn, SumUpTo
  <2>3. CASE U # {}
    <3>1. Some(U) \in U
      BY <2>3 DEF Some
    <3>2. g[U \ {Some(U)}] = h[U \ {Some(U)}]
      BY <1>2, <3>1
    <3> QED
      BY <2>1, <2>3, <3>2 DEF SumOn, SumUpTo
  <2> QED
    BY <2>2, <2>3
<1>3. T \in Good
  <2> HIDE DEF Good
  <2> QED
    BY <1>1, <1>2, FiniteDescent
<1> QED
  BY <1>3

(***************************************************************************)
(* So the sum is the value of such a function,                             *)
(***************************************************************************)
LEMMA SumIsSome ==
  ASSUME NEW f, NEW S, IsFiniteSet(S)
  PROVE  \E g : SumUpTo(g, f, S) /\ SumFunctionOnSet(f, S) = g[S]
<1> DEFINE g == CHOOSE g : SumUpTo(g, f, S)
<1>1. SumUpTo(g, f, S)
  BY SumExists DEF SumUpTo
<1>2. SumFunctionOnSet(f, S) = g[S]
  BY DEF SumFunctionOnSet, FoldFunctionOnSet, MapThenFoldSet, SumOn, SumUpTo, Some
<1> QED
  BY <1>1, <1>2

(***************************************************************************)
(* it is the sum of the rest and of an element the library picks,          *)
(***************************************************************************)
LEMMA SumStep ==
  ASSUME NEW f, NEW S, IsFiniteSet(S)
  PROVE  SumFunctionOnSet(f, S) =
           IF S = {} THEN 0 ELSE f[Some(S)] + SumFunctionOnSet(f, S \ {Some(S)})
<1>1. PICK g : SumUpTo(g, f, S) /\ SumFunctionOnSet(f, S) = g[S]
  BY SumIsSome
<1>2. CASE S = {}
  BY <1>1, <1>2 DEF SumOn, SumUpTo
<1>3. CASE S # {}
  <2> DEFINE T == S \ {Some(S)}
  <2>1. T \in SUBSET S /\ IsFiniteSet(T)
    BY FS_Subset
  <2>4. g[S] = f[Some(S)] + g[T]
    BY <1>1, <1>3 DEF SumOn, SumUpTo
  <2> HIDE DEF T
  <2>2. PICK h : SumUpTo(h, f, T) /\ SumFunctionOnSet(f, T) = h[T]
    BY <2>1, SumIsSome
  <2>3. g[T] = h[T]
    BY <1>1, <2>1, <2>2, SumUnique
  <2>5. SumFunctionOnSet(f, S) = f[Some(S)] + SumFunctionOnSet(f, T)
    BY <1>1, <2>2, <2>3, <2>4
  <2> QED
    BY <1>3, <2>5 DEF T
<1> QED
  BY <1>2, <1>3

(***************************************************************************)
(* and it does not matter which: the sum is an integer, and what any one   *)
(* element adds to the sum of the others.                                  *)
(***************************************************************************)
LEMMA SumOfOneMore ==
  ASSUME NEW f, NEW S, IsFiniteSet(S), \A x \in S : f[x] \in Int
  PROVE  /\ SumFunctionOnSet(f, S) \in Int
         /\ \A x \in S : SumFunctionOnSet(f, S) = f[x] + SumFunctionOnSet(f, S \ {x})
<1> DEFINE Sum(T) == SumFunctionOnSet(f, T)
           Whole == {T \in SUBSET S : Sum(T) \in Int}
           Good == {T \in SUBSET S : \A x \in T : Sum(T) = f[x] + Sum(T \ {x})}
<1>0. ASSUME NEW T \in SUBSET S
      PROVE  Sum(T) = IF T = {} THEN 0 ELSE f[Some(T)] + Sum(T \ {Some(T)})
  <2>0. IsFiniteSet(T)
    BY FS_Subset
  <2> QED
    BY <2>0, SumStep
<1>1. \A T \in SUBSET S : T # {} => Some(T) \in T
  BY DEF Some
<1> HIDE DEF Sum
<1>2. \A T \in SUBSET S : T \in Whole
  <2>1. ASSUME NEW T \in SUBSET S, \A x \in T : T \ {x} \in Whole
        PROVE  T \in Whole
    <3>1. Sum(T) \in Int
      <4>1. CASE T = {}
        <5>1. Sum(T) = 0
          BY <1>0, <4>1
        <5> QED
          BY <5>1
      <4>2. CASE T # {}
        <5> DEFINE c == Some(T)
        <5>1. c \in T /\ f[c] \in Int
          BY <1>1, <4>2
        <5>3. Sum(T) = f[c] + Sum(T \ {c})
          BY <1>0, <4>2
        <5> HIDE DEF c
        <5>2. Sum(T \ {c}) \in Int
          BY <2>1, <5>1
        <5> QED
          BY <5>1, <5>2, <5>3
      <4> QED
        BY <4>1, <4>2
    <3> QED
      BY <3>1
  <2> HIDE DEF Whole
  <2> QED
    BY <2>1, FiniteDescent
<1>3. \A T \in SUBSET S : T \in Good
  <2>1. ASSUME NEW T \in SUBSET S, \A x \in T : T \ {x} \in Good
        PROVE  T \in Good
    <3> DEFINE c == Some(T)
    <3>1. ASSUME NEW x \in T PROVE Sum(T) = f[x] + Sum(T \ {x})
      <4>1. c \in T /\ Sum(T) = f[c] + Sum(T \ {c})
        BY <1>0, <1>1, <3>1
      <4> HIDE DEF c
      <4>2. CASE x # c
        <5> DEFINE rest == (T \ {c}) \ {x}
        <5>1. rest \in SUBSET S /\ (T \ {x}) \ {c} = rest
          OBVIOUS
        <5>2. Sum(T \ {c}) = f[x] + Sum(rest)
          BY <2>1, <3>1, <4>1, <4>2
        <5>3. Sum(T \ {x}) = f[c] + Sum(rest)
          <6>1. T \ {x} \in Good /\ c \in T \ {x}
            BY <2>1, <4>1, <4>2
          <6>2. Sum(T \ {x}) = f[c] + Sum((T \ {x}) \ {c})
            BY <6>1
          <6> QED
            BY <5>1, <6>2
        <5>4. Sum(rest) \in Int
          BY <1>2, <5>1
        <5> HIDE DEF rest
        <5> QED
          BY <4>1, <5>2, <5>3, <5>4
      <4> QED
        BY <4>1, <4>2
    <3> QED
      BY <3>1
  <2> HIDE DEF Good
  <2> QED
    BY <2>1, FiniteDescent
<1> QED
  BY <1>2, <1>3 DEF Sum

(***************************************************************************)
(* The sum of nothing.                                                     *)
(***************************************************************************)
LEMMA SumOfNone == ASSUME NEW f PROVE SumFunctionOnSet(f, {}) = 0
BY SumStep, FS_EmptySet

(***************************************************************************)
(* A sum depends on the values of what it sums and on nothing else.        *)
(***************************************************************************)
LEMMA SumAgrees ==
  ASSUME NEW f, NEW g, NEW S, IsFiniteSet(S), \A x \in S : f[x] \in Int /\ g[x] = f[x]
  PROVE  SumFunctionOnSet(g, S) = SumFunctionOnSet(f, S)
<1> DEFINE Good == {T \in SUBSET S : SumFunctionOnSet(g, T) = SumFunctionOnSet(f, T)}
<1>1. ASSUME NEW T \in SUBSET S, \A x \in T : T \ {x} \in Good
      PROVE  T \in Good
  <2>1. IsFiniteSet(T)
    BY FS_Subset
  <2>2. CASE T = {}
    BY <2>2, SumOfNone
  <2>3. CASE T # {}
    <3>1. PICK x \in T : TRUE
      BY <2>3
    <3>2. SumFunctionOnSet(f, T) = f[x] + SumFunctionOnSet(f, T \ {x})
      BY <2>1, SumOfOneMore
    <3>3. SumFunctionOnSet(g, T) = g[x] + SumFunctionOnSet(g, T \ {x})
      BY <2>1, SumOfOneMore
    <3>4. SumFunctionOnSet(g, T \ {x}) = SumFunctionOnSet(f, T \ {x})
      BY <1>1
    <3> QED
      BY <3>2, <3>3, <3>4
  <2> QED
    BY <2>2, <2>3
<1> HIDE DEF Good
<1>2. \A T \in SUBSET S : T \in Good
  BY <1>1, FiniteDescent
<1> QED
  BY <1>2 DEF Good

(***************************************************************************)
(* A sum of sizes is a size and is never below the sum of a part.          *)
(***************************************************************************)
LEMMA SumGrows ==
  ASSUME NEW f, NEW S, IsFiniteSet(S), \A x \in S : f[x] \in Nat, NEW T \in SUBSET S
  PROVE  /\ SumFunctionOnSet(f, S) \in Nat
         /\ SumFunctionOnSet(f, T) \in Nat
         /\ SumFunctionOnSet(f, T) <= SumFunctionOnSet(f, S)
<1> DEFINE Sum(U) == SumFunctionOnSet(f, U)
           Good == {U \in SUBSET S : Sum(U) \in Nat}
           Above == {U \in SUBSET S : T \subseteq U => Sum(T) <= Sum(U)}
<1>1. \A U \in SUBSET S : \A x \in U : Sum(U) = f[x] + Sum(U \ {x})
  <2>1. ASSUME NEW U \in SUBSET S PROVE \A x \in U : Sum(U) = f[x] + Sum(U \ {x})
    <3>1. IsFiniteSet(U)
      BY FS_Subset
    <3> QED
      BY <3>1, SumOfOneMore
  <2> QED
    BY <2>1
<1>2. Sum({}) = 0
  BY SumOfNone
<1> HIDE DEF Sum
<1>3. \A U \in SUBSET S : U \in Good
  <2>1. ASSUME NEW U \in SUBSET S, \A x \in U : U \ {x} \in Good
        PROVE  U \in Good
    <3>1. CASE U = {}
      BY <1>2, <3>1
    <3>2. CASE U # {}
      <4>1. PICK x \in U : TRUE
        BY <3>2
      <4>2. Sum(U) = f[x] + Sum(U \ {x}) /\ f[x] \in Nat /\ Sum(U \ {x}) \in Nat
        BY <1>1, <2>1
      <4> QED
        BY <4>2
    <3> QED
      BY <3>1, <3>2
  <2> HIDE DEF Good
  <2> QED
    BY <2>1, FiniteDescent
<1>4. \A U \in SUBSET S : U \in Above
  <2>1. ASSUME NEW U \in SUBSET S, \A x \in U : U \ {x} \in Above
        PROVE  U \in Above
    <3>1. ASSUME T \subseteq U PROVE Sum(T) <= Sum(U)
      <4>1. CASE T = U
        BY <1>3, <4>1
      <4>2. CASE T # U
        <5>1. PICK x \in U \ T : TRUE
          BY <3>1, <4>2
        <5>2. Sum(U) = f[x] + Sum(U \ {x}) /\ f[x] \in Nat /\ Sum(U \ {x}) \in Nat
          BY <1>1, <1>3
        <5>3. Sum(T) <= Sum(U \ {x}) /\ Sum(T) \in Nat
          BY <1>3, <2>1, <3>1, <5>1
        <5> QED
          BY <5>2, <5>3
      <4> QED
        BY <4>1, <4>2
    <3> QED
      BY <3>1
  <2> HIDE DEF Above
  <2> QED
    BY <2>1, FiniteDescent
<1> QED
  BY <1>3, <1>4 DEF Sum

(***************************************************************************)
(* The order of two, three and four sort keys, written out.                *)
(***************************************************************************)
Keys == {Int \X Int, Int \X Int \X Int, Int \X Int \X Int \X Int}

LEMMA TwoKeys ==
  \A s, t \in Int \X Int : KeysBefore(s, t) <=> s[1] < t[1] \/ (s[1] = t[1] /\ s[2] < t[2])
<1>1. \A s \in Int \X Int : DOMAIN s = {1, 2}
  OBVIOUS
<1>2. 1..(1 - 1) = {} /\ 1..(2 - 1) = {1}
  OBVIOUS
<1> QED
  BY <1>1, <1>2 DEF KeysBefore

LEMMA ThreeKeys ==
  \A s, t \in Int \X Int \X Int :
    KeysBefore(s, t) <=> \/ s[1] < t[1]
                         \/ s[1] = t[1] /\ s[2] < t[2]
                         \/ s[1] = t[1] /\ s[2] = t[2] /\ s[3] < t[3]
<1>1. \A s \in Int \X Int \X Int : DOMAIN s = {1, 2, 3}
  OBVIOUS
<1>2. 1..(1 - 1) = {} /\ 1..(2 - 1) = {1} /\ 1..(3 - 1) = {1, 2}
  OBVIOUS
<1> QED
  BY <1>1, <1>2 DEF KeysBefore

LEMMA FourKeys ==
  \A s, t \in Int \X Int \X Int \X Int :
    KeysBefore(s, t) <=> \/ s[1] < t[1]
                         \/ s[1] = t[1] /\ s[2] < t[2]
                         \/ s[1] = t[1] /\ s[2] = t[2] /\ s[3] < t[3]
                         \/ s[1] = t[1] /\ s[2] = t[2] /\ s[3] = t[3] /\ s[4] < t[4]
<1>1. \A s \in Int \X Int \X Int \X Int : DOMAIN s = {1, 2, 3, 4}
  OBVIOUS
<1>2. 1..(1 - 1) = {} /\ 1..(2 - 1) = {1} /\ 1..(3 - 1) = {1, 2} /\ 1..(4 - 1) = {1, 2, 3}
  OBVIOUS
<1> QED
  BY <1>1, <1>2 DEF KeysBefore

(***************************************************************************)
(* Sort keys of one length are in order: none before itself, an order that *)
(* can be followed, and of two different ones the one before the other.    *)
(***************************************************************************)
LEMMA KeysAreOrdered ==
  ASSUME NEW K \in Keys
  PROVE  /\ \A s \in K : ~KeysBefore(s, s)
         /\ \A s, t, u \in K : KeysBefore(s, t) /\ KeysBefore(t, u) => KeysBefore(s, u)
         /\ \A s, t \in K : s # t => KeysBefore(s, t) \/ KeysBefore(t, s)
<1>1. CASE K = Int \X Int
  <2>1. \A s \in K : s[1] \in Int /\ s[2] \in Int
    BY <1>1
  <2>2. \A s, t \in K : s[1] = t[1] /\ s[2] = t[2] => s = t
    BY <1>1
  <2>3. \A s, t \in K : KeysBefore(s, t) <=> s[1] < t[1] \/ (s[1] = t[1] /\ s[2] < t[2])
    BY <1>1, TwoKeys
  <2> QED
    BY <2>1, <2>2, <2>3
<1>2. CASE K = Int \X Int \X Int
  <2>1. \A s \in K : s[1] \in Int /\ s[2] \in Int /\ s[3] \in Int
    BY <1>2
  <2>2. \A s, t \in K : s[1] = t[1] /\ s[2] = t[2] /\ s[3] = t[3] => s = t
    BY <1>2
  <2>3. \A s, t \in K :
          KeysBefore(s, t) <=> \/ s[1] < t[1]
                               \/ s[1] = t[1] /\ s[2] < t[2]
                               \/ s[1] = t[1] /\ s[2] = t[2] /\ s[3] < t[3]
    BY <1>2, ThreeKeys
  <2> QED
    BY <2>1, <2>2, <2>3
<1>3. CASE K = Int \X Int \X Int \X Int
  <2>1. \A s \in K : s[1] \in Int /\ s[2] \in Int /\ s[3] \in Int /\ s[4] \in Int
    BY <1>3
  <2>2. \A s, t \in K : s[1] = t[1] /\ s[2] = t[2] /\ s[3] = t[3] /\ s[4] = t[4] => s = t
    BY <1>3
  <2>3. \A s, t \in K :
          KeysBefore(s, t) <=> \/ s[1] < t[1]
                               \/ s[1] = t[1] /\ s[2] < t[2]
                               \/ s[1] = t[1] /\ s[2] = t[2] /\ s[3] < t[3]
                               \/ s[1] = t[1] /\ s[2] = t[2] /\ s[3] = t[3] /\ s[4] < t[4]
    BY <1>3, FourKeys
  <2> QED
    BY <2>1, <2>2, <2>3
<1> QED
  BY <1>1, <1>2, <1>3 DEF Keys

(***************************************************************************)
(* Of finitely many that do not tie one comes first.                       *)
(***************************************************************************)
LEMMA FirstByKeys ==
  ASSUME NEW S, IsFiniteSet(S), S # {}, NEW K \in Keys, NEW keys \in [S -> K],
         \A x, y \in S : keys[x] = keys[y] => x = y
  PROVE  \E x \in S : \A y \in S \ {x} : KeysBefore(keys[x], keys[y])
<1> DEFINE before == {p \in S \X S : KeysBefore(keys[p[1]], keys[p[2]])}
<1>1. \A x, y \in S : <<x, y>> \in before <=> KeysBefore(keys[x], keys[y])
  OBVIOUS
<1>2. \A x \in S : keys[x] \in K
  OBVIOUS
<1> HIDE DEF before
<1>3. \A x, y, z \in S : <<x, y>> \in before /\ <<y, z>> \in before => <<x, z>> \in before
  BY <1>1, <1>2, KeysAreOrdered
<1>4. \A x, y \in S : x # y => <<x, y>> \in before \/ <<y, x>> \in before
  BY <1>1, <1>2, KeysAreOrdered
<1>5. \E x \in S : \A y \in S \ {x} : <<x, y>> \in before
  BY <1>3, <1>4, FirstExists
<1> QED
  BY <1>1, <1>5

-----------------------------------------------------------------------------
(* Plans. *)

(***************************************************************************)
(* A service chosen for a plan is one of the candidates and permits an     *)
(* action.                                                                 *)
(***************************************************************************)
LEMMA ChosenAreCandidates ==
  ASSUME NEW obs, NEW candidates, NEW needed
  PROVE  \A s \in Chosen(obs, candidates, needed) : s \in candidates /\ Permits(obs, s)
  BY DEF Chosen

(***************************************************************************)
(* Decide acts only on candidates of its own beneficiary.                  *)
(***************************************************************************)
THEOREM DecideActsOnCandidates ==
  ASSUME NEW cfg, NEW obs, NEW a \in Decide(cfg, obs).actions
  PROVE  \E s \in Candidates(obs, Decide(cfg, obs).beneficiary) :
           a = ActionOn(obs, s) /\ Permits(obs, s)
<1> DEFINE demand == SelectDemand(cfg, obs)
           needed == demand.target - FreeMiB(obs.device)
           chosen == Chosen(obs, Candidates(obs, demand.beneficiary), needed)
<1>1. Decide(cfg, obs).actions = {} \/
        /\ Decide(cfg, obs).actions = {ActionOn(obs, s) : s \in chosen}
        /\ Decide(cfg, obs).beneficiary = demand.beneficiary
  BY DEF Decide, PlanFor, Blind
<1>2. PICK s \in chosen : a = ActionOn(obs, s)
  BY <1>1
<1>3. s \in Candidates(obs, demand.beneficiary) /\ Permits(obs, s)
  BY ChosenAreCandidates
<1> QED
  BY <1>1, <1>2, <1>3

(***************************************************************************)
(* A plan with actions is for the demand it was made from, and acts on     *)
(* what the walk chooses.                                                  *)
(***************************************************************************)
LEMMA DecideActsForItsDemand ==
  ASSUME NEW cfg, NEW obs, Decide(cfg, obs).actions # {}
  PROVE  LET demand == SelectDemand(cfg, obs)
             needed == demand.target - FreeMiB(obs.device)
         IN /\ obs.device.known
            /\ Decide(cfg, obs).beneficiary = demand.beneficiary
            /\ Decide(cfg, obs).actions =
                 {ActionOn(obs, s) : s \in Chosen(obs, Candidates(obs, demand.beneficiary), needed)}
  BY DEF Decide, PlanFor, Blind

(***************************************************************************)
(* Evict acts only on services that are named and may be evicted.          *)
(***************************************************************************)
THEOREM EvictActsOnTheNamed ==
  ASSUME NEW obs, NEW names, NEW a \in Evict(obs, names).actions
  PROVE  \E s \in names : IsEvictable(obs, s) /\ a = ActionOn(obs, s)
  BY DEF Evict, PlanFor, Blind

(***************************************************************************)
(* So does EvictAllExcept, and never on the service it keeps: a name the   *)
(* configuration does not hold evicts nothing.                             *)
(***************************************************************************)
THEOREM EvictAllExceptSparesTheKept ==
  ASSUME NEW obs, NEW keep, NEW a \in EvictAllExcept(obs, keep).actions
  PROVE  \E s \in DOMAIN obs.services \ {keep} : IsEvictable(obs, s) /\ a = ActionOn(obs, s)
<1> DEFINE others == DOMAIN obs.services \ {keep}
           p == Evict(obs, others)
<1>1. CASE keep \in DOMAIN obs.services
  <2>1. p = [trigger |-> p.trigger, beneficiary |-> p.beneficiary, target |-> p.target,
             current |-> p.current, total |-> p.total, actions |-> p.actions, notes |-> p.notes]
    BY DEF Evict, PlanFor, Blind
  <2>2. [p EXCEPT !.beneficiary = keep].actions = p.actions
    BY <2>1
  <2>3. a \in p.actions
    BY <1>1, <2>2 DEF EvictAllExcept
  <2> QED
    BY <2>3, EvictActsOnTheNamed
<1>2. CASE keep \notin DOMAIN obs.services
  BY <1>2 DEF EvictAllExcept, PlanFor, Blind
<1> QED
  BY <1>1, <1>2

(***************************************************************************)
(* Two services that claim in turn cannot evict each other for ever: if a  *)
(* plan names t on behalf of b, no plan made on behalf of t names b,       *)
(* whatever was observed and asked for in between, while their priorities  *)
(* are the same.                                                           *)
(***************************************************************************)
THEOREM NoPingPongEver ==
  ASSUME NEW cfg, NEW obs, NEW later,
         DOMAIN later.services = DOMAIN obs.services,
         \A s \in DOMAIN obs.services :
           /\ obs.services[s].priority \in Int
           /\ later.services[s].priority = obs.services[s].priority,
         NEW a \in Decide(cfg, obs).actions, NEW b \in Decide(cfg, later).actions,
         Decide(cfg, obs).beneficiary \in DOMAIN obs.services,
         Decide(cfg, later).beneficiary = a.service
  PROVE  b.service # Decide(cfg, obs).beneficiary
<1> DEFINE first == Decide(cfg, obs).beneficiary
<1>1. PICK s \in Candidates(obs, first) : a = ActionOn(obs, s)
  BY DecideActsOnCandidates
<1>2. PICK t \in Candidates(later, Decide(cfg, later).beneficiary) : b = ActionOn(later, t)
  BY DecideActsOnCandidates
<1>3. s = a.service /\ t = b.service
  BY <1>1, <1>2 DEF ActionOn
<1>4. s \in DOMAIN obs.services /\ obs.services[s].priority < obs.services[first].priority
  BY DEF Candidates, IsCandidate
<1>5. t \in DOMAIN later.services /\ later.services[t].priority < later.services[s].priority
  BY <1>3 DEF Candidates, IsCandidate
<1> QED
  BY <1>3, <1>4, <1>5

(***************************************************************************)
(* A verb that is chosen is one the service permits: a stop is chosen only *)
(* where allow_stop says so and there is nothing gentler, and nothing is   *)
(* done to a service that is known to be busy.                             *)
(***************************************************************************)
LEMMA VerbsAreTheLeastInvasive ==
  ASSUME NEW state
  PROVE  /\ ChooseVerb(state) \in {"none", "release", "stop"}
         /\ ChooseVerb(state) = "stop" => state.allowStop /\ ~state.canRelease
         /\ ChooseVerb(state) # "none" => ~(state.idleKnown /\ ~state.idle)
  BY DEF ChooseVerb

-----------------------------------------------------------------------------
(* Whom a demand is for. *)

(***************************************************************************)
(* What the lemmas below take for granted of an observation and of a       *)
(* configuration: unsigned sizes, integer priorities, and finitely many    *)
(* claims, no two of a service in one place.                               *)
(***************************************************************************)
ServicesOK(obs) ==
  /\ DOMAIN obs.services \subseteq Services
  /\ \A s \in DOMAIN obs.services : obs.services[s].priority \in Int /\ obs.services[s].held \in Nat

ClaimsOK(cfg, obs) ==
  /\ cfg.priority \in [Services -> Int]
  /\ IsFiniteSet(obs.claims)
  /\ \A c \in obs.claims : c.need \in Nat /\ c.at \in Int /\ c.pos \in Int
  /\ \A c, d \in obs.claims : c.service = d.service /\ c.pos = d.pos => c = d

(***************************************************************************)
(* Ranks of names are numbers, one for each name.                          *)
(***************************************************************************)
LEMMA RanksAreNumbers ==
  /\ \A s \in Services : NameRank[s] \in Int
  /\ \A s, t \in Services : NameRank[s] = NameRank[t] => s = t
<1>1. \A s \in Services : NameRank[s] \in Nat
  BY NamesAssumption
<1>2. \A s \in Services : NameRank[s] \in Int
  BY <1>1
<1>3. \A s, t \in Services : NameRank[s] = NameRank[t] => s = t
  BY NamesAssumption
<1> QED
  BY <1>2, <1>3

(***************************************************************************)
(* While anybody claims there is a claim that comes before all others.     *)
(***************************************************************************)
LEMMA BestClaimIsFirst ==
  ASSUME NEW cfg, NEW obs, ClaimsOK(cfg, obs), LiveClaims(cfg, obs) # {}
  PROVE  /\ BestClaim(cfg, obs) \in LiveClaims(cfg, obs)
         /\ \A d \in LiveClaims(cfg, obs) \ {BestClaim(cfg, obs)} :
              KeysBefore(ClaimKeys(cfg, BestClaim(cfg, obs)), ClaimKeys(cfg, d))
<1> DEFINE L == LiveClaims(cfg, obs)
           keys == [c \in L |-> ClaimKeys(cfg, c)]
<1>1. IsFiniteSet(L)
  BY FS_Subset DEF ClaimsOK, LiveClaims
<1>2. ASSUME NEW c \in L
      PROVE  c.service \in Services /\ ClaimKeys(cfg, c) \in Int \X Int \X Int \X Int
  <2>1. c.service \in Services /\ cfg.priority[c.service] \in Int /\ c.at \in Int /\ c.pos \in Int
    BY DEF ClaimsOK, LiveClaims
  <2>2. -cfg.priority[c.service] \in Int
    BY <2>1
  <2>3. NameRank[c.service] \in Int
    BY <2>1, RanksAreNumbers
  <2> QED
    BY <2>1, <2>2, <2>3 DEF ClaimKeys
<1>3. ASSUME NEW c \in L, NEW d \in L, ClaimKeys(cfg, c) = ClaimKeys(cfg, d) PROVE c = d
  <2>1. NameRank[c.service] = NameRank[d.service] /\ c.pos = d.pos
    BY <1>3 DEF ClaimKeys
  <2>2. c.service = d.service
    BY <1>2, <2>1, NamesAssumption
  <2> QED
    BY <2>1, <2>2 DEF ClaimsOK, LiveClaims
<1>4. keys \in [L -> Int \X Int \X Int \X Int]
  BY <1>2
<1>5. \A c, d \in L : keys[c] = keys[d] => c = d
  BY <1>3
<1>6. \A c \in L : keys[c] = ClaimKeys(cfg, c)
  OBVIOUS
<1> HIDE DEF keys, L
<1>7. \E c \in L : \A d \in L \ {c} : KeysBefore(keys[c], keys[d])
  BY <1>1, <1>4, <1>5, FirstByKeys DEF Keys, L
<1>8. \E c \in L : \A d \in L \ {c} : KeysBefore(ClaimKeys(cfg, c), ClaimKeys(cfg, d))
  BY <1>6, <1>7
<1> QED
  BY <1>8 DEF BestClaim, L

(***************************************************************************)
(* While anybody is live there is a live service of the highest priority.  *)
(***************************************************************************)
LEMMA HighestPriorityUpIsLive ==
  ASSUME NEW obs, ServicesOK(obs), LiveServices(obs) # {}
  PROVE  HighestPriorityUp(obs) \in LiveServices(obs)
<1> DEFINE L == LiveServices(obs)
           keys == [s \in L |-> UpKeys(obs, s)]
<1>1. L \subseteq Services /\ IsFiniteSet(L)
  BY FS_Subset, NamesAssumption DEF ServicesOK, LiveServices
<1>2. ASSUME NEW s \in L PROVE UpKeys(obs, s) \in Int \X Int
  <2>1. obs.services[s].priority \in Int
    BY DEF ServicesOK, LiveServices
  <2>2. NameRank[s] \in Int
    BY <1>1, RanksAreNumbers
  <2>3. -obs.services[s].priority \in Int
    BY <2>1
  <2> QED
    BY <2>2, <2>3 DEF UpKeys
<1>3. ASSUME NEW s \in L, NEW t \in L, UpKeys(obs, s) = UpKeys(obs, t) PROVE s = t
  <2>1. NameRank[s] = NameRank[t]
    BY <1>3 DEF UpKeys
  <2> QED
    BY <1>1, <2>1, NamesAssumption
<1>4. keys \in [L -> Int \X Int]
  BY <1>2
<1>5. \A s, t \in L : keys[s] = keys[t] => s = t
  BY <1>3
<1>6. \A s \in L : keys[s] = UpKeys(obs, s)
  OBVIOUS
<1> HIDE DEF keys, L
<1>7. \E s \in L : \A t \in L \ {s} : KeysBefore(keys[s], keys[t])
  BY <1>1, <1>4, <1>5, FirstByKeys DEF Keys, L
<1>8. \E s \in L : \A t \in L \ {s} : KeysBefore(UpKeys(obs, s), UpKeys(obs, t))
  BY <1>6, <1>7
<1> QED
  BY <1>8 DEF HighestPriorityUp, L

(***************************************************************************)
(* A demand is for somebody who is configured, and asks for a size; what   *)
(* it notes of a service is that the default workload is not up.           *)
(***************************************************************************)
DemandOK(demand, obs) ==
  /\ demand.target \in Nat
  /\ demand.trigger \in {"none", "request", "reactive"}
  /\ demand.trigger = "none" => demand.beneficiary = NoService
  /\ demand.trigger # "none" => demand.beneficiary \in Services
  /\ demand.trigger = "reactive" => demand.beneficiary \in DOMAIN obs.services
  /\ \A n \in demand.notes : n.service = NoService \/ n.stage = "workload_not_up"

LEMMA NoDemandIsForNobody ==
  ASSUME NEW said, \A n \in said : n.service = NoService \/ n.stage = "workload_not_up", NEW obs
  PROVE  DemandOK(NoDemand(said), obs)
<1> SUFFICES ASSUME NEW demand, demand = NoDemand(said) PROVE DemandOK(demand, obs)
  OBVIOUS
<1>1. /\ demand.target = 0 /\ demand.trigger = "none" /\ demand.beneficiary = NoService
      /\ demand.notes = said \cup {Note(NoService, "nobody_to_serve")}
  BY DEF NoDemand
<1>2. Note(NoService, "nobody_to_serve").service = NoService
  BY DEF Note
<1>3. demand.target \in Nat
  BY <1>1
<1>4. \A n \in demand.notes : n.service = NoService \/ n.stage = "workload_not_up"
  BY <1>1, <1>2
<1> QED
  BY <1>1, <1>3, <1>4 DEF DemandOK

LEMMA DemandsAreForTheConfigured ==
  ASSUME NEW cfg, NEW obs, ServicesOK(obs), ClaimsOK(cfg, obs), cfg.floor \in Nat
  PROVE  DemandOK(SelectDemand(cfg, obs), obs)
<1> DEFINE ignored == {Note(NoService, "claims_ignored") : c \in obs.claims}
           fallback == {Note(w, "workload_not_up") :
                          w \in {cfg.workload} \ ({NoService} \cup LiveServices(obs))}
<1> SUFFICES ASSUME NEW demand, demand = SelectDemand(cfg, obs) PROVE DemandOK(demand, obs)
  OBVIOUS
<1>0. \A w, x : Note(w, x).service = w /\ Note(w, x).stage = x
  BY DEF Note
<1>1. \A n \in ignored \cup fallback : n.service = NoService \/ n.stage = "workload_not_up"
  <2>1. \A n \in ignored : n = Note(NoService, "claims_ignored")
    OBVIOUS
  <2>2. \A n \in fallback : \E w : n = Note(w, "workload_not_up")
    OBVIOUS
  <2> HIDE DEF ignored, fallback
  <2>4. \A n \in ignored : n.service = NoService
    BY <1>0, <2>1
  <2>5. ASSUME NEW n \in fallback PROVE n.stage = "workload_not_up"
    <3>1. PICK w : n = Note(w, "workload_not_up")
      BY <2>2
    <3> QED
      BY <1>0, <3>1
  <2> QED
    BY <2>4, <2>5
<1>2. \/ LiveClaims(cfg, obs) # {} /\ demand = ClaimDemand(cfg, obs)
      \/ demand = NoDemand(ignored)
      \/ demand = NoDemand(ignored \cup fallback)
      \/ LiveServices(obs) # {} /\ demand = ReactiveDemand(cfg, obs, ignored \cup fallback)
  BY DEF SelectDemand
<1> HIDE DEF ignored, fallback
<1>3. CASE LiveClaims(cfg, obs) # {} /\ demand = ClaimDemand(cfg, obs)
  <2> DEFINE best == BestClaim(cfg, obs)
  <2>1. best \in obs.claims /\ best.service \in Services
    BY <1>3, BestClaimIsFirst DEF LiveClaims, ClaimsOK
  <2>2. best.need \in Nat
    BY <2>1 DEF ClaimsOK
  <2> HIDE DEF best
  <2>3. /\ demand.trigger = "request" /\ demand.beneficiary = best.service /\ demand.notes = {}
        /\ demand.target = IF best.need = 0 THEN cfg.floor ELSE best.need
    BY <1>3 DEF ClaimDemand, best
  <2> QED
    BY <2>1, <2>2, <2>3 DEF DemandOK
<1>4. CASE LiveServices(obs) # {} /\ demand = ReactiveDemand(cfg, obs, ignored \cup fallback)
  <2>1. demand.beneficiary \in LiveServices(obs)
    BY <1>4, HighestPriorityUpIsLive DEF ReactiveDemand
  <2>2. demand.target = cfg.floor /\ demand.trigger = "reactive" /\ demand.notes = ignored \cup fallback
    BY <1>4 DEF ReactiveDemand
  <2>3. demand.beneficiary \in DOMAIN obs.services /\ demand.beneficiary \in Services
    BY <2>1 DEF LiveServices, ServicesOK
  <2> QED
    BY <1>1, <2>2, <2>3 DEF DemandOK
<1>5. CASE demand = NoDemand(ignored)
  BY <1>1, <1>5, NoDemandIsForNobody
<1>6. CASE demand = NoDemand(ignored \cup fallback)
  BY <1>1, <1>6, NoDemandIsForNobody
<1> QED
  BY <1>2, <1>3, <1>4, <1>5, <1>6

-----------------------------------------------------------------------------
(* The order services are freed in. *)

(***************************************************************************)
(* The candidates' keys are keys.                                          *)
(***************************************************************************)
LEMMA CandidateKeysAreKeys ==
  ASSUME NEW obs, ServicesOK(obs)
  PROVE  /\ \A s \in DOMAIN obs.services : CandidateKeys(obs, s) \in Int \X Int \X Int
         /\ \A s, t \in DOMAIN obs.services : CandidateKeys(obs, s) = CandidateKeys(obs, t) => s = t
<1>1. ASSUME NEW s \in DOMAIN obs.services PROVE CandidateKeys(obs, s) \in Int \X Int \X Int
  <2>1. obs.services[s].priority \in Int /\ obs.services[s].held \in Nat /\ s \in Services
    BY DEF ServicesOK
  <2>2. NameRank[s] \in Int
    BY <2>1, RanksAreNumbers
  <2>3. -obs.services[s].held \in Int
    BY <2>1
  <2> QED
    BY <2>1, <2>2, <2>3 DEF CandidateKeys
<1>2. ASSUME NEW s \in DOMAIN obs.services, NEW t \in DOMAIN obs.services,
             CandidateKeys(obs, s) = CandidateKeys(obs, t)
      PROVE  s = t
  <2>1. NameRank[s] = NameRank[t]
    BY <1>2 DEF CandidateKeys
  <2> QED
    BY <2>1, NamesAssumption DEF ServicesOK
<1> QED
  BY <1>1, <1>2

(***************************************************************************)
(* No two services tie in the order they are freed in.                     *)
(***************************************************************************)
LEMMA FreedBeforeOrders ==
  ASSUME NEW obs, ServicesOK(obs)
  PROVE  /\ \A s \in DOMAIN obs.services : ~FreedBefore(obs, s, s)
         /\ \A s, t, u \in DOMAIN obs.services :
              FreedBefore(obs, s, t) /\ FreedBefore(obs, t, u) => FreedBefore(obs, s, u)
         /\ \A s, t \in DOMAIN obs.services : s # t => FreedBefore(obs, s, t) \/ FreedBefore(obs, t, s)
<1>1. Int \X Int \X Int \in Keys
  BY DEF Keys
<1> QED
  BY <1>1, CandidateKeysAreKeys, KeysAreOrdered DEF FreedBefore

(***************************************************************************)
(* Of some services there is one that all the others are freed before.     *)
(***************************************************************************)
LEMMA LastFreedExists ==
  ASSUME NEW obs, ServicesOK(obs), NEW T \in SUBSET DOMAIN obs.services, T # {}
  PROVE  \E s \in T : \A t \in T \ {s} : FreedBefore(obs, t, s)
<1> DEFINE after == {p \in T \X T : FreedBefore(obs, p[2], p[1])}
<1>1. IsFiniteSet(T)
  BY FS_Subset, NamesAssumption DEF ServicesOK
<1>2. \A s, t \in T : <<s, t>> \in after <=> FreedBefore(obs, t, s)
  OBVIOUS
<1> HIDE DEF after
<1>3. \A s, t, u \in T : <<s, t>> \in after /\ <<t, u>> \in after => <<s, u>> \in after
  BY <1>2, FreedBeforeOrders
<1>4. \A s, t \in T : s # t => <<s, t>> \in after \/ <<t, s>> \in after
  BY <1>2, FreedBeforeOrders
<1>5. \E s \in T : \A t \in T \ {s} : <<s, t>> \in after
  BY <1>1, <1>3, <1>4, FirstExists
<1> QED
  BY <1>2, <1>5

(***************************************************************************)
(* Lower priority is freed first, and within a priority the larger holder. *)
(***************************************************************************)
LEMMA LowerIsFreedBefore ==
  ASSUME NEW obs, ServicesOK(obs), NEW s \in DOMAIN obs.services, NEW t \in DOMAIN obs.services,
         \/ obs.services[s].priority < obs.services[t].priority
         \/ /\ obs.services[s].priority = obs.services[t].priority
            /\ obs.services[s].held > obs.services[t].held
  PROVE  FreedBefore(obs, s, t)
<1> DEFINE k == CandidateKeys(obs, s)
           l == CandidateKeys(obs, t)
<1>1. k \in Int \X Int \X Int /\ l \in Int \X Int \X Int
  BY CandidateKeysAreKeys
<1>2. /\ k[1] = obs.services[s].priority /\ k[2] = -obs.services[s].held
      /\ l[1] = obs.services[t].priority /\ l[2] = -obs.services[t].held
  BY DEF CandidateKeys
<1>3. obs.services[s].held \in Nat /\ obs.services[t].held \in Nat
  BY DEF ServicesOK
<1> HIDE DEF k, l
<1>4. k[1] < l[1] \/ (k[1] = l[1] /\ k[2] < l[2])
  BY <1>2, <1>3
<1> QED
  BY <1>1, <1>4, ThreeKeys DEF FreedBefore, k, l

(***************************************************************************)
(* What services hold together is a size, and more services hold no less.  *)
(***************************************************************************)
LEMMA HeldByGrows ==
  ASSUME NEW obs, ServicesOK(obs), NEW T \in SUBSET DOMAIN obs.services, NEW U \in SUBSET T
  PROVE  HeldBy(obs, T) \in Nat /\ HeldBy(obs, U) \in Nat /\ HeldBy(obs, U) <= HeldBy(obs, T)
<1> DEFINE f == [s \in DOMAIN obs.services |-> obs.services[s].held]
<1>1. IsFiniteSet(T)
  BY NamesAssumption, FS_Subset DEF ServicesOK
<1>2. \A s \in T : f[s] \in Nat
  BY DEF ServicesOK
<1> HIDE DEF f
<1>3. SumFunctionOnSet(f, T) \in Nat /\ SumFunctionOnSet(f, U) \in Nat
      /\ SumFunctionOnSet(f, U) <= SumFunctionOnSet(f, T)
  BY <1>1, <1>2, SumGrows
<1> QED
  BY <1>3 DEF HeldBy, f

(***************************************************************************)
(* What a plan chooses is closed downwards: a candidate that permits an    *)
(* action and comes before one that is chosen is chosen.                   *)
(***************************************************************************)
LEMMA ChosenIsClosed ==
  ASSUME NEW obs, ServicesOK(obs), NEW candidates \in SUBSET DOMAIN obs.services, NEW needed \in Int,
         NEW s \in Chosen(obs, candidates, needed),
         NEW t \in candidates, Permits(obs, t), FreedBefore(obs, t, s)
  PROVE  t \in Chosen(obs, candidates, needed)
<1> DEFINE Earlier(u) == {v \in candidates : Permits(obs, v) /\ FreedBefore(obs, v, u)}
<1>1. s \in candidates /\ HeldBy(obs, Earlier(s)) < needed
  BY DEF Chosen, StillNeededAt
<1>2. Earlier(t) \subseteq Earlier(s)
  BY <1>1, FreedBeforeOrders
<1>3. Earlier(s) \in SUBSET DOMAIN obs.services /\ Earlier(t) \in SUBSET Earlier(s)
  BY <1>2
<1>4. HeldBy(obs, Earlier(s)) \in Nat /\ HeldBy(obs, Earlier(t)) \in Nat
      /\ HeldBy(obs, Earlier(t)) <= HeldBy(obs, Earlier(s))
  BY <1>3, HeldByGrows
<1>5. HeldBy(obs, Earlier(t)) < needed
  BY <1>1, <1>4
<1> QED
  BY <1>5 DEF Chosen, StillNeededAt
=============================================================================
