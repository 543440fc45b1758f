----------------------------- MODULE SumsProofs -----------------------------
(***************************************************************************)
(* Facts about the total of a function over a finite set: an element may   *)
(* be taken out, disjoint parts add up, equal columns have equal totals.   *)
(*                                                                         *)
(* They need induction.  Neither prover instantiates an induction theorem  *)
(* whose parameter is an operator, so the induction here is over sets: to  *)
(* show that every subset of S is a member of Good.                        *)
(***************************************************************************)
EXTENDS Sums, FiniteSetTheorems, TLAPS

Below == {p \in Nat \X Nat : p[1] < p[2]}

LEMMA BelowIsWellFounded == IsWellFoundedOn(Below, Nat)
  <1>1. OpToRel(LAMBDA x, y : x < y, Nat) = Below
    BY Zenon DEF OpToRel, Below
  <1> QED
    BY <1>1, NatLessThanWellFounded, Zenon

(* A set of numbers has a least one. *)
LEMMA LeastNumber ==
    ASSUME NEW T, T \subseteq Nat, T # {}
    PROVE  \E i \in T : \A j \in T : i <= j
  <1>1. PICK i \in T : \A j \in T : <<j, i>> \notin Below
    BY BelowIsWellFounded, WFMin, Zenon
  <1>2. \A j \in T : ~ (j < i)
    BY <1>1 DEF Below
  <1> QED
    BY <1>2

(* Induction over the subsets of a finite set. *)
LEMMA SubsetInduction ==
    ASSUME NEW S, IsFiniteSet(S), NEW Good,
           \A T \in SUBSET S :
              (\A U \in SUBSET T : U # T => U \in Good) => T \in Good
    PROVE  SUBSET S \subseteq Good
  <1> DEFINE Bad == {T \in SUBSET S : T \notin Good}
             Sizes == {n \in Nat : \E T \in Bad : Cardinality(T) = n}
  <1>1. SUFFICES ASSUME Bad # {} PROVE FALSE
    OBVIOUS
  <1>2. \A T \in SUBSET S : IsFiniteSet(T) /\ Cardinality(T) \in Nat
    BY FS_Subset, FS_CardinalityType
  <1>3. Sizes \subseteq Nat /\ Sizes # {}
    BY <1>1, <1>2
  <1>4. PICK n \in Sizes : \A m \in Sizes : n <= m
    BY <1>3, LeastNumber
  <1>5. PICK T \in Bad : Cardinality(T) = n
    BY <1>4
  <1>6. ASSUME NEW U \in SUBSET T, U # T
        PROVE  U \in Good
    <2>1. /\ Cardinality(U) \in Nat
          /\ Cardinality(U) <= Cardinality(T)
          /\ Cardinality(U) # Cardinality(T)
      BY <1>2, <1>6, FS_Subset
    <2>2. Cardinality(U) \notin Sizes
      BY <1>3, <1>4, <1>5, <2>1
    <2>3. U \in SUBSET S
      BY <1>5
    <2> QED
      BY <2>1, <2>2, <2>3
  <1> QED
    BY <1>5, <1>6

-----------------------------------------------------------------------------
(* The function by which the library defines the total.                    *)

Elem(s) == CHOOSE x \in s : TRUE

Unfold(w, s, g) == IF s = {} THEN 0 ELSE w[Elem(s)] + g[s \ {Elem(s)}]

Partial(w, S) == CHOOSE g : g = [s \in SUBSET S |-> Unfold(w, s, g)]

LEMMA ElemOf == \A s : s # {} => Elem(s) \in s
  BY DEF Elem

LEMMA TotalIsPartial ==
    ASSUME NEW w
    PROVE  Total(w) = Partial(w, DOMAIN w)[DOMAIN w]
  BY DEF Total, MapThenSumSet, MapThenFoldSet, Partial, Unfold, Elem

(* There is such a function: the smaller sets give the value of a larger.  *)
LEMMA PartialExists ==
    ASSUME NEW w, NEW S, IsFiniteSet(S)
    PROVE  \E g : g = [s \in SUBSET S |-> Unfold(w, s, g)]
  <1> DEFINE Small(n) == {s \in SUBSET S : Cardinality(s) <= n}
             Has(n) == \E g : g = [s \in Small(n) |-> Unfold(w, s, g)]
             Fails == {n \in Nat : ~ Has(n)}
  <1>1. \A s \in SUBSET S : IsFiniteSet(s) /\ Cardinality(s) \in Nat
    BY FS_Subset, FS_CardinalityType
  <1>2. Has(0)
    <2>1. \A s \in Small(0) : s = {}
      BY <1>1, FS_EmptySet
    <2> DEFINE g == [s \in Small(0) |-> 0]
    <2>2. g = [s \in Small(0) |-> Unfold(w, s, g)]
      BY <2>1 DEF Unfold
    <2> QED
      BY <2>2
  <1>3. ASSUME NEW n \in Nat, Has(n)
        PROVE  Has(n + 1)
    <2>1. PICK g : g = [s \in Small(n) |-> Unfold(w, s, g)]
      BY <1>3
    <2> DEFINE h == [s \in Small(n + 1) |-> Unfold(w, s, g)]
    <2>2. Small(n) \subseteq Small(n + 1)
      BY <1>1
    <2>3. \A s \in Small(n) : h[s] = g[s]
      BY <2>1, <2>2
    <2>4. ASSUME NEW s \in Small(n + 1), s # {}
          PROVE  s \ {Elem(s)} \in Small(n)
      <3>1. Elem(s) \in s
        BY <2>4, ElemOf
      <3>2. Cardinality(s \ {Elem(s)}) = Cardinality(s) - 1
        BY <1>1, <3>1, FS_RemoveElement
      <3> QED
        BY <1>1, <3>2
    <2>5. ASSUME NEW s \in Small(n + 1)
          PROVE  Unfold(w, s, g) = Unfold(w, s, h)
      BY <2>3, <2>4 DEF Unfold
    <2> HIDE DEF Small
    <2>6. h = [s \in Small(n + 1) |-> Unfold(w, s, h)]
      BY <2>5
    <2> QED
      BY <2>6
  <1> HIDE DEF Has
  <1>4. \A n \in Nat : Has(n)
    <2>1. SUFFICES ASSUME Fails # {} PROVE FALSE
      OBVIOUS
    <2>2. PICK n \in Fails : \A m \in Fails : n <= m
      BY <2>1, LeastNumber
    <2>3. n # 0
      BY <1>2, <2>2
    <2>4. n - 1 \in Nat /\ n - 1 \notin Fails
      BY <2>2, <2>3
    <2>5. Has((n - 1) + 1)
      BY <1>3, <2>4
    <2> QED
      BY <2>2, <2>5
  <1>5. Cardinality(S) \in Nat
    BY FS_CardinalityType
  <1>6. Small(Cardinality(S)) = SUBSET S
    BY FS_Subset
  <1> QED
    BY <1>4, <1>5, <1>6 DEF Has

LEMMA PartialEquation ==
    ASSUME NEW w, NEW S, IsFiniteSet(S), NEW s \in SUBSET S
    PROVE  Partial(w, S)[s] = Unfold(w, s, Partial(w, S))
  <1>1. Partial(w, S) = [t \in SUBSET S |-> Unfold(w, t, Partial(w, S))]
    <2> DEFINE Is(g) == g = [t \in SUBSET S |-> Unfold(w, t, g)]
    <2>1. \E g : Is(g)
      BY PartialExists
    <2>2. Partial(w, S) = CHOOSE g : Is(g)
      BY DEF Partial
    <2> HIDE DEF Is
    <2>3. Is(Partial(w, S))
      BY <2>1, <2>2
    <2> QED
      BY <2>3 DEF Is
  <1> DEFINE g == Partial(w, S)
  <1> HIDE DEF g
  <1>2. g = [t \in SUBSET S |-> Unfold(w, t, g)]
    BY <1>1 DEF g
  <1>3. g[s] = Unfold(w, s, g)
    BY <1>2
  <1> QED
    BY <1>3 DEF g

-----------------------------------------------------------------------------
(* The total of w over a part of its domain.                               *)

Over(w, s) == Total([x \in s |-> w[x]])

(* Only the values inside the part matter. *)
LEMMA PartialLocal ==
    ASSUME NEW S, IsFiniteSet(S), NEW R \in SUBSET S, NEW v, NEW w,
           \A x \in R : v[x] = w[x]
    PROVE  \A s \in SUBSET R : Partial(v, R)[s] = Partial(w, S)[s]
  <1> DEFINE Good == {s \in SUBSET R : Partial(v, R)[s] = Partial(w, S)[s]}
  <1>1. IsFiniteSet(R)
    BY FS_Subset
  <1>2. ASSUME NEW T \in SUBSET R,
               \A U \in SUBSET T : U # T => U \in Good
        PROVE  T \in Good
    <2>1. /\ Partial(v, R)[T] = Unfold(v, T, Partial(v, R))
          /\ Partial(w, S)[T] = Unfold(w, T, Partial(w, S))
      BY <1>1, PartialEquation
    <2>2. CASE T = {}
      BY <2>1, <2>2 DEF Unfold
    <2>3. CASE T # {}
      <3>1. Elem(T) \in T
        BY <2>3, ElemOf
      <3>2. T \ {Elem(T)} \in Good
        BY <1>2, <3>1
      <3> QED
        BY <2>1, <2>3, <3>1, <3>2 DEF Unfold
    <2> QED
      BY <2>2, <2>3
  <1> HIDE DEF Good
  <1>3. SUBSET R \subseteq Good
    BY <1>1, <1>2, SubsetInduction
  <1> QED
    BY <1>3 DEF Good

LEMMA OverIsPartial ==
    ASSUME NEW S, IsFiniteSet(S), NEW w, NEW s \in SUBSET S
    PROVE  Over(w, s) = Partial(w, S)[s]
  <1> DEFINE v == [x \in s |-> w[x]]
  <1>1. DOMAIN v = s /\ \A x \in s : v[x] = w[x]
    OBVIOUS
  <1>2. Over(w, s) = Total(v)
    BY DEF Over
  <1> HIDE DEF v
  <1>3. Total(v) = Partial(v, s)[s]
    BY <1>1, TotalIsPartial
  <1>4. Partial(v, s)[s] = Partial(w, S)[s]
    BY <1>1, PartialLocal
  <1> QED
    BY <1>2, <1>3, <1>4

-----------------------------------------------------------------------------
(* What the other proofs use.                                              *)

LEMMA TotalIsOver ==
    ASSUME NEW S, NEW w \in [S -> Int]
    PROVE  Total(w) = Over(w, S)
  <1>1. w = [x \in S |-> w[x]]
    OBVIOUS
  <1> QED
    BY <1>1, Zenon DEF Over

LEMMA OverSame ==
    ASSUME NEW S, NEW v, NEW w, \A x \in S : v[x] = w[x]
    PROVE  Over(v, S) = Over(w, S)
  <1>1. [x \in S |-> v[x]] = [x \in S |-> w[x]]
    OBVIOUS
  <1> QED
    BY <1>1, Zenon DEF Over

LEMMA OverEmpty ==
    ASSUME NEW w
    PROVE  Over(w, {}) = 0
  <1>1. IsFiniteSet({}) /\ {} \in SUBSET {}
    BY FS_EmptySet
  <1>2. Over(w, {}) = Partial(w, {})[{}]
    BY <1>1, OverIsPartial
  <1>3. Partial(w, {})[{}] = Unfold(w, {}, Partial(w, {}))
    BY <1>1, PartialEquation
  <1> QED
    BY <1>2, <1>3 DEF Unfold

LEMMA OverSomeElement ==
    ASSUME NEW S, IsFiniteSet(S), S # {}, NEW w
    PROVE  Over(w, S) = w[Elem(S)] + Over(w, S \ {Elem(S)})
  <1>1. S \in SUBSET S /\ S \ {Elem(S)} \in SUBSET S
    OBVIOUS
  <1>2. /\ Over(w, S) = Partial(w, S)[S]
        /\ Over(w, S \ {Elem(S)}) = Partial(w, S)[S \ {Elem(S)}]
    BY <1>1, OverIsPartial
  <1>3. Partial(w, S)[S] = Unfold(w, S, Partial(w, S))
    BY <1>1, PartialEquation
  <1> QED
    BY <1>2, <1>3 DEF Unfold

LEMMA OverType ==
    ASSUME NEW S, IsFiniteSet(S), NEW w, \A x \in S : w[x] \in Int
    PROVE  Over(w, S) \in Int
  <1> DEFINE Good == {s \in SUBSET S : Over(w, s) \in Int}
  <1>1. ASSUME NEW T \in SUBSET S,
               \A U \in SUBSET T : U # T => U \in Good
        PROVE  T \in Good
    <2>1. CASE T = {}
      BY <2>1, OverEmpty
    <2>2. CASE T # {}
      <3>1. Elem(T) \in T
        BY <2>2, ElemOf
      <3>2. T \ {Elem(T)} \in Good
        BY <1>1, <3>1
      <3>3. IsFiniteSet(T)
        BY FS_Subset
      <3>4. Over(w, T) = w[Elem(T)] + Over(w, T \ {Elem(T)})
        BY <2>2, <3>3, OverSomeElement
      <3> QED
        BY <3>1, <3>2, <3>4
    <2> QED
      BY <2>1, <2>2
  <1> HIDE DEF Good
  <1>2. SUBSET S \subseteq Good
    BY <1>1, SubsetInduction
  <1> QED
    BY <1>2 DEF Good

(* Any element may be taken out, not only the one the library takes. *)
LEMMA OverElement ==
    ASSUME NEW S, IsFiniteSet(S), NEW w, \A x \in S : w[x] \in Int,
           NEW x \in S
    PROVE  Over(w, S) = w[x] + Over(w, S \ {x})
  <1> DEFINE Good == {s \in SUBSET S :
                        \A y \in s : Over(w, s) = w[y] + Over(w, s \ {y})}
  <1>1. ASSUME NEW T \in SUBSET S,
               \A U \in SUBSET T : U # T => U \in Good,
               NEW y \in T
        PROVE  Over(w, T) = w[y] + Over(w, T \ {y})
    <2> DEFINE c == Elem(T)
    <2>1. c \in T
      BY ElemOf
    <2>2. IsFiniteSet(T)
      BY FS_Subset
    <2>3. Over(w, T) = w[c] + Over(w, T \ {c})
      BY <2>2, OverSomeElement
    <2> HIDE DEF c
    <2>4. CASE y = c
      BY <2>3, <2>4
    <2>5. CASE y # c
      <3>1. T \ {c} \in Good /\ T \ {y} \in Good
        BY <1>1, <2>1
      <3>2. Over(w, T \ {c}) = w[y] + Over(w, (T \ {c}) \ {y})
        BY <2>5, <3>1
      <3>3. Over(w, T \ {y}) = w[c] + Over(w, (T \ {y}) \ {c})
        BY <2>1, <2>5, <3>1
      <3> DEFINE rest == (T \ {y}) \ {c}
      <3>4. (T \ {c}) \ {y} = rest
        OBVIOUS
      <3>5. Over(w, rest) \in Int
        <4>1. IsFiniteSet(rest) /\ \A z \in rest : w[z] \in Int
          BY <2>2, FS_Subset
        <4> HIDE DEF rest
        <4> QED
          BY <4>1, OverType
      <3> HIDE DEF rest
      <3>6. /\ Over(w, T \ {c}) = w[y] + Over(w, rest)
            /\ Over(w, T \ {y}) = w[c] + Over(w, rest)
        BY <3>2, <3>3, <3>4 DEF rest
      <3>7. w[y] \in Int /\ w[c] \in Int
        BY <2>1
      <3> QED
        BY <2>3, <3>5, <3>6, <3>7
    <2> QED
      BY <2>4, <2>5
  <1>2. ASSUME NEW T \in SUBSET S,
               \A U \in SUBSET T : U # T => U \in Good
        PROVE  T \in Good
    BY <1>1, <1>2
  <1> HIDE DEF Good
  <1>3. SUBSET S \subseteq Good
    BY <1>2, SubsetInduction
  <1> QED
    BY <1>3 DEF Good

(* Induction one element at a time. *)
LEMMA ElementInduction ==
    ASSUME NEW S, IsFiniteSet(S), NEW Good, {} \in Good,
           \A T \in SUBSET S : \A x \in T : T \ {x} \in Good => T \in Good
    PROVE  S \in Good
  <1>1. ASSUME NEW T \in SUBSET S,
               \A U \in SUBSET T : U # T => U \in Good
        PROVE  T \in Good
    <2>1. CASE T = {}
      BY <2>1
    <2>2. CASE T # {}
      <3>1. PICK x : x \in T
        BY <2>2
      <3>2. T \ {x} \in SUBSET T /\ T \ {x} # T
        BY <3>1
      <3> QED
        BY <1>1, <3>1, <3>2
    <2> QED
      BY <2>1, <2>2
  <1>2. SUBSET S \subseteq Good
    BY <1>1, SubsetInduction
  <1> QED
    BY <1>2

(* A part of a finite domain is summed over as the domain is. *)
LEMMA OverPart ==
    ASSUME NEW S, IsFiniteSet(S), NEW w, \A x \in S : w[x] \in Int,
           NEW T \in SUBSET S
    PROVE  /\ Over(w, T) \in Int
           /\ \A x \in T : /\ Over(w, T \ {x}) \in Int
                           /\ Over(w, T) = w[x] + Over(w, T \ {x})
  <1>1. IsFiniteSet(T) /\ \A x \in T : w[x] \in Int
    BY FS_Subset
  <1>2. ASSUME NEW x \in T
        PROVE  Over(w, T \ {x}) \in Int
    <2>1. IsFiniteSet(T \ {x}) /\ \A y \in T \ {x} : w[y] \in Int
      BY <1>1, FS_Subset
    <2> QED
      BY <2>1, OverType
  <1> QED
    BY <1>1, <1>2, OverElement, OverType

LEMMA OverNat ==
    ASSUME NEW S, IsFiniteSet(S), NEW w, \A x \in S : w[x] \in Nat
    PROVE  Over(w, S) \in Nat
  <1> DEFINE Good == {T \in SUBSET S : Over(w, T) \in Nat}
  <1>1. {} \in Good
    BY OverEmpty
  <1>2. ASSUME NEW T \in SUBSET S, NEW x \in T, T \ {x} \in Good
        PROVE  T \in Good
    <2>1. Over(w, T) = w[x] + Over(w, T \ {x})
      BY OverPart
    <2> QED
      BY <1>2, <2>1
  <1> HIDE DEF Good
  <1>3. S \in Good
    BY <1>1, <1>2, ElementInduction
  <1> QED
    BY <1>3 DEF Good

LEMMA OverZero ==
    ASSUME NEW S, IsFiniteSet(S), NEW w, \A x \in S : w[x] = 0
    PROVE  Over(w, S) = 0
  <1> DEFINE Good == {T \in SUBSET S : Over(w, T) = 0}
  <1>1. {} \in Good
    BY OverEmpty
  <1>2. ASSUME NEW T \in SUBSET S, NEW x \in T, T \ {x} \in Good
        PROVE  T \in Good
    <2>1. Over(w, T) = w[x] + Over(w, T \ {x})
      BY OverPart
    <2> QED
      BY <1>2, <2>1
  <1> HIDE DEF Good
  <1>3. S \in Good
    BY <1>1, <1>2, ElementInduction
  <1> QED
    BY <1>3 DEF Good

(* The total of sums is the sum of the totals. *)
LEMMA OverPlus ==
    ASSUME NEW S, IsFiniteSet(S), NEW u, NEW v, NEW w,
           \A x \in S : v[x] \in Int /\ w[x] \in Int /\ u[x] = v[x] + w[x]
    PROVE  Over(u, S) = Over(v, S) + Over(w, S)
  <1> DEFINE Good == {T \in SUBSET S : Over(u, T) = Over(v, T) + Over(w, T)}
  <1>0. \A x \in S : u[x] \in Int
    OBVIOUS
  <1>1. {} \in Good
    BY OverEmpty
  <1>2. ASSUME NEW T \in SUBSET S, NEW x \in T, T \ {x} \in Good
        PROVE  T \in Good
    <2>1. Over(u, T) = u[x] + Over(u, T \ {x})
      BY <1>0, OverPart
    <2>2. /\ Over(v, T) = v[x] + Over(v, T \ {x})
          /\ Over(v, T \ {x}) \in Int
      BY OverPart
    <2>3. /\ Over(w, T) = w[x] + Over(w, T \ {x})
          /\ Over(w, T \ {x}) \in Int
      BY OverPart
    <2>4. /\ Over(u, T \ {x}) = Over(v, T \ {x}) + Over(w, T \ {x})
          /\ u[x] = v[x] + w[x] /\ v[x] \in Int /\ w[x] \in Int
      BY <1>2
    <2>5. Over(u, T) = Over(v, T) + Over(w, T)
      BY <2>1, <2>2, <2>3, <2>4
    <2> QED
      BY <2>5
  <1> HIDE DEF Good
  <1>3. S \in Good
    BY <1>1, <1>2, ElementInduction
  <1> QED
    BY <1>3 DEF Good

(* ... and so for differences. *)
LEMMA OverMinus ==
    ASSUME NEW S, IsFiniteSet(S), NEW u, NEW v, NEW w,
           \A x \in S : v[x] \in Int /\ w[x] \in Int /\ u[x] = v[x] - w[x]
    PROVE  Over(u, S) = Over(v, S) - Over(w, S)
  <1>1. \A x \in S : u[x] \in Int /\ v[x] = u[x] + w[x]
    OBVIOUS
  <1>2. Over(v, S) = Over(u, S) + Over(w, S)
    BY <1>1, OverPlus
  <1>3. Over(u, S) \in Int /\ Over(w, S) \in Int
    BY <1>1, OverType
  <1> QED
    BY <1>2, <1>3

LEMMA OverMonotone ==
    ASSUME NEW S, IsFiniteSet(S), NEW v, NEW w,
           \A x \in S : v[x] \in Int /\ w[x] \in Int /\ v[x] <= w[x]
    PROVE  Over(v, S) <= Over(w, S)
  <1> DEFINE u == [x \in S |-> w[x] - v[x]]
  <1>1. \A x \in S : u[x] = w[x] - v[x] /\ u[x] \in Nat
    OBVIOUS
  <1> HIDE DEF u
  <1>2. Over(u, S) = Over(w, S) - Over(v, S)
    BY <1>1, OverMinus
  <1>3. Over(u, S) \in Nat
    BY <1>1, OverNat
  <1>4. Over(v, S) \in Int /\ Over(w, S) \in Int
    BY OverType
  <1> QED
    BY <1>2, <1>3, <1>4

(* Disjoint parts add up. *)
LEMMA OverUnion ==
    ASSUME NEW S, IsFiniteSet(S), NEW R, IsFiniteSet(R), S \cap R = {},
           NEW w, \A x \in S \union R : w[x] \in Int
    PROVE  Over(w, S \union R) = Over(w, S) + Over(w, R)
  <1> DEFINE Good == {T \in SUBSET S :
                        Over(w, T \union R) = Over(w, T) + Over(w, R)}
  <1>0. Over(w, R) \in Int
    BY OverType
  <1>1. {} \in Good
    BY <1>0, OverEmpty
  <1>2. ASSUME NEW T \in SUBSET S, NEW x \in T, T \ {x} \in Good
        PROVE  T \in Good
    <2>1. IsFiniteSet(S \union R) /\ T \union R \in SUBSET (S \union R)
      BY FS_Union
    <2>2. Over(w, T \union R) = w[x] + Over(w, (T \union R) \ {x})
      BY <2>1, OverPart
    <2>3. (T \union R) \ {x} = (T \ {x}) \union R
      OBVIOUS
    <2>4. /\ Over(w, T) = w[x] + Over(w, T \ {x})
          /\ Over(w, T \ {x}) \in Int
      BY OverPart
    <2>5. Over(w, (T \union R) \ {x}) = Over(w, (T \ {x}) \union R)
      BY <2>3, Zenon
    <2>6. Over(w, (T \ {x}) \union R) = Over(w, T \ {x}) + Over(w, R)
      BY <1>2
    <2>7. w[x] \in Int
      OBVIOUS
    <2>8. Over(w, T \union R) = Over(w, T) + Over(w, R)
      BY <1>0, <2>2, <2>4, <2>5, <2>6, <2>7
    <2> QED
      BY <2>8
  <1> HIDE DEF Good
  <1>3. S \in Good
    BY <1>1, <1>2, ElementInduction
  <1> QED
    BY <1>3 DEF Good

(* Only the elements where w is not 0 count. *)
LEMMA OverSupport ==
    ASSUME NEW S, IsFiniteSet(S), NEW R \in SUBSET S,
           NEW w, \A x \in S : w[x] \in Int,
           \A x \in S \ R : w[x] = 0
    PROVE  Over(w, S) = Over(w, R)
  <1>1. IsFiniteSet(R) /\ IsFiniteSet(S \ R)
    BY FS_Subset
  <1>2. Over(w, S \ R) = 0
    BY <1>1, OverZero
  <1>3. PICK T : T = S \ R
    OBVIOUS
  <1>4. S = R \union T /\ R \cap T = {}
    BY <1>3
  <1>5. Over(w, R \union T) = Over(w, R) + Over(w, T)
    BY <1>1, <1>3, <1>4, OverUnion
  <1>6. Over(w, S) = Over(w, R \union T)
    BY <1>4, Zenon
  <1>7. Over(w, R) \in Int /\ Over(w, T) = 0
    BY <1>1, <1>2, <1>3, OverType
  <1> QED
    BY <1>5, <1>6, <1>7

(* Where the columns differ in one element, so do the totals. *)
LEMMA OverChange ==
    ASSUME NEW S, IsFiniteSet(S), NEW x \in S, NEW v, NEW w,
           \A y \in S : v[y] \in Int /\ w[y] \in Int,
           \A y \in S \ {x} : v[y] = w[y]
    PROVE  Over(w, S) = Over(v, S) - v[x] + w[x]
  <1>1. Over(v, S \ {x}) = Over(w, S \ {x})
    BY OverSame
  <1>2. /\ Over(v, S) = v[x] + Over(v, S \ {x})
        /\ Over(w, S) = w[x] + Over(w, S \ {x})
        /\ Over(v, S \ {x}) \in Int
    BY OverPart
  <1> QED
    BY <1>1, <1>2

Group(S, f, a) == {x \in S : f[x] = a}

(* Sorted by f, the totals of the groups add up to the total. *)
LEMMA OverGroups ==
    ASSUME NEW S, IsFiniteSet(S), NEW A, IsFiniteSet(A),
           NEW w, \A x \in S : w[x] \in Int,
           NEW f, \A x \in S : f[x] \in A,
           NEW g, \A a \in A : g[a] = Over(w, Group(S, f, a))
    PROVE  Over(g, A) = Over(w, S)
  <1> USE DEF Group
  <1> DEFINE In(B) == {x \in S : f[x] \in B}
             Good == {B \in SUBSET A : Over(g, B) = Over(w, In(B))}
  <1>1. \A B : In(B) \in SUBSET S /\ IsFiniteSet(In(B))
    BY FS_Subset
  <1>2. \A a \in A : g[a] \in Int
    <2> TAKE a \in A
    <2>1. PICK T : T = {x \in S : f[x] = a}
      OBVIOUS
    <2>2. T \in SUBSET S
      BY <2>1
    <2>3. Over(w, T) \in Int
      BY <2>2, OverPart
    <2> QED
      BY <2>1, <2>3
  <1>3. {} \in Good
    <2>1. In({}) = {}
      OBVIOUS
    <2> QED
      BY <2>1, OverEmpty
  <1>4. ASSUME NEW B \in SUBSET A, NEW a \in B, B \ {a} \in Good
        PROVE  B \in Good
    <2> DEFINE here == {x \in S : f[x] = a}
               rest == In(B \ {a})
    <2>1. In(B) = here \union rest /\ here \cap rest = {}
      OBVIOUS
    <2>2. here \in SUBSET S /\ IsFiniteSet(here) /\ IsFiniteSet(rest)
      BY FS_Subset
    <2>3. Over(g, B) = g[a] + Over(g, B \ {a})
      BY <1>2, OverPart
    <2>4. g[a] = Over(w, here)
      OBVIOUS
    <2>5. Over(g, B \ {a}) = Over(w, rest)
      BY <1>4
    <2>6. \A x \in here \union rest : w[x] \in Int
      OBVIOUS
    <2> HIDE DEF here, rest
    <2>7. Over(w, here \union rest) = Over(w, here) + Over(w, rest)
      BY <2>1, <2>2, <2>6, OverUnion
    <2>8. Over(g, B) = Over(w, In(B))
      BY <2>1, <2>3, <2>4, <2>5, <2>7
    <2> QED
      BY <2>8
  <1>5. In(A) = S
    OBVIOUS
  <1> HIDE DEF Good
  <1>6. A \in Good
    BY <1>3, <1>4, ElementInduction
  <1> QED
    BY <1>5, <1>6 DEF Good

(* A total grows by what is added.                                         *)
LEMMA TotalGrows ==
    ASSUME NEW S, NEW T, NEW x, NEW v, NEW w,
           IsFiniteSet(S), x \notin S, T = S \union {x},
           v \in [S -> Int], w \in [T -> Int],
           \A y \in S : w[y] = v[y]
    PROVE  Total(w) = Total(v) + w[x]
  <1>1. IsFiniteSet(T) /\ x \in T /\ T \ {x} = S /\ \A y \in T : w[y] \in Int
    BY FS_AddElement
  <1>2. Over(w, T) = w[x] + Over(w, T \ {x})
    BY <1>1, OverElement
  <1>3. Over(w, T \ {x}) = Over(v, S)
    BY <1>1, OverSame
  <1>4. Over(v, S) \in Int
    BY OverType
  <1>5. Total(w) = Over(w, T) /\ Total(v) = Over(v, S)
    BY TotalIsOver
  <1> QED
    BY <1>1, <1>2, <1>3, <1>4, <1>5

(* Short columns.                                                          *)
LEMMA TotalOfTwo ==
    ASSUME NEW w \in [1 .. 2 -> Int]
    PROVE  Total(w) = w[1] + w[2]
  <1>1. 1 .. 2 = {1, 2} /\ IsFiniteSet({1, 2})
    <2>1. 1 .. 2 = {1, 2}
      OBVIOUS
    <2>2. IsFiniteSet(1 .. 2)
      BY 1 \in Int, 2 \in Int, FS_Interval, Zenon
    <2> QED
      BY <2>1, <2>2, Zenon
  <1>2. Total(w) = Over(w, {1, 2})
    BY <1>1, TotalIsOver
  <1>3. Over(w, {1, 2}) = w[1] + Over(w, {2})
    <2>1. {1, 2} \ {1} = {2} /\ \A x \in {1, 2} : w[x] \in Int
      BY <1>1
    <2> QED
      BY <1>1, <2>1, OverElement
  <1>4. Over(w, {2}) = w[2]
    <2>0. IsFiniteSet({2})
      BY FS_Singleton
    <2>1. {2} \ {2} = {} /\ IsFiniteSet({2}) /\ w[2] \in Int
      BY <1>1, <2>0
    <2>2. Over(w, {2}) = w[2] + Over(w, {2} \ {2})
      BY <2>1, OverElement
    <2>3. Over(w, {2} \ {2}) = 0
      BY <2>1, OverEmpty, Zenon
    <2> QED
      BY <2>1, <2>2, <2>3
  <1> QED
    BY <1>2, <1>3, <1>4

LEMMA TotalOfThree ==
    ASSUME NEW w \in [1 .. 3 -> Int]
    PROVE  Total(w) = w[1] + w[2] + w[3]
  <1>1. 1 .. 3 = {1, 2, 3} /\ IsFiniteSet({1, 2, 3})
    <2>1. 1 .. 3 = {1, 2, 3}
      OBVIOUS
    <2>2. IsFiniteSet(1 .. 3)
      BY 1 \in Int, 3 \in Int, FS_Interval, Zenon
    <2> QED
      BY <2>1, <2>2, Zenon
  <1>2. Total(w) = Over(w, {1, 2, 3})
    BY <1>1, TotalIsOver
  <1>3. Over(w, {1, 2, 3}) = w[1] + Over(w, {2, 3})
    <2>1. {1, 2, 3} \ {1} = {2, 3} /\ \A x \in {1, 2, 3} : w[x] \in Int
      BY <1>1
    <2> QED
      BY <1>1, <2>1, OverElement
  <1>4. Over(w, {2, 3}) = w[2] + Over(w, {3})
    <2>1. {2, 3} \ {2} = {3} /\ \A x \in {2, 3} : w[x] \in Int
      BY <1>1
    <2>2. IsFiniteSet({2, 3})
      BY <1>1, FS_Subset
    <2> QED
      BY <2>1, <2>2, OverElement
  <1>5. Over(w, {3}) = w[3]
    <2>0. IsFiniteSet({3})
      BY FS_Singleton
    <2>1. {3} \ {3} = {} /\ IsFiniteSet({3}) /\ w[3] \in Int
      BY <1>1, <2>0
    <2>2. Over(w, {3}) = w[3] + Over(w, {3} \ {3})
      BY <2>1, OverElement
    <2>3. Over(w, {3} \ {3}) = 0
      BY <2>1, OverEmpty, Zenon
    <2> QED
      BY <2>1, <2>2, <2>3
  <1> QED
    BY <1>2, <1>3, <1>4, <1>5

=============================================================================
