---------------------------- MODULE TotalsProofs ----------------------------
(***************************************************************************)
(* Induction over finite sets, the existence of the function that a fold   *)
(* chooses, and what follows for sums; the elements of cut sequences.      *)
(*                                                                         *)
(* The library's induction theorems take the property as an operator,      *)
(* which the provers cannot instantiate.  Here it is a set: the numbers or *)
(* the subsets that have the property.  That a least one outside of it     *)
(* exists is WFMin of WellFoundedInduction, whose set is a constant too.   *)
(***************************************************************************)
EXTENDS Totals, Sequences, FiniteSetTheorems, WellFoundedInduction, TLAPS

-----------------------------------------------------------------------------
(* Induction *)

(* What holds of 0 and of the successor of every number it holds of, holds *)
(* of every natural number.                                                *)
LEMMA NatInduct ==
    ASSUME NEW G, 0 \in G, \A n \in Nat : n \in G => n + 1 \in G
    PROVE  Nat \subseteq G
<1> DEFINE F == {n \in Nat : n \notin G}
<1> SUFFICES ASSUME F # {} PROVE FALSE
  OBVIOUS
<1>1. \E x \in F : \A y \in F : ~ (<<y, x>> \in OpToRel(<, Nat))
  <2>1. F \subseteq Nat
    OBVIOUS
  <2> HIDE DEF F
  <2> QED
    BY <2>1, WFMin, NatLessThanWellFounded
<1>2. PICK x \in F : \A y \in F : ~(y < x)
  BY <1>1 DEF OpToRel
<1>3. x # 0 /\ x - 1 \in Nat /\ x - 1 \notin F
  BY <1>2
<1> QED
  BY <1>2, <1>3

(* Among subsets of a finite set, one has no proper subset among them. *)
LEMMA LeastSubset ==
    ASSUME NEW S, IsFiniteSet(S), NEW F \in SUBSET SUBSET S, F # {}
    PROVE  \E s \in F : \A t \in F : t \subseteq s => t = s
<1>1. IsWellFoundedOn(StrictSubsetOrdering(S), FiniteSubsetsOf(S))
  BY FS_StrictSubsetOrderingWellFounded
<1>2. FiniteSubsetsOf(S) = SUBSET S
  BY FS_FiniteSubsetsOfFinite
<1>3. \E s \in F : \A t \in F : ~ (<<t, s>> \in StrictSubsetOrdering(S))
  BY <1>1, <1>2, WFMin
<1> QED
  BY <1>3 DEF StrictSubsetOrdering

-----------------------------------------------------------------------------
(* Folds *)

(* g computes a fold over the subsets of S, one element after another. *)
FoldsTo(S, pick, base, step, g) ==
    g = [s \in SUBSET S |->
            IF s = {} THEN base ELSE step[pick[s]][g[s \ {pick[s]}]]]

(* Such a function exists: it is built one cardinality after another. *)
LEMMA FoldExists ==
    ASSUME NEW S, IsFiniteSet(S), NEW pick, \A s \in SUBSET S : s # {} => pick[s] \in s,
           NEW A, NEW base \in A, NEW step \in [S -> [A -> A]]
    PROVE  \E g \in [SUBSET S -> A] : FoldsTo(S, pick, base, step, g)
<1> DEFINE Small(n) == {s \in SUBSET S : Cardinality(s) <= n}
           Good(n, g) == \A s \in Small(n) :
               g[s] = IF s = {} THEN base ELSE step[pick[s]][g[s \ {pick[s]}]]
           G == {n \in Nat : \E g \in [SUBSET S -> A] : Good(n, g)}
<1>1. \A s \in SUBSET S : Cardinality(s) \in Nat /\ Cardinality(s) <= Cardinality(S)
  BY FS_Subset, FS_CardinalityType
<1>2. \A s \in SUBSET S : (Cardinality(s) = 0) <=> (s = {})
  BY FS_Subset, FS_EmptySet
<1>3. \A s \in SUBSET S : s # {} => /\ pick[s] \in S /\ s \ {pick[s]} \in SUBSET S
                                    /\ Cardinality(s \ {pick[s]}) = Cardinality(s) - 1
  <2> SUFFICES ASSUME NEW s \in SUBSET S, s # {}
               PROVE Cardinality(s \ {pick[s]}) = Cardinality(s) - 1
    OBVIOUS
  <2>1. IsFiniteSet(s) /\ pick[s] \in s
    BY FS_Subset
  <2> QED
    BY <2>1, FS_RemoveElement
<1>4. 0 \in G
  <2> DEFINE g == [s \in SUBSET S |-> base]
  <2>1. \A s \in Small(0) : s = {} /\ g[s] = base
    BY <1>1, <1>2
  <2> QED
    BY <2>1
<1>5. ASSUME NEW n \in Nat, n \in G PROVE n + 1 \in G
  <2>1. PICK g \in [SUBSET S -> A] : Good(n, g)
    BY <1>5
  <2> DEFINE h == [s \in SUBSET S |-> IF s \in Small(n) THEN g[s]
                                      ELSE step[pick[s]][g[s \ {pick[s]}]]]
  <2>2. h \in [SUBSET S -> A]
    <3>1. ASSUME NEW s \in SUBSET S, s \notin Small(n)
          PROVE  step[pick[s]][g[s \ {pick[s]}]] \in A
      <4>1. s # {}
        BY <3>1, <1>1, <1>2
      <4>2. pick[s] \in S /\ g[s \ {pick[s]}] \in A
        BY <4>1, <1>3
      <4> QED
        BY <4>2
    <3> QED
      BY <3>1
  <2>3. ASSUME NEW s \in Small(n + 1), s # {} PROVE s \ {pick[s]} \in Small(n)
    BY <1>1, <1>3, <2>3
  <2>4. {} \in Small(n) /\ \A s \in Small(n) : h[s] = g[s]
    BY <1>1, <1>2
  <2>5. \A s \in SUBSET S : s \notin Small(n) => h[s] = step[pick[s]][g[s \ {pick[s]}]]
    OBVIOUS
  <2>6. Good(n + 1, h)
    <3> SUFFICES ASSUME NEW s \in Small(n + 1)
                 PROVE h[s] = IF s = {} THEN base ELSE step[pick[s]][h[s \ {pick[s]}]]
      OBVIOUS
    <3>1. s \in SUBSET S
      OBVIOUS
    <3> HIDE DEF h, Small
    <3>2. CASE s = {}
      BY <3>2, <2>1, <2>4
    <3>3. CASE s # {} /\ s \in Small(n)
      BY <3>3, <2>1, <2>3, <2>4
    <3>4. CASE s # {} /\ s \notin Small(n)
      BY <3>1, <3>4, <2>3, <2>4, <2>5
    <3> QED
      BY <3>2, <3>3, <3>4
  <2>7. \E f \in [SUBSET S -> A] : Good(n + 1, f)
    <3> HIDE DEF h, Good
    <3> QED
      BY <2>2, <2>6
  <2> HIDE DEF Good
  <2> QED
    BY <2>7
<1>6. Cardinality(S) \in G
  <2> HIDE DEF G
  <2> QED
    BY <1>4, <1>5, NatInduct, FS_CardinalityType
<1>7. PICK g \in [SUBSET S -> A] : Good(Cardinality(S), g)
  BY <1>6
<1>8. \A s \in SUBSET S : s \in Small(Cardinality(S))
  BY <1>1
<1>9. \A s \in SUBSET S : g[s] = IF s = {} THEN base ELSE step[pick[s]][g[s \ {pick[s]}]]
  BY <1>7, <1>8
<1>10. FoldsTo(S, pick, base, step, g)
  BY <1>9 DEF FoldsTo
<1> QED
  BY <1>10

-----------------------------------------------------------------------------
(* Sums *)

AnyOf(s) == CHOOSE x \in s : TRUE

(* What the fold chooses: the sums over all subsets. *)
SumsOf(f, S) ==
    CHOOSE g : g = [s \in SUBSET S |-> IF s = {} THEN 0
                     ELSE f[CHOOSE x \in s : TRUE] + g[s \ {CHOOSE x \in s : TRUE}]]

LEMMA SumIs == ASSUME NEW f, NEW S PROVE Sum(f, S) = SumsOf(f, S)[S]
BY DEF Sum, SumsOf, FoldFunctionOnSet, MapThenFoldSet

LEMMA SumsOfFold ==
    ASSUME NEW S, IsFiniteSet(S), NEW f, \A x \in S : f[x] \in Int
    PROVE  /\ SumsOf(f, S) \in [SUBSET S -> Int]
           /\ \A s \in SUBSET S : /\ s = {} => SumsOf(f, S)[s] = 0
                                  /\ s # {} => /\ AnyOf(s) \in s
                                               /\ SumsOf(f, S)[s] =
                                                    f[AnyOf(s)] + SumsOf(f, S)[s \ {AnyOf(s)}]
<1> DEFINE pick == [s \in SUBSET S |-> AnyOf(s)]
           step == [x \in S |-> [a \in Int |-> f[x] + a]]
           Sums(g) == g = [s \in SUBSET S |-> IF s = {} THEN 0
                             ELSE f[CHOOSE x \in s : TRUE] + g[s \ {CHOOSE x \in s : TRUE}]]
<1>1. \A s \in SUBSET S : s # {} => pick[s] = AnyOf(s) /\ AnyOf(s) \in s
  BY DEF AnyOf
<1>2. step \in [S -> [Int -> Int]]
  OBVIOUS
<1>3. PICK g \in [SUBSET S -> Int] : FoldsTo(S, pick, 0, step, g)
  <2>1. \A s \in SUBSET S : s # {} => pick[s] \in s
    BY <1>1
  <2> HIDE DEF pick, step
  <2> QED
    BY <2>1, <1>2, 0 \in Int, FoldExists
<1>4. \A s \in SUBSET S : s # {} => step[pick[s]][g[s \ {pick[s]}]] = f[AnyOf(s)] + g[s \ {AnyOf(s)}]
  <2> SUFFICES ASSUME NEW s \in SUBSET S, s # {}
               PROVE  step[pick[s]][g[s \ {pick[s]}]] = f[AnyOf(s)] + g[s \ {AnyOf(s)}]
    OBVIOUS
  <2>1. pick[s] = AnyOf(s) /\ AnyOf(s) \in S /\ s \ {AnyOf(s)} \in SUBSET S
    BY <1>1
  <2>2. g[s \ {AnyOf(s)}] \in Int
    BY <2>1
  <2> QED
    BY <2>1, <2>2
<1>5. g = [s \in SUBSET S |-> IF s = {} THEN 0 ELSE f[AnyOf(s)] + g[s \ {AnyOf(s)}]]
  BY <1>3, <1>4 DEF FoldsTo
<1>6. Sums(g)
  BY <1>5 DEF AnyOf
<1>7. Sums(SumsOf(f, S))
  <2> HIDE DEF Sums
  <2>1. SumsOf(f, S) = CHOOSE h : Sums(h)
    BY DEF SumsOf, Sums
  <2> QED
    BY <1>6, <2>1
<1> DEFINE h == SumsOf(f, S)
<1>8. h = [s \in SUBSET S |-> IF s = {} THEN 0 ELSE f[AnyOf(s)] + h[s \ {AnyOf(s)}]]
  BY <1>7 DEF AnyOf
<1>9. \A s \in SUBSET S : /\ s = {} => h[s] = 0
                          /\ s # {} => h[s] = f[AnyOf(s)] + h[s \ {AnyOf(s)}]
  <2> HIDE DEF h
  <2> QED
    BY <1>8
<1>10. \A s \in SUBSET S : h[s] \in Int
  <2> HIDE DEF h
  <2> DEFINE F == {s \in SUBSET S : h[s] \notin Int}
  <2> SUFFICES ASSUME F # {} PROVE FALSE
    OBVIOUS
  <2>1. PICK s \in F : \A t \in F : t \subseteq s => t = s
    <3>1. F \in SUBSET SUBSET S
      OBVIOUS
    <3> HIDE DEF F
    <3> QED
      BY <3>1, LeastSubset
  <2>2. s \in SUBSET S /\ h[s] \notin Int
    OBVIOUS
  <2>3. s # {}
    <3>1. {} \in SUBSET S
      OBVIOUS
    <3>2. h[{}] = 0
      BY <1>9, <3>1
    <3>3. s = {} => h[s] \in Int
      BY <3>2
    <3> HIDE DEF F
    <3> QED
      BY <2>2, <3>3
  <2>4. AnyOf(s) \in s /\ s \ {AnyOf(s)} \notin F
    BY <1>1, <2>1, <2>2, <2>3
  <2>5. f[AnyOf(s)] \in Int /\ h[s \ {AnyOf(s)}] \in Int
    BY <2>2, <2>4
  <2>6. h[s] = f[AnyOf(s)] + h[s \ {AnyOf(s)}]
    BY <1>9, <2>2, <2>3
  <2> QED
    BY <2>2, <2>5, <2>6
<1> HIDE DEF h
<1>11. h \in [SUBSET S -> Int]
  BY <1>8, <1>10
<1> QED
  BY <1>1, <1>9, <1>11 DEF h

(* A sum is a number, and it can be taken apart at any element. *)
LEMMA SumOfSubset ==
    ASSUME NEW S, IsFiniteSet(S), NEW f, \A x \in S : f[x] \in Int, NEW T \in SUBSET S
    PROVE  Sum(f, T) = SumsOf(f, S)[T]
<1> DEFINE g == SumsOf(f, S)
           h == SumsOf(f, T)
           F == {t \in SUBSET T : h[t] # g[t]}
<1>1. IsFiniteSet(T)
  BY FS_Subset
<1>2. \A s \in SUBSET S : /\ s = {} => g[s] = 0
                          /\ s # {} => AnyOf(s) \in s /\ g[s] = f[AnyOf(s)] + g[s \ {AnyOf(s)}]
  BY SumsOfFold
<1>3. \A s \in SUBSET T : /\ s = {} => h[s] = 0
                          /\ s # {} => AnyOf(s) \in s /\ h[s] = f[AnyOf(s)] + h[s \ {AnyOf(s)}]
  <2>1. \A x \in T : f[x] \in Int
    OBVIOUS
  <2> QED
    BY <1>1, <2>1, SumsOfFold
<1> HIDE DEF g, h
<1>4. F = {}
  <2> SUFFICES ASSUME F # {} PROVE FALSE
    OBVIOUS
  <2>1. PICK s \in F : \A t \in F : t \subseteq s => t = s
    <3>1. F \in SUBSET SUBSET T
      OBVIOUS
    <3> HIDE DEF F
    <3> QED
      BY <1>1, <3>1, LeastSubset
  <2>2. s \in SUBSET T /\ s \in SUBSET S /\ h[s] # g[s]
    OBVIOUS
  <2>3. s # {}
    BY <1>2, <1>3, <2>2
  <2>4. AnyOf(s) \in s
    BY <1>2, <2>2, <2>3
  <2>5. s \ {AnyOf(s)} \in SUBSET T /\ s \ {AnyOf(s)} # s
    BY <2>2, <2>4
  <2>6. h[s \ {AnyOf(s)}] = g[s \ {AnyOf(s)}]
    BY <2>1, <2>5
  <2> QED
    BY <1>2, <1>3, <2>2, <2>3, <2>6
<1>5. h[T] = g[T]
  BY <1>4
<1> QED
  BY <1>5, SumIs DEF g, h

LEMMA SumType ==
    ASSUME NEW S, IsFiniteSet(S), NEW f, \A x \in S : f[x] \in Int
    PROVE  Sum(f, S) \in Int
BY SumIs, SumsOfFold

LEMMA SumEmpty == ASSUME NEW f PROVE Sum(f, {}) = 0
<1>1. IsFiniteSet({})
  BY FS_EmptySet
<1>2. \A x \in {} : f[x] \in Int
  OBVIOUS
<1>3. {} \in SUBSET {}
  OBVIOUS
<1> QED
  BY <1>1, <1>2, <1>3, SumIs, SumsOfFold

LEMMA SumRemove ==
    ASSUME NEW S, IsFiniteSet(S), NEW f, \A x \in S : f[x] \in Int, NEW x \in S
    PROVE  Sum(f, S) = Sum(f, S \ {x}) + f[x]
<1> DEFINE g == SumsOf(f, S)
           F == {s \in SUBSET S : \E y \in s : g[s] # g[s \ {y}] + f[y]}
<1>1. g \in [SUBSET S -> Int]
  BY SumsOfFold
<1>2. \A s \in SUBSET S : /\ s = {} => g[s] = 0
                          /\ s # {} => AnyOf(s) \in s /\ g[s] = f[AnyOf(s)] + g[s \ {AnyOf(s)}]
  BY SumsOfFold
<1>3. Sum(f, S) = g[S] /\ Sum(f, S \ {x}) = g[S \ {x}]
  <2>1. S \in SUBSET S /\ S \ {x} \in SUBSET S
    OBVIOUS
  <2> QED
    BY <2>1, SumOfSubset
<1> HIDE DEF g
<1>4. F = {}
  <2> SUFFICES ASSUME F # {} PROVE FALSE
    OBVIOUS
  <2>1. PICK s \in F : \A t \in F : t \subseteq s => t = s
    <3>1. F \in SUBSET SUBSET S
      OBVIOUS
    <3> HIDE DEF F
    <3> QED
      BY <3>1, LeastSubset
  <2>2. PICK y \in s : g[s] # g[s \ {y}] + f[y]
    OBVIOUS
  <2> DEFINE a == AnyOf(s)
  <2>3. s \in SUBSET S /\ a \in s /\ g[s] = f[a] + g[s \ {a}]
    BY <1>2, <2>2
  <2> HIDE DEF a
  <2>4. a # y
    <3>1. s \ {a} \in SUBSET S
      BY <2>3
    <3>2. g[s \ {a}] \in Int /\ f[a] \in Int
      BY <1>1, <2>3, <3>1
    <3>3. g[s] = g[s \ {a}] + f[a]
      BY <2>3, <3>2
    <3> QED
      BY <2>2, <3>3
  <2>5. /\ s \ {a} \in SUBSET S /\ s \ {a} \notin F /\ y \in s \ {a}
        /\ s \ {y} \in SUBSET S /\ s \ {y} \notin F /\ a \in s \ {y}
    BY <2>1, <2>2, <2>3, <2>4
  <2>6. /\ g[s \ {a}] = g[(s \ {a}) \ {y}] + f[y]
        /\ g[s \ {y}] = g[(s \ {y}) \ {a}] + f[a]
    BY <2>5
  <2>7. (s \ {a}) \ {y} = (s \ {y}) \ {a} /\ (s \ {a}) \ {y} \in SUBSET S
    BY <2>3
  <2>8. g[(s \ {a}) \ {y}] \in Int /\ f[a] \in Int /\ f[y] \in Int
    BY <1>1, <2>2, <2>3, <2>7
  <2> DEFINE both == g[(s \ {a}) \ {y}]
  <2>9. /\ g[s] = f[a] + (both + f[y])
        /\ g[s \ {y}] = both + f[a]
        /\ both \in Int
    BY <2>3, <2>6, <2>7, <2>8
  <2> HIDE DEF both
  <2>10. g[s] = g[s \ {y}] + f[y]
    BY <2>8, <2>9
  <2> QED
    BY <2>2, <2>10
<1>5. g[S] = g[S \ {x}] + f[x]
  BY <1>4
<1> QED
  BY <1>3, <1>5

(* What holds of the empty set and of every set that grows by an element,  *)
(* holds of a finite set.                                                  *)
LEMMA SetInduct ==
    ASSUME NEW S, IsFiniteSet(S), NEW G, {} \in G,
           \A T \in SUBSET S, x \in S : T \in G /\ x \notin T => T \cup {x} \in G
    PROVE  S \in G
<1> DEFINE F == {s \in SUBSET S : s \notin G}
<1>1. F = {}
  <2> SUFFICES ASSUME F # {} PROVE FALSE
    OBVIOUS
  <2>1. PICK s \in F : \A t \in F : t \subseteq s => t = s
    <3>1. F \in SUBSET SUBSET S
      OBVIOUS
    <3> HIDE DEF F
    <3> QED
      BY <3>1, LeastSubset
  <2>2. PICK x \in s : TRUE
    OBVIOUS
  <2>3. s \ {x} \in SUBSET S /\ s \ {x} \in G /\ x \notin s \ {x} /\ x \in S
    BY <2>1, <2>2
  <2>4. (s \ {x}) \cup {x} = s
    BY <2>2
  <2> QED
    BY <2>3, <2>4
<1> QED
  BY <1>1

LEMMA SumAdd ==
    ASSUME NEW S, IsFiniteSet(S), NEW f, \A y \in S : f[y] \in Int,
           NEW x, x \notin S, f[x] \in Int
    PROVE  Sum(f, S \cup {x}) = Sum(f, S) + f[x]
<1>1. IsFiniteSet(S \cup {x})
  BY FS_AddElement
<1>2. \A y \in S \cup {x} : f[y] \in Int
  OBVIOUS
<1>3. (S \cup {x}) \ {x} = S
  OBVIOUS
<1>4. x \in S \cup {x}
  OBVIOUS
<1>5. Sum(f, S \cup {x}) = Sum(f, (S \cup {x}) \ {x}) + f[x]
  BY <1>1, <1>2, <1>4, SumRemove
<1> QED
  BY <1>3, <1>5

(* A sum depends on the values over its set, and grows with them. *)
LEMMA SumMonotone ==
    ASSUME NEW S, IsFiniteSet(S), NEW f, NEW g,
           \A x \in S : f[x] \in Int /\ g[x] \in Int /\ f[x] <= g[x]
    PROVE  Sum(f, S) <= Sum(g, S)
<1> DEFINE G == {T \in SUBSET S : Sum(f, T) <= Sum(g, T)}
<1>1. {} \in G
  BY SumEmpty
<1>2. ASSUME NEW T \in SUBSET S, NEW x \in S, T \in G, x \notin T PROVE T \cup {x} \in G
  <2>1. IsFiniteSet(T) /\ \A y \in T : f[y] \in Int /\ g[y] \in Int
    BY FS_Subset
  <2>2. /\ Sum(f, T) \in Int /\ Sum(f, T \cup {x}) = Sum(f, T) + f[x]
        /\ Sum(g, T) \in Int /\ Sum(g, T \cup {x}) = Sum(g, T) + g[x]
    BY <1>2, <2>1, SumType, SumAdd
  <2> QED
    BY <1>2, <2>2
<1>3. S \in G
  <2> HIDE DEF G
  <2> QED
    BY <1>1, <1>2, SetInduct
<1> QED
  BY <1>3

LEMMA SumSame ==
    ASSUME NEW S, IsFiniteSet(S), NEW f, NEW g, \A x \in S : f[x] \in Int /\ f[x] = g[x]
    PROVE  Sum(f, S) = Sum(g, S)
<1>1. \A x \in S : f[x] \in Int /\ g[x] \in Int /\ f[x] <= g[x] /\ g[x] <= f[x]
  OBVIOUS
<1>2. Sum(f, S) \in Int /\ Sum(g, S) \in Int
  BY <1>1, SumType
<1>3. Sum(f, S) <= Sum(g, S) /\ Sum(g, S) <= Sum(f, S)
  BY <1>1, SumMonotone
<1> QED
  BY <1>2, <1>3

(* When one value changes, the sum changes by as much. *)
LEMMA SumChange ==
    ASSUME NEW S, IsFiniteSet(S), NEW f, NEW g, NEW x \in S,
           \A y \in S : f[y] \in Int /\ g[y] \in Int,
           \A y \in S \ {x} : g[y] = f[y]
    PROVE  Sum(g, S) = Sum(f, S) - f[x] + g[x]
<1>1. IsFiniteSet(S \ {x})
  BY FS_RemoveElement
<1>2. Sum(f, S \ {x}) = Sum(g, S \ {x}) /\ Sum(f, S \ {x}) \in Int
  BY <1>1, SumSame, SumType
<1>3. Sum(f, S) = Sum(f, S \ {x}) + f[x] /\ Sum(g, S) = Sum(g, S \ {x}) + g[x]
  BY SumRemove
<1> QED
  BY <1>2, <1>3

LEMMA SumZero ==
    ASSUME NEW S, IsFiniteSet(S), NEW f, \A x \in S : f[x] = 0
    PROVE  Sum(f, S) = 0
<1> DEFINE G == {T \in SUBSET S : Sum(f, T) = 0}
<1>1. {} \in G
  BY SumEmpty
<1>2. ASSUME NEW T \in SUBSET S, NEW x \in S, T \in G, x \notin T PROVE T \cup {x} \in G
  <2>1. IsFiniteSet(T) /\ \A y \in T : f[y] \in Int
    BY FS_Subset
  <2>2. f[x] = 0 /\ f[x] \in Int
    OBVIOUS
  <2>3. Sum(f, T \cup {x}) = Sum(f, T) + f[x]
    BY <1>2, <2>1, <2>2, SumAdd
  <2> QED
    BY <1>2, <2>2, <2>3
<1>3. S \in G
  <2> HIDE DEF G
  <2> QED
    BY <1>1, <1>2, SetInduct
<1> QED
  BY <1>3

LEMMA SumConstant ==
    ASSUME NEW S, IsFiniteSet(S), NEW k \in Int, NEW f, \A x \in S : f[x] = k
    PROVE  Sum(f, S) = Cardinality(S) * k
<1> DEFINE G == {T \in SUBSET S : Sum(f, T) = Cardinality(T) * k}
<1>1. {} \in G
  BY SumEmpty, FS_EmptySet
<1>2. ASSUME NEW T \in SUBSET S, NEW x \in S, T \in G, x \notin T PROVE T \cup {x} \in G
  <2>1. IsFiniteSet(T)
    BY FS_Subset
  <2>2. f[x] = k /\ f[x] \in Int /\ \A y \in T : f[y] \in Int
    OBVIOUS
  <2>3. Sum(f, T \cup {x}) = Sum(f, T) + k
    BY <1>2, <2>1, <2>2, SumAdd
  <2>4. Cardinality(T \cup {x}) = Cardinality(T) + 1 /\ Cardinality(T) \in Nat
    BY <1>2, <2>1, FS_AddElement, FS_CardinalityType
  <2>5. Sum(f, T) = Cardinality(T) * k
    BY <1>2
  <2> PICK n : n = Cardinality(T)
    OBVIOUS
  <2>6. (n + 1) * k = n * k + k
    BY <2>4
  <2> QED
    BY <2>3, <2>4, <2>5, <2>6
<1>3. S \in G
  BY <1>1, <1>2, SetInduct
<1> QED
  BY <1>3

LEMMA SumNat ==
    ASSUME NEW S, IsFiniteSet(S), NEW f, \A x \in S : f[x] \in Nat
    PROVE  Sum(f, S) \in Nat
<1> DEFINE z == [x \in S |-> 0]
<1>1. Sum(z, S) = 0
  BY SumZero
<1>2. Sum(z, S) <= Sum(f, S)
  <2>1. \A x \in S : z[x] \in Int /\ f[x] \in Int /\ z[x] <= f[x]
    OBVIOUS
  <2> HIDE DEF z
  <2> QED
    BY <2>1, SumMonotone
<1>3. Sum(f, S) \in Int
  BY SumType
<1> QED
  BY <1>1, <1>2, <1>3

(* A sum over part of a set is one over all of it, with zero elsewhere. *)
LEMMA SumFilter ==
    ASSUME NEW S, IsFiniteSet(S), NEW T \in SUBSET S, NEW f, NEW g, \A x \in T : f[x] \in Int,
           \A x \in S : g[x] = IF x \in T THEN f[x] ELSE 0
    PROVE  Sum(f, T) = Sum(g, S)
<1> DEFINE G == {s \in SUBSET S : Sum(f, s \cap T) = Sum(g, s)}
<1>1. {} \in G
  <2>1. {} \cap T = {}
    OBVIOUS
  <2> QED
    BY <2>1, SumEmpty
<1>2. ASSUME NEW s \in SUBSET S, NEW x \in S, s \in G, x \notin s PROVE s \cup {x} \in G
  <2>1. IsFiniteSet(s) /\ IsFiniteSet(s \cap T)
    BY FS_Subset
  <2>2. \A y \in S : g[y] \in Int
    OBVIOUS
  <2>3. Sum(g, s) \in Int /\ Sum(g, s \cup {x}) = Sum(g, s) + g[x]
    BY <1>2, <2>1, <2>2, SumAdd, SumType
  <2>4. CASE x \in T
    <3>1. (s \cup {x}) \cap T = (s \cap T) \cup {x} /\ x \notin s \cap T
      BY <1>2, <2>4
    <3>2. \A y \in s \cap T : f[y] \in Int
      OBVIOUS
    <3>3. f[x] \in Int /\ g[x] = f[x]
      BY <2>4
    <3>4. Sum(f, (s \cap T) \cup {x}) = Sum(f, s \cap T) + f[x]
      BY <2>1, <3>1, <3>2, <3>3, SumAdd
    <3> QED
      BY <1>2, <2>3, <3>1, <3>3, <3>4
  <2>5. CASE x \notin T
    <3>1. (s \cup {x}) \cap T = s \cap T
      BY <2>5
    <3>2. g[x] = 0
      BY <2>5
    <3>3. Sum(g, s \cup {x}) = Sum(g, s)
      BY <2>3, <3>2
    <3> QED
      BY <1>2, <3>1, <3>3
  <2> QED
    BY <2>4, <2>5
<1>3. S \in G
  <2> HIDE DEF G
  <2> QED
    BY <1>1, <1>2, SetInduct
<1>4. S \cap T = T
  OBVIOUS
<1> QED
  BY <1>3, <1>4

(* When every other value falls, the sum grows by at most the change at x. *)
LEMMA SumBound ==
    ASSUME NEW S, IsFiniteSet(S), NEW f, NEW g, NEW x \in S,
           \A y \in S : f[y] \in Int /\ g[y] \in Int,
           \A y \in S \ {x} : g[y] <= f[y]
    PROVE  Sum(g, S) - g[x] <= Sum(f, S) - f[x]
<1>1. IsFiniteSet(S \ {x})
  BY FS_RemoveElement
<1>2. /\ Sum(g, S \ {x}) <= Sum(f, S \ {x})
      /\ Sum(f, S \ {x}) \in Int /\ Sum(g, S \ {x}) \in Int
  BY <1>1, SumMonotone, SumType
<1>3. Sum(f, S) = Sum(f, S \ {x}) + f[x] /\ Sum(g, S) = Sum(g, S \ {x}) + g[x]
  BY SumRemove
<1> QED
  BY <1>2, <1>3

-----------------------------------------------------------------------------
(* Totals *)

LEMMA TotalType ==
    ASSUME NEW S, IsFiniteSet(S), NEW f \in [S -> Nat]
    PROVE  Total(f) \in Nat
BY SumNat DEF Total

LEMMA TotalChange ==
    ASSUME NEW S, IsFiniteSet(S), NEW f \in [S -> Nat], NEW g \in [S -> Nat], NEW x \in S,
           \A y \in S \ {x} : g[y] = f[y]
    PROVE  Total(g) = Total(f) - f[x] + g[x]
BY SumChange DEF Total

LEMMA TotalMonotone ==
    ASSUME NEW S, IsFiniteSet(S), NEW f \in [S -> Nat], NEW g \in [S -> Nat],
           \A y \in S : f[y] <= g[y]
    PROVE  Total(f) <= Total(g)
BY SumMonotone DEF Total

LEMMA TotalZero ==
    ASSUME NEW S, IsFiniteSet(S), NEW f \in [S -> Nat], \A y \in S : f[y] = 0
    PROVE  Total(f) = 0
BY SumZero DEF Total

-----------------------------------------------------------------------------
(* The elements of a sequence that is cut or continued. *)

LEMMA HeadElement ==
    ASSUME NEW T, NEW s \in Seq(T), s # <<>>
    PROVE  /\ Head(s) \in T /\ Head(s) = s[1] /\ 1 \in DOMAIN s /\ Tail(s) \in Seq(T)
           /\ \A i \in DOMAIN Tail(s) : i + 1 \in DOMAIN s /\ Tail(s)[i] = s[i + 1]
OBVIOUS

LEMMA AppendElement ==
    ASSUME NEW T, NEW s \in Seq(T), NEW e \in T
    PROVE  /\ Append(s, e) \in Seq(T) /\ Append(s, e) # <<>>
           /\ \A i \in DOMAIN Append(s, e) :
                 (i \in DOMAIN s /\ Append(s, e)[i] = s[i]) \/ Append(s, e)[i] = e
OBVIOUS

LEMMA SuffixElement ==
    ASSUME NEW T, NEW s \in Seq(T), NEW k \in 0 .. Len(s)
    PROVE  /\ SubSeq(s, k + 1, Len(s)) \in Seq(T)
           /\ \A i \in DOMAIN SubSeq(s, k + 1, Len(s)) :
                 k + i \in DOMAIN s /\ SubSeq(s, k + 1, Len(s))[i] = s[k + i]
<1>1. Len(s) \in Nat /\ DOMAIN s = 1 .. Len(s)
  OBVIOUS
<1>2. k + 1 \in 1 .. Len(s) + 1
  BY <1>1
<1>3. \A j \in k + 1 .. Len(s) : s[j] \in T
  BY <1>1
<1> DEFINE t == SubSeq(s, k + 1, Len(s))
<1>4. t \in Seq(T) /\ Len(t) = Len(s) - k /\ \A i \in 1 .. Len(t) : t[i] = s[k + i]
  <2>1. t = [i \in 1 .. Len(s) - k |-> s[k + i]]
    <3>1. t = [i \in 1 .. (1 + Len(s)) - (k + 1) |-> s[(i + (k + 1)) - 1]]
      BY <1>1, SMT
    <3> QED
      BY <1>1, <3>1
  <2>2. Len(s) - k \in Nat /\ \A i \in 1 .. Len(s) - k : s[k + i] \in T
    BY <1>1, <1>3
  <2> QED
    BY <2>1, <2>2
<1>5. DOMAIN t = 1 .. Len(t)
  BY <1>4
<1> HIDE DEF t
<1>6. \A i \in DOMAIN t : k + i \in DOMAIN s /\ t[i] = s[k + i]
  BY <1>1, <1>4, <1>5
<1> QED
  BY <1>4, <1>6 DEF t

LEMMA JoinElement ==
    ASSUME NEW T, NEW s \in Seq(T), NEW t \in Seq(T)
    PROVE  /\ s \o t \in Seq(T)
           /\ \A i \in DOMAIN (s \o t) :
                 \/ i \in DOMAIN s /\ (s \o t)[i] = s[i]
                 \/ i - Len(s) \in DOMAIN t /\ (s \o t)[i] = t[i - Len(s)]
OBVIOUS
=============================================================================
