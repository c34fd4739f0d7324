-------------------------------- MODULE Sums --------------------------------
(***************************************************************************)
(* Sums over finite sets: what the SumFunctionOnSet of the community        *)
(* modules computes, for every finite set and every function to Nat.        *)
(*                                                                         *)
(* The provers cannot instantiate an induction theorem that takes an        *)
(* operator, so each induction is a minimal counterexample: a set of bad    *)
(* numbers, or of bad subsets, would have a minimal element.                *)
(***************************************************************************)
EXTENDS Integers, Functions, FiniteSetTheorems, TLAPS

(* Every set of natural numbers that is not empty has a least element. *)
LEMMA LeastNumber ==
    ASSUME NEW T \in SUBSET Nat, T # {}
    PROVE  \E n \in T : \A m \in T : n <= m
<1>1. PICK n \in T : \A m \in T : ~(<<m, n>> \in OpToRel(<, Nat))
  BY NatLessThanWellFounded, WFMin, Zenon
<1>2. \A m \in T : ~(m < n)
  BY <1>1, Zenon DEF OpToRel
<1> QED BY <1>2

(* Every set of subsets of a finite set that is not empty has a minimal one. *)
LEMMA MinimalSubset ==
    ASSUME NEW S, IsFiniteSet(S), NEW T \in SUBSET (SUBSET S), T # {}
    PROVE  \E s \in T : \A t \in T : t \subseteq s => t = s
<1>1. T \subseteq FiniteSubsetsOf(S)
  BY FS_FiniteSubsetsOfFinite
<1>2. PICK s \in T : \A t \in T : ~(<<t, s>> \in StrictSubsetOrdering(S))
  BY <1>1, FS_StrictSubsetOrderingWellFounded, WFMin, Zenon
<1> QED BY <1>2, Zenon DEF StrictSubsetOrdering

-----------------------------------------------------------------------------
(* The recursion                                                           *)

Chosen(s) == CHOOSE x \in s : TRUE

Unfolded(g, w, s) == IF s = {} THEN 0 ELSE w[Chosen(s)] + g[s \ {Chosen(s)}]

Unfolds(g, w, D) == g = [s \in D |-> Unfolded(g, w, s)]

Iter(w, S) == CHOOSE g : Unfolds(g, w, SUBSET S)

(* The definition of SumFunctionOnSet, with its recursive function named. *)
LEMMA SumIsIter ==
    ASSUME NEW w, NEW S
    PROVE  SumFunctionOnSet(w, S) = Iter(w, S)[S]
  BY DEF SumFunctionOnSet, FoldFunctionOnSet, MapThenFoldSet, Iter, Unfolds, Unfolded, Chosen

(* The chosen element is one of the set. *)
LEMMA ChosenIsIn == \A s : s # {} => Chosen(s) \in s
  BY Zenon DEF Chosen

UpTo(S, n) == {s \in SUBSET S : Cardinality(s) <= n}

(* The recursive function exists: it can be extended from the subsets with    *)
(* at most n elements to those with one more.                                *)
LEMMA IterExists ==
    ASSUME NEW w, NEW S, IsFiniteSet(S)
    PROVE  \E g : Unfolds(g, w, SUBSET S)
<1> DEFINE bad == {n \in Nat : ~\E g : Unfolds(g, w, UpTo(S, n))}
<1>1. bad = {}
  <2> SUFFICES ASSUME bad # {} PROVE FALSE
    OBVIOUS
  <2>1. PICK n \in bad : \A m \in bad : n <= m
    BY LeastNumber, Zenon
  <2>2. CASE n = 0
    <3> DEFINE g == [s \in UpTo(S, 0) |-> 0]
    <3>1. \A s \in UpTo(S, 0) : s = {}
      BY FS_Subset, FS_EmptySet, FS_CardinalityType DEF UpTo
    <3>2. Unfolds(g, w, UpTo(S, 0))
      BY <3>1 DEF Unfolds, Unfolded
    <3> QED BY <2>2, <3>2
  <2>3. CASE n # 0
    <3>1. n - 1 \in Nat /\ n - 1 \notin bad
      BY <2>1, <2>3
    <3>2. PICK g : Unfolds(g, w, UpTo(S, n - 1))
      BY <3>1
    <3> DEFINE h == [s \in UpTo(S, n) |-> Unfolded(g, w, s)]
    <3>3. ASSUME NEW s \in UpTo(S, n), s # {}
          PROVE  s \ {Chosen(s)} \in UpTo(S, n - 1)
      <4>1. IsFiniteSet(s) /\ Chosen(s) \in s
        BY <3>3, FS_Subset, ChosenIsIn DEF UpTo
      <4>2. Cardinality(s \ {Chosen(s)}) = Cardinality(s) - 1 /\ Cardinality(s) \in Nat
        BY <4>1, FS_RemoveElement, FS_CardinalityType
      <4> QED BY <4>2, <3>1 DEF UpTo
    <3>4. \A s \in UpTo(S, n - 1) : s \in UpTo(S, n) /\ h[s] = g[s]
      <4>1. \A s \in UpTo(S, n - 1) : s \in UpTo(S, n)
        BY <3>1, FS_Subset, FS_CardinalityType DEF UpTo
      <4> QED BY <4>1, <3>2 DEF Unfolds
    <3> HIDE DEF h
    <3>5. \A s \in UpTo(S, n) : Unfolded(h, w, s) = Unfolded(g, w, s)
      BY <3>3, <3>4 DEF Unfolded
    <3>6. Unfolds(h, w, UpTo(S, n))
      BY <3>5 DEF Unfolds, h
    <3> QED BY <2>1, <3>6
  <2> QED BY <2>2, <2>3
<1>2. Cardinality(S) \in Nat /\ UpTo(S, Cardinality(S)) = SUBSET S
  BY FS_CardinalityType, FS_Subset DEF UpTo
<1>3. Cardinality(S) \notin bad
  BY <1>1, Zenon
<1> QED BY <1>2, <1>3, Zenon

(* So the function that SumFunctionOnSet chooses unfolds. *)
LEMMA IterUnfolds ==
    ASSUME NEW w, NEW S, IsFiniteSet(S)
    PROVE  Unfolds(Iter(w, S), w, SUBSET S)
  BY IterExists, Zenon DEF Iter

(* Two such functions agree on a set when the functions they sum do. *)
LEMMA IterAgrees ==
    ASSUME NEW S, IsFiniteSet(S), NEW T \in SUBSET S, NEW v, NEW w,
           \A x \in T : v[x] = w[x]
    PROVE  Iter(v, S)[T] = Iter(w, T)[T]
<1>0. PICK g, h : /\ g = Iter(v, S) /\ Unfolds(g, v, SUBSET S)
                  /\ h = Iter(w, T) /\ Unfolds(h, w, SUBSET T)
  BY IterUnfolds, FS_Subset
<1> DEFINE bad == {t \in SUBSET T : g[t] # h[t]}
<1> SUFFICES ASSUME bad # {} PROVE FALSE
  BY <1>0
<1>1. IsFiniteSet(T) /\ bad \in SUBSET (SUBSET T)
  BY FS_Subset
<1>2. PICK m \in bad : \A t \in bad : t \subseteq m => t = m
  <2> HIDE DEF bad
  <2> QED BY <1>1, MinimalSubset
<1>3. g[m] = Unfolded(g, v, m) /\ h[m] = Unfolded(h, w, m)
  BY <1>0, <1>2 DEF Unfolds
<1>4. m # {}
  BY <1>2, <1>3 DEF Unfolded
<1>5. Chosen(m) \in m
  BY <1>4, ChosenIsIn
<1>6. g[m \ {Chosen(m)}] = h[m \ {Chosen(m)}]
  BY <1>2, <1>5
<1> QED BY <1>2, <1>3, <1>4, <1>5, <1>6 DEF Unfolded

-----------------------------------------------------------------------------
(* The sum                                                                 *)

(* A sum depends on the function only at the elements summed. *)
LEMMA SumAgrees ==
    ASSUME NEW S, IsFiniteSet(S), NEW v, NEW w, \A x \in S : v[x] = w[x]
    PROVE  SumFunctionOnSet(v, S) = SumFunctionOnSet(w, S)
<1>1. S \in SUBSET S
  OBVIOUS
<1>2. Iter(v, S)[S] = Iter(w, S)[S]
  BY <1>1, IterAgrees
<1> QED BY <1>2, SumIsIter

(* The sum over no element is zero. *)
LEMMA SumEmpty ==
    ASSUME NEW w
    PROVE  SumFunctionOnSet(w, {}) = 0
<1>1. IsFiniteSet({})
  BY FS_EmptySet
<1>2. Unfolds(Iter(w, {}), w, SUBSET {})
  BY <1>1, IterUnfolds
<1>3. Iter(w, {})[{}] = 0
  BY <1>2, Zenon DEF Unfolds, Unfolded
<1> QED BY <1>3, SumIsIter

(* The sum takes out the chosen element first. *)
LEMMA SumChosen ==
    ASSUME NEW S, IsFiniteSet(S), S # {}, NEW w
    PROVE  SumFunctionOnSet(w, S) = w[Chosen(S)] + SumFunctionOnSet(w, S \ {Chosen(S)})
<1> DEFINE T == S \ {Chosen(S)}
<1>1. IsFiniteSet(T) /\ T \in SUBSET S
  BY FS_Subset
<1>2. Unfolds(Iter(w, S), w, SUBSET S) /\ Unfolds(Iter(w, T), w, SUBSET T)
  BY <1>1, IterUnfolds
<1>3. Iter(w, S)[S] = w[Chosen(S)] + Iter(w, S)[T]
  BY <1>2, Zenon DEF Unfolds, Unfolded
<1>4. Iter(w, S)[T] = Iter(w, T)[T]
  <2> HIDE DEF T
  <2> QED BY <1>1, IterAgrees
<1> QED BY <1>3, <1>4, SumIsIter

(* A sum of natural numbers is one. *)
LEMMA SumNat ==
    ASSUME NEW S, IsFiniteSet(S), NEW w, \A x \in S : w[x] \in Nat
    PROVE  SumFunctionOnSet(w, S) \in Nat
<1> DEFINE bad == {t \in SUBSET S : SumFunctionOnSet(w, t) \notin Nat}
<1> SUFFICES ASSUME bad # {} PROVE FALSE
  OBVIOUS
<1>1. bad \in SUBSET (SUBSET S)
  OBVIOUS
<1>2. PICK m \in bad : \A t \in bad : t \subseteq m => t = m
  <2> HIDE DEF bad
  <2> QED BY <1>1, MinimalSubset
<1>3. m # {} /\ IsFiniteSet(m)
  <2>1. SumFunctionOnSet(w, {}) = 0
    BY SumEmpty
  <2>2. m # {}
    <3>1. SumFunctionOnSet(w, m) \notin Nat /\ 0 \in Nat
      BY <1>2
    <3> QED BY <2>1, <3>1, Zenon
  <2> QED BY <2>2, <1>2, FS_Subset
<1>4. Chosen(m) \in m
  BY <1>3, ChosenIsIn
<1>5. SumFunctionOnSet(w, m \ {Chosen(m)}) \in Nat
  BY <1>2, <1>4
<1>6. SumFunctionOnSet(w, m) = w[Chosen(m)] + SumFunctionOnSet(w, m \ {Chosen(m)})
  BY <1>3, SumChosen
<1> QED BY <1>2, <1>4, <1>5, <1>6

(* A sum can take out any of its elements first. *)
LEMMA SumRemove ==
    ASSUME NEW S, IsFiniteSet(S), NEW w, \A x \in S : w[x] \in Nat, NEW y \in S
    PROVE  SumFunctionOnSet(w, S) = w[y] + SumFunctionOnSet(w, S \ {y})
<1> DEFINE bad == {t \in SUBSET S :
                      \E x \in t : SumFunctionOnSet(w, t) # w[x] + SumFunctionOnSet(w, t \ {x})}
<1> SUFFICES ASSUME bad # {} PROVE FALSE
  BY Zenon
<1>1. bad \in SUBSET (SUBSET S)
  OBVIOUS
<1>2. PICK m \in bad : \A t \in bad : t \subseteq m => t = m
  <2> HIDE DEF bad
  <2> QED BY <1>1, MinimalSubset
<1>3. PICK x \in m : SumFunctionOnSet(w, m) # w[x] + SumFunctionOnSet(w, m \ {x})
  BY <1>2
<1> DEFINE c == Chosen(m)
<1>4. c \in m /\ IsFiniteSet(m)
  BY <1>2, <1>3, ChosenIsIn, FS_Subset
<1>5. SumFunctionOnSet(w, m) = w[c] + SumFunctionOnSet(w, m \ {c})
  BY <1>3, <1>4, SumChosen, Zenon
<1>6. c # x
  BY <1>3, <1>5
<1> HIDE DEF c
<1>7. SumFunctionOnSet(w, m \ {c}) = w[x] + SumFunctionOnSet(w, (m \ {c}) \ {x})
  <2>1. m \ {c} \in SUBSET S /\ m \ {c} \notin bad /\ x \in m \ {c}
    BY <1>2, <1>4, <1>6, Zenon
  <2> QED BY <2>1, Zenon
<1>8. SumFunctionOnSet(w, m \ {x}) = w[c] + SumFunctionOnSet(w, (m \ {x}) \ {c})
  <2>1. m \ {x} \in SUBSET S /\ m \ {x} \notin bad /\ c \in m \ {x}
    BY <1>2, <1>4, <1>6, Zenon
  <2> QED BY <2>1
<1>9. (m \ {c}) \ {x} = (m \ {x}) \ {c}
  OBVIOUS
<1>10. SumFunctionOnSet(w, (m \ {c}) \ {x}) \in Nat /\ w[x] \in Nat /\ w[c] \in Nat
  <2>1. (m \ {c}) \ {x} \in SUBSET S
    BY <1>2
  <2>2. IsFiniteSet((m \ {c}) \ {x}) /\ \A z \in (m \ {c}) \ {x} : w[z] \in Nat
    BY <2>1, FS_Subset
  <2> QED BY <2>2, SumNat, <1>2, <1>3, <1>4
<1> QED BY <1>3, <1>5, <1>7, <1>8, <1>9, <1>10

(* An element that was not summed adds its value. *)
LEMMA SumAdd ==
    ASSUME NEW S, IsFiniteSet(S), NEW y, y \notin S, NEW w, \A x \in S \cup {y} : w[x] \in Nat
    PROVE  SumFunctionOnSet(w, S \cup {y}) = w[y] + SumFunctionOnSet(w, S)
<1>1. IsFiniteSet(S \cup {y}) /\ (S \cup {y}) \ {y} = S
  BY FS_AddElement
<1> QED BY <1>1, SumRemove

(* The sum over one element is its value. *)
LEMMA SumSingleton ==
    ASSUME NEW y, NEW w, w[y] \in Nat
    PROVE  SumFunctionOnSet(w, {y}) = w[y]
<1>1. IsFiniteSet({}) /\ {} \cup {y} = {y} /\ SumFunctionOnSet(w, {}) = 0
  BY FS_EmptySet, SumEmpty
<1>2. SumFunctionOnSet(w, {} \cup {y}) = w[y] + SumFunctionOnSet(w, {})
  BY <1>1, SumAdd, Zenon
<1> QED BY <1>1, <1>2

(* The sum of two functions is the sum of their sums. *)
LEMMA SumPlus ==
    ASSUME NEW S, IsFiniteSet(S), NEW f, NEW g, NEW h,
           \A x \in S : f[x] \in Nat /\ g[x] \in Nat /\ h[x] = f[x] + g[x]
    PROVE  SumFunctionOnSet(h, S) = SumFunctionOnSet(f, S) + SumFunctionOnSet(g, S)
<1> DEFINE bad == {t \in SUBSET S :
                SumFunctionOnSet(h, t) # SumFunctionOnSet(f, t) + SumFunctionOnSet(g, t)}
<1> SUFFICES ASSUME bad # {} PROVE FALSE
  OBVIOUS
<1>1. bad \in SUBSET (SUBSET S)
  OBVIOUS
<1>2. PICK m \in bad : \A t \in bad : t \subseteq m => t = m
  <2> HIDE DEF bad
  <2> QED BY <1>1, MinimalSubset
<1>3. m \in SUBSET S /\ IsFiniteSet(m)
  BY <1>1, <1>2, FS_Subset
<1>4. m # {}
  <2>1. SumFunctionOnSet(f, {}) = 0 /\ SumFunctionOnSet(g, {}) = 0 /\ SumFunctionOnSet(h, {}) = 0
    BY SumEmpty
  <2>2. {} \notin bad
    BY <2>1
  <2> QED BY <1>2, <2>2, Zenon
<1> DEFINE y == Chosen(m)
           r == m \ {y}
<1>5. y \in m
  BY <1>4, ChosenIsIn
<1>6. r \in SUBSET S /\ r \notin bad /\ IsFiniteSet(r)
  BY <1>2, <1>3, <1>5, FS_Subset
<1>7. /\ SumFunctionOnSet(f, m) = f[y] + SumFunctionOnSet(f, r)
      /\ SumFunctionOnSet(g, m) = g[y] + SumFunctionOnSet(g, r)
      /\ SumFunctionOnSet(h, m) = h[y] + SumFunctionOnSet(h, r)
  BY <1>3, <1>4, SumChosen, Zenon
<1> HIDE DEF y, r
<1>8. SumFunctionOnSet(h, r) = SumFunctionOnSet(f, r) + SumFunctionOnSet(g, r)
  BY <1>6
<1>9. SumFunctionOnSet(f, r) \in Nat /\ SumFunctionOnSet(g, r) \in Nat
  BY <1>6, SumNat
<1>10. f[y] \in Nat /\ g[y] \in Nat /\ h[y] = f[y] + g[y]
  BY <1>3, <1>5
<1>11. m \notin bad
  BY <1>7, <1>8, <1>9, <1>10
<1> QED BY <1>2, <1>11

(* Elements whose value is zero can be left out. *)
LEMMA SumOfPart ==
    ASSUME NEW S, IsFiniteSet(S), NEW T \in SUBSET S, NEW w,
           \A x \in S : w[x] \in Nat, \A x \in S \ T : w[x] = 0
    PROVE  SumFunctionOnSet(w, S) = SumFunctionOnSet(w, T)
<1> DEFINE bad == {t \in SUBSET S :
                T \subseteq t /\ SumFunctionOnSet(w, t) # SumFunctionOnSet(w, T)}
<1> SUFFICES ASSUME bad # {} PROVE FALSE
  OBVIOUS
<1>1. bad \in SUBSET (SUBSET S)
  OBVIOUS
<1>2. PICK m \in bad : \A t \in bad : t \subseteq m => t = m
  <2> HIDE DEF bad
  <2> QED BY <1>1, MinimalSubset
<1>3. m \in SUBSET S /\ IsFiniteSet(m) /\ T \subseteq m
  BY <1>1, <1>2, FS_Subset
<1>4. PICK y \in m : y \notin T
  <2>1. m # T
    BY <1>2, Zenon
  <2> HIDE DEF bad
  <2> QED BY <1>3, <2>1
<1>5. m \ {y} \in SUBSET S /\ m \ {y} \notin bad /\ T \subseteq m \ {y}
  BY <1>2, <1>3, <1>4
<1>6. SumFunctionOnSet(w, m \ {y}) = SumFunctionOnSet(w, T)
  BY <1>5
<1>7. SumFunctionOnSet(w, m) = w[y] + SumFunctionOnSet(w, m \ {y})
  BY <1>3, SumRemove
<1>8. w[y] = 0 /\ SumFunctionOnSet(w, m \ {y}) \in Nat
  <2>1. IsFiniteSet(m \ {y}) /\ \A x \in m \ {y} : w[x] \in Nat
    BY <1>5, FS_Subset
  <2> QED BY <1>3, <1>4, <2>1, SumNat
<1>9. m \notin bad
  BY <1>6, <1>7, <1>8
<1> QED BY <1>2, <1>9

(* Every element is at most the sum. *)
LEMMA SumTerm ==
    ASSUME NEW S, IsFiniteSet(S), NEW w, \A x \in S : w[x] \in Nat, NEW y \in S
    PROVE  w[y] <= SumFunctionOnSet(w, S)
<1>1. IsFiniteSet(S \ {y}) /\ \A x \in S \ {y} : w[x] \in Nat
  BY FS_Subset
<1>2. SumFunctionOnSet(w, S \ {y}) \in Nat
  BY <1>1, SumNat
<1>3. SumFunctionOnSet(w, S) = w[y] + SumFunctionOnSet(w, S \ {y})
  BY SumRemove
<1> QED BY <1>2, <1>3

(* Equal values add up to their product with the number of elements. *)
LEMMA SumConstant ==
    ASSUME NEW S, IsFiniteSet(S), NEW k \in Nat, NEW w, \A x \in S : w[x] = k
    PROVE  SumFunctionOnSet(w, S) = Cardinality(S) * k
<1> DEFINE bad == {t \in SUBSET S : SumFunctionOnSet(w, t) # Cardinality(t) * k}
<1> SUFFICES ASSUME bad # {} PROVE FALSE
  OBVIOUS
<1>1. bad \in SUBSET (SUBSET S)
  OBVIOUS
<1>2. PICK m \in bad : \A t \in bad : t \subseteq m => t = m
  <2> HIDE DEF bad
  <2> QED BY <1>1, MinimalSubset
<1>3. m \in SUBSET S /\ IsFiniteSet(m)
  BY <1>1, <1>2, FS_Subset
<1>4. m # {}
  <2>1. SumFunctionOnSet(w, {}) = 0 /\ Cardinality({}) = 0
    BY SumEmpty, FS_EmptySet
  <2>2. {} \notin bad
    BY <2>1
  <2> QED BY <1>2, <2>2, Zenon
<1>5. PICK y \in m : TRUE
  BY <1>4
<1> DEFINE r == m \ {y}
<1>6. r \in SUBSET S /\ r \notin bad /\ IsFiniteSet(r)
  BY <1>2, <1>3, <1>5, FS_Subset
<1>7. SumFunctionOnSet(w, m) = w[y] + SumFunctionOnSet(w, r)
  BY <1>3, <1>5, SumRemove
<1>8. Cardinality(r) = Cardinality(m) - 1 /\ Cardinality(m) \in Nat /\ Cardinality(r) \in Nat
  BY <1>3, <1>6, FS_RemoveElement, FS_CardinalityType
<1> HIDE DEF r
<1>9. SumFunctionOnSet(w, r) = Cardinality(r) * k /\ w[y] = k
  BY <1>3, <1>6
<1>10. PICK n \in Nat, c \in Nat : n = Cardinality(r) /\ c = Cardinality(m) /\ c = n + 1
  BY <1>8
<1>11. (n + 1) * k = k + n * k
  OBVIOUS
<1>12. m \notin bad
  BY <1>7, <1>9, <1>10, <1>11, Zenon
<1> QED BY <1>2, <1>12

(* A part of the elements adds up to no more than all. *)
LEMMA SumPart ==
    ASSUME NEW S, IsFiniteSet(S), NEW T \in SUBSET S, NEW w, \A x \in S : w[x] \in Nat
    PROVE  SumFunctionOnSet(w, T) <= SumFunctionOnSet(w, S)
<1> DEFINE f == [x \in S |-> IF x \in T THEN w[x] ELSE 0]
           g == [x \in S |-> IF x \in T THEN 0 ELSE w[x]]
<1>1. /\ \A x \in S : f[x] \in Nat /\ g[x] \in Nat /\ w[x] = f[x] + g[x]
      /\ \A x \in S \ T : f[x] = 0
      /\ \A x \in T : f[x] = w[x]
  OBVIOUS
<1>2. IsFiniteSet(T)
  BY FS_Subset
<1> HIDE DEF f, g
<1>3. SumFunctionOnSet(w, S) = SumFunctionOnSet(f, S) + SumFunctionOnSet(g, S)
  BY <1>1, SumPlus
<1>4. SumFunctionOnSet(f, S) = SumFunctionOnSet(f, T)
  BY <1>1, SumOfPart
<1>5. SumFunctionOnSet(f, T) = SumFunctionOnSet(w, T)
  BY <1>1, <1>2, SumAgrees
<1>6. SumFunctionOnSet(f, S) \in Nat /\ SumFunctionOnSet(g, S) \in Nat
  BY <1>1, SumNat
<1> QED BY <1>3, <1>4, <1>5, <1>6

(* f and g have natural numbers on S and differ at most in y. *)
Change(f, g, S, y) ==
    /\ y \in S
    /\ \A x \in S : f[x] \in Nat /\ g[x] \in Nat
    /\ \A x \in S \ {y} : g[x] = f[x]

(* One value changes. *)
LEMMA SumChange ==
    ASSUME NEW S, IsFiniteSet(S), NEW y, NEW f, NEW g, Change(f, g, S, y)
    PROVE  SumFunctionOnSet(g, S) + f[y] = SumFunctionOnSet(f, S) + g[y]
<1>0. /\ y \in S
      /\ \A x \in S : f[x] \in Nat /\ g[x] \in Nat
      /\ \A x \in S \ {y} : g[x] = f[x]
  BY DEF Change
<1>1. IsFiniteSet(S \ {y}) /\ \A x \in S \ {y} : f[x] \in Nat
  BY <1>0, FS_Subset
<1>2. SumFunctionOnSet(f, S) = f[y] + SumFunctionOnSet(f, S \ {y})
  BY <1>0, SumRemove
<1>3. SumFunctionOnSet(g, S) = g[y] + SumFunctionOnSet(g, S \ {y})
  BY <1>0, SumRemove
<1>4. SumFunctionOnSet(g, S \ {y}) = SumFunctionOnSet(f, S \ {y})
  BY <1>0, <1>1, SumAgrees
<1>5. SumFunctionOnSet(f, S \ {y}) \in Nat
  BY <1>1, SumNat
<1> QED BY <1>0, <1>2, <1>3, <1>4, <1>5

(* g has the values of f one place further up, after a zero. *)
ShiftUp(f, g, n) ==
    /\ \A x \in 0..n : f[x] \in Nat
    /\ g[0] = 0
    /\ \A x \in 1..n : g[x] = f[x - 1]

(* Values that move up by one place. *)
LEMMA SumShift ==
    ASSUME NEW n \in Nat, NEW f, NEW g, ShiftUp(f, g, n)
    PROVE  \A m \in 0..n : SumFunctionOnSet(g, 0..m) = SumFunctionOnSet(f, 0..(m - 1))
<1> USE DEF ShiftUp
<1> DEFINE bad == {m \in Nat : m <= n
                      /\ SumFunctionOnSet(g, 0..m) # SumFunctionOnSet(f, 0..(m - 1))}
<1> SUFFICES ASSUME bad # {} PROVE FALSE
  OBVIOUS
<1>0. bad \in SUBSET Nat
  OBVIOUS
<1>1. PICK m \in bad : \A k \in bad : m <= k
  <2> HIDE DEF bad
  <2> QED BY <1>0, LeastNumber
<1>2. \A x \in 0..n : g[x] \in Nat
  OBVIOUS
<1>3. CASE m = 0
  <2>1. 0..m = {0} /\ 0..(m - 1) = {}
    BY <1>3
  <2>2. SumFunctionOnSet(g, {0}) = 0
    <3>1. g[0] \in Nat
      BY <1>2
    <3>2. SumFunctionOnSet(g, {0}) = g[0]
      BY <3>1, SumSingleton, Zenon
    <3> QED BY <3>2
  <2>3. SumFunctionOnSet(f, {}) = 0
    BY SumEmpty
  <2> QED BY <1>1, <2>1, <2>2, <2>3, Zenon
<1>4. CASE m # 0
  <2>1. /\ m - 1 \in Nat /\ m - 1 \notin bad /\ m - 1 <= n /\ m \in 1..n
        /\ m \notin 0..(m - 1) /\ m - 1 \notin 0..(m - 2)
        /\ (0..(m - 1)) \cup {m} = 0..m
        /\ (0..(m - 2)) \cup {m - 1} = 0..(m - 1)
        /\ m - 2 \in Int /\ m - 1 \in Int
    BY <1>1, <1>4, SMTT(30)
  <2>2. SumFunctionOnSet(g, 0..(m - 1)) = SumFunctionOnSet(f, 0..(m - 2))
    BY <2>1
  <2>3. IsFiniteSet(0..(m - 1)) /\ IsFiniteSet(0..(m - 2))
    BY <2>1, FS_Interval
  <2>4. SumFunctionOnSet(g, (0..(m - 1)) \cup {m}) = g[m] + SumFunctionOnSet(g, 0..(m - 1))
    <3>1. \A x \in (0..(m - 1)) \cup {m} : g[x] \in Nat
      BY <1>2, <2>1
    <3> QED BY <2>1, <2>3, <3>1, SumAdd, Zenon
  <2>5. SumFunctionOnSet(f, (0..(m - 2)) \cup {m - 1})
          = f[m - 1] + SumFunctionOnSet(f, 0..(m - 2))
    <3>1. \A x \in (0..(m - 2)) \cup {m - 1} : f[x] \in Nat
      BY <2>1
    <3> QED BY <2>1, <2>3, <3>1, SumAdd, Zenon
  <2>6. g[m] = f[m - 1]
    BY <2>1
  <2>7. SumFunctionOnSet(g, 0..m) = SumFunctionOnSet(f, 0..(m - 1))
    BY <2>1, <2>2, <2>4, <2>5, <2>6, Zenon
  <2> QED BY <1>1, <2>7
<1> QED BY <1>3, <1>4
=============================================================================
