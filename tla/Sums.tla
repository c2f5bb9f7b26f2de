-------------------------------- MODULE Sums --------------------------------
(***************************************************************************)
(* Sums of the values of a function over a finite set, as the models write *)
(* them with MapThenSumSet: the sum exists, does not depend on the order   *)
(* in which the elements are chosen, and changes with one value or one     *)
(* element as a sum does.  The proofs go by the least size of a set for    *)
(* which the fact could fail.                                              *)
(***************************************************************************)
EXTENDS Integers, FiniteSets, FiniteSetsExt, FiniteSetTheorems, WellFoundedInduction, TLAPS

SumOver(f, S) == MapThenSumSet(LAMBDA x : f[x], S)

\* The recursion behind it: g sums f over each subset of S.
Some(s)       == CHOOSE x \in s : TRUE
Sums(g, f, S) ==
  g = [s \in SUBSET S |-> IF s = {} THEN 0 ELSE f[Some(s)] + g[s \ {Some(s)}]]
TheSums(f, S) == CHOOSE g : Sums(g, f, S)

LEMMA SumIsChosen ==
  ASSUME NEW f, NEW S
  PROVE  SumOver(f, S) = TheSums(f, S)[S]
BY DEF SumOver, MapThenSumSet, MapThenFoldSet, TheSums, Sums, Some

\* Of any finite sets one is smallest: none of the others is a proper part of it.
LEMMA SmallestExists ==
  ASSUME NEW F, F # {}, \A s \in F : IsFiniteSet(s)
  PROVE  \E s \in F : \A t \in F : t \subseteq s => t = s
<1> DEFINE R == {ss \in Nat \X Nat : ss[1] < ss[2]}
           N == {Cardinality(s) : s \in F}
<1>1. IsWellFoundedOn(R, Nat)
  BY NatLessThanWellFounded DEF OpToRel
<1>2. N \in SUBSET Nat /\ N # {}
  BY FS_CardinalityType
<1> HIDE DEF R
<1>3. PICK n \in N : \A m \in N : ~(<<m, n>> \in R)
  BY <1>1, <1>2, WFMin
<1>4. PICK s \in F : n = Cardinality(s)
  OBVIOUS
<1>5. ASSUME NEW t \in F, t \subseteq s, t # s PROVE FALSE
  <2>1. Cardinality(t) < Cardinality(s)
    BY <1>5, FS_Subset, FS_CardinalityType
  <2>2. Cardinality(t) \in N /\ Cardinality(s) \in N
    OBVIOUS
  <2> QED
    BY <1>2, <1>3, <1>4, <2>1, <2>2 DEF R
<1> QED
  BY <1>5

\* Two functions that sum f agree on every set that both know.
LEMMA SumsAgree ==
  ASSUME NEW f, NEW A, NEW B, NEW g, NEW h, Sums(g, f, A), Sums(h, f, B), IsFiniteSet(A),
         NEW u, u \subseteq A, u \subseteq B
  PROVE  g[u] = h[u]
<1> DEFINE Bad == {s \in SUBSET A : s \subseteq B /\ g[s] # h[s]}
<1> SUFFICES ASSUME Bad # {} PROVE FALSE
  OBVIOUS
<1>1. \A s \in Bad : IsFiniteSet(s)
  BY FS_Subset
<1> HIDE DEF Bad
<1>2. PICK s \in Bad : \A t \in Bad : t \subseteq s => t = s
  BY <1>1, SmallestExists
<1>3. s \subseteq A /\ s \subseteq B /\ g[s] # h[s]
  BY <1>2 DEF Bad
<1>4. s # {}
  BY <1>3 DEF Sums
<1>5. Some(s) \in s
  BY <1>4 DEF Some
<1>6. s \ {Some(s)} \notin Bad
  BY <1>2, <1>5
<1>7. g[s \ {Some(s)}] = h[s \ {Some(s)}]
  BY <1>3, <1>6 DEF Bad
<1>8. g[s] = f[Some(s)] + g[s \ {Some(s)}]
  BY <1>3, <1>4 DEF Sums
<1>9. h[s] = f[Some(s)] + h[s \ {Some(s)}]
  BY <1>3, <1>4 DEF Sums
<1> QED
  BY <1>3, <1>7, <1>8, <1>9

\* There is a function that sums f over the subsets of S: step by step, from those of
\* the smaller sets.
LEMMA SumsExist ==
  ASSUME NEW f, NEW S, IsFiniteSet(S)
  PROVE  Sums(TheSums(f, S), f, S)
<1> DEFINE Bad == {s \in SUBSET S : ~Sums(TheSums(f, s), f, s)}
<1> SUFFICES ASSUME Bad # {} PROVE FALSE
  OBVIOUS
<1>1. \A s \in Bad : IsFiniteSet(s)
  BY FS_Subset
<1>2. PICK s \in Bad : \A t \in Bad : t \subseteq s => t = s
  <2> HIDE DEF Bad
  <2> QED
    BY <1>1, SmallestExists
<1>3. s \subseteq S /\ IsFiniteSet(s) /\ ~Sums(TheSums(f, s), f, s)
  BY <1>1
<1>4. ASSUME NEW t, t \subseteq s, t # s PROVE Sums(TheSums(f, t), f, t)
  BY <1>2, <1>3, <1>4
<1> HIDE DEF Bad
<1> DEFINE Rest(t)  == t \ {Some(t)}
           Value(t) == IF t = {} THEN 0 ELSE f[Some(t)] + TheSums(f, Rest(t))[Rest(t)]
           g == [t \in SUBSET s |-> Value(t)]
<1>5. ASSUME NEW t \in SUBSET s, t # {}
      PROVE  Rest(t) \subseteq s /\ Rest(t) # s /\ IsFiniteSet(Rest(t))
  <2>1. Some(t) \in t
    BY <1>5 DEF Some
  <2> QED
    BY <1>3, <2>1, FS_Subset
<1>6. ASSUME NEW t \in SUBSET s, t # {}
      PROVE  g[Rest(t)] = TheSums(f, Rest(t))[Rest(t)]
  <2> DEFINE v == Rest(t)
             h == TheSums(f, v)
  <2>1. v \subseteq s /\ v # s /\ IsFiniteSet(v) /\ g[v] = Value(v)
    BY <1>5, <1>6
  <2>2. Sums(h, f, v)
    BY <2>1, <1>4
  <2> HIDE DEF v, h
  <2>3. CASE v = {}
    BY <2>1, <2>2, <2>3 DEF Sums, h, v
  <2>4. CASE v # {}
    <3>1. Rest(v) \subseteq s /\ Rest(v) # s /\ IsFiniteSet(Rest(v)) /\ Rest(v) \subseteq v
      BY <1>5, <2>1, <2>4
    <3>2. Sums(TheSums(f, Rest(v)), f, Rest(v))
      BY <1>4, <3>1
    <3>3. TheSums(f, Rest(v))[Rest(v)] = h[Rest(v)]
      BY <2>2, <3>1, <3>2, SumsAgree
    <3>4. h[v] = f[Some(v)] + h[Rest(v)]
      BY <2>2, <2>4 DEF Sums
    <3> QED
      BY <2>1, <2>4, <3>3, <3>4 DEF h, v
  <2> QED
    BY <2>3, <2>4
<1>7. g = [t \in SUBSET s |-> IF t = {} THEN 0 ELSE f[Some(t)] + g[t \ {Some(t)}]]
  <2>1. ASSUME NEW t \in SUBSET s
        PROVE  Value(t) = IF t = {} THEN 0 ELSE f[Some(t)] + g[t \ {Some(t)}]
    BY <1>6
  <2> HIDE DEF Value
  <2> QED
    BY <2>1
<1>8. Sums(g, f, s)
  BY <1>7 DEF Sums
<1> HIDE DEF g
<1>9. Sums(TheSums(f, s), f, s)
  BY <1>8 DEF TheSums
<1> QED
  BY <1>3, <1>9

\* The sum over no elements, and over some.
LEMMA SumEmpty ==
  ASSUME NEW f
  PROVE  SumOver(f, {}) = 0
<1>1. Sums(TheSums(f, {}), f, {})
  BY SumsExist, FS_EmptySet
<1> QED
  BY <1>1, SumIsChosen DEF Sums

LEMMA SumChosen ==
  ASSUME NEW f, NEW S, IsFiniteSet(S), S # {}
  PROVE  Some(S) \in S /\ SumOver(f, S) = f[Some(S)] + SumOver(f, S \ {Some(S)})
<1> DEFINE x == Some(S)
           T == S \ {x}
<1>1. x \in S
  BY DEF Some
<1>2. IsFiniteSet(T)
  BY FS_Subset
<1>3. Sums(TheSums(f, S), f, S) /\ Sums(TheSums(f, T), f, T)
  BY <1>2, SumsExist
<1>4. TheSums(f, S)[S] = f[x] + TheSums(f, S)[T]
  BY <1>3 DEF Sums
<1>5. TheSums(f, S)[T] = TheSums(f, T)[T]
  <2>1. T \subseteq S
    OBVIOUS
  <2> HIDE DEF T
  <2> QED
    BY <1>3, <2>1, SumsAgree
<1> QED
  BY <1>1, <1>4, <1>5, SumIsChosen

\* A sum of integers is an integer.
LEMMA SumType ==
  ASSUME NEW f, NEW S, IsFiniteSet(S), \A x \in S : f[x] \in Int
  PROVE  SumOver(f, S) \in Int
<1> DEFINE Bad == {s \in SUBSET S : SumOver(f, s) \notin Int}
<1> SUFFICES ASSUME Bad # {} PROVE FALSE
  OBVIOUS
<1>1. \A s \in Bad : IsFiniteSet(s) /\ s \subseteq S /\ SumOver(f, s) \notin Int
  BY FS_Subset
<1>2. \A s \in SUBSET S : s \notin Bad => SumOver(f, s) \in Int
  OBVIOUS
<1> HIDE DEF Bad
<1>3. PICK s \in Bad : \A t \in Bad : t \subseteq s => t = s
  BY <1>1, SmallestExists
<1>4. s # {}
  <2>1. SumOver(f, {}) = 0
    BY SumEmpty
  <2>2. SumOver(f, {}) \in Int
    BY <2>1
  <2>3. SumOver(f, s) \notin Int
    BY <1>1
  <2> QED
    BY <2>2, <2>3
<1>5. Some(s) \in s /\ SumOver(f, s) = f[Some(s)] + SumOver(f, s \ {Some(s)})
  BY <1>1, <1>4, SumChosen
<1>6. SumOver(f, s \ {Some(s)}) \in Int
  BY <1>1, <1>2, <1>3, <1>5
<1> QED
  BY <1>1, <1>5, <1>6

\* It depends on the values at its elements only.
LEMMA SumSame ==
  ASSUME NEW f, NEW h, NEW S, IsFiniteSet(S), \A x \in S : f[x] = h[x]
  PROVE  SumOver(f, S) = SumOver(h, S)
<1> DEFINE Bad == {s \in SUBSET S : SumOver(f, s) # SumOver(h, s)}
<1> SUFFICES ASSUME Bad # {} PROVE FALSE
  OBVIOUS
<1>1. \A s \in Bad : IsFiniteSet(s) /\ s \subseteq S /\ SumOver(f, s) # SumOver(h, s)
  BY FS_Subset
<1>2. \A s \in SUBSET S : s \notin Bad => SumOver(f, s) = SumOver(h, s)
  OBVIOUS
<1> HIDE DEF Bad
<1>3. PICK s \in Bad : \A t \in Bad : t \subseteq s => t = s
  BY <1>1, SmallestExists
<1>4. s # {}
  BY <1>1, SumEmpty
<1>5. /\ Some(s) \in s /\ SumOver(f, s) = f[Some(s)] + SumOver(f, s \ {Some(s)})
      /\ SumOver(h, s) = h[Some(s)] + SumOver(h, s \ {Some(s)})
  BY <1>1, <1>4, SumChosen
<1>6. SumOver(f, s \ {Some(s)}) = SumOver(h, s \ {Some(s)})
  BY <1>1, <1>2, <1>3, <1>5
<1> QED
  BY <1>1, <1>5, <1>6

\* Any element may be summed last.
LEMMA SumSplit ==
  ASSUME NEW f, NEW S, IsFiniteSet(S), \A x \in S : f[x] \in Int, NEW e \in S
  PROVE  SumOver(f, S) = f[e] + SumOver(f, S \ {e})
<1> DEFINE Splits(s) == \A x \in s : SumOver(f, s) = f[x] + SumOver(f, s \ {x})
           Bad == {s \in SUBSET S : ~Splits(s)}
<1> SUFFICES ASSUME Bad # {} PROVE FALSE
  OBVIOUS
<1>1. \A s \in Bad : IsFiniteSet(s) /\ s \subseteq S
  BY FS_Subset
<1>2. \A s \in SUBSET S : s \notin Bad => Splits(s)
  OBVIOUS
<1>3. \A s \in Bad : ~Splits(s)
  OBVIOUS
<1> HIDE DEF Bad
<1>4. PICK s \in Bad : \A t \in Bad : t \subseteq s => t = s
  BY <1>1, SmallestExists
<1>5. PICK x \in s : SumOver(f, s) # f[x] + SumOver(f, s \ {x})
  BY <1>3
<1> DEFINE y == Some(s)
<1>6. y \in s /\ SumOver(f, s) = f[y] + SumOver(f, s \ {y})
  BY <1>1, SumChosen
<1> HIDE DEF y
<1>7. x # y
  BY <1>5, <1>6
<1>8. s \ {x} \notin Bad /\ s \ {y} \notin Bad
  BY <1>4, <1>6
<1>9. /\ SumOver(f, s \ {x}) = f[y] + SumOver(f, (s \ {x}) \ {y})
      /\ SumOver(f, s \ {y}) = f[x] + SumOver(f, (s \ {y}) \ {x})
  BY <1>1, <1>2, <1>6, <1>7, <1>8
<1>10. (s \ {x}) \ {y} = (s \ {y}) \ {x}
  OBVIOUS
<1>11. f[x] \in Int /\ f[y] \in Int /\ SumOver(f, (s \ {x}) \ {y}) \in Int
  <2>1. s \subseteq S
    BY <1>1
  <2>2. IsFiniteSet((s \ {x}) \ {y}) /\ \A z \in (s \ {x}) \ {y} : f[z] \in Int
    BY <2>1, FS_Subset
  <2> QED
    BY <1>6, <2>1, <2>2, SumType
<1> DEFINE rest == SumOver(f, (s \ {x}) \ {y})
<1>12. SumOver(f, s \ {x}) = f[y] + rest /\ SumOver(f, s \ {y}) = f[x] + rest
  BY <1>9, <1>10
<1>13. rest \in Int
  BY <1>11
<1> HIDE DEF rest
<1>14. f[y] + (f[x] + rest) = f[x] + (f[y] + rest)
  BY <1>11, <1>13
<1> QED
  BY <1>5, <1>6, <1>12, <1>14

\* One element more adds its value,
LEMMA SumAdd ==
  ASSUME NEW f, NEW S, IsFiniteSet(S), NEW e, e \notin S, \A x \in S \cup {e} : f[x] \in Int
  PROVE  SumOver(f, S \cup {e}) = f[e] + SumOver(f, S)
<1>1. IsFiniteSet(S \cup {e})
  BY FS_AddElement
<1>2. (S \cup {e}) \ {e} = S
  OBVIOUS
<1> QED
  BY <1>1, <1>2, SumSplit

\* and one value that changes by n changes the sum by n.
LEMMA SumChanges ==
  ASSUME NEW f, NEW h, NEW S, IsFiniteSet(S), NEW e \in S, NEW n \in Int,
         \A x \in S : f[x] \in Int, h[e] = f[e] + n, \A x \in S \ {e} : h[x] = f[x]
  PROVE  SumOver(h, S) = SumOver(f, S) + n
<1>1. IsFiniteSet(S \ {e})
  BY FS_Subset
<1>2. SumOver(f, S) = f[e] + SumOver(f, S \ {e})
  BY SumSplit
<1>3. SumOver(h, S) = h[e] + SumOver(h, S \ {e})
  BY SumSplit
<1>4. SumOver(h, S \ {e}) = SumOver(f, S \ {e})
  BY <1>1, SumSame
<1>5. SumOver(f, S \ {e}) \in Int
  BY <1>1, SumType
<1> QED
  BY <1>2, <1>3, <1>4, <1>5

\* Zeroes add up to zero.
LEMMA SumZero ==
  ASSUME NEW f, NEW S, IsFiniteSet(S), \A x \in S : f[x] = 0
  PROVE  SumOver(f, S) = 0
<1> DEFINE Bad == {s \in SUBSET S : SumOver(f, s) # 0}
<1> SUFFICES ASSUME Bad # {} PROVE FALSE
  OBVIOUS
<1>1. \A s \in Bad : IsFiniteSet(s) /\ s \subseteq S /\ SumOver(f, s) # 0
  BY FS_Subset
<1>2. \A s \in SUBSET S : s \notin Bad => SumOver(f, s) = 0
  OBVIOUS
<1> HIDE DEF Bad
<1>3. PICK s \in Bad : \A t \in Bad : t \subseteq s => t = s
  BY <1>1, SmallestExists
<1>4. s # {}
  BY <1>1, SumEmpty
<1>5. Some(s) \in s /\ SumOver(f, s) = f[Some(s)] + SumOver(f, s \ {Some(s)})
  BY <1>1, <1>4, SumChosen
<1>6. SumOver(f, s \ {Some(s)}) = 0 /\ f[Some(s)] = 0
  BY <1>1, <1>2, <1>3, <1>5
<1> QED
  BY <1>1, <1>5, <1>6
=============================================================================
