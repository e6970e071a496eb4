------------------------------- MODULE SetSums -------------------------------
(***************************************************************************)
(* What MapThenSumSet of the community modules computes, for every finite  *)
(* set: the sum of a function over the set, element by element in any      *)
(* order.  It is defined by a recursive function on the subsets of the     *)
(* set; a claim about all of them is proved here from a counterexample of  *)
(* the least cardinality.                                                  *)
(***************************************************************************)
EXTENDS Integers, FiniteSets, FiniteSetsExt, FiniteSetTheorems, WellFoundedInduction, TLAPS

SumOf(f, S) == MapThenSumSet(LAMBDA x : f[x], S)

\* The element the recursion takes out next.
FirstOf(s) == CHOOSE x \in s : TRUE

\* The equation that defines the recursive function on the sets in D.
Sums(g, f, D) ==
    g = [s \in D |-> IF s = {} THEN 0 ELSE f[FirstOf(s)] + g[s \ {FirstOf(s)}]]

\* The subsets of S with at most n elements.
UpTo(S, n) == {s \in SUBSET S : Cardinality(s) <= n}

-----------------------------------------------------------------------------
(* The recursion                                                           *)

\* A nonempty set of naturals has a least member.
LEMMA LeastNatural ==
    ASSUME NEW N, N \subseteq Nat, N # {}
    PROVE  \E m \in N : \A n \in N : m <= n
<1>1. PICK m \in N : \A n \in N : ~ (<<n, m>> \in OpToRel(<, Nat))
  BY NatLessThanWellFounded, WFMin, Zenon
<1>2. ASSUME NEW n \in N
      PROVE  m <= n
  <2>1. m \in Nat /\ n \in Nat
    OBVIOUS
  <2>2. ~ (n < m)
    BY <1>1, <2>1, Zenon DEF OpToRel
  <2>3. QED  BY <2>1, <2>2
<1>3. QED  BY <1>2

\* Of a set of finite sets that is not empty, one has the fewest elements.
LEMMA LeastSet ==
    ASSUME NEW C, C # {}, \A s \in C : IsFiniteSet(s)
    PROVE  \E s \in C : \A t \in C : Cardinality(s) <= Cardinality(t)
<1> DEFINE N == {Cardinality(s) : s \in C}
<1>1. N \subseteq Nat /\ N # {}
  BY FS_CardinalityType
<1>2. PICK m \in N : \A n \in N : m <= n
  BY <1>1, LeastNatural
<1>3. QED  BY <1>2

\* Taking the next element out of a finite set.
LEMMA Without ==
    ASSUME NEW s, IsFiniteSet(s), s # {}
    PROVE  /\ FirstOf(s) \in s
           /\ IsFiniteSet(s \ {FirstOf(s)})
           /\ Cardinality(s) \in Nat
           /\ Cardinality(s \ {FirstOf(s)}) = Cardinality(s) - 1
<1>1. FirstOf(s) \in s
  BY DEF FirstOf
<1>2. QED  BY <1>1, FS_RemoveElement, FS_CardinalityType

\* The equation has a solution on the subsets of any size.
LEMMA SumsExist ==
    ASSUME NEW f, NEW S, IsFiniteSet(S)
    PROVE  \E g : Sums(g, f, SUBSET S)
<1> DEFINE Bad == {n \in Nat : ~ \E g : Sums(g, f, UpTo(S, n))}
<1>1. \A s \in SUBSET S : IsFiniteSet(s) /\ Cardinality(s) \in Nat
                          /\ Cardinality(s) <= Cardinality(S)
  BY FS_Subset, FS_CardinalityType
<1>2. Bad = {}
  <2> SUFFICES ASSUME Bad # {} PROVE FALSE
    OBVIOUS
  <2>1. PICK m \in Bad : \A n \in Bad : m <= n
    BY LeastNatural
  <2>2. CASE m = 0
    <3> DEFINE g == [s \in UpTo(S, 0) |-> 0]
    <3>1. \A s \in UpTo(S, 0) : s = {}
      BY <1>1, FS_EmptySet DEF UpTo
    <3>2. Sums(g, f, UpTo(S, 0))
      BY <3>1 DEF Sums
    <3>3. QED  BY <2>2, <3>2
  <2>3. CASE m # 0
    <3>1. m \in Nat /\ m - 1 \in Nat /\ m - 1 \notin Bad
      BY <2>1, <2>3
    <3>2. PICK g : Sums(g, f, UpTo(S, m - 1))
      BY <3>1
    <3> DEFINE next(s) == IF s = {} THEN 0 ELSE f[FirstOf(s)] + g[s \ {FirstOf(s)}]
               h == [s \in UpTo(S, m) |-> next(s)]
    <3>3. \A s \in UpTo(S, m - 1) : g[s] = next(s)
      <4>1. g = [s \in UpTo(S, m - 1) |-> next(s)]
        BY <3>2, Zenon DEF Sums
      <4> HIDE DEF next
      <4>2. QED  BY <4>1, Zenon
    <3>4. UpTo(S, m - 1) \subseteq UpTo(S, m)
      BY <1>1, <3>1 DEF UpTo
    <3>5. \A s \in UpTo(S, m - 1) : h[s] = g[s]
      <4> HIDE DEF next
      <4>1. QED  BY <3>3, <3>4
    <3>6. \A s \in UpTo(S, m) : s # {} => s \ {FirstOf(s)} \in UpTo(S, m - 1)
      BY <1>1, <3>1, Without DEF UpTo
    <3>7. \A s \in UpTo(S, m) :
              next(s) = IF s = {} THEN 0 ELSE f[FirstOf(s)] + h[s \ {FirstOf(s)}]
      <4> HIDE DEF h
      <4>1. QED  BY <3>5, <3>6
    <3>8. Sums(h, f, UpTo(S, m))
      <4>1. h = [s \in UpTo(S, m) |-> next(s)]
        OBVIOUS
      <4> HIDE DEF h, next
      <4>2. QED  BY <4>1, <3>7 DEF Sums
    <3>9. QED  BY <3>1, <3>8, <2>1
  <2>4. QED  BY <2>2, <2>3
<1>3. UpTo(S, Cardinality(S)) = SUBSET S
  BY <1>1 DEF UpTo
<1>4. Cardinality(S) \in Nat
  BY FS_CardinalityType
<1>5. \E g : Sums(g, f, UpTo(S, Cardinality(S)))
  BY <1>2, <1>4
<1>6. QED  BY <1>3, <1>5

\* Two solutions agree where both are defined, the domains being closed under
\* taking elements out.
LEMMA SumsAgree ==
    ASSUME NEW f, NEW S, IsFiniteSet(S), NEW T \in SUBSET S, NEW g, NEW h,
           Sums(g, f, SUBSET S), Sums(h, f, SUBSET T)
    PROVE  \A s \in SUBSET T : g[s] = h[s]
<1> DEFINE Bad == {s \in SUBSET T : g[s] # h[s]}
<1>1. \A s \in SUBSET T : s \in SUBSET S /\ IsFiniteSet(s)
  BY FS_Subset
<1>2. ASSUME Bad # {} PROVE FALSE
  <2>1. PICK s \in Bad : \A t \in Bad : Cardinality(s) <= Cardinality(t)
    BY <1>1, <1>2, LeastSet
  <2>2. s # {}
    BY <2>1 DEF Sums
  <2>3. /\ FirstOf(s) \in s /\ Cardinality(s) \in Nat
        /\ Cardinality(s \ {FirstOf(s)}) = Cardinality(s) - 1
    BY <1>1, <2>1, <2>2, Without
  <2>4. s \ {FirstOf(s)} \in SUBSET T /\ s \ {FirstOf(s)} \notin Bad
    BY <2>1, <2>3
  <2>5. g[s \ {FirstOf(s)}] = h[s \ {FirstOf(s)}]
    BY <2>4
  <2>6. g[s] = f[FirstOf(s)] + g[s \ {FirstOf(s)}]
    BY <1>1, <2>1, <2>2 DEF Sums
  <2>7. h[s] = f[FirstOf(s)] + h[s \ {FirstOf(s)}]
    BY <2>1, <2>2 DEF Sums
  <2>8. QED  BY <2>1, <2>5, <2>6, <2>7
<1>3. QED  BY <1>2

\* The sum is the value of any solution.
LEMMA SumIsSolution ==
    ASSUME NEW f, NEW S, IsFiniteSet(S), NEW g, Sums(g, f, SUBSET S)
    PROVE  SumOf(f, S) = g[S]
<1> DEFINE chosen == CHOOSE h : Sums(h, f, SUBSET S)
<1>1. Sums(chosen, f, SUBSET S)
  BY SumsExist, Zenon
<1>2. SumOf(f, S) = chosen[S]
  BY DEF SumOf, MapThenSumSet, MapThenFoldSet, Sums, FirstOf
<1> HIDE DEF chosen
<1>3. chosen[S] = g[S]
  BY <1>1, SumsAgree
<1>4. QED  BY <1>2, <1>3

-----------------------------------------------------------------------------
(* The sum                                                                 *)

\* The empty sum.
LEMMA SumEmpty == ASSUME NEW f PROVE SumOf(f, {}) = 0
<1>1. PICK g : Sums(g, f, SUBSET {})
  BY SumsExist, FS_EmptySet
<1>2. g[{}] = 0
  BY <1>1 DEF Sums
<1>3. QED  BY <1>1, <1>2, SumIsSolution, FS_EmptySet

\* One step of the recursion.
LEMMA SumFirst ==
    ASSUME NEW f, NEW S, IsFiniteSet(S), S # {}
    PROVE  SumOf(f, S) = f[FirstOf(S)] + SumOf(f, S \ {FirstOf(S)})
<1> DEFINE T == S \ {FirstOf(S)}
<1>1. PICK g : Sums(g, f, SUBSET S)
  BY SumsExist
<1>2. T \in SUBSET S /\ IsFiniteSet(T)
  BY Without
<1>3. PICK h : Sums(h, f, SUBSET T)
  BY <1>2, SumsExist
<1>4. SumOf(f, S) = g[S] /\ SumOf(f, T) = h[T]
  BY <1>1, <1>2, <1>3, SumIsSolution
<1> HIDE DEF T
<1>5. g[T] = h[T]
  <2>1. \A s \in SUBSET T : g[s] = h[s]
    BY <1>1, <1>2, <1>3, SumsAgree
  <2>2. QED  BY <2>1
<1>6. g[S] = f[FirstOf(S)] + g[T]
  <2>1. QED  BY <1>1 DEF Sums, T
<1>7. QED  BY <1>4, <1>5, <1>6 DEF T

\* A sum of naturals is one.
LEMMA SumIsNat ==
    ASSUME NEW f, NEW S, IsFiniteSet(S), \A x \in S : f[x] \in Nat
    PROVE  SumOf(f, S) \in Nat
<1> DEFINE Bad == {s \in SUBSET S : SumOf(f, s) \notin Nat}
<1>1. \A s \in SUBSET S : IsFiniteSet(s)
  BY FS_Subset
<1>2. ASSUME Bad # {} PROVE FALSE
  <2>1. PICK s \in Bad : \A t \in Bad : Cardinality(s) <= Cardinality(t)
    BY <1>1, <1>2, LeastSet
  <2>2. s # {}
    BY <2>1, SumEmpty
  <2>3. /\ FirstOf(s) \in s /\ Cardinality(s) \in Nat
        /\ Cardinality(s \ {FirstOf(s)}) = Cardinality(s) - 1
    BY <1>1, <2>1, <2>2, Without
  <2>4. s \ {FirstOf(s)} \in SUBSET S /\ s \ {FirstOf(s)} \notin Bad
    BY <2>1, <2>3
  <2>5. SumOf(f, s) = f[FirstOf(s)] + SumOf(f, s \ {FirstOf(s)})
    BY <1>1, <2>1, <2>2, SumFirst
  <2>6. f[FirstOf(s)] \in Nat /\ SumOf(f, s \ {FirstOf(s)}) \in Nat
    BY <2>1, <2>3, <2>4
  <2>7. QED  BY <2>1, <2>5, <2>6
<1>3. QED  BY <1>2

\* Any element may be taken out first.
LEMMA SumTakeOut ==
    ASSUME NEW f, NEW S, IsFiniteSet(S), \A x \in S : f[x] \in Nat, NEW y \in S
    PROVE  SumOf(f, S) = f[y] + SumOf(f, S \ {y})
<1> DEFINE Bad == {s \in SUBSET S : \E x \in s : SumOf(f, s) # f[x] + SumOf(f, s \ {x})}
<1>1. \A s \in SUBSET S : IsFiniteSet(s) /\ SumOf(f, s) \in Nat
  BY FS_Subset, SumIsNat
<1>2. ASSUME Bad # {} PROVE FALSE
  <2>1. PICK s \in Bad : \A t \in Bad : Cardinality(s) <= Cardinality(t)
    BY <1>1, <1>2, LeastSet
  <2>2. PICK x \in s : SumOf(f, s) # f[x] + SumOf(f, s \ {x})
    BY <2>1
  <2> DEFINE first == FirstOf(s)
  <2>3. /\ s \in SUBSET S /\ IsFiniteSet(s) /\ s # {} /\ first \in s
        /\ Cardinality(s) \in Nat
    BY <1>1, <2>1, <2>2, Without
  <2>4. SumOf(f, s) = f[first] + SumOf(f, s \ {first})
    BY <2>3, SumFirst
  <2> HIDE DEF first
  <2>5. x # first
    BY <2>2, <2>4
  <2>6. Cardinality(s \ {x}) = Cardinality(s) - 1
        /\ Cardinality(s \ {first}) = Cardinality(s) - 1
    BY <2>3, FS_RemoveElement
  <2>7. s \ {x} \in SUBSET S /\ s \ {first} \in SUBSET S
        /\ s \ {x} \notin Bad /\ s \ {first} \notin Bad
    BY <2>1, <2>3, <2>6
  <2>8. SumOf(f, s \ {first}) = f[x] + SumOf(f, (s \ {first}) \ {x})
    BY <2>3, <2>5, <2>7
  <2>9. SumOf(f, s \ {x}) = f[first] + SumOf(f, (s \ {x}) \ {first})
    BY <2>3, <2>5, <2>7
  <2>10. (s \ {first}) \ {x} = (s \ {x}) \ {first}
    OBVIOUS
  <2>11. /\ f[x] \in Nat /\ f[first] \in Nat
         /\ SumOf(f, (s \ {x}) \ {first}) \in Nat
    BY <1>1, <2>3
  <2> DEFINE rest == SumOf(f, (s \ {x}) \ {first})
  <2>12. SumOf(f, s) = f[first] + (f[x] + rest)
    BY <2>4, <2>8, <2>10
  <2>13. SumOf(f, s \ {x}) = f[first] + rest
    BY <2>9
  <2>14. rest \in Nat
    BY <2>11
  <2> HIDE DEF rest
  <2>15. f[x] + (f[first] + rest) = f[first] + (f[x] + rest)
    BY <2>11, <2>14
  <2>16. QED  BY <2>2, <2>12, <2>13, <2>15
<1>3. QED  BY <1>2

\* Functions that agree on a set have the same sum over it.
LEMMA SumAgrees ==
    ASSUME NEW f, NEW g, NEW S, IsFiniteSet(S), \A x \in S : f[x] = g[x]
    PROVE  SumOf(f, S) = SumOf(g, S)
<1> DEFINE Bad == {s \in SUBSET S : SumOf(f, s) # SumOf(g, s)}
<1>1. \A s \in SUBSET S : IsFiniteSet(s)
  BY FS_Subset
<1>2. ASSUME Bad # {} PROVE FALSE
  <2>1. PICK s \in Bad : \A t \in Bad : Cardinality(s) <= Cardinality(t)
    BY <1>1, <1>2, LeastSet
  <2>2. s # {}
    BY <2>1, SumEmpty
  <2>3. /\ FirstOf(s) \in s /\ Cardinality(s) \in Nat
        /\ Cardinality(s \ {FirstOf(s)}) = Cardinality(s) - 1
    BY <1>1, <2>1, <2>2, Without
  <2>4. s \ {FirstOf(s)} \in SUBSET S /\ s \ {FirstOf(s)} \notin Bad
    BY <2>1, <2>3
  <2>5. /\ SumOf(f, s) = f[FirstOf(s)] + SumOf(f, s \ {FirstOf(s)})
        /\ SumOf(g, s) = g[FirstOf(s)] + SumOf(g, s \ {FirstOf(s)})
    BY <1>1, <2>1, <2>2, SumFirst
  <2>6. QED  BY <2>1, <2>3, <2>4, <2>5
<1>3. QED  BY <1>2

\* A smaller function has a sum that is no larger.
LEMMA SumGrows ==
    ASSUME NEW f, NEW g, NEW S, IsFiniteSet(S),
           \A x \in S : f[x] \in Nat /\ g[x] \in Nat /\ f[x] <= g[x]
    PROVE  SumOf(f, S) <= SumOf(g, S)
<1> DEFINE Bad == {s \in SUBSET S : ~ (SumOf(f, s) <= SumOf(g, s))}
<1>1. \A s \in SUBSET S : IsFiniteSet(s) /\ SumOf(f, s) \in Nat /\ SumOf(g, s) \in Nat
  BY FS_Subset, SumIsNat
<1>2. ASSUME Bad # {} PROVE FALSE
  <2>1. PICK s \in Bad : \A t \in Bad : Cardinality(s) <= Cardinality(t)
    BY <1>1, <1>2, LeastSet
  <2>2. s # {}
    BY <2>1, SumEmpty
  <2>3. /\ FirstOf(s) \in s /\ Cardinality(s) \in Nat
        /\ Cardinality(s \ {FirstOf(s)}) = Cardinality(s) - 1
    BY <1>1, <2>1, <2>2, Without
  <2>4. s \ {FirstOf(s)} \in SUBSET S /\ s \ {FirstOf(s)} \notin Bad
    BY <2>1, <2>3
  <2>5. /\ SumOf(f, s) = f[FirstOf(s)] + SumOf(f, s \ {FirstOf(s)})
        /\ SumOf(g, s) = g[FirstOf(s)] + SumOf(g, s \ {FirstOf(s)})
    BY <1>1, <2>1, <2>2, SumFirst
  <2>6. f[FirstOf(s)] \in Nat /\ g[FirstOf(s)] \in Nat /\ f[FirstOf(s)] <= g[FirstOf(s)]
    BY <2>1, <2>3
  <2>7. SumOf(f, s \ {FirstOf(s)}) <= SumOf(g, s \ {FirstOf(s)})
    BY <2>4
  <2>8. QED  BY <1>1, <2>1, <2>4, <2>5, <2>6, <2>7
<1>3. QED  BY <1>2

\* Where a function changes in one place, its sum changes by as much.
LEMMA SumChanges ==
    ASSUME NEW f, NEW g, NEW S, IsFiniteSet(S), NEW y \in S,
           \A x \in S : f[x] \in Nat /\ g[x] \in Nat,
           \A x \in S \ {y} : f[x] = g[x]
    PROVE  SumOf(g, S) = SumOf(f, S) - f[y] + g[y]
<1>1. IsFiniteSet(S \ {y}) /\ S \ {y} \in SUBSET S
  BY FS_RemoveElement
<1>2. SumOf(f, S) = f[y] + SumOf(f, S \ {y}) /\ SumOf(g, S) = g[y] + SumOf(g, S \ {y})
  BY SumTakeOut
<1>3. SumOf(f, S \ {y}) = SumOf(g, S \ {y}) /\ SumOf(f, S \ {y}) \in Nat
  BY <1>1, SumAgrees, SumIsNat
<1>4. QED  BY <1>2, <1>3

\* An element more.
LEMMA SumAdds ==
    ASSUME NEW f, NEW S, IsFiniteSet(S), NEW y, y \notin S,
           \A x \in S \cup {y} : f[x] \in Nat
    PROVE  SumOf(f, S \cup {y}) = f[y] + SumOf(f, S)
<1>1. IsFiniteSet(S \cup {y})
  BY FS_AddElement
<1>2. SumOf(f, S \cup {y}) = f[y] + SumOf(f, (S \cup {y}) \ {y})
  BY <1>1, SumTakeOut
<1>3. (S \cup {y}) \ {y} = S
  OBVIOUS
<1>4. QED  BY <1>2, <1>3

\* No element counts for more than the sum.
LEMMA SumBounds ==
    ASSUME NEW f, NEW S, IsFiniteSet(S), \A x \in S : f[x] \in Nat, NEW y \in S
    PROVE  f[y] <= SumOf(f, S)
<1>1. IsFiniteSet(S \ {y})
  BY FS_RemoveElement
<1>2. SumOf(f, S \ {y}) \in Nat
  BY <1>1, SumIsNat
<1>3. SumOf(f, S) = f[y] + SumOf(f, S \ {y})
  BY SumTakeOut
<1>4. QED  BY <1>2, <1>3

\* A function and a set that gains an element, or loses one.
LEMMA SumGains ==
    ASSUME NEW f, NEW g, NEW S, IsFiniteSet(S), NEW y, y \notin S, g[y] \in Nat,
           \A x \in S : f[x] \in Nat /\ g[x] = f[x]
    PROVE  SumOf(g, S \cup {y}) = SumOf(f, S) + g[y]
<1>1. SumOf(g, S \cup {y}) = g[y] + SumOf(g, S)
  BY SumAdds
<1>2. SumOf(g, S) = SumOf(f, S) /\ SumOf(f, S) \in Nat
  BY SumAgrees, SumIsNat
<1>3. QED  BY <1>1, <1>2

LEMMA SumLoses ==
    ASSUME NEW f, NEW g, NEW S, IsFiniteSet(S), NEW y \in S,
           \A x \in S : f[x] \in Nat, \A x \in S \ {y} : g[x] = f[x]
    PROVE  SumOf(g, S \ {y}) = SumOf(f, S) - f[y]
<1>1. IsFiniteSet(S \ {y})
  BY FS_RemoveElement
<1>2. SumOf(f, S) = f[y] + SumOf(f, S \ {y})
  BY SumTakeOut
<1>3. SumOf(g, S \ {y}) = SumOf(f, S \ {y}) /\ SumOf(f, S \ {y}) \in Nat
  BY <1>1, SumAgrees, SumIsNat
<1>4. QED  BY <1>2, <1>3

=============================================================================
