------------------------- MODULE CreatorTools_proofs -------------------------
(***************************************************************************)
(* Proofs about the click counts and the dashboard (module ClickCounts),   *)
(* and about the composition of the parts a creator works with (module     *)
(* MCCreatorTools): what is proved of a part holds of it whichever scene   *)
(* is played.  The counts are sums over sets, so the sums come first.      *)
(***************************************************************************)
EXTENDS MCCreatorTools, Account_proofs, Editor_proofs, FiniteSetTheorems, TLAPS
-----------------------------------------------------------------------------
(* Sums over finite sets. *)

\* Induction over the subsets of a finite set, without an operator as a parameter: a
\* family of them that is not empty has one of which it has no smaller.
LEMMA SmallestSubset ==
  ASSUME NEW S, IsFiniteSet(S), NEW F \in SUBSET SUBSET S, F # {}
  PROVE  \E t \in F : \A u \in SUBSET t : u # t => u \notin F
<1>1. IsWellFoundedOn(StrictSubsetOrdering(S), SUBSET S)
  BY FS_StrictSubsetOrderingWellFounded, FS_FiniteSubsetsOfFinite
<1>2. PICK t \in F : \A u \in F : ~ (<<u, t>> \in StrictSubsetOrdering(S))
  <2> DEFINE R == StrictSubsetOrdering(S)
  <2>1. IsWellFoundedOn(R, SUBSET S)
    BY <1>1
  <2> HIDE DEF R
  <2>2. \E t \in F : \A u \in F : ~ (<<u, t>> \in R)
    BY <2>1, WFMin
  <2> QED
    BY <2>2 DEF R
<1>3. ASSUME NEW u \in SUBSET t, u # t PROVE u \notin F
  <2>1. u \in SUBSET S /\ t \in SUBSET S
    OBVIOUS
  <2>2. <<u, t>> \in StrictSubsetOrdering(S)
    BY <1>3, <2>1 DEF StrictSubsetOrdering
  <2> QED
    BY <1>2, <2>2
<1> QED
  BY <1>3

\* The element the sum over s begins with.
First(s) == CHOOSE x \in s : TRUE

\* What MapThenFoldSet computes on the way: the sums over all subsets of S.
AreSums(g, numbers, S) ==
  g = [s \in SUBSET S |-> IF s = {} THEN 0 ELSE numbers[First(s)] + g[s \ {First(s)}]]

\* The sum as the community module computes it: the function of all partial sums, at S.
LEMMA SumIsChosen ==
  ASSUME NEW numbers, NEW S
  PROVE  Total(numbers, S) = (CHOOSE g : AreSums(g, numbers, S))[S]
BY DEF Total, MapThenSumSet, MapThenFoldSet, AreSums, First

\* A sum begins with an element of its set.
LEMMA FirstIsElement ==
  ASSUME NEW s, s # {}
  PROVE  First(s) \in s
BY DEF First

\* The recursion defines one function on the subsets of a finite set.
LEMMA SumsAreUnique ==
  ASSUME NEW numbers, NEW S, IsFiniteSet(S), NEW g, AreSums(g, numbers, S), NEW h, AreSums(h, numbers, S)
  PROVE  g = h
<1> DEFINE F == {s \in SUBSET S : g[s] # h[s]}
<1>1. /\ DOMAIN g = SUBSET S /\ DOMAIN h = SUBSET S
      /\ g = [s \in SUBSET S |-> g[s]] /\ h = [s \in SUBSET S |-> h[s]]
  BY DEF AreSums
<1>2. /\ \A s \in SUBSET S : g[s] = IF s = {} THEN 0 ELSE numbers[First(s)] + g[s \ {First(s)}]
      /\ \A s \in SUBSET S : h[s] = IF s = {} THEN 0 ELSE numbers[First(s)] + h[s \ {First(s)}]
  BY DEF AreSums
<1>3. ASSUME F # {} PROVE FALSE
  <2>1. F \in SUBSET SUBSET S
    OBVIOUS
  <2> HIDE DEF F
  <2>2. PICK s \in F : \A u \in SUBSET s : u # s => u \notin F
    BY <1>3, <2>1, SmallestSubset
  <2>3. s \in SUBSET S /\ g[s] # h[s]
    BY DEF F
  <2>4. CASE s = {}
    BY <1>2, <2>3, <2>4
  <2>5. CASE s # {}
    <3> DEFINE u == s \ {First(s)}
    <3>1. u \in SUBSET s /\ u # s /\ u \in SUBSET S
      BY <2>3, <2>5, FirstIsElement
    <3>2. g[u] = h[u]
      BY <2>2, <3>1 DEF F
    <3>3. g[s] = numbers[First(s)] + g[u] /\ h[s] = numbers[First(s)] + h[u]
      BY <1>2, <2>3, <2>5
    <3> QED
      BY <2>3, <3>2, <3>3
  <2> QED
    BY <2>4, <2>5
<1>4. \A s \in SUBSET S : g[s] = h[s]
  BY <1>3
<1> QED
  BY <1>1, <1>4

\* The sums of a part are those of the whole.
LEMMA SumsOfPart ==
  ASSUME NEW numbers, NEW S, NEW g, AreSums(g, numbers, S), NEW T \in SUBSET S
  PROVE  AreSums([s \in SUBSET T |-> g[s]], numbers, T)
<1> DEFINE h == [s \in SUBSET T |-> g[s]]
<1>1. \A s \in SUBSET S : g[s] = IF s = {} THEN 0 ELSE numbers[First(s)] + g[s \ {First(s)}]
  BY DEF AreSums
<1>2. ASSUME NEW s \in SUBSET T
      PROVE  h[s] = IF s = {} THEN 0 ELSE numbers[First(s)] + h[s \ {First(s)}]
  <2>1. s \in SUBSET S /\ s \ {First(s)} \in SUBSET T
    OBVIOUS
  <2> QED
    BY <1>1, <2>1
<1>3. h = [s \in SUBSET T |-> h[s]]
  OBVIOUS
<1> HIDE DEF h
<1>4. h = [s \in SUBSET T |-> IF s = {} THEN 0 ELSE numbers[First(s)] + h[s \ {First(s)}]]
  BY <1>2, <1>3
<1> QED
  BY <1>4 DEF AreSums, h

\* The totals are such a function.
LEMMA SumsExist ==
  ASSUME NEW numbers, NEW S, IsFiniteSet(S)
  PROVE  AreSums([s \in SUBSET S |-> Total(numbers, s)], numbers, S)
<1> DEFINE table(T) == [s \in SUBSET T |-> Total(numbers, s)]
           F == {T \in SUBSET S : ~AreSums(table(T), numbers, T)}
<1>1. ASSUME F # {} PROVE FALSE
  <2>1. F \in SUBSET SUBSET S
    OBVIOUS
  <2> HIDE DEF F
  <2>2. PICK T \in F : \A u \in SUBSET T : u # T => u \notin F
    BY <1>1, <2>1, SmallestSubset
  <2>3. T \in SUBSET S /\ ~AreSums(table(T), numbers, T) /\ IsFiniteSet(T)
    BY FS_Subset DEF F
  <2>4. \A u \in SUBSET T : u # T => AreSums(table(u), numbers, u)
    BY <2>2, <2>3 DEF F
  <2> DEFINE total == IF T = {} THEN 0 ELSE numbers[First(T)] + Total(numbers, T \ {First(T)})
             g == [s \in SUBSET T |-> IF s = T THEN total ELSE Total(numbers, s)]
  <2>5. ASSUME NEW s \in SUBSET T
        PROVE  g[s] = IF s = {} THEN 0 ELSE numbers[First(s)] + g[s \ {First(s)}]
    <3> DEFINE u == s \ {First(s)}
    <3>1. u \in SUBSET T /\ (s # {} => u # T /\ u \in SUBSET s)
      BY FirstIsElement
    <3>2. s # {} => g[u] = Total(numbers, u)
      BY <3>1
    <3>3. CASE s = T
      BY <3>2, <3>3
    <3>4. CASE s # T
      <4>1. AreSums(table(s), numbers, s)
        BY <2>4, <3>4
      <4>2. table(s)[s] = IF s = {} THEN 0 ELSE numbers[First(s)] + table(s)[u]
        BY <4>1 DEF AreSums
      <4>3. s # {} => table(s)[u] = Total(numbers, u)
        BY <3>1
      <4>4. table(s)[s] = Total(numbers, s) /\ g[s] = Total(numbers, s)
        BY <3>4
      <4> HIDE DEF g, table, u
      <4> QED
        BY <3>2, <4>2, <4>3, <4>4 DEF u
    <3> QED
      BY <3>3, <3>4
  <2>6. g = [s \in SUBSET T |-> g[s]] /\ g[T] = total
    OBVIOUS
  <2>7. \A s \in SUBSET T : s # T => g[s] = Total(numbers, s)
    OBVIOUS
  <2> HIDE DEF g
  <2>8. AreSums(g, numbers, T)
    BY <2>5, <2>6 DEF AreSums
  <2>9. Total(numbers, T) = g[T]
    <3> DEFINE h == CHOOSE h : AreSums(h, numbers, T)
    <3>1. AreSums(h, numbers, T)
      BY <2>8
    <3>2. Total(numbers, T) = h[T]
      BY SumIsChosen
    <3> HIDE DEF h
    <3>3. h = g
      BY <2>3, <2>8, <3>1, SumsAreUnique
    <3> QED
      BY <3>2, <3>3
  <2>10. g = table(T)
    BY <2>6, <2>7, <2>9
  <2> QED
    BY <2>3, <2>8, <2>10
<1> QED
  BY <1>1

-----------------------------------------------------------------------------
\* The sum over nothing is 0.
LEMMA SumOfNothing == ASSUME NEW numbers PROVE Total(numbers, {}) = 0
<1> DEFINE table == [s \in SUBSET {} |-> Total(numbers, s)]
<1>1. AreSums(table, numbers, {})
  BY SumsExist, FS_EmptySet
<1>2. table[{}] = Total(numbers, {})
  OBVIOUS
<1> HIDE DEF table
<1> QED
  BY <1>1, <1>2 DEF AreSums

\* A sum is its first number and the sum of the others.
LEMMA SumBegins ==
  ASSUME NEW numbers, NEW S, IsFiniteSet(S), S # {}
  PROVE  Total(numbers, S) = numbers[First(S)] + Total(numbers, S \ {First(S)})
<1> DEFINE table == [s \in SUBSET S |-> Total(numbers, s)]
           u == S \ {First(S)}
<1>1. AreSums(table, numbers, S)
  BY SumsExist
<1>2. table[S] = Total(numbers, S) /\ table[u] = Total(numbers, u)
  OBVIOUS
<1>3. table[S] = numbers[First(S)] + table[u]
  <2> HIDE DEF table
  <2> QED
    BY <1>1 DEF AreSums
<1> HIDE DEF table, u
<1> QED
  BY <1>2, <1>3 DEF u

\* Natural numbers have a natural sum.
LEMMA SumIsNatural ==
  ASSUME NEW numbers, NEW S, IsFiniteSet(S), \A x \in S : numbers[x] \in Nat
  PROVE  Total(numbers, S) \in Nat
<1> DEFINE F == {T \in SUBSET S : Total(numbers, T) \notin Nat}
<1>1. ASSUME F # {} PROVE FALSE
  <2>1. F \in SUBSET SUBSET S
    OBVIOUS
  <2> HIDE DEF F
  <2>2. PICK T \in F : \A u \in SUBSET T : u # T => u \notin F
    BY <1>1, <2>1, SmallestSubset
  <2>3. T \in SUBSET S /\ Total(numbers, T) \notin Nat /\ IsFiniteSet(T)
    BY FS_Subset DEF F
  <2>4. T # {}
    BY <2>3, SumOfNothing
  <2> DEFINE u == T \ {First(T)}
  <2>5. First(T) \in S /\ u \in SUBSET T /\ u # T /\ u \in SUBSET S
    BY <2>3, <2>4, FirstIsElement
  <2>6. Total(numbers, u) \in Nat
    BY <2>2, <2>5 DEF F
  <2>7. Total(numbers, T) = numbers[First(T)] + Total(numbers, u)
    BY <2>3, <2>4, SumBegins
  <2> QED
    BY <2>3, <2>5, <2>6, <2>7
<1> QED
  BY <1>1

\* The sum is the same whichever element it begins with.
LEMMA SumTakesOut ==
  ASSUME NEW numbers, NEW S, IsFiniteSet(S), \A x \in S : numbers[x] \in Nat, NEW y \in S
  PROVE  Total(numbers, S) = numbers[y] + Total(numbers, S \ {y})
<1> DEFINE Out(T, z) == Total(numbers, T) = numbers[z] + Total(numbers, T \ {z})
           F == {T \in SUBSET S : \E z \in T : ~Out(T, z)}
<1>1. ASSUME F # {} PROVE FALSE
  <2>1. F \in SUBSET SUBSET S
    OBVIOUS
  <2> HIDE DEF F
  <2>2. PICK T \in F : \A u \in SUBSET T : u # T => u \notin F
    BY <1>1, <2>1, SmallestSubset
  <2>3. T \in SUBSET S /\ IsFiniteSet(T) /\ \E z \in T : ~Out(T, z)
    BY FS_Subset DEF F
  <2>4. PICK z \in T : ~Out(T, z)
    BY <2>3
  <2> DEFINE x == First(T)
             tx == T \ {x}
             tz == T \ {z}
             rest == tx \ {z}
  <2>5. x \in T /\ Out(T, x)
    BY <2>3, <2>4, FirstIsElement, SumBegins
  <2>6. x # z /\ z \in tx /\ x \in tz /\ rest = tz \ {x}
    BY <2>4, <2>5
  <2>7. tx \in SUBSET T /\ tx # T /\ tx \in SUBSET S /\ tz \in SUBSET T /\ tz # T /\ tz \in SUBSET S
    BY <2>3, <2>5
  <2>8. Out(tx, z) /\ Out(tz, x)
    <3>1. tx \notin F /\ tz \notin F
      BY <2>2, <2>7
    <3> HIDE DEF Out, tx, tz, x
    <3> QED
      BY <2>6, <2>7, <3>1 DEF F
  <2>9. \A s \in SUBSET S : Total(numbers, s) \in Nat
    BY FS_Subset, SumIsNatural
  <2>10. Total(numbers, rest) \in Nat /\ numbers[x] \in Nat /\ numbers[z] \in Nat
    BY <2>3, <2>5, <2>9
  <2>11. /\ Total(numbers, T) = numbers[x] + Total(numbers, tx) /\ Total(numbers, tx) = numbers[z] + Total(numbers, rest)
         /\ Total(numbers, tz) = numbers[x] + Total(numbers, rest)
    BY <2>5, <2>6, <2>8
  <2>12. Total(numbers, T) = numbers[z] + Total(numbers, tz)
    <3> HIDE DEF x, tx, tz, rest, Out
    <3> QED
      BY <2>10, <2>11
  <2> QED
    BY <2>4, <2>12
<1> QED
  BY <1>1

\* A sum depends on the numbers of its set only.
LEMMA SumsAgree ==
  ASSUME NEW numbers, NEW others, NEW S, IsFiniteSet(S), \A x \in S : numbers[x] = others[x]
  PROVE  Total(numbers, S) = Total(others, S)
<1> DEFINE F == {T \in SUBSET S : Total(numbers, T) # Total(others, T)}
<1>1. ASSUME F # {} PROVE FALSE
  <2>1. F \in SUBSET SUBSET S
    OBVIOUS
  <2> HIDE DEF F
  <2>2. PICK T \in F : \A u \in SUBSET T : u # T => u \notin F
    BY <1>1, <2>1, SmallestSubset
  <2>3. T \in SUBSET S /\ Total(numbers, T) # Total(others, T) /\ IsFiniteSet(T)
    BY FS_Subset DEF F
  <2>4. T # {}
    BY <2>3, SumOfNothing
  <2> DEFINE u == T \ {First(T)}
  <2>5. First(T) \in S /\ u \in SUBSET T /\ u # T /\ u \in SUBSET S
    BY <2>3, <2>4, FirstIsElement
  <2>6. Total(numbers, u) = Total(others, u)
    BY <2>2, <2>5 DEF F
  <2>7. /\ Total(numbers, T) = numbers[First(T)] + Total(numbers, u)
        /\ Total(others, T) = others[First(T)] + Total(others, u)
    BY <2>3, <2>4, SumBegins
  <2> QED
    BY <2>3, <2>5, <2>6, <2>7
<1> QED
  BY <1>1

\* One more in one place is one more in all.
LEMMA SumCountsOneMore ==
  ASSUME NEW numbers, NEW others, NEW S, IsFiniteSet(S), \A x \in S : numbers[x] \in Nat,
         NEW y \in S, others[y] = numbers[y] + 1, \A x \in S : x # y => others[x] = numbers[x]
  PROVE  Total(others, S) = Total(numbers, S) + 1
<1> DEFINE T == S \ {y}
<1>1. IsFiniteSet(T) /\ \A x \in T : others[x] = numbers[x] /\ numbers[x] \in Nat
  BY FS_Subset
<1>2. Total(others, T) = Total(numbers, T) /\ Total(numbers, T) \in Nat
  BY <1>1, SumsAgree, SumIsNatural
<1>3. \A x \in S : others[x] \in Nat
  OBVIOUS
<1>4. Total(numbers, S) = numbers[y] + Total(numbers, T) /\ Total(others, S) = others[y] + Total(others, T)
  BY <1>3, SumTakesOut
<1> HIDE DEF T
<1> QED
  BY <1>2, <1>4

\* A sum is the sum over a part and the sum over the rest.
LEMMA SumOfParts ==
  ASSUME NEW numbers, NEW S, IsFiniteSet(S), \A x \in S : numbers[x] \in Nat, NEW T \in SUBSET S
  PROVE  Total(numbers, S) = Total(numbers, T) + Total(numbers, S \ T)
<1> DEFINE Parts(U) == Total(numbers, U) = Total(numbers, U \cap T) + Total(numbers, U \ T)
           F == {U \in SUBSET S : ~Parts(U)}
<1>0. \A s \in SUBSET S : Total(numbers, s) \in Nat
  BY FS_Subset, SumIsNatural
<1>1. ASSUME F # {} PROVE FALSE
  <2>1. F \in SUBSET SUBSET S
    OBVIOUS
  <2> HIDE DEF F
  <2>2. PICK U \in F : \A u \in SUBSET U : u # U => u \notin F
    BY <1>1, <2>1, SmallestSubset
  <2>3. U \in SUBSET S /\ IsFiniteSet(U) /\ ~Parts(U)
    BY FS_Subset DEF F
  <2>4. U # {}
    <3>1. {} \cap T = {} /\ {} \ T = {}
      OBVIOUS
    <3> QED
      BY <2>3, <3>1, SumOfNothing
  <2> DEFINE y == First(U)
             u == U \ {y}
             inU == U \cap T
             outU == U \ T
             inu == u \cap T
             outu == u \ T
  <2>5. y \in S /\ y \in U /\ u \in SUBSET U /\ u # U /\ u \in SUBSET S
    BY <2>3, <2>4, FirstIsElement
  <2>6. Parts(u)
    BY <2>2, <2>5 DEF F
  <2>7. Total(numbers, U) = numbers[y] + Total(numbers, u)
    BY <2>3, <2>4, SumBegins
  <2>8. /\ Total(numbers, u) \in Nat /\ Total(numbers, inu) \in Nat /\ Total(numbers, outu) \in Nat
        /\ numbers[y] \in Nat
    <3>1. u \in SUBSET S /\ inu \in SUBSET S /\ outu \in SUBSET S
      BY <2>3
    <3> HIDE DEF u, inu, outu, y
    <3> QED
      BY <1>0, <2>5, <3>1
  <2>9. IsFiniteSet(inU) /\ IsFiniteSet(outU) /\ \A x \in U : numbers[x] \in Nat
    BY <2>3, FS_Subset
  <2>10. CASE y \in T
    <3>1. y \in inU /\ inU \ {y} = inu /\ outU = outu
      BY <2>5, <2>10
    <3> HIDE DEF y, inU, inu, outu, outU
    <3>2. Total(numbers, inU) = numbers[y] + Total(numbers, inu)
      BY <2>9, <3>1, SumTakesOut DEF inU
    <3>3. Total(numbers, u) = Total(numbers, inu) + Total(numbers, outu)
      BY <2>6 DEF inu, outu
    <3>4. Total(numbers, U) # Total(numbers, inU) + Total(numbers, outU)
      BY <2>3 DEF inU, outU
    <3> HIDE DEF u
    <3> QED
      BY <2>7, <2>8, <3>1, <3>2, <3>3, <3>4
  <2>11. CASE y \notin T
    <3>1. y \in outU /\ outU \ {y} = outu /\ inU = inu
      BY <2>5, <2>11
    <3> HIDE DEF y, inU, inu, outu, outU
    <3>2. Total(numbers, outU) = numbers[y] + Total(numbers, outu)
      BY <2>9, <3>1, SumTakesOut DEF outU
    <3>3. Total(numbers, u) = Total(numbers, inu) + Total(numbers, outu)
      BY <2>6 DEF inu, outu
    <3>4. Total(numbers, U) # Total(numbers, inU) + Total(numbers, outU)
      BY <2>3 DEF inU, outU
    <3> HIDE DEF u
    <3> QED
      BY <2>7, <2>8, <3>1, <3>2, <3>3, <3>4
  <2> QED
    BY <2>10, <2>11
<1>2. Parts(S)
  BY <1>1
<1>3. S \cap T = T
  OBVIOUS
<1> QED
  BY <1>2, <1>3

\* Zeros do not count.
LEMMA SumOfZeros ==
  ASSUME NEW numbers, NEW S, IsFiniteSet(S), \A x \in S : numbers[x] = 0
  PROVE  Total(numbers, S) = 0
<1> DEFINE F == {T \in SUBSET S : Total(numbers, T) # 0}
<1>1. ASSUME F # {} PROVE FALSE
  <2>1. F \in SUBSET SUBSET S
    OBVIOUS
  <2> HIDE DEF F
  <2>2. PICK T \in F : \A u \in SUBSET T : u # T => u \notin F
    BY <1>1, <2>1, SmallestSubset
  <2>3. T \in SUBSET S /\ Total(numbers, T) # 0 /\ IsFiniteSet(T)
    BY FS_Subset DEF F
  <2>4. T # {}
    BY <2>3, SumOfNothing
  <2> DEFINE u == T \ {First(T)}
  <2>5. First(T) \in S /\ u \in SUBSET T /\ u # T /\ u \in SUBSET S
    BY <2>3, <2>4, FirstIsElement
  <2>6. Total(numbers, u) = 0
    BY <2>2, <2>5 DEF F
  <2>7. Total(numbers, T) = numbers[First(T)] + Total(numbers, u)
    BY <2>3, <2>4, SumBegins
  <2> QED
    BY <2>3, <2>5, <2>6, <2>7
<1> QED
  BY <1>1

\* Zeros may be left out.
LEMMA SumWithoutZeros ==
  ASSUME NEW numbers, NEW S, IsFiniteSet(S), \A x \in S : numbers[x] \in Nat, NEW T \in SUBSET S,
         \A x \in S \ T : numbers[x] = 0
  PROVE  Total(numbers, S) = Total(numbers, T)
<1>1. Total(numbers, S) = Total(numbers, T) + Total(numbers, S \ T)
  BY SumOfParts
<1>2. IsFiniteSet(S \ T) /\ IsFiniteSet(T)
  BY FS_Subset
<1>3. Total(numbers, S \ T) = 0
  BY <1>2, SumOfZeros
<1>4. Total(numbers, T) \in Nat
  BY <1>2, SumIsNatural
<1> QED
  BY <1>1, <1>3, <1>4

\* Sums are added number by number.
LEMMA SumOfSums ==
  ASSUME NEW numbers, NEW others, NEW both, NEW S, IsFiniteSet(S),
         \A x \in S : numbers[x] \in Nat /\ others[x] \in Nat /\ both[x] = numbers[x] + others[x]
  PROVE  Total(both, S) = Total(numbers, S) + Total(others, S)
<1> DEFINE F == {T \in SUBSET S : Total(both, T) # Total(numbers, T) + Total(others, T)}
<1>1. ASSUME F # {} PROVE FALSE
  <2>1. F \in SUBSET SUBSET S
    OBVIOUS
  <2> HIDE DEF F
  <2>2. PICK T \in F : \A u \in SUBSET T : u # T => u \notin F
    BY <1>1, <2>1, SmallestSubset
  <2>3. T \in SUBSET S /\ Total(both, T) # Total(numbers, T) + Total(others, T) /\ IsFiniteSet(T)
    BY FS_Subset DEF F
  <2>4. T # {}
    <3>1. Total(both, {}) = 0 /\ Total(numbers, {}) = 0 /\ Total(others, {}) = 0
      BY SumOfNothing
    <3>2. T = {} => Total(both, T) = 0 /\ Total(numbers, T) + Total(others, T) = 0 + 0
      BY <3>1
    <3>3. 0 + 0 = 0
      OBVIOUS
    <3> QED
      BY <2>3, <3>2, <3>3
  <2> DEFINE x == First(T)
             u == T \ {x}
  <2>5. x \in S /\ u \in SUBSET T /\ u # T /\ u \in SUBSET S
    BY <2>3, <2>4, FirstIsElement
  <2>6. Total(both, u) = Total(numbers, u) + Total(others, u)
    BY <2>2, <2>5 DEF F
  <2>7. /\ Total(both, T) = both[x] + Total(both, u)
        /\ Total(numbers, T) = numbers[x] + Total(numbers, u)
        /\ Total(others, T) = others[x] + Total(others, u)
    BY <2>3, <2>4, SumBegins
  <2>8. Total(numbers, u) \in Nat /\ Total(others, u) \in Nat
    BY <2>5, FS_Subset, SumIsNatural
  <2> HIDE DEF x, u
  <2> QED
    BY <2>3, <2>5, <2>6, <2>7, <2>8
<1> QED
  BY <1>1

\* The same numbers under other names.
LEMMA SumMoved ==
  ASSUME NEW numbers, NEW others, NEW S, IsFiniteSet(S), NEW T, NEW h \in Bijection(S, T),
         \A x \in S : numbers[x] \in Nat /\ others[h[x]] = numbers[x]
  PROVE  Total(others, T) = Total(numbers, S)
<1> DEFINE Img(U) == {h[x] : x \in U}
           F == {U \in SUBSET S : Total(others, Img(U)) # Total(numbers, U)}
<1>1. /\ h \in [S -> T] /\ \A x, y \in S : h[x] = h[y] => x = y
      /\ T = Img(S) /\ IsFiniteSet(T)
  <2>1. h \in [S -> T] /\ \A x, y \in S : h[x] = h[y] => x = y
    BY DEF Bijection, Injection, Surjection, IsInjective
  <2>2. T = Img(S)
    BY DEF Bijection, Injection, Surjection
  <2>3. h \in Surjection(S, T)
    BY DEF Bijection
  <2>4. IsFiniteSet(T)
    BY <2>3, FS_Surjection
  <2> QED
    BY <2>1, <2>2, <2>4
<1>2. ASSUME F # {} PROVE FALSE
  <2>1. F \in SUBSET SUBSET S
    OBVIOUS
  <2> HIDE DEF F
  <2>2. PICK U \in F : \A u \in SUBSET U : u # U => u \notin F
    BY <1>2, <2>1, SmallestSubset
  <2>3. U \in SUBSET S /\ Total(others, Img(U)) # Total(numbers, U) /\ IsFiniteSet(U)
    BY FS_Subset DEF F
  <2>4. U # {}
    <3>1. Img({}) = {}
      OBVIOUS
    <3> HIDE DEF Img
    <3> QED
      BY <2>3, <3>1, SumOfNothing
  <2> DEFINE x == First(U)
             u == U \ {x}
             y == h[x]
  <2>5. x \in S /\ x \in U /\ u \in SUBSET U /\ u # U /\ u \in SUBSET S
    BY <2>3, <2>4, FirstIsElement
  <2>6. Total(others, Img(u)) = Total(numbers, u)
    BY <2>2, <2>5 DEF F
  <2>7. Total(numbers, U) = numbers[x] + Total(numbers, u)
    BY <2>3, <2>4, SumBegins
  <2>8. y \in Img(U) /\ Img(u) = Img(U) \ {y}
    BY <1>1, <2>3, <2>5
  <2>9. Img(U) \in SUBSET T
    BY <1>1, <2>3
  <2>10. IsFiniteSet(Img(U)) /\ \A z \in Img(U) : others[z] \in Nat
    BY <1>1, <2>3, <2>9, FS_Subset
  <2> HIDE DEF Img
  <2>11. Total(others, Img(U)) = others[y] + Total(others, Img(U) \ {y})
    BY <2>8, <2>10, SumTakesOut
  <2>12. others[y] = numbers[x]
    BY <2>5
  <2> QED
    BY <2>3, <2>6, <2>7, <2>8, <2>11, <2>12
<1>3. Total(others, Img(S)) = Total(numbers, S)
  BY <1>2
<1> QED
  BY <1>1, <1>3

\* The sums of the rows and of the columns of a table with rows C and columns D.
IsTable(v, column, rowSums, columnSums, C, D) ==
  /\ IsFiniteSet(C) /\ IsFiniteSet(D)
  /\ \A c \in C : \A d \in D : v[c][d] \in Nat
  /\ \A c \in C : rowSums[c] = Total(v[c], D)
  /\ \A d \in D : \A c \in C : column[d][c] = v[c][d]
  /\ \A d \in D : columnSums[d] = Total(column[d], C)

\* A table summed up by rows and by columns.
LEMMA SumsOfRowsAndColumns ==
  ASSUME NEW v, NEW column, NEW rowSums, NEW columnSums, NEW C, NEW D,
         IsTable(v, column, rowSums, columnSums, C, D)
  PROVE  Total(columnSums, D) = Total(rowSums, C)
<1> USE DEF IsTable
<1> DEFINE cols(U) == [d \in D |-> Total(column[d], U)]
           F == {U \in SUBSET C : Total(cols(U), D) # Total(rowSums, U)}
<1>1. \A d \in D : \A c \in C : column[d][c] = v[c][d] /\ column[d][c] \in Nat
  OBVIOUS
<1>2. \A U \in SUBSET C : \A d \in D : cols(U)[d] = Total(column[d], U) /\ cols(U)[d] \in Nat
  BY <1>1, FS_Subset, SumIsNatural
<1> HIDE DEF cols
<1>3. ASSUME F # {} PROVE FALSE
  <2>1. F \in SUBSET SUBSET C
    OBVIOUS
  <2> HIDE DEF F
  <2>2. PICK U \in F : \A u \in SUBSET U : u # U => u \notin F
    BY <1>3, <2>1, SmallestSubset
  <2>3. U \in SUBSET C /\ Total(cols(U), D) # Total(rowSums, U) /\ IsFiniteSet(U)
    BY FS_Subset DEF F
  <2>4. U # {}
    <3>1. {} \in SUBSET C
      OBVIOUS
    <3>2. \A d \in D : cols({})[d] = 0
      BY <1>2, <3>1, SumOfNothing
    <3>3. Total(cols({}), D) = 0
      BY <3>2, SumOfZeros
    <3> QED
      BY <2>3, <3>3, SumOfNothing
  <2> DEFINE c == First(U)
             u == U \ {c}
  <2>5. c \in C /\ c \in U /\ u \in SUBSET U /\ u # U /\ u \in SUBSET C
    BY <2>3, <2>4, FirstIsElement
  <2>6. Total(cols(u), D) = Total(rowSums, u)
    BY <2>2, <2>5 DEF F
  <2>7. Total(rowSums, U) = Total(v[c], D) + Total(rowSums, u)
    BY <2>3, <2>4, <2>5, SumBegins
  <2>8. \A d \in D : cols(U)[d] = v[c][d] + cols(u)[d]
    <3> TAKE d \in D
    <3>1. Total(column[d], U) = column[d][c] + Total(column[d], u)
      BY <2>3, <2>4, SumBegins
    <3> QED
      BY <1>1, <1>2, <2>3, <2>5, <3>1
  <2>9. \A d \in D : v[c][d] \in Nat /\ cols(u)[d] \in Nat
    BY <1>2, <2>5
  <2> HIDE DEF c, u
  <2>10. Total(cols(U), D) = Total(v[c], D) + Total(cols(u), D)
    BY <2>8, <2>9, SumOfSums
  <2> QED
    BY <2>3, <2>6, <2>7, <2>10
<1>4. Total(cols(C), D) = Total(rowSums, C)
  BY <1>3
<1>5. \A d \in D : columnSums[d] = cols(C)[d]
  BY <1>2
<1>6. Total(columnSums, D) = Total(cols(C), D)
  BY <1>5, SumsAgree
<1> QED
  BY <1>4, <1>6
-----------------------------------------------------------------------------
(* The clicks, the views and the dashboard (ClickCounts). *)

Counts01 == [Days -> Nat]
Dashes ==
  [pc : {"away", "loading", "login", "onboarding", "insights"}, rows : Counts01,
   daily : {"none", "asked", "rows", "done"}, series : {<< >>} \cup [1 .. 2 * Week -> Nat],
   list : {"none", "asked", "done"}, listed : SUBSET MyCarts, weekly : [MyCarts -> Nat]]

ClickTypes ==
  /\ today \in Days /\ archived \subseteq MyCarts
  /\ views \in [MyCarts -> Counts01] /\ clicks \in Counts01 /\ events \in Counts01
  /\ log \in [Logs -> {"idle", "insert", "bump"}]
  /\ unlogged \in Nat /\ unbumped \in Nat /\ redirects \in Nat
  /\ straddled \in BOOLEAN /\ disturbed \in BOOLEAN /\ dash \in Dashes

\* The goroutines at a statement.
At(pc) == {g \in Logs : log[g] = pc}

\* Every click is where its goroutine is.
ClicksAreSomewhere ==
  /\ Total(events, Days) + unlogged + Cardinality(At("insert")) = redirects
  /\ Total(clicks, Days) + unbumped + Cardinality(At("insert")) + Cardinality(At("bump")) = redirects

\* Until something goes wrong, the events are ahead of the totals by today's goroutines
\* between their statements.
EventsAreAhead ==
  unlogged = 0 /\ unbumped = 0 /\ ~straddled =>
    \A d \in Days : events[d] = clicks[d] + IF d = today THEN Cardinality(At("bump")) ELSE 0

\* A dashboard waits for nothing unless it is loading.
DashWaits ==
  /\ Loading => dash.daily # "none" /\ dash.list # "none"
  /\ ~Loading => dash.daily \in {"none", "done"} /\ dash.list \in {"none", "done"}

\* What an undisturbed dashboard has read so far is what is there.
DailyRows ==
  [d \in Days |->
     IF d \in LastDays(2 * Week, today) THEN Total([c \in MyCarts |-> views[c][d]], MyCarts) ELSE 0]
DailySeries == [i \in 1 .. 2 * Week |-> IF Skeleton[i] \in Days THEN DailyRows[Skeleton[i]] ELSE 0]
WeeklyViews == [c \in MyCarts |-> Total(views[c], LastDays(Week, today))]

DashIsRead ==
  Loading /\ ~disturbed =>
    /\ dash.daily \in {"rows", "done"} => dash.rows = DailyRows
    /\ dash.daily = "done" => dash.series = DailySeries
    /\ dash.list = "done" => dash.weekly = WeeklyViews

ClickInv ==
  ClickTypes /\ ClicksAreSomewhere /\ EventsAreAhead /\ DashWaits /\ DashIsRead /\ HeadlineIsTheCarts
-----------------------------------------------------------------------------
\* The days are numbers, finitely many, and so are the days of a window.
LEMMA DayFacts ==
  /\ IsFiniteSet(Days) /\ Days \subseteq Nat /\ 0 \in Days
  /\ \A length \in Nat, day \in Days : IsFiniteSet(LastDays(length, day)) /\ LastDays(length, day) \subseteq Days
  /\ LastDay \in Nat /\ Week \in Nat /\ Week > 0
<1>1. LastDay \in Nat /\ Week \in Nat /\ Week > 0
  BY ClickAssumption
<1>2. IsFiniteSet(Days)
  BY <1>1, FS_Interval DEF Days
<1>3. Days \subseteq Nat /\ 0 \in Days
  BY <1>1 DEF Days
<1>4. \A length \in Nat, day \in Days : LastDays(length, day) \in SUBSET Days
  BY DEF LastDays
<1> QED
  BY <1>1, <1>2, <1>3, <1>4, FS_Subset

\* Counts add up to a count over any days.
LEMMA SumOfCounts ==
  ASSUME NEW numbers \in Counts01, NEW over \in SUBSET Days
  PROVE  Total(numbers, over) \in Nat
<1>1. IsFiniteSet(over) /\ \A d \in over : numbers[d] \in Nat
  BY DayFacts, FS_Subset DEF Counts01
<1> QED
  BY <1>1, SumIsNatural

\* What the dashboard reads and computes are counts.
LEMMA NumbersOfTheDashboard ==
  ASSUME ClickTypes
  PROVE  DailyRows \in Counts01 /\ DailySeries \in [1 .. 2 * Week -> Nat] /\ WeeklyViews \in [MyCarts -> Nat]
<1>1. ASSUME NEW d \in Days PROVE Total([c \in MyCarts |-> views[c][d]], MyCarts) \in Nat
  <2> DEFINE column == [c \in MyCarts |-> views[c][d]]
  <2>1. \A c \in MyCarts : column[c] \in Nat
    BY DEF ClickTypes, Counts01
  <2> HIDE DEF column
  <2>2. Total(column, MyCarts) \in Nat
    BY <2>1, ClickAssumption, SumIsNatural
  <2> QED
    BY <2>2 DEF column
<1>2. DailyRows \in Counts01
  BY <1>1 DEF DailyRows, Counts01
<1>3. \A i \in 1 .. 2 * Week : Skeleton[i] \in Days => DailyRows[Skeleton[i]] \in Nat
  BY <1>2 DEF Counts01
<1>4. DailySeries \in [1 .. 2 * Week -> Nat]
  BY <1>3 DEF DailySeries
<1>5. ASSUME NEW c \in MyCarts PROVE Total(views[c], LastDays(Week, today)) \in Nat
  <2>1. views[c] \in Counts01 /\ LastDays(Week, today) \in SUBSET Days
    BY DayFacts DEF ClickTypes
  <2> QED
    BY <2>1, SumOfCounts
<1>6. WeeklyViews \in [MyCarts -> Nat]
  BY <1>5 DEF WeeklyViews
<1> QED
  BY <1>2, <1>4, <1>6

\* A goroutine leaves one statement for another.
LEMMA AtFacts ==
  ASSUME ClickTypes
  PROVE  \A pc : IsFiniteSet(At(pc)) /\ Cardinality(At(pc)) \in Nat
<1> TAKE pc
<1>1. At(pc) \in SUBSET Logs
  BY DEF At
<1>2. IsFiniteSet(At(pc))
  BY <1>1, ClickAssumption, FS_Subset
<1> QED
  BY <1>2, FS_CardinalityType

NowAt(pc) == {g \in Logs : log'[g] = pc}

\* One goroutine goes on to its next statement.
LEMMA Moves ==
  ASSUME ClickTypes, NEW g \in Logs, NEW pc, NEW from, log[g] = from, log'[g] = pc,
         \A h \in Logs : h # g => log'[h] = log[h], pc # from
  PROVE  /\ \A other : other \notin {pc, from} => NowAt(other) = At(other)
         /\ Cardinality(NowAt(pc)) = Cardinality(At(pc)) + 1
         /\ Cardinality(NowAt(from)) + 1 = Cardinality(At(from))
<1>1. log'[g] = pc /\ (\A h \in Logs : h # g => log'[h] = log[h])
  OBVIOUS
<1>3. \A other : other \notin {pc, from} => NowAt(other) = At(other)
  <2> TAKE other
  <2> HAVE other \notin {pc, from}
  <2>1. \A h \in Logs : log'[h] = other <=> log[h] = other
    BY <1>1
  <2> QED
    BY <2>1 DEF At, NowAt
<1>4. NowAt(pc) = At(pc) \cup {g} /\ g \notin At(pc)
  BY <1>1 DEF At, NowAt
<1>5. NowAt(from) = At(from) \ {g} /\ g \in At(from)
  BY <1>1 DEF At, NowAt
<1>6. Cardinality(At(pc) \cup {g}) = Cardinality(At(pc)) + 1
  BY <1>4, AtFacts, FS_AddElement
<1>7. Cardinality(At(from) \ {g}) = Cardinality(At(from)) - 1 /\ Cardinality(At(from)) \in Nat
  BY <1>5, AtFacts, FS_RemoveElement
<1> QED
  BY <1>3, <1>4, <1>5, <1>6, <1>7

\* The goroutines at a statement after the step.
LEMMA NowAtIsAt == NowAt("insert") = At("insert")' /\ NowAt("bump") = At("bump")'
BY DEF At, NowAt

\* No click, no visit and no dashboard yet.
LEMMA ClickInvInitially == ClicksInit => ClickInv
<1> SUFFICES ASSUME ClicksInit PROVE ClickInv
  OBVIOUS
<1>1. /\ today = 0 /\ archived = {} /\ views = [c \in MyCarts |-> NoDays] /\ clicks = NoDays /\ events = NoDays
      /\ log = [g \in Logs |-> "idle"] /\ unlogged = 0 /\ unbumped = 0 /\ straddled = FALSE /\ redirects = 0
      /\ dash = NoDash /\ disturbed = FALSE
  BY DEF ClicksInit
<1>2. NoDays \in Counts01 /\ \A d \in Days : NoDays[d] = 0
  BY DEF NoDays, Counts01
<1>3. NoDash \in Dashes /\ NoDash.pc = "away" /\ NoDash.daily = "none" /\ NoDash.list = "none"
  BY <1>2 DEF NoDash, Dashes
<1>4. log \in [Logs -> {"idle", "insert", "bump"}] /\ views \in [MyCarts -> Counts01]
  BY <1>1, <1>2
<1>5. ClickTypes
  BY <1>1, <1>2, <1>3, <1>4, DayFacts DEF ClickTypes
<1>6. At("insert") = {} /\ At("bump") = {}
  BY <1>1 DEF At
<1>7. Cardinality(At("insert")) = 0 /\ Cardinality(At("bump")) = 0
  BY <1>6, FS_EmptySet
<1>8. Total(NoDays, Days) = 0
  BY <1>2, DayFacts, SumOfZeros
<1>9. ClicksAreSomewhere
  BY <1>1, <1>7, <1>8 DEF ClicksAreSomewhere
<1>10. EventsAreAhead
  BY <1>1, <1>2, <1>7 DEF EventsAreAhead
<1>11. DashWaits /\ DashIsRead /\ HeadlineIsTheCarts
  BY <1>1, <1>3 DEF DashWaits, DashIsRead, HeadlineIsTheCarts, Loading
<1> QED
  BY <1>5, <1>9, <1>10, <1>11 DEF ClickInv

\* A click goes on: the dashboard does not notice.
LEMMA DashboardStays ==
  ASSUME ClickInv, UNCHANGED dash, disturbed => disturbed',
         Loading /\ ~disturbed' => UNCHANGED <<today, views>>
  PROVE  DashWaits' /\ DashIsRead' /\ HeadlineIsTheCarts'
<1>1. dash' = dash /\ (Loading' <=> Loading)
  BY DEF Loading
<1>2. DashWaits'
  BY <1>1 DEF ClickInv, DashWaits
<1>3. DashIsRead'
  <2> SUFFICES ASSUME Loading', ~disturbed' PROVE DashIsRead'
    BY DEF DashIsRead
  <2>1. Loading /\ ~disturbed /\ today' = today /\ views' = views
    BY <1>1
  <2>2. DailyRows' = DailyRows /\ WeeklyViews' = WeeklyViews
    BY <2>1 DEF DailyRows, WeeklyViews, LastDays
  <2>3. DailySeries' = DailySeries
    BY <2>1, <2>2 DEF DailySeries, Skeleton
  <2> QED
    BY <1>1, <2>1, <2>2, <2>3 DEF ClickInv, DashIsRead
<1>4. HeadlineIsTheCarts'
  BY <1>1 DEF ClickInv, HeadlineIsTheCarts, ViewsThisWeek, ViewsPrevWeek, TopCarts, DeltaChip
<1> QED
  BY <1>2, <1>3, <1>4

\* A click is answered, and logged later if it counts.
LEMMA ClickStarts ==
  ASSUME ClickInv, NEW g \in Logs, NEW mine \in BOOLEAN, Click(g, mine)
  PROVE  ClickInv'
<1> USE DEF ClickInv
<1>1. /\ log[g] = "idle" /\ log' = (IF ~mine THEN [log EXCEPT ![g] = "insert"] ELSE log)
      /\ redirects' = IF mine THEN redirects ELSE redirects + 1
      /\ UNCHANGED <<today, archived, views, clicks, events, unlogged, unbumped, straddled, dash, disturbed>>
  BY DEF Click, Counts
<1>2. ClickTypes'
  <2>1. redirects' \in Nat
    BY <1>1 DEF ClickTypes
  <2>2. log' \in [Logs -> {"idle", "insert", "bump"}]
    BY <1>1 DEF ClickTypes
  <2> QED
    BY <1>1, <2>1, <2>2 DEF ClickTypes
<1>3. DashWaits' /\ DashIsRead' /\ HeadlineIsTheCarts'
  BY <1>1, DashboardStays
<1>4. Cardinality(At("insert")) \in Nat /\ Cardinality(At("bump")) \in Nat
  BY AtFacts
<1>5. /\ Total(events, Days) \in Nat /\ Total(clicks, Days) \in Nat
      /\ unlogged \in Nat /\ unbumped \in Nat /\ redirects \in Nat
  BY SumOfCounts DEF ClickTypes
<1>6. CASE mine
  <2>1. redirects' = redirects /\ log' = log
    BY <1>1, <1>6
  <2>2. \A pc : At(pc)' = At(pc)
    BY <2>1 DEF At
  <2>3. ClicksAreSomewhere' /\ EventsAreAhead'
    BY <1>1, <2>1, <2>2 DEF ClicksAreSomewhere, EventsAreAhead
  <2> QED
    BY <1>2, <1>3, <2>3
<1>7. CASE ~mine
  <2>1. redirects' = redirects + 1 /\ log' = [log EXCEPT ![g] = "insert"]
    BY <1>1, <1>7
  <2>2. At("bump")' = At("bump") /\ Cardinality(At("insert")') = Cardinality(At("insert")) + 1
    <3>0. log'[g] = "insert" /\ log[g] = "idle" /\ \A h \in Logs : h # g => log'[h] = log[h]
      BY <1>1, <2>1 DEF ClickTypes
    <3>1. NowAt("bump") = At("bump") /\ Cardinality(NowAt("insert")) = Cardinality(At("insert")) + 1
      BY <3>0, Moves
    <3> QED
      BY <3>1, NowAtIsAt
  <2>3. ClicksAreSomewhere'
    BY <1>1, <1>4, <1>5, <2>1, <2>2 DEF ClicksAreSomewhere
  <2>4. EventsAreAhead'
    BY <1>1, <2>2 DEF EventsAreAhead
  <2> QED
    BY <1>2, <1>3, <2>3, <2>4
<1> QED
  BY <1>6, <1>7

\* A statement of the click goroutine counts the click or loses it.
LEMMA ClickStatements ==
  ASSUME ClickInv, NEW g \in Logs, NEW ok \in BOOLEAN, InsertClickEvent(g, ok) \/ BumpClickDaily(g, ok)
  PROVE  ClickInv'
<1> USE DEF ClickInv
<1>1. /\ Cardinality(At("insert")) \in Nat /\ Cardinality(At("bump")) \in Nat
      /\ Cardinality(At("insert")') \in Nat /\ Cardinality(At("bump")') \in Nat
  <2>1. log' \in [Logs -> {"idle", "insert", "bump"}]
    BY DEF ClickTypes, InsertClickEvent, BumpClickDaily
  <2>2. \A pc : At(pc)' \in SUBSET Logs
    BY DEF At
  <2> QED
    BY <2>2, AtFacts, FS_Subset, FS_CardinalityType, ClickAssumption
<1>2. /\ Total(events, Days) \in Nat /\ Total(clicks, Days) \in Nat
      /\ unlogged \in Nat /\ unbumped \in Nat /\ redirects \in Nat /\ today \in Days
      /\ events \in Counts01 /\ clicks \in Counts01
  BY SumOfCounts DEF ClickTypes
<1> DEFINE More(f) == [f EXCEPT ![today] = f[today] + 1]
<1>3. ASSUME NEW f \in Counts01
      PROVE  /\ More(f) \in Counts01 /\ More(f)[today] = f[today] + 1 /\ f[today] \in Nat
             /\ \A d \in Days : d # today => More(f)[d] = f[d]
             /\ Total(More(f), Days) = Total(f, Days) + 1
  <2>1. /\ More(f) \in Counts01 /\ More(f)[today] = f[today] + 1 /\ f[today] \in Nat
        /\ \A d \in Days : d # today => More(f)[d] = f[d]
        /\ \A d \in Days : f[d] \in Nat
    BY <1>2 DEF Counts01
  <2> DEFINE m == More(f)
  <2>2. /\ IsFiniteSet(Days) /\ today \in Days /\ m[today] = f[today] + 1
        /\ \A d \in Days : f[d] \in Nat /\ (today # d => m[d] = f[d])
    BY <1>2, <2>1, DayFacts
  <2> HIDE DEF m
  <2>3. Total(m, Days) = Total(f, Days) + 1
    BY <2>2, SumCountsOneMore
  <2> QED
    BY <2>1, <2>3 DEF m
<1> HIDE DEF More
<1>4. CASE InsertClickEvent(g, ok)
  <2>1. /\ log[g] = "insert" /\ log' = [log EXCEPT ![g] = "bump"]
        /\ UNCHANGED <<today, archived, views, clicks, unbumped, straddled, redirects, dash, disturbed>>
    BY <1>4 DEF InsertClickEvent
  <2>2. /\ Cardinality(At("bump")') = Cardinality(At("bump")) + 1
        /\ Cardinality(At("insert")') + 1 = Cardinality(At("insert"))
    <3>0. log'[g] = "bump" /\ log[g] = "insert" /\ \A h \in Logs : h # g => log'[h] = log[h]
      BY <2>1 DEF ClickTypes
    <3>1. /\ Cardinality(NowAt("bump")) = Cardinality(At("bump")) + 1
          /\ Cardinality(NowAt("insert")) + 1 = Cardinality(At("insert"))
      BY <3>0, Moves
    <3> QED
      BY <3>1, NowAtIsAt
  <2>3. DashWaits' /\ DashIsRead' /\ HeadlineIsTheCarts'
    BY <2>1, DashboardStays
  <2>4. log' \in [Logs -> {"idle", "insert", "bump"}]
    BY <2>1 DEF ClickTypes
  <2>5. CASE ok
    <3>1. events' = More(events) /\ unlogged' = unlogged
      BY <1>4, <2>5 DEF InsertClickEvent, More
    <3>2. ClickTypes'
      BY <1>2, <1>3, <2>1, <2>4, <3>1 DEF ClickTypes
    <3>3. Total(events', Days) = Total(events, Days) + 1
      BY <1>2, <1>3, <3>1
    <3>4. ClicksAreSomewhere'
      BY <1>1, <1>2, <2>1, <2>2, <3>1, <3>3 DEF ClicksAreSomewhere
    <3>5. EventsAreAhead'
      <4> SUFFICES ASSUME unlogged' = 0, unbumped' = 0, ~straddled', NEW d \in Days
                   PROVE  events'[d] = clicks'[d] + IF d = today' THEN Cardinality(At("bump")') ELSE 0
        BY DEF EventsAreAhead
      <4>1. events[d] = clicks[d] + IF d = today THEN Cardinality(At("bump")) ELSE 0
        BY <2>1, <3>1 DEF EventsAreAhead
      <4>2. events[d] \in Nat /\ clicks[d] \in Nat /\ clicks' = clicks /\ today' = today
        BY <1>2, <2>1 DEF Counts01
      <4>3. CASE d = today
        <5>1. events'[d] = events[d] + 1
          BY <1>2, <1>3, <3>1, <4>3
        <5> QED
          BY <1>1, <2>2, <4>1, <4>2, <4>3, <5>1
      <4>4. CASE d # today
        <5>1. events'[d] = events[d]
          BY <1>2, <1>3, <3>1, <4>4
        <5> QED
          BY <4>1, <4>2, <4>4, <5>1
      <4> QED
        BY <4>3, <4>4
    <3> QED
      BY <2>3, <3>2, <3>4, <3>5
  <2>6. CASE ~ok
    <3>1. events' = events /\ unlogged' = unlogged + 1
      BY <1>4, <2>6 DEF InsertClickEvent
    <3>2. ClickTypes'
      BY <1>2, <2>1, <2>4, <3>1 DEF ClickTypes
    <3>3. ClicksAreSomewhere'
      BY <1>1, <1>2, <2>1, <2>2, <3>1 DEF ClicksAreSomewhere
    <3>4. EventsAreAhead'
      BY <1>2, <3>1 DEF EventsAreAhead
    <3> QED
      BY <2>3, <3>2, <3>3, <3>4
  <2> QED
    BY <2>5, <2>6
<1>5. CASE BumpClickDaily(g, ok)
  <2>1. /\ log[g] = "bump" /\ log' = [log EXCEPT ![g] = "idle"]
        /\ UNCHANGED <<today, archived, views, events, unlogged, straddled, redirects, dash, disturbed>>
    BY <1>5 DEF BumpClickDaily
  <2>2. At("insert")' = At("insert") /\ Cardinality(At("bump")') + 1 = Cardinality(At("bump"))
    <3>0. log'[g] = "idle" /\ log[g] = "bump" /\ \A h \in Logs : h # g => log'[h] = log[h]
      BY <2>1 DEF ClickTypes
    <3>1. NowAt("insert") = At("insert") /\ Cardinality(NowAt("bump")) + 1 = Cardinality(At("bump"))
      BY <3>0, Moves
    <3> QED
      BY <3>1, NowAtIsAt
  <2>3. DashWaits' /\ DashIsRead' /\ HeadlineIsTheCarts'
    BY <2>1, DashboardStays
  <2>4. log' \in [Logs -> {"idle", "insert", "bump"}]
    BY <2>1 DEF ClickTypes
  <2>5. CASE ok
    <3>1. clicks' = More(clicks) /\ unbumped' = unbumped
      BY <1>5, <2>5 DEF BumpClickDaily, More
    <3>2. ClickTypes'
      BY <1>2, <1>3, <2>1, <2>4, <3>1 DEF ClickTypes
    <3>3. Total(clicks', Days) = Total(clicks, Days) + 1
      BY <1>2, <1>3, <3>1
    <3>4. ClicksAreSomewhere'
      BY <1>1, <1>2, <2>1, <2>2, <3>1, <3>3 DEF ClicksAreSomewhere
    <3>5. EventsAreAhead'
      <4> SUFFICES ASSUME unlogged' = 0, unbumped' = 0, ~straddled', NEW d \in Days
                   PROVE  events'[d] = clicks'[d] + IF d = today' THEN Cardinality(At("bump")') ELSE 0
        BY DEF EventsAreAhead
      <4>1. events[d] = clicks[d] + IF d = today THEN Cardinality(At("bump")) ELSE 0
        BY <2>1, <3>1 DEF EventsAreAhead
      <4>2. events[d] \in Nat /\ clicks[d] \in Nat /\ events' = events /\ today' = today
        BY <1>2, <2>1 DEF Counts01
      <4>3. CASE d = today
        <5>1. clicks'[d] = clicks[d] + 1
          BY <1>2, <1>3, <3>1, <4>3
        <5> QED
          BY <1>1, <2>2, <4>1, <4>2, <4>3, <5>1
      <4>4. CASE d # today
        <5>1. clicks'[d] = clicks[d]
          BY <1>2, <1>3, <3>1, <4>4
        <5> QED
          BY <4>1, <4>2, <4>4, <5>1
      <4> QED
        BY <4>3, <4>4
    <3> QED
      BY <2>3, <3>2, <3>4, <3>5
  <2>6. CASE ~ok
    <3>1. clicks' = clicks /\ unbumped' = unbumped + 1
      BY <1>5, <2>6 DEF BumpClickDaily
    <3>2. ClickTypes'
      BY <1>2, <2>1, <2>4, <3>1 DEF ClickTypes
    <3>3. ClicksAreSomewhere'
      BY <1>1, <1>2, <2>1, <2>2, <3>1 DEF ClicksAreSomewhere
    <3>4. EventsAreAhead'
      BY <1>2, <3>1 DEF EventsAreAhead
    <3> QED
      BY <2>3, <3>2, <3>3, <3>4
  <2> QED
    BY <2>5, <2>6
<1> QED
  BY <1>4, <1>5

\* A crash loses the clicks under way.
LEMMA CrashInv ==
  ASSUME ClickInv, Crash
  PROVE  ClickInv'
<1> USE DEF ClickInv
<1>1. /\ (\E g \in Logs : log[g] # "idle") /\ log' = [g \in Logs |-> "idle"]
      /\ unlogged' = unlogged + Cardinality(At("insert"))
      /\ unbumped' = unbumped + Cardinality(At("insert")) + Cardinality(At("bump"))
      /\ UNCHANGED <<today, archived, views, clicks, events, straddled, redirects, dash, disturbed>>
  BY DEF Crash, At
<1>2. Cardinality(At("insert")) \in Nat /\ Cardinality(At("bump")) \in Nat
  BY AtFacts
<1>3. /\ Total(events, Days) \in Nat /\ Total(clicks, Days) \in Nat
      /\ unlogged \in Nat /\ unbumped \in Nat /\ redirects \in Nat
  BY SumOfCounts DEF ClickTypes
<1>4. Cardinality(At("insert")') = 0 /\ Cardinality(At("bump")') = 0
  <2>1. At("insert")' = {} /\ At("bump")' = {}
    BY <1>1 DEF At
  <2> QED
    BY <2>1, FS_EmptySet
<1>5. ClickTypes'
  <2>1. log' \in [Logs -> {"idle", "insert", "bump"}]
    BY <1>1
  <2>2. unlogged' \in Nat /\ unbumped' \in Nat
    BY <1>1, <1>2, <1>3
  <2> QED
    BY <1>1, <2>1, <2>2 DEF ClickTypes
<1>6. ClicksAreSomewhere'
  BY <1>1, <1>2, <1>3, <1>4 DEF ClicksAreSomewhere
<1>7. EventsAreAhead'
  <2>1. PICK g \in Logs : log[g] \in {"insert", "bump"}
    BY <1>1 DEF ClickTypes
  <2>2. At("insert") # {} \/ At("bump") # {}
    BY <2>1 DEF At
  <2>3. Cardinality(At("insert")) # 0 \/ Cardinality(At("bump")) # 0
    BY <2>2, AtFacts, FS_EmptySet
  <2>4. unbumped' # 0
    BY <1>1, <1>2, <1>3, <2>3
  <2> QED
    BY <2>4 DEF EventsAreAhead
<1>8. DashWaits' /\ DashIsRead' /\ HeadlineIsTheCarts'
  BY <1>1, DashboardStays
<1> QED
  BY <1>5, <1>6, <1>7, <1>8

\* Midnight, a visit or an archived cart disturbs a dashboard that is loading.
LEMMA VisitsInv ==
  ASSUME ClickInv, Midnight \/ \E c \in MyCarts : View(c) \/ ArchiveCart(c)
  PROVE  ClickInv'
<1> USE DEF ClickInv
<1>1. /\ disturbed' = (disturbed \/ Loading) /\ dash' = dash
      /\ UNCHANGED <<clicks, events, log, unlogged, unbumped, redirects>>
  BY DEF Midnight, View, ArchiveCart, logVars
<1>2. DashWaits' /\ DashIsRead' /\ HeadlineIsTheCarts'
  BY <1>1, DashboardStays
<1>3. \A pc : At(pc)' = At(pc)
  BY <1>1 DEF At
<1>4. ClicksAreSomewhere'
  BY <1>1, <1>3 DEF ClicksAreSomewhere
<1>5. disturbed' \in BOOLEAN
  BY <1>1
<1>6. CASE Midnight
  <2>1. /\ today < LastDay /\ today' = today + 1 /\ UNCHANGED <<archived, views>>
        /\ straddled' = (straddled \/ \E g \in Logs : log[g] = "bump")
    BY <1>6 DEF Midnight
  <2>2. today' \in Days /\ straddled' \in BOOLEAN
    BY <2>1, DayFacts DEF ClickTypes, Days
  <2>3. ClickTypes'
    BY <1>1, <1>5, <2>1, <2>2 DEF ClickTypes
  <2>4. EventsAreAhead'
    <3> SUFFICES ASSUME unlogged' = 0, unbumped' = 0, ~straddled', NEW d \in Days
                 PROVE  events'[d] = clicks'[d] + IF d = today' THEN Cardinality(At("bump")') ELSE 0
      BY DEF EventsAreAhead
    <3>1. At("bump") = {} /\ ~straddled
      BY <2>1 DEF At
    <3>2. Cardinality(At("bump")) = 0
      BY <3>1, FS_EmptySet
    <3>3. events[d] = clicks[d] + IF d = today THEN Cardinality(At("bump")) ELSE 0
      BY <1>1, <3>1 DEF EventsAreAhead
    <3> QED
      BY <1>1, <1>3, <3>2, <3>3
  <2> QED
    BY <1>2, <1>4, <2>3, <2>4
<1>7. ASSUME NEW c \in MyCarts, View(c) \/ ArchiveCart(c) PROVE ClickInv'
  <2>1. today' = today /\ straddled' = straddled /\ archived' \subseteq MyCarts
    BY <1>7 DEF View, ArchiveCart, logVars, ClickTypes
  <2>2. views' \in [MyCarts -> Counts01]
    <3>1. CASE View(c)
      <4> DEFINE n == [views[c] EXCEPT ![today] = views[c][today] + 1]
      <4>1. views' = [views EXCEPT ![c] = n]
        BY <3>1 DEF View, ClickTypes
      <4>2. n \in Counts01
        BY DEF ClickTypes, Counts01
      <4> HIDE DEF n
      <4> QED
        BY <4>1, <4>2 DEF ClickTypes
    <3>2. CASE ArchiveCart(c)
      BY <3>2 DEF ArchiveCart, ClickTypes
    <3> QED
      BY <1>7, <3>1, <3>2
  <2>3. ClickTypes'
    BY <1>1, <1>5, <2>1, <2>2 DEF ClickTypes
  <2>4. EventsAreAhead'
    BY <1>1, <1>3, <2>1 DEF EventsAreAhead
  <2> QED
    BY <1>2, <1>4, <2>3, <2>4
<1> QED
  BY <1>6, <1>7

-----------------------------------------------------------------------------
\* Positions of the series, which are days.
Positions(a, b) == {i \in 1 .. 2 * Week : a < i /\ i <= b}
DaysAt(a, b) == {d \in Days : today - 2 * Week + a < d /\ d <= today - 2 * Week + b}

\* A slice of the series is the sum over its days.
LEMMA SliceOfDays ==
  ASSUME ClickTypes, NEW a \in 0 .. 2 * Week, NEW b \in 0 .. 2 * Week
  PROVE  Total(DailySeries, Positions(a, b)) = Total(DailyRows, DaysAt(a, b))
<1> DEFINE P == Positions(a, b)
           Q == {i \in P : Skeleton[i] \in Days}
           D == DaysAt(a, b)
           h == [i \in Q |-> today - 2 * Week + i]
<1>1. /\ DailyRows \in Counts01 /\ DailySeries \in [1 .. 2 * Week -> Nat]
      /\ today \in Nat /\ Week \in Nat /\ Days \subseteq Nat
  BY NumbersOfTheDashboard, DayFacts DEF ClickTypes
<1>2. \A i \in P : i \in 1 .. 2 * Week /\ i \in Nat /\ a < i /\ i <= b /\ Skeleton[i] = today - 2 * Week + i
  BY <1>1 DEF Positions, Skeleton
<1>3. IsFiniteSet(P) /\ Q \in SUBSET P
  <2>1. IsFiniteSet(1 .. 2 * Week)
    BY <1>1, FS_Interval
  <2>2. P \in SUBSET (1 .. 2 * Week)
    BY DEF Positions
  <2> QED
    BY <2>1, <2>2, FS_Subset
<1>4. \A i \in P : DailySeries[i] = IF Skeleton[i] \in Days THEN DailyRows[Skeleton[i]] ELSE 0
  BY <1>2 DEF DailySeries
<1>5. Total(DailySeries, P) = Total(DailySeries, Q)
  <2>1. \A i \in P : DailySeries[i] \in Nat
    BY <1>1, <1>2
  <2>2. \A i \in P \ Q : DailySeries[i] = 0
    BY <1>4
  <2> HIDE DEF P, Q
  <2> QED
    BY <1>3, <2>1, <2>2, SumWithoutZeros
<1>6. h \in Bijection(Q, D)
  <2>1. ASSUME NEW i \in Q PROVE h[i] \in D
    <3>1. i \in P /\ Skeleton[i] \in Days /\ h[i] = Skeleton[i]
      BY <1>2
    <3> QED
      BY <1>1, <1>2, <3>1 DEF DaysAt
  <2>2. \A i, j \in Q : h[i] = h[j] => i = j
    BY <1>1, <1>2
  <2>3. ASSUME NEW d \in D PROVE \E i \in Q : h[i] = d
    <3> DEFINE i == d - today + 2 * Week
    <3>1. d \in Days /\ d \in Nat /\ today - 2 * Week + a < d /\ d <= today - 2 * Week + b
      BY <1>1 DEF DaysAt
    <3>2. i \in 1 .. 2 * Week /\ a < i /\ i <= b /\ today - 2 * Week + i = d
      BY <1>1, <3>1
    <3> HIDE DEF i
    <3>3. i \in P
      BY <3>2 DEF Positions
    <3>4. Skeleton[i] = d
      BY <1>2, <3>2, <3>3
    <3> QED
      BY <3>1, <3>2, <3>3, <3>4
  <2>4. h \in [Q -> D]
    BY <2>1
  <2> HIDE DEF h, Q, D
  <2> QED
    BY <2>2, <2>3, <2>4 DEF Bijection, Injection, Surjection, IsInjective
<1>7. \A i \in Q : DailySeries[i] \in Nat /\ DailyRows[h[i]] = DailySeries[i]
  BY <1>1, <1>2, <1>4
<1>8. IsFiniteSet(Q)
  BY <1>3, FS_Subset
<1> HIDE DEF P, Q, D, h
<1>9. Total(DailyRows, D) = Total(DailySeries, Q)
  BY <1>6, <1>7, <1>8, SumMoved
<1> QED
  BY <1>5, <1>9 DEF P, D

\* The dashboard's numbers are those of the carts and of the days.
LEMMA DashboardAddsUp ==
  ASSUME ClickTypes, dash.series = DailySeries, dash.rows = DailyRows, dash.weekly = WeeklyViews
  PROVE  /\ ViewsThisWeek \in Nat /\ ViewsPrevWeek \in Nat
         /\ ViewsThisWeek = Total(dash.weekly, MyCarts)
         /\ ViewsThisWeek + ViewsPrevWeek = Total(dash.rows, Days)
<1> DEFINE D1 == DaysAt(Week, 2 * Week)
           D0 == DaysAt(0, Week)
           D2 == LastDays(2 * Week, today)
<1>1. today \in Days /\ today \in Nat /\ Week \in Nat /\ Days \subseteq Nat /\ IsFiniteSet(Days)
  BY DayFacts DEF ClickTypes
<1>2. /\ DailyRows \in Counts01 /\ DailySeries \in [1 .. 2 * Week -> Nat]
      /\ WeeklyViews \in [MyCarts -> Nat]
  BY NumbersOfTheDashboard
<1>3. Len(DailySeries) = 2 * Week /\ DOMAIN DailySeries = 1 .. 2 * Week
  BY <1>1 DEF DailySeries
<1>4. Slice(DailySeries, Week, 0) = Positions(Week, 2 * Week) /\ Slice(DailySeries, 2 * Week, Week) = Positions(0, Week)
  <2>1. \A i \in 1 .. 2 * Week : /\ 2 * Week - Week < i /\ i <= 2 * Week - 0 <=> Week < i /\ i <= 2 * Week
                                 /\ 2 * Week - 2 * Week < i /\ i <= 2 * Week - Week <=> 0 < i /\ i <= Week
    BY <1>1
  <2> QED
    BY <1>3, <2>1 DEF Slice, Positions
<1>5. Week \in 0 .. 2 * Week /\ 2 * Week \in 0 .. 2 * Week /\ 0 \in 0 .. 2 * Week
  BY <1>1
<1>6. ViewsThisWeek = Total(DailyRows, D1) /\ ViewsPrevWeek = Total(DailyRows, D0)
  <2>1. Total(DailySeries, Positions(Week, 2 * Week)) = Total(DailyRows, D1)
    BY <1>5, SliceOfDays
  <2>2. Total(DailySeries, Positions(0, Week)) = Total(DailyRows, D0)
    BY <1>5, SliceOfDays
  <2> QED
    BY <1>4, <2>1, <2>2 DEF ViewsThisWeek, ViewsPrevWeek
<1>7. D1 = LastDays(Week, today) /\ D1 \in SUBSET D2 /\ D2 \in SUBSET Days /\ D0 = D2 \ D1
  <2>1. D1 = LastDays(Week, today)
    BY <1>1 DEF DaysAt, LastDays
  <2>2. D1 \in SUBSET D2
    <3>1. \A d \in Days : today - 2 * Week + Week < d => today - 2 * Week < d
      BY <1>1
    <3>2. \A d \in Days : d <= today - 2 * Week + 2 * Week => d <= today
      BY <1>1
    <3> QED
      BY <3>1, <3>2 DEF DaysAt, LastDays
  <2>3. D2 \in SUBSET Days
    BY DEF LastDays
  <2>4. D0 = D2 \ D1
    <3>1. \A d \in Days : /\ today - 2 * Week + 0 < d <=> today - 2 * Week < d
                          /\ today - 2 * Week + Week < d <=> ~(d <= today - 2 * Week + Week)
                          /\ d <= today - 2 * Week + 2 * Week <=> d <= today
                          /\ d <= today - 2 * Week + Week => d <= today
      BY <1>1
    <3> QED
      BY <3>1 DEF DaysAt, LastDays
  <2> QED
    BY <2>1, <2>2, <2>3, <2>4
<1>8. \A d \in Days : DailyRows[d] = IF d \in D2 THEN Total([c \in MyCarts |-> views[c][d]], MyCarts) ELSE 0
  BY DEF DailyRows
<1>9. \A d \in Days : DailyRows[d] \in Nat
  BY <1>2 DEF Counts01
<1>10. IsFiniteSet(D1) /\ IsFiniteSet(D2) /\ IsFiniteSet(D0) /\ D1 \in SUBSET Days /\ D0 \in SUBSET Days
  <2>1. D1 \in SUBSET Days /\ D0 \in SUBSET Days /\ D2 \in SUBSET Days
    BY <1>7
  <2> HIDE DEF D0, D1, D2
  <2> QED
    BY <1>1, <2>1, FS_Subset
<1> HIDE DEF D0, D1, D2
<1>11. Total(DailyRows, D1) \in Nat /\ Total(DailyRows, D0) \in Nat
  BY <1>2, <1>10, SumOfCounts
<1>12. Total(DailyRows, Days) = Total(DailyRows, D1) + Total(DailyRows, D0)
  <2>1. Total(DailyRows, Days) = Total(DailyRows, D2)
    BY <1>1, <1>7, <1>8, <1>9, SumWithoutZeros
  <2>2. \A d \in D2 : DailyRows[d] \in Nat
    BY <1>7, <1>9
  <2>3. Total(DailyRows, D2) = Total(DailyRows, D1) + Total(DailyRows, D2 \ D1)
    BY <1>7, <1>10, <2>2, SumOfParts
  <2> QED
    BY <1>7, <2>1, <2>3
<1>13. Total(DailyRows, D1) = Total(WeeklyViews, MyCarts)
  <2>1. \A c \in MyCarts : \A d \in D1 : views[c][d] \in Nat
    BY <1>10 DEF ClickTypes, Counts01
  <2>2. \A c \in MyCarts : WeeklyViews[c] = Total(views[c], D1)
    BY <1>7 DEF WeeklyViews
  <2>3. \A d \in D1 : DailyRows[d] = Total([c \in MyCarts |-> views[c][d]], MyCarts)
    BY <1>7, <1>8
  <2>4. IsFiniteSet(MyCarts) /\ IsFiniteSet(D1)
    BY <1>10, ClickAssumption
  <2> DEFINE column == [d \in D1 |-> [c \in MyCarts |-> views[c][d]]]
  <2>5. \A d \in D1 : column[d] = [c \in MyCarts |-> views[c][d]]
    OBVIOUS
  <2>6. \A d \in D1 : \A c \in MyCarts : column[d][c] = views[c][d]
    BY <2>5
  <2>7. \A d \in D1 : DailyRows[d] = Total(column[d], MyCarts)
    BY <2>3, <2>5
  <2> DEFINE daily == DailyRows
             weekly == WeeklyViews
  <2>8. /\ \A c \in MyCarts : weekly[c] = Total(views[c], D1)
        /\ \A d \in D1 : daily[d] = Total(column[d], MyCarts)
    BY <2>2, <2>7
  <2> HIDE DEF column, daily, weekly
  <2>9. IsTable(views, column, weekly, daily, MyCarts, D1)
    BY <2>1, <2>4, <2>6, <2>8 DEF IsTable
  <2>10. Total(daily, D1) = Total(weekly, MyCarts)
    BY <2>9, SumsOfRowsAndColumns
  <2> QED
    BY <2>10 DEF daily, weekly
<1> QED
  BY <1>6, <1>11, <1>12, <1>13

\* The rounded percentage of the chip is below zero when half a percent is lost, and only then.
LEMMA ChipFalls ==
  ASSUME NEW x \in Nat, NEW y \in Nat, y > 0
  PROVE  (200 * (x - y) + y) \div (2 * y) >= 0 <=> ~(200 * (y - x) > y)
OBVIOUS

-----------------------------------------------------------------------------
\* A step of the dashboard that reads or shows.
LEMMA DashMoves ==
  ASSUME ClickInv, UNCHANGED <<today, archived, views, logVars>>, disturbed' \in BOOLEAN, dash' \in Dashes,
         DashWaits', DashIsRead', HeadlineIsTheCarts'
  PROVE  ClickInv'
<1>1. UNCHANGED <<clicks, events, log, unlogged, unbumped, straddled, redirects>>
  BY DEF logVars
<1>2. \A pc : At(pc)' = At(pc)
  BY <1>1 DEF At
<1>3. ClickTypes'
  BY <1>1 DEF ClickInv, ClickTypes
<1>4. ClicksAreSomewhere' /\ EventsAreAhead'
  BY <1>1, <1>2 DEF ClickInv, ClicksAreSomewhere, EventsAreAhead
<1> QED
  BY <1>3, <1>4 DEF ClickInv

\* What a loading dashboard reads and keeps.
LEMMA DashReads ==
  ASSUME ClickInv, UNCHANGED <<today, archived, views, logVars>>, disturbed' \in BOOLEAN,
         disturbed => disturbed', Loading, dash' \in Dashes, dash'.pc = "loading",
         dash'.daily # "none", dash'.list # "none",
         ~disturbed' =>
           /\ dash'.daily \in {"rows", "done"} => dash'.rows = DailyRows
           /\ dash'.daily = "done" => dash'.series = DailySeries
           /\ dash'.list = "done" => dash'.weekly = WeeklyViews
  PROVE  ClickInv'
<1>1. DailyRows' = DailyRows /\ WeeklyViews' = WeeklyViews
  BY DEF DailyRows, WeeklyViews, LastDays
<1>2. DailySeries' = DailySeries
  BY <1>1 DEF DailySeries, Skeleton
<1>3. DashIsRead' /\ DashWaits' /\ HeadlineIsTheCarts'
  BY <1>1, <1>2 DEF DashIsRead, DashWaits, HeadlineIsTheCarts, Loading
<1> QED
  BY <1>3, DashMoves

\* The two requests of the dashboard read their rows, or fail.
LEMMA DashLoads ==
  ASSUME ClickInv, NEW ok \in BOOLEAN,
         AccountDailyViews \/ AccountDailyStats \/ InsightsFail \/ ListCarts(ok)
  PROVE  ClickInv'
<1> USE DEF ClickInv
<1>1. /\ dash \in Dashes /\ disturbed \in BOOLEAN
      /\ dash.rows \in Counts01 /\ dash.weekly \in [MyCarts -> Nat]
  BY DEF ClickTypes, Dashes
<1>2. DailyRows \in Counts01 /\ DailySeries \in [1 .. 2 * Week -> Nat] /\ WeeklyViews \in [MyCarts -> Nat]
  BY NumbersOfTheDashboard
<1>3. Loading /\ dash.daily # "none" /\ dash.list # "none" /\ dash.pc = "loading"
  BY DEF DashWaits, Loading, AccountDailyViews, AccountDailyStats, InsightsFail, ListCarts
<1>4. UNCHANGED <<today, archived, views, logVars>>
  BY DEF AccountDailyViews, AccountDailyStats, InsightsFail, ListCarts
<1>5. ~disturbed =>
        /\ dash.daily \in {"rows", "done"} => dash.rows = DailyRows
        /\ dash.daily = "done" => dash.series = DailySeries
        /\ dash.list = "done" => dash.weekly = WeeklyViews
  BY <1>3 DEF DashIsRead
<1> HIDE DEF ClickInv
<1>6. CASE AccountDailyViews
  <2> DEFINE n == [dash EXCEPT !.daily = "rows", !.rows = DailyRows]
  <2>1. dash.daily = "asked" /\ dash' = n /\ disturbed' = disturbed
    BY <1>6 DEF AccountDailyViews, DailyRows
  <2>2. /\ n \in Dashes /\ n.daily = "rows" /\ n.rows = DailyRows /\ n.pc = dash.pc /\ n.list = dash.list
        /\ n.weekly = dash.weekly
    BY <1>1, <1>2 DEF Dashes
  <2> HIDE DEF n
  <2> QED
    BY <1>1, <1>3, <1>4, <1>5, <2>1, <2>2, DashReads
<1>7. CASE AccountDailyStats
  <2> DEFINE sums == [i \in 1 .. 2 * Week |-> IF Skeleton[i] \in Days THEN dash.rows[Skeleton[i]] ELSE 0]
             n == [dash EXCEPT !.daily = "done", !.series = sums]
  <2>1. dash.daily = "rows" /\ dash' = n /\ disturbed' = disturbed
    BY <1>7 DEF AccountDailyStats
  <2>2. sums \in [1 .. 2 * Week -> Nat] /\ (dash.rows = DailyRows => sums = DailySeries)
    <3>1. \A i \in 1 .. 2 * Week : Skeleton[i] \in Days => dash.rows[Skeleton[i]] \in Nat
      BY <1>1 DEF Counts01
    <3>2. sums \in [1 .. 2 * Week -> Nat]
      BY <3>1
    <3>3. dash.rows = DailyRows => sums = DailySeries
      BY DEF DailySeries
    <3> QED
      BY <3>2, <3>3
  <2> HIDE DEF sums
  <2>3. /\ n \in Dashes /\ n.daily = "done" /\ n.series = sums /\ n.pc = dash.pc /\ n.list = dash.list
        /\ n.weekly = dash.weekly /\ n.rows = dash.rows
    BY <1>1, <2>2 DEF Dashes
  <2> HIDE DEF n
  <2> QED
    BY <1>1, <1>3, <1>4, <1>5, <2>1, <2>2, <2>3, DashReads
<1>8. CASE InsightsFail
  <2> DEFINE n == [dash EXCEPT !.daily = "done", !.series = << >>]
  <2>1. dash' = n /\ disturbed' = TRUE
    BY <1>8 DEF InsightsFail
  <2>2. n \in Dashes /\ n.daily = "done" /\ n.pc = dash.pc /\ n.list = dash.list
    BY <1>1 DEF Dashes
  <2> HIDE DEF n
  <2> QED
    BY <1>1, <1>3, <1>4, <2>1, <2>2, DashReads
<1>9. CASE ListCarts(ok)
  <2> DEFINE weekly == [c \in MyCarts |-> IF ok THEN Total(views[c], LastDays(Week, today)) ELSE 0]
             n == [dash EXCEPT !.list = "done", !.listed = MyCarts \ archived, !.weekly = weekly]
  <2>1. dash' = n /\ disturbed' = (disturbed \/ ~ok)
    BY <1>9 DEF ListCarts
  <2>2. weekly \in [MyCarts -> Nat] /\ (ok => weekly = WeeklyViews)
    <3>1. ok => weekly = WeeklyViews
      BY DEF WeeklyViews
    <3>2. ~ok => weekly \in [MyCarts -> Nat]
      OBVIOUS
    <3> HIDE DEF weekly
    <3> QED
      BY <1>2, <3>1, <3>2
  <2> HIDE DEF weekly
  <2>3. /\ n \in Dashes /\ n.list = "done" /\ n.weekly = weekly /\ n.pc = dash.pc /\ n.daily = dash.daily
        /\ n.rows = dash.rows /\ n.series = dash.series
    BY <1>1, <2>2 DEF Dashes
  <2> HIDE DEF n
  <2>4. disturbed' \in BOOLEAN /\ (disturbed => disturbed') /\ (~disturbed' => ~disturbed /\ ok)
    BY <2>1
  <2> QED
    BY <1>1, <1>3, <1>4, <1>5, <2>1, <2>2, <2>3, <2>4, DashReads
<1> QED
  BY <1>6, <1>7, <1>8, <1>9

\* A dashboard starts with nothing read.
LEMMA DashOpensInv ==
  ASSUME ClickInv, OpenDashboard \/ RedirectToLogin
  PROVE  ClickInv'
<1>1. NoDash \in Dashes
  <2>1. NoDays \in Counts01
    BY DEF NoDays, Counts01
  <2> QED
    BY <2>1 DEF NoDash, Dashes
<1>2. UNCHANGED <<today, archived, views, logVars>>
  BY DEF OpenDashboard, RedirectToLogin
<1>3. CASE OpenDashboard
  <2> DEFINE n == [NoDash EXCEPT !.pc = "loading", !.daily = "asked", !.list = "asked"]
  <2>1. dash' = n /\ disturbed' = FALSE
    BY <1>3 DEF OpenDashboard
  <2>2. n \in Dashes /\ n.pc = "loading" /\ n.daily = "asked" /\ n.list = "asked"
    BY <1>1 DEF Dashes
  <2> HIDE DEF n
  <2>3. DashWaits' /\ DashIsRead' /\ HeadlineIsTheCarts'
    BY <2>1, <2>2 DEF DashWaits, DashIsRead, HeadlineIsTheCarts, Loading
  <2> QED
    BY <1>2, <2>1, <2>2, <2>3, DashMoves
<1>4. CASE RedirectToLogin
  <2> DEFINE n == [NoDash EXCEPT !.pc = "login"]
  <2>1. dash' = n /\ disturbed' = disturbed
    BY <1>4 DEF RedirectToLogin
  <2>2. n \in Dashes /\ n.pc = "login" /\ n.daily = "none" /\ n.list = "none"
    BY <1>1 DEF NoDash, Dashes
  <2> HIDE DEF n
  <2>3. DashWaits' /\ DashIsRead' /\ HeadlineIsTheCarts'
    BY <2>1, <2>2 DEF DashWaits, DashIsRead, HeadlineIsTheCarts, Loading
  <2>4. disturbed' \in BOOLEAN
    BY <2>1 DEF ClickInv, ClickTypes
  <2> QED
    BY <1>2, <2>1, <2>2, <2>3, <2>4, DashMoves
<1> QED
  BY <1>3, <1>4

\* The dashboard is rendered from what its two requests brought.
LEMMA DashboardPageInv ==
  ASSUME ClickInv, DashboardPage
  PROVE  ClickInv'
<1> USE DEF ClickInv
<1> DEFINE pc == IF dash.listed = {} THEN "onboarding" ELSE "insights"
           n == [dash EXCEPT !.pc = pc]
<1>1. /\ Loading /\ dash.daily = "done" /\ dash.list = "done" /\ dash' = n
      /\ UNCHANGED <<today, archived, views, logVars, disturbed>>
  BY DEF DashboardPage
<1>2. pc \in {"onboarding", "insights"}
  OBVIOUS
<1> HIDE DEF pc
<1>3. dash \in Dashes /\ disturbed \in BOOLEAN
  BY DEF ClickTypes
<1>4. /\ n \in Dashes /\ n.pc = pc /\ n.daily = dash.daily /\ n.list = dash.list /\ n.rows = dash.rows
      /\ n.series = dash.series /\ n.listed = dash.listed /\ n.weekly = dash.weekly
  BY <1>2, <1>3 DEF Dashes
<1> HIDE DEF n
<1>5. DashWaits' /\ DashIsRead'
  BY <1>1, <1>2, <1>4 DEF DashWaits, DashIsRead, Loading
<1>6. /\ ViewsThisWeek' = ViewsThisWeek /\ ViewsPrevWeek' = ViewsPrevWeek /\ TopCarts' = TopCarts
      /\ dash'.weekly = dash.weekly /\ dash'.rows = dash.rows
  BY <1>1, <1>4 DEF ViewsThisWeek, ViewsPrevWeek, TopCarts
<1>7. DeltaChip' = DeltaChip
  BY <1>6 DEF DeltaChip
<1>8. HeadlineIsTheCarts'
  <2> SUFFICES ASSUME ~disturbed
               PROVE  /\ ViewsThisWeek = Total(dash.weekly, MyCarts)
                      /\ ViewsThisWeek + ViewsPrevWeek = Total(dash.rows, Days)
                      /\ TopCarts # {} => ViewsThisWeek > 0
                      /\ ViewsPrevWeek > 0 =>
                           (DeltaChip = "down" <=> 200 * (ViewsPrevWeek - ViewsThisWeek) > ViewsPrevWeek)
    BY <1>1, <1>6, <1>7 DEF HeadlineIsTheCarts
  <2>1. dash.rows = DailyRows /\ dash.series = DailySeries /\ dash.weekly = WeeklyViews
    BY <1>1 DEF DashIsRead
  <2>2. /\ ViewsThisWeek \in Nat /\ ViewsPrevWeek \in Nat
        /\ ViewsThisWeek = Total(dash.weekly, MyCarts)
        /\ ViewsThisWeek + ViewsPrevWeek = Total(dash.rows, Days)
    BY <2>1, DashboardAddsUp
  <2>3. TopCarts # {} => ViewsThisWeek > 0
    <3> SUFFICES ASSUME TopCarts # {} PROVE ViewsThisWeek > 0
      OBVIOUS
    <3>1. PICK c \in MyCarts : dash.weekly[c] > 0
      BY <1>3 DEF TopCarts, Dashes
    <3>2. \A d \in MyCarts : dash.weekly[d] \in Nat
      BY <1>3 DEF Dashes
    <3>3. IsFiniteSet(MyCarts) /\ IsFiniteSet(MyCarts \ {c})
      BY ClickAssumption, FS_Subset
    <3> DEFINE weekly == dash.weekly
    <3>4. \A d \in MyCarts : weekly[d] \in Nat
      BY <3>2
    <3> HIDE DEF weekly
    <3>5. Total(weekly, MyCarts) = weekly[c] + Total(weekly, MyCarts \ {c})
      BY <3>3, <3>4, SumTakesOut
    <3>6. Total(weekly, MyCarts \ {c}) \in Nat
      BY <3>3, <3>4, SumIsNatural
    <3> QED
      BY <2>2, <3>1, <3>4, <3>5, <3>6 DEF weekly
  <2>4. ViewsPrevWeek > 0 => (DeltaChip = "down" <=> 200 * (ViewsPrevWeek - ViewsThisWeek) > ViewsPrevWeek)
    <3> DEFINE x == ViewsThisWeek
               y == ViewsPrevWeek
               pct == (200 * (x - y) + y) \div (2 * y)
    <3> SUFFICES ASSUME y > 0 PROVE DeltaChip = "down" <=> 200 * (y - x) > y
      OBVIOUS
    <3>1. x \in Nat /\ y \in Nat
      BY <2>2
    <3>2. DeltaPct(x, y) = pct
      BY <3>1 DEF DeltaPct
    <3>3. pct \in Int
      BY <3>1
    <3>4. pct # NoBaseline
      BY <3>3, ClickAssumption
    <3>5. DeltaChip = IF pct >= 0 THEN "up" ELSE "down"
      BY <3>2, <3>4 DEF DeltaChip
    <3>6. pct >= 0 <=> ~(200 * (y - x) > y)
      BY <3>1, ChipFalls
    <3> HIDE DEF pct
    <3> QED
      BY <3>5, <3>6
  <2> QED
    BY <2>2, <2>3, <2>4
<1> QED
  BY <1>1, <1>3, <1>4, <1>5, <1>8, DashMoves

\* The invariant of clicks, visits and dashboard, by action.
LEMMA ClickInvIsInductive == ClickInv /\ [ClicksNext]_clickVars => ClickInv'
<1> SUFFICES ASSUME ClickInv, [ClicksNext]_clickVars PROVE ClickInv'
  OBVIOUS
<1>1. ASSUME NEW g \in Logs, NEW flag \in BOOLEAN,
             Click(g, flag) \/ InsertClickEvent(g, flag) \/ BumpClickDaily(g, flag)
      PROVE  ClickInv'
  BY <1>1, ClickStarts, ClickStatements
<1>2. CASE Crash
  BY <1>2, CrashInv
<1>3. CASE Midnight \/ \E c \in MyCarts : View(c) \/ ArchiveCart(c)
  BY <1>3, VisitsInv
<1>4. CASE OpenDashboard \/ RedirectToLogin
  BY <1>4, DashOpensInv
<1>5. CASE AccountDailyViews \/ AccountDailyStats \/ InsightsFail \/ \E ok \in BOOLEAN : ListCarts(ok)
  <2>1. TRUE \in BOOLEAN
    OBVIOUS
  <2> QED
    BY <1>5, <2>1, DashLoads
<1>6. CASE DashboardPage
  BY <1>6, DashboardPageInv
<1>7. CASE UNCHANGED clickVars
  <2>1. UNCHANGED <<today, archived, views, logVars, dash, disturbed>>
    BY <1>7 DEF clickVars
  <2>2. DashWaits' /\ DashIsRead' /\ HeadlineIsTheCarts'
    BY <2>1, DashboardStays
  <2> QED
    BY <2>1, <2>2, DashMoves DEF ClickInv, ClickTypes
<1> QED
  BY <1>1, <1>2, <1>3, <1>4, <1>5, <1>6, <1>7 DEF ClicksNext

\* It implies the types and both properties.
LEMMA ClickInvImplies == ClickInv => ClicksTypeOK /\ EventsMatchTotals /\ HeadlineIsTheCarts
<1> SUFFICES ASSUME ClickInv PROVE ClicksTypeOK /\ EventsMatchTotals /\ HeadlineIsTheCarts
  OBVIOUS
<1> USE DEF ClickInv
<1>1. ClicksTypeOK
  BY DEF ClickTypes, ClicksTypeOK, Counts01, Dashes
<1>2. EventsMatchTotals
  <2> DEFINE running(pcs) == Cardinality({g \in Logs : log[g] \in pcs})
  <2>1. running({"insert"}) = Cardinality(At("insert"))
    <3>1. {g \in Logs : log[g] \in {"insert"}} = At("insert")
      BY DEF At
    <3> QED
      BY <3>1
  <2>2. running({"insert", "bump"}) = Cardinality(At("insert")) + Cardinality(At("bump"))
    <3>1. {g \in Logs : log[g] \in {"insert", "bump"}} = At("insert") \cup At("bump")
      BY DEF At
    <3>2. At("insert") \cap At("bump") = {}
      BY DEF At
    <3>3. Cardinality(At("insert") \cup At("bump"))
            = Cardinality(At("insert")) + Cardinality(At("bump")) - Cardinality(At("insert") \cap At("bump"))
      BY AtFacts, FS_Union
    <3>4. Cardinality(At("insert")) \in Nat /\ Cardinality(At("bump")) \in Nat
      BY AtFacts
    <3>5. Cardinality(At("insert") \cap At("bump")) = 0
      BY <3>2, FS_EmptySet
    <3>6. Cardinality(At("insert") \cup At("bump")) = Cardinality(At("insert")) + Cardinality(At("bump"))
      BY <3>3, <3>4, <3>5
    <3> QED
      BY <3>1, <3>6
  <2> HIDE DEF running
  <2>3. Cardinality(At("insert")) \in Nat /\ Cardinality(At("bump")) \in Nat
    BY AtFacts
  <2>4. /\ Total(events, Days) \in Nat /\ Total(clicks, Days) \in Nat
        /\ unlogged \in Nat /\ unbumped \in Nat /\ redirects \in Nat
        /\ events \in Counts01 /\ clicks \in Counts01
    BY SumOfCounts DEF ClickTypes
  <2>5. /\ Total(events, Days) + unlogged + running({"insert"}) = redirects
        /\ Total(clicks, Days) + unbumped + running({"insert", "bump"}) = redirects
    BY <2>1, <2>2, <2>3, <2>4 DEF ClicksAreSomewhere
  <2>6. unlogged + unbumped + running({"insert", "bump"}) = 0 /\ ~straddled => events = clicks
    <3> SUFFICES ASSUME unlogged + unbumped + running({"insert", "bump"}) = 0, ~straddled PROVE events = clicks
      OBVIOUS
    <3>1. unlogged = 0 /\ unbumped = 0 /\ Cardinality(At("bump")) = 0
      BY <2>2, <2>3, <2>4
    <3>2. \A d \in Days : events[d] = clicks[d] + 0
      BY <3>1 DEF EventsAreAhead
    <3>3. \A d \in Days : events[d] = clicks[d]
      BY <2>4, <3>2 DEF Counts01
    <3> QED
      BY <2>4, <3>3 DEF Counts01
  <2> QED
    BY <2>5, <2>6 DEF EventsMatchTotals, running
<1> QED
  BY <1>1, <1>2

\* It holds of clicks and dashboard by themselves.
THEOREM ClickInvariant == ClicksSpec => []ClickInv
BY ClickInvInitially, ClickInvIsInductive, PTL DEF ClicksSpec

\* The types of the clicks, the views and the dashboard.
THEOREM ClicksTypeCorrect == ClicksSpec => []ClicksTypeOK
<1>1. ClickInv => ClicksTypeOK
  BY ClickInvImplies
<1> QED
  BY <1>1, ClickInvariant, PTL

\* However many clicks are logged side by side, whichever of their two statements fail,
\* and whenever the process dies: what is missing from the events and from the daily
\* totals is what was lost, and the two agree day by day when nothing was
\* (Service.LogClick of internal/redirect/service.go).
THEOREM ClicksAreCounted == ClicksSpec => []EventsMatchTotals
<1>1. ClickInv => EventsMatchTotals
  BY ClickInvImplies
<1> QED
  BY <1>1, ClickInvariant, PTL

\* The headline of the dashboard is the sum of its carts' weekly views, and no day of the
\* last two weeks is lost or counted twice, for any week, any carts and any views, though
\* two requests read them (carts/service.go) and insights.ts cuts the series by position.
THEOREM HeadlineIsRight == ClicksSpec => []HeadlineIsTheCarts
<1>1. ClickInv => HeadlineIsTheCarts
  BY ClickInvImplies
<1> QED
  BY <1>1, ClickInvariant, PTL
-----------------------------------------------------------------------------
(* The composition (MCCreatorTools). *)

\* Every part begins as by itself.
LEMMA ScenesBegin ==
  Init => /\ SignInInit /\ ChromeInit /\ ClicksInit /\ PasteInit
          /\ ListInit /\ LookInit /\ FormInit /\ FeedbackInit
BY DEF Init

\* Whichever scene is played, the step is one of its part and leaves the others alone.
LEMMA ScenesArePlayed ==
  [Next]_vars =>
    /\ [SignInNext]_signInVars /\ [ChromeNext]_chromeVars /\ [ClicksNext]_clickVars
    /\ [PasteNext]_pasteVars /\ [ListNext]_listVars /\ [LookNext]_lookVars
    /\ [FormNext]_formVars /\ [FeedbackNext]_feedbackVars
<1>1. [Next]_vars => [SignInNext]_signInVars
  BY DEF Next, vars, Visiting, Editing, Sending
<1>2. [Next]_vars => [ChromeNext]_chromeVars
  BY DEF Next, vars, Visiting, Editing, Sending
<1>3. [Next]_vars => [ClicksNext]_clickVars
  BY DEF Next, vars, Visiting, Editing, Sending
<1>4. [Next]_vars => [PasteNext]_pasteVars
  BY DEF Next, vars, Visiting, Editing, Sending
<1>5. [Next]_vars => [ListNext]_listVars
  BY DEF Next, vars, Visiting, Editing, Sending
<1>6. [Next]_vars => [LookNext]_lookVars
  BY DEF Next, vars, Visiting, Editing, Sending
<1>7. [Next]_vars => [FormNext]_formVars
  BY DEF Next, vars, Visiting, Editing, Sending
<1>8. [Next]_vars => [FeedbackNext]_feedbackVars
  BY DEF Next, vars, Visiting, Editing, Sending
<1> QED
  BY <1>1, <1>2, <1>3, <1>4, <1>5, <1>6, <1>7, <1>8

\* What a creator works with behaves as each of its parts by itself: what is proved of
\* one of them holds of it.
THEOREM CreatorToolsAreTheirParts ==
  Spec => /\ SignInSpec /\ ChromeSpec /\ ClicksSpec /\ PasteSpec
          /\ ListSpec /\ LookSpec /\ FormSpec /\ FeedbackSpec
BY ScenesBegin, ScenesArePlayed, PTL
   DEF Spec, SignInSpec, ChromeSpec, ClicksSpec, PasteSpec, ListSpec, LookSpec, FormSpec, FeedbackSpec

\* The types of everything a creator works with, whatever the creator does.
THEOREM CreatorToolsTypeCorrect == Spec => []TypeOK
<1>1. SignInTypeOK /\ ChromeTypeOK /\ ClicksTypeOK /\ PasteTypeOK /\ ListTypeOK /\ LookTypeOK
        /\ FormTypeOK /\ FeedbackTypeOK => TypeOK
  BY DEF TypeOK
<1> QED
  BY <1>1, CreatorToolsAreTheirParts, SignInTypeCorrect, ChromeTypeCorrect, ClicksTypeCorrect,
     PasteTypeCorrect, ListTypeCorrect, LookTypeCorrect, FormTypeCorrect, FeedbackTypeCorrect, PTL

\* The editor shows the cart: its products in their order, and its look (editor.tsx,
\* cover-picker.tsx), whatever calls of either are in flight, fail or are answered late, and
\* whichever page of it the router brings back, except for what these leave astray until it
\* is picked again or a call reads the cart by itself.
THEOREM TheEditorShowsTheCart == Spec => []EditorShowsTheCart
<1>1. ListIsTheCart /\ LookIsTheCart => EditorShowsTheCart
  BY DEF EditorShowsTheCart
<1> QED
  BY <1>1, CreatorToolsAreTheirParts, ListIsTheCartsProducts, LookIsTheCartsLook, PTL

\* Each form stores what is sent once, and once more for every lost answer that was tried
\* again, whatever else the creator does (add-form.tsx, feedback/page.tsx), and what the share
\* form sends is about one product, except for a photo that comes after "Add another".
THEOREM FormsAreSentOnce == Spec => []SentOnce
<1>1. AddedOnce /\ FeedbackHeardOnce => SentOnce
  BY DEF SentOnce
<1> QED
  BY <1>1, CreatorToolsAreTheirParts, ProductsAreAddedOnce, FeedbackIsHeardOnce, PTL

\* And what is promised of the clicks, the dashboard, the pasted links, the sign-ins and
\* the navigation is kept beside everything else a creator does.
THEOREM CreatorToolsKeepTheirWord ==
  Spec => /\ []EventsMatchTotals /\ []HeadlineIsTheCarts /\ []DraftIsOneProduct
          /\ []SignInKeepsItsWord /\ []ChromeIsHonest
BY CreatorToolsAreTheirParts, ClicksAreCounted, HeadlineIsRight, DraftsAreOneProduct,
   SignInsKeepTheirWord, NavigationIsHonest, PTL

=============================================================================
