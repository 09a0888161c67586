------------------------------ MODULE FoldProofs ------------------------------
(***************************************************************************)
(* Induction as a least counterexample, and what a sum over the usage rows   *)
(* is, for every finite set of rows: the sum is a recursive function over    *)
(* the subsets.  Of finite sets that are not all good, one is bad though all  *)
(* its proper subsets are good; of numbers, one is bad though all smaller    *)
(* ones are good.                                                            *)
(***************************************************************************)
EXTENDS Costs, Integers, FiniteSets, FiniteSetTheorems, WellFoundedInduction, TLAPS

\* Among some finite sets there is a least one.
LEMMA LeastSet ==
    ASSUME NEW X, IsFiniteSet(X), NEW C \in SUBSET (SUBSET X), C # {}
    PROVE  \E m \in C : \A s \in C : s \subseteq m => s = m
<1>1. C \subseteq FiniteSubsetsOf(X)
  BY FS_Subset DEF FiniteSubsetsOf
<1>2. PICK m \in C : \A s \in C : ~(<<s, m>> \in StrictSubsetOrdering(X))
  BY <1>1, FS_StrictSubsetOrderingWellFounded, WFMin
<1>3. \A s \in C : s \subseteq m /\ s # m => <<s, m>> \in StrictSubsetOrdering(X)
  BY DEF StrictSubsetOrdering
<1>4. \A s \in C : s \subseteq m => s = m
  BY <1>2, <1>3
<1> QED BY <1>4

\* Among some numbers there is a least one.
LEMMA LeastNat ==
    ASSUME NEW S \in SUBSET Nat, S # {}
    PROVE  \E m \in S : \A k \in S : m <= k
<1>1. PICK n \in S : TRUE
  OBVIOUS
<1> DEFINE C == {1 .. k : k \in {j \in S : j <= n}}
<1>2. n \in Nat /\ IsFiniteSet(1 .. n)
  BY FS_Interval
<1>3. C \in SUBSET (SUBSET (1 .. n)) /\ 1 .. n \in C
  BY <1>2
<1>4. PICK c \in C : \A s \in C : s \subseteq c => s = c
  <2>1. PICK X : X = 1 .. n
    OBVIOUS
  <2>2. IsFiniteSet(X)
    BY <1>2, <2>1
  <2>3. C # {}
    BY <1>3
  <2>4. C \in SUBSET (SUBSET X)
    BY <1>3, <2>1
  <2> HIDE DEF C
  <2> QED BY <2>2, <2>3, <2>4, LeastSet
<1>5. PICK m \in S : c = 1 .. m /\ m <= n
  OBVIOUS
<1>6. ASSUME NEW k \in S, k < m
      PROVE  FALSE
  <2>1. 1 .. k \in C /\ 1 .. k \subseteq c
    BY <1>2, <1>5, <1>6
  <2>2. 1 .. k = 1 .. m
    BY <1>4, <1>5, <2>1
  <2>3. m \in 1 .. m /\ m \notin 1 .. k
    BY <1>6
  <2> QED BY <2>2, <2>3
<1> QED BY <1>6

LEMMA MaxIs ==
    ASSUME NEW S \in SUBSET Nat, NEW n \in S, \A k \in S : k <= n
    PROVE  Max(S) = n
<1>1. \A x \in S : (\A y \in S : x >= y) => x = n
  OBVIOUS
<1> QED BY <1>1 DEF Max

-----------------------------------------------------------------------------
(* Sums *)

\* The row a sum takes next, and what the sum's function says.
Some(s) == CHOOSE x \in s : TRUE

Adds(g, S) ==
    g = [s \in SUBSET S |-> IF s = {} THEN 0 ELSE Some(s).cost + g[s \ {Some(s)}]]

FirstAndRest(s) == IF s = {} THEN 0 ELSE Some(s).cost + Total(s \ {Some(s)})

LEMMA TotalDef == ASSUME NEW S PROVE Total(S) = (CHOOSE g : Adds(g, S))[S]
BY DEF Total, MapThenSumSet, MapThenFoldSet, Adds, Some

LEMMA SomeIn == ASSUME NEW s, s # {} PROVE Some(s) \in s
BY DEF Some

\* The function is there and there is one only, as far as subsets go.
Determined(X) == \A g : Adds(g, X) <=> g = [s \in SUBSET X |-> Total(s)]

LEMMA DeterminedTotal == ASSUME NEW X, Determined(X) PROVE Total(X) = FirstAndRest(X)
<1> DEFINE G == [s \in SUBSET X |-> Total(s)]
<1>1. Adds(G, X)
  BY DEF Determined
<1>2. G[X] = IF X = {} THEN 0 ELSE Some(X).cost + G[X \ {Some(X)}]
  BY <1>1 DEF Adds
<1>3. G[X] = Total(X) /\ G[X \ {Some(X)}] = Total(X \ {Some(X)})
  OBVIOUS
<1> QED BY <1>2, <1>3 DEF FirstAndRest

LEMMA DeterminedStep ==
    ASSUME NEW X, \A Y \in SUBSET X : Y # X => Determined(Y)
    PROVE  Determined(X)
<1> DEFINE K == [s \in SUBSET X |-> FirstAndRest(s)]
<1>1. \A Y \in SUBSET X : Y # X => Total(Y) = FirstAndRest(Y)
  BY DeterminedTotal
<1>2. \A s \in SUBSET X : s # {} => s \ {Some(s)} \in SUBSET X /\ s \ {Some(s)} # X
  BY SomeIn
<1>3. Adds(K, X)
  <2>1. \A s \in SUBSET X : K[s] = IF s = {} THEN 0 ELSE Some(s).cost + K[s \ {Some(s)}]
    <3> TAKE s \in SUBSET X
    <3>1. CASE s = {}
      BY <3>1 DEF FirstAndRest
    <3>2. CASE s # {}
      <4>1. K[s \ {Some(s)}] = Total(s \ {Some(s)})
        BY <1>1, <1>2, <3>2
      <4> QED BY <3>2, <4>1 DEF FirstAndRest
    <3> QED BY <3>1, <3>2
  <2> QED BY <2>1 DEF Adds
<1>4. ASSUME NEW g, Adds(g, X)
      PROVE  g = K
  <2>1. /\ g = [s \in SUBSET X |-> g[s]]
        /\ \A s \in SUBSET X : g[s] = IF s = {} THEN 0 ELSE Some(s).cost + g[s \ {Some(s)}]
    BY <1>4 DEF Adds
  <2>2. ASSUME NEW Y \in SUBSET X, Y # X
        PROVE  g[Y] = Total(Y)
    <3> DEFINE H == [s \in SUBSET Y |-> g[s]]
    <3>1. \A s \in SUBSET Y : H[s] = IF s = {} THEN 0 ELSE Some(s).cost + H[s \ {Some(s)}]
      <4> TAKE s \in SUBSET Y
      <4>1. s \in SUBSET X /\ s \ {Some(s)} \in SUBSET Y
        OBVIOUS
      <4>2. H[s] = g[s] /\ H[s \ {Some(s)}] = g[s \ {Some(s)}]
        BY <4>1
      <4> QED BY <2>1, <4>1, <4>2
    <3>2. Adds(H, Y)
      BY <3>1 DEF Adds
    <3>3. H = [s \in SUBSET Y |-> Total(s)]
      BY <2>2, <3>2 DEF Determined
    <3>4. H[Y] = Total(Y)
      BY <3>3
    <3> QED BY <3>4
  <2>3. \A s \in SUBSET X : g[s] = FirstAndRest(s)
    <3> TAKE s \in SUBSET X
    <3>1. CASE s = {}
      BY <2>1, <3>1 DEF FirstAndRest
    <3>2. CASE s # {}
      <4>1. g[s \ {Some(s)}] = Total(s \ {Some(s)})
        BY <1>2, <2>2, <3>2
      <4> QED BY <2>1, <3>2, <4>1 DEF FirstAndRest
    <3> QED BY <3>1, <3>2
  <2> QED BY <2>1, <2>3
<1>5. (CHOOSE g : Adds(g, X)) = K
  BY <1>3, <1>4
<1>6. Total(X) = FirstAndRest(X)
  BY <1>5, TotalDef
<1>7. K = [s \in SUBSET X |-> Total(s)]
  BY <1>1, <1>6
<1> QED BY <1>3, <1>4, <1>7, ZenonT(30) DEF Determined

\* So a sum is what its recursion says.
LEMMA TotalStep == ASSUME NEW X, IsFiniteSet(X) PROVE Total(X) = FirstAndRest(X)
<1> DEFINE C == {Y \in SUBSET X : ~Determined(Y)}
<1>1. SUFFICES C = {}
  BY DeterminedTotal
<1>2. SUFFICES ASSUME C # {} PROVE FALSE
  OBVIOUS
<1>3. PICK m \in C : \A s \in C : s \subseteq m => s = m
  <2>1. C \in SUBSET (SUBSET X)
    OBVIOUS
  <2> HIDE DEF C
  <2> QED BY <1>2, <2>1, LeastSet
<1>4. \A Y \in SUBSET m : Y # m => Determined(Y)
  BY <1>3
<1> QED BY <1>3, <1>4, DeterminedStep

Priced(rows) == \A u \in rows : u.cost \in Int

LEMMA TotalInt ==
    ASSUME NEW X, IsFiniteSet(X), Priced(X) PROVE Total(X) \in Int
<1> DEFINE C == {Y \in SUBSET X : Total(Y) \notin Int}
<1>1. SUFFICES ASSUME C # {} PROVE FALSE
  OBVIOUS
<1>2. PICK m \in C : \A s \in C : s \subseteq m => s = m
  <2>1. C \in SUBSET (SUBSET X)
    OBVIOUS
  <2> HIDE DEF C
  <2> QED BY <1>1, <2>1, LeastSet
<1>3. Total(m) = FirstAndRest(m)
  BY <1>2, TotalStep, FS_Subset
<1>4. CASE m = {}
  BY <1>2, <1>3, <1>4 DEF FirstAndRest
<1>5. CASE m # {}
  <2>1. Some(m) \in m
    BY <1>5, SomeIn
  <2>2. Total(m \ {Some(m)}) \in Int
    BY <1>2, <2>1
  <2>3. Some(m).cost \in Int
    BY <1>2, <2>1 DEF Priced
  <2> QED BY <1>2, <1>3, <1>5, <2>2, <2>3 DEF FirstAndRest
<1> QED BY <1>4, <1>5

\* And it does not depend on the order the rows are taken in.
LEMMA TotalRemove ==
    ASSUME NEW X, IsFiniteSet(X), Priced(X), NEW x \in X
    PROVE  Total(X) = x.cost + Total(X \ {x})
<1> DEFINE C == {Y \in SUBSET X : \E y \in Y : Total(Y) # y.cost + Total(Y \ {y})}
<1>1. SUFFICES ASSUME C # {} PROVE FALSE
  OBVIOUS
<1>2. PICK m \in C : \A s \in C : s \subseteq m => s = m
  <2>1. C \in SUBSET (SUBSET X)
    OBVIOUS
  <2> HIDE DEF C
  <2> QED BY <1>1, <2>1, LeastSet
<1>3. PICK y \in m : Total(m) # y.cost + Total(m \ {y})
  BY <1>2
<1>4. \A s \in SUBSET m : IsFiniteSet(s) /\ Priced(s)
  BY <1>2, FS_Subset DEF Priced
<1>5. PICK z \in m : z = Some(m)
  BY <1>3, SomeIn
<1>6. Total(m) = z.cost + Total(m \ {z})
  BY <1>3, <1>4, <1>5, TotalStep DEF FirstAndRest
<1>7. z # y
  BY <1>3, <1>6
<1>8. /\ Total(m \ {z}) = y.cost + Total((m \ {z}) \ {y})
      /\ Total(m \ {y}) = z.cost + Total((m \ {y}) \ {z})
  <2>1. m \ {z} \in SUBSET X /\ y \in m \ {z} /\ m \ {z} # m
    BY <1>7
  <2>2. m \ {y} \in SUBSET X /\ z \in m \ {y} /\ m \ {y} # m
    BY <1>7
  <2>3. m \ {z} \notin C /\ m \ {y} \notin C
    BY <1>2, <2>1, <2>2
  <2> QED BY <2>1, <2>2, <2>3
<1>9. PICK n : n = Total((m \ {z}) \ {y}) /\ n = Total((m \ {y}) \ {z}) /\ n \in Int
  <2>1. (m \ {z}) \ {y} = (m \ {y}) \ {z}
    OBVIOUS
  <2> QED BY <1>4, <2>1, TotalInt
<1>10. y.cost \in Int /\ z.cost \in Int
  BY <1>4 DEF Priced
<1> QED BY <1>3, <1>6, <1>8, <1>9, <1>10

LEMMA TotalEmpty == Total({}) = 0
BY TotalStep, FS_EmptySet DEF FirstAndRest

LEMMA TotalAdd ==
    ASSUME NEW X, IsFiniteSet(X), Priced(X), NEW x, x \notin X, x.cost \in Int
    PROVE  Total(X \cup {x}) = Total(X) + x.cost
<1>1. IsFiniteSet(X \cup {x}) /\ Priced(X \cup {x})
  BY FS_AddElement DEF Priced
<1>2. (X \cup {x}) \ {x} = X
  OBVIOUS
<1>3. Total(X) \in Int
  BY TotalInt
<1> QED BY <1>1, <1>2, <1>3, TotalRemove

\* More rows never cost less.
LEMMA TotalMono ==
    ASSUME NEW X, IsFiniteSet(X), \A u \in X : u.cost \in Nat, NEW S \in SUBSET X
    PROVE  Total(S) <= Total(X)
<1> DEFINE C == {Y \in SUBSET X : \E R \in SUBSET Y : ~(Total(R) <= Total(Y))}
<1>1. SUFFICES ASSUME C # {} PROVE FALSE
  OBVIOUS
<1>2. PICK m \in C : \A s \in C : s \subseteq m => s = m
  <2>1. C \in SUBSET (SUBSET X)
    OBVIOUS
  <2> HIDE DEF C
  <2> QED BY <1>1, <2>1, LeastSet
<1>3. PICK R \in SUBSET m : ~(Total(R) <= Total(m))
  BY <1>2
<1>4. \A s \in SUBSET m : IsFiniteSet(s) /\ Priced(s) /\ Total(s) \in Int
  BY <1>2, FS_Subset, TotalInt DEF Priced
<1>5. Total(m) \in Int /\ Total(R) \in Int
  BY <1>3, <1>4
<1>6. R # m
  BY <1>3, <1>5
<1>7. PICK y \in m : y \notin R
  BY <1>3, <1>6
<1>8. Total(m) = y.cost + Total(m \ {y})
  BY <1>4, <1>7, TotalRemove
<1>9. Total(R) <= Total(m \ {y}) /\ Total(m \ {y}) \in Int
  <2>1. m \ {y} \in SUBSET X /\ m \ {y} # m /\ R \in SUBSET (m \ {y})
    BY <1>7
  <2> QED BY <1>2, <1>4, <2>1
<1>10. y.cost \in Nat
  BY <1>2, <1>7
<1> QED BY <1>3, <1>5, <1>8, <1>9, <1>10
=============================================================================
