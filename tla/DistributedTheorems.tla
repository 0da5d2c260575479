------------------------ MODULE DistributedTheorems ------------------------
(***************************************************************************)
(* The laws of finite sums the proofs about the distributed deployment     *)
(* rest on, and what follows for the deployment.                           *)
(***************************************************************************)
EXTENDS DistributedServiceProofs, FiniteSetTheorems

(***************************************************************************)
(* Finite sums.  The provers cannot use the library's induction theorems,  *)
(* whose parameter is an operator, so induction is stated for sets.        *)
(***************************************************************************)

\* Induction over the natural numbers, for a set of them.
LEMMA NatSetInduction ==
  ASSUME NEW P \in SUBSET Nat, 0 \in P, \A n \in P : n + 1 \in P
  PROVE  P = Nat
<1>. SUFFICES ASSUME P # Nat PROVE FALSE
  BY Zenon
<1>. DEFINE T == Nat \ P
            R == {ss \in Nat \X Nat : ss[1] < ss[2]}
<1>1. IsWellFoundedOn(R, Nat)
  BY NatLessThanWellFounded DEF OpToRel
<1>2. T # {} /\ T \subseteq Nat
  BY Zenon
<1>3. PICK x \in T : \A y \in T : ~(<<y, x>> \in R)
  <2>. HIDE DEF T, R
  <2>. QED  BY <1>1, <1>2, WFMin, Zenon
<1>4. x # 0 /\ x - 1 \in Nat /\ <<x - 1, x>> \in R /\ x = (x - 1) + 1
  OBVIOUS
<1>. QED  BY <1>3, <1>4

\* The element a fold takes first.
First(s) == CHOOSE x \in s : TRUE

\* Induction over the subsets of a finite set, in the order of a fold.
LEMMA SubsetInduction ==
  ASSUME NEW S, IsFiniteSet(S), NEW G \in SUBSET SUBSET S, {} \in G,
         \A s \in SUBSET S : s # {} /\ s \ {First(s)} \in G => s \in G
  PROVE  S \in G
<1>. DEFINE P == {n \in Nat : \A s \in SUBSET S : Cardinality(s) = n => s \in G}
<1>1. \A s \in SUBSET S : IsFiniteSet(s) /\ Cardinality(s) \in Nat
  BY FS_Subset, FS_CardinalityType, Zenon
<1>2. 0 \in P
  BY <1>1, FS_EmptySet, Zenon
<1>3. ASSUME NEW n \in P PROVE n + 1 \in P
  <2>. SUFFICES ASSUME NEW s \in SUBSET S, Cardinality(s) = n + 1 PROVE s \in G
    OBVIOUS
  <2>1. s # {}
    BY FS_EmptySet
  <2>2. First(s) \in s
    BY <2>1, Zenon DEF First
  <2>3. Cardinality(s \ {First(s)}) = Cardinality(s) - 1
    BY <1>1, <2>2, FS_RemoveElement
  <2>4. Cardinality(s \ {First(s)}) = n
    BY <2>3
  <2>. QED  BY <2>1, <2>4
<1>4. P = Nat
  <2>. HIDE DEF P
  <2>1. P \in SUBSET Nat
    BY Zenon DEF P
  <2>. QED  BY <1>2, <1>3, <2>1, NatSetInduction
<1>. QED  BY <1>1, <1>4, Zenon

\* The recursion of a sum over S.
Step(f, g, s) == IF s = {} THEN 0 ELSE f[First(s)] + g[s \ {First(s)}]
Sums(f, S, g) == g = [s \in SUBSET S |-> Step(f, g, s)]

LEMMA SumIsFold ==
  ASSUME NEW f, NEW S
  PROVE  SumFunctionOnSet(f, S) = (CHOOSE g : Sums(f, S, g))[S]
BY Zenon DEF SumFunctionOnSet, FoldFunctionOnSet, MapThenFoldSet, Sums, Step, First

\* The recursion has a solution: one that is right up to n elements gives one
\* that is right up to n + 1.
LEMMA SumsExist ==
  ASSUME NEW f, NEW S, IsFiniteSet(S)
  PROVE  \E g : Sums(f, S, g)
<1>. DEFINE Right(g, n) ==
              \A s \in SUBSET S : Cardinality(s) <= n => g[s] = Step(f, g, s)
            P == {n \in Nat : \E g : Right(g, n)}
<1>1. \A s \in SUBSET S : IsFiniteSet(s) /\ Cardinality(s) \in Nat
  BY FS_Subset, FS_CardinalityType
<1>2. 0 \in P
  <2>1. \A s \in SUBSET S : Cardinality(s) <= 0 => s = {}
    BY <1>1, FS_EmptySet
  <2>2. Right([s \in SUBSET S |-> 0], 0)
    BY <2>1, Zenon DEF Step
  <2>. QED  BY <2>2
<1>3. ASSUME NEW n \in P PROVE n + 1 \in P
  <2>1. PICK g : Right(g, n)
    BY Zenon
  <2>. DEFINE h == [s \in SUBSET S |-> Step(f, g, s)]
  <2>2. \A s \in SUBSET S : Cardinality(s) <= n => h[s] = g[s]
    BY <2>1
  <2>3. ASSUME NEW s \in SUBSET S, Cardinality(s) <= n + 1
        PROVE  h[s] = Step(f, h, s)
    <3>1. CASE s = {}
      BY <3>1 DEF Step
    <3>2. CASE s # {}
      <4>1. First(s) \in s
        BY <3>2 DEF First
      <4>2. Cardinality(s \ {First(s)}) <= n
        BY <1>1, <2>3, <4>1, FS_RemoveElement
      <4>3. h[s \ {First(s)}] = g[s \ {First(s)}]
        BY <2>2, <4>2, Zenon
      <4>. QED  BY <4>3 DEF Step
    <3>. QED  BY <3>1, <3>2
  <2>4. Right(h, n + 1)
    BY <2>3, Zenon
  <2>5. n + 1 \in Nat
    OBVIOUS
  <2>. HIDE DEF h, Right
  <2>. QED  BY <2>4, <2>5, Zenon
<1>4. P = Nat
  <2>1. P \in SUBSET Nat
    BY Zenon
  <2>. HIDE DEF P
  <2>. QED  BY <1>2, <1>3, <2>1, NatSetInduction, Zenon
<1>5. PICK g : Right(g, Cardinality(S))
  BY <1>1, <1>4
<1>6. \A s \in SUBSET S : g[s] = Step(f, g, s)
  BY <1>1, <1>5, FS_Subset
<1>. DEFINE h == [s \in SUBSET S |-> g[s]]
<1>7. ASSUME NEW s \in SUBSET S PROVE h[s] = Step(f, h, s)
  <2>1. h[s \ {First(s)}] = g[s \ {First(s)}]
    BY Zenon
  <2>. QED  BY <1>6, <2>1, Zenon DEF Step
<1>8. h = [s \in SUBSET S |-> Step(f, h, s)]
  <2>1. \A s \in SUBSET S : h[s] = Step(f, h, s)
    BY <1>7, Zenon
  <2>2. h = [s \in SUBSET S |-> h[s]]
    BY Zenon
  <2>. HIDE DEF h
  <2>. QED  BY <2>1, <2>2, Zenon
<1>9. Sums(f, S, h)
  <2>. HIDE DEF h
  <2>. QED BY <1>8, Zenon DEF Sums
<1>. QED  BY <1>9

\* g gives the sums of f over the subsets of S.
SumsOf(f, S, g) ==
  /\ g[S] = SumFunction(f) /\ g[{}] = 0
  /\ \A s \in SUBSET S :
       s # {} => First(s) \in s /\ g[s] = f[First(s)] + g[s \ {First(s)}]

LEMMA SumRecursion ==
  ASSUME NEW S, IsFiniteSet(S), NEW f, DOMAIN f = S
  PROVE  \E g : SumsOf(f, S, g)
<1>. DEFINE g == CHOOSE g : Sums(f, S, g)
<1>1. Sums(f, S, g)
  BY SumsExist, Zenon
<1>2. SumFunction(f) = g[S]
  BY SumIsFold, Zenon DEF SumFunction
<1>. HIDE DEF g
<1>3. \A s \in SUBSET S : g[s] = Step(f, g, s)
  BY <1>1 DEF Sums
<1>4. \A s \in SUBSET S : s # {} => First(s) \in s
  BY Zenon DEF First
<1>5. g[{}] = 0
  BY <1>3 DEF Step
<1>. QED  BY <1>2, <1>3, <1>4, <1>5, Zenon DEF SumsOf, Step

\* A sum of natural numbers is one.
LEMMA SumOfNat ==
  ASSUME NEW S, IsFiniteSet(S), NEW f \in [S -> Nat]
  PROVE  SumFunction(f) \in Nat
<1>1. PICK g : SumsOf(f, S, g)
  BY SumRecursion, Zenon
<1>. DEFINE G == {s \in SUBSET S : g[s] \in Nat}
<1>2. {} \in G
  BY <1>1 DEF SumsOf
<1>3. ASSUME NEW s \in SUBSET S, s # {}, s \ {First(s)} \in G PROVE s \in G
  <2>1. First(s) \in S /\ f[First(s)] \in Nat /\ g[s] = f[First(s)] + g[s \ {First(s)}]
    BY <1>1, <1>3 DEF SumsOf
  <2>. QED  BY <1>3, <2>1
<1>4. S \in G
  <2>1. G \in SUBSET SUBSET S
    BY Zenon
  <2>. HIDE DEF G
  <2>. QED  BY <1>2, <1>3, <2>1, SubsetInduction
<1>. QED  BY <1>1, <1>4 DEF SumsOf

\* The sum of a function that is zero everywhere.
LEMMA SumOfZero ==
  ASSUME NEW S, IsFiniteSet(S), NEW f, DOMAIN f = S, \A y \in S : f[y] = 0
  PROVE  SumFunction(f) = 0
<1>1. PICK g : SumsOf(f, S, g)
  BY SumRecursion
<1>. DEFINE G == {s \in SUBSET S : g[s] = 0}
<1>2. {} \in G
  BY <1>1 DEF SumsOf
<1>3. ASSUME NEW s \in SUBSET S, s # {}, s \ {First(s)} \in G PROVE s \in G
  BY <1>1, <1>3 DEF SumsOf
<1>4. S \in G
  <2>1. G \in SUBSET SUBSET S
    BY Zenon
  <2>. HIDE DEF G
  <2>. QED  BY <1>2, <1>3, <2>1, SubsetInduction, Zenon
<1>. QED  BY <1>1, <1>4 DEF SumsOf

\* Two functions that differ at most at x: so do their sums, by as much.
LEMMA SumsDiffer ==
  ASSUME NEW S, IsFiniteSet(S), NEW f \in [S -> Nat], NEW h \in [S -> Nat],
         NEW x \in S, \A y \in S : y # x => h[y] = f[y]
  PROVE  SumFunction(h) + f[x] = SumFunction(f) + h[x]
<1>1. PICK g : SumsOf(f, S, g)
  BY SumRecursion
<1>2. PICK k : SumsOf(h, S, k)
  BY SumRecursion
<1>. DEFINE Same(s) == g[s] \in Nat /\ k[s] \in Nat
                       /\ IF x \in s THEN k[s] + f[x] = g[s] + h[x] ELSE k[s] = g[s]
            G == {s \in SUBSET S : Same(s)}
<1>3. {} \in G
  BY <1>1, <1>2 DEF SumsOf
<1>4. ASSUME NEW s \in SUBSET S, s # {}, s \ {First(s)} \in G PROVE s \in G
  <2>1. PICK y \in S : y = First(s) /\ y \in s
    BY <1>1, <1>4, Zenon DEF SumsOf
  <2>2. g[s] = f[y] + g[s \ {y}] /\ k[s] = h[y] + k[s \ {y}]
    BY <1>1, <1>2, <1>4, <2>1, Zenon DEF SumsOf
  <2>3. PICK a \in Nat, b \in Nat, c \in Nat, d \in Nat, e \in Nat, l \in Nat :
          /\ a = g[s \ {y}] /\ b = k[s \ {y}]
          /\ c = f[y] /\ d = h[y] /\ e = f[x] /\ l = h[x]
    BY <1>4, <2>1, Zenon
  <2>4. CASE y = x
    <3>1. a = b
      BY <1>4, <2>1, <2>3, <2>4, Zenon
    <3>. QED  BY <2>1, <2>2, <2>3, <2>4, <3>1, SMTT(20)
  <2>5. CASE y # x
    <3>1. c = d
      BY <2>1, <2>3, <2>5, Zenon
    <3>2. IF x \in s THEN b + e = a + l ELSE a = b
      BY <1>4, <2>1, <2>3, <2>5
    <3>. QED  BY <2>1, <2>2, <2>3, <2>5, <3>1, <3>2, SMTT(20)
  <2>. QED  BY <2>4, <2>5, Zenon
<1>5. S \in G
  <2>1. G \in SUBSET SUBSET S
    BY Zenon
  <2>. HIDE DEF G
  <2>. QED  BY <1>3, <1>4, <2>1, SubsetInduction
<1>. QED  BY <1>1, <1>2, <1>5 DEF SumsOf

LEMMA SumLawsHold == SumLaws
BY SumOfNat, SumOfZero, SumsDiffer DEF SumLaws

(***************************************************************************)
(* The theorems.                                                           *)
(***************************************************************************)

\* Every counter stays a natural number, the selector forwards only to queues
\* that exist, and neither process loses track of the task in its hands.
THEOREM DistributedTypes == Spec => []TypeOK
BY SumLawsHold, InitTInv, NextTInv, TypesFacts, PTL DEF Spec

\* At most one task is scheduled or submitted in a worker at any time, however
\* often a queue delivers it and however the loop is interrupted.
THEOREM OneTaskAtATime == Spec => []OneTaskInFlight
<1>1. FInv => OneTaskInFlight
  BY SumLawsHold, FlightBound
<1>. QED  BY <1>1, SumLawsHold, InitFInv, NextFInv, PTL DEF Spec

\* Whatever the number of clients, workers, queues and failures, every copy of
\* a task that left its client is on a queue, in the selector or in a worker,
\* or was answered or lost; only failed acknowledgements make further copies.
THEOREM DistributedTasksAccountedFor == Spec => []EveryCopyAccountedFor
<1>1. AInv => EveryCopyAccountedFor
  BY SumLawsHold, AccountedSum DEF EveryCopyAccountedFor
<1>. QED  BY <1>1, SumLawsHold, InitAInv, NextAInv, PTL DEF Spec

\* A selector and any number of workers, whichever queues and device names
\* they share, keep the promise the standalone daemon keeps: each task is
\* answered at most once and no answer is withdrawn or replaced; only a task
\* whose acknowledgement failed, in either process, is not covered.
THEOREM DistributedImplementsTaskService == Spec => ImplementsTaskService
<1>1. Spec => []AInv
  BY SumLawsHold, InitAInv, NextAInv, PTL DEF Spec
<1>. QED  BY <1>1, SumLawsHold, NextMaps, InitMaps, PTL
  DEF Spec, ImplementsTaskService, Service!Spec, ServiceStatus
=============================================================================
