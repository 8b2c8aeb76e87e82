---------------------------- MODULE SumTheorems ----------------------------
(***************************************************************************)
(* Sums over finite sets: SumFunctionOnSet(f, S) is the sum of f[x] over   *)
(* the members of S.  The quotas, limits and budgets of the components     *)
(* are stated with it.                                                     *)
(*                                                                         *)
(* The sum is defined by choosing one member after the other.  Induction   *)
(* over the set is done with the smallest counterexample (WFMin), whose    *)
(* proper subsets are none.                                                *)
(***************************************************************************)
EXTENDS Integers, FiniteSets, Functions, FiniteSetTheorems, WellFoundedInduction, TLAPS

\* The member the sum takes first.
First(s) == CHOOSE x \in s : TRUE

\* What the definition computes in one step.
Unrolls(f, s) ==
  SumFunctionOnSet(f, s) =
    IF s = {} THEN 0 ELSE f[First(s)] + SumFunctionOnSet(f, s \ {First(s)})

\* A set of finite sets with a member has one that has no proper subset in it.
LEMMA Smallest ==
  ASSUME NEW S, IsFiniteSet(S), NEW T \in SUBSET SUBSET S, T # {}
  PROVE  \E s \in T : \A t \in T : t \subseteq s => t = s
<1>1. IsWellFoundedOn(StrictSubsetOrdering(S), SUBSET S)
  BY FS_StrictSubsetOrderingWellFounded, FS_FiniteSubsetsOfFinite
<1>2. PICK s \in T : \A t \in T : ~ (<<t, s>> \in StrictSubsetOrdering(S))
  BY <1>1, WFMin
<1> QED
  BY <1>2 DEF StrictSubsetOrdering

LEMMA FirstIsMember ==
  ASSUME NEW s, s # {}
  PROVE  First(s) \in s
BY DEF First

\* The function of the definition.
Iterates(f, s, it) ==
  it = [t \in SUBSET s |-> IF t = {} THEN 0 ELSE f[First(t)] + it[t \ {First(t)}]]

LEMMA SumIsIteration ==
  ASSUME NEW f, NEW s
  PROVE  SumFunctionOnSet(f, s) = (CHOOSE it : Iterates(f, s, it))[s]
BY Zenon DEF SumFunctionOnSet, FoldFunctionOnSet, MapThenFoldSet, Iterates, First

\* The definition is well founded: it computes what it says.
LEMMA SumUnrolls ==
  ASSUME NEW f, NEW S, IsFiniteSet(S)
  PROVE  Unrolls(f, S)
<1> DEFINE bad == {s \in SUBSET S : ~ Unrolls(f, s)}
<1> SUFFICES ASSUME bad # {} PROVE FALSE
  OBVIOUS
<1>1. PICK s \in bad : \A t \in bad : t \subseteq s => t = s
  <2>1. bad \in SUBSET SUBSET S
    OBVIOUS
  <2> HIDE DEF bad
  <2> QED
    BY <2>1, Smallest
<1>2. s \subseteq S /\ ~ Unrolls(f, s)
  OBVIOUS
<1>3. \A t \in SUBSET s : t # s => Unrolls(f, t)
  BY <1>1, <1>2
<1> HIDE DEF bad
<1> DEFINE Sum(t) == SumFunctionOnSet(f, t)
           g == [t \in SUBSET s |-> IF t = {} THEN 0 ELSE f[First(t)] + Sum(t \ {First(t)})]
<1>4. \A t \in SUBSET s : t # {} => /\ t \ {First(t)} \in SUBSET s
                                    /\ t \ {First(t)} # s
  BY FirstIsMember
<1>5. Iterates(f, s, g)
  <2>1. \A t \in SUBSET s : t # s => g[t] = Sum(t)
    BY <1>3 DEF Unrolls
  <2>2. \A t \in SUBSET s : t # {} => g[t \ {First(t)}] = Sum(t \ {First(t)})
    BY <1>4, <2>1
  <2>3. \A t \in SUBSET s :
          g[t] = IF t = {} THEN 0 ELSE f[First(t)] + g[t \ {First(t)}]
    BY <2>2
  <2>4. g = [t \in SUBSET s |-> g[t]]
    OBVIOUS
  <2> HIDE DEF g
  <2> QED
    BY <2>3, <2>4 DEF Iterates
<1> DEFINE it == CHOOSE i : Iterates(f, s, i)
<1>6. Iterates(f, s, it)
  BY <1>5
<1>7. Sum(s) = it[s]
  BY SumIsIteration
<1> HIDE DEF it, g
<1>8. \A t \in SUBSET s : it[t] = IF t = {} THEN 0 ELSE f[First(t)] + it[t \ {First(t)}]
  BY <1>6 DEF Iterates
<1>9. \A t \in SUBSET s : t # s => it[t] = Sum(t)
  <2> DEFINE wrong == {t \in SUBSET s : t # s /\ it[t] # Sum(t)}
  <2> SUFFICES ASSUME wrong # {} PROVE FALSE
    OBVIOUS
  <2>1. wrong \in SUBSET SUBSET S
    BY <1>2
  <2>2. PICK t \in wrong : \A v \in wrong : v \subseteq t => v = t
    <3> HIDE DEF wrong
    <3> QED
      BY <2>1, Smallest
  <2>3. t \in SUBSET s /\ t # s /\ it[t] # Sum(t)
    OBVIOUS
  <2>4. Sum(t) = IF t = {} THEN 0 ELSE f[First(t)] + Sum(t \ {First(t)})
    BY <1>3, <2>3 DEF Unrolls
  <2>5. t # {} => it[t \ {First(t)}] = Sum(t \ {First(t)})
    <3> SUFFICES ASSUME t # {} PROVE it[t \ {First(t)}] = Sum(t \ {First(t)})
      OBVIOUS
    <3>1. First(t) \in t
      BY FirstIsMember
    <3>2. t \ {First(t)} \subseteq t /\ t \ {First(t)} # t
      BY <3>1
    <3>3. t \ {First(t)} \notin wrong
      BY <2>2, <3>2
    <3> QED
      BY <1>4, <2>3, <3>3
  <2> QED
    BY <1>8, <2>3, <2>4, <2>5
<1>10. Unrolls(f, s)
  <2>1. s # {} => it[s \ {First(s)}] = Sum(s \ {First(s)})
    BY <1>4, <1>9
  <2>2. Sum(s) = IF s = {} THEN 0 ELSE f[First(s)] + Sum(s \ {First(s)})
    BY <1>7, <1>8, <2>1
  <2> QED
    BY <2>2 DEF Unrolls
<1> QED
  BY <1>2, <1>10

-----------------------------------------------------------------------------
(* What the components use.                                                *)

LEMMA SumOfNothing ==
  ASSUME NEW f
  PROVE  SumFunctionOnSet(f, {}) = 0
BY SumUnrolls, FS_EmptySet DEF Unrolls

LEMMA SumIsNatural ==
  ASSUME NEW f, NEW S, IsFiniteSet(S), \A x \in S : f[x] \in Nat
  PROVE  SumFunctionOnSet(f, S) \in Nat
<1> DEFINE bad == {s \in SUBSET S : SumFunctionOnSet(f, s) \notin Nat}
<1> SUFFICES ASSUME bad # {} PROVE FALSE
  OBVIOUS
<1>1. bad \in SUBSET SUBSET S
  OBVIOUS
<1>2. PICK s \in bad : \A t \in bad : t \subseteq s => t = s
  <2> HIDE DEF bad
  <2> QED
    BY <1>1, Smallest
<1>3. s \in SUBSET S /\ SumFunctionOnSet(f, s) \notin Nat /\ IsFiniteSet(s)
  BY FS_Subset
<1>4. SumFunctionOnSet(f, s) =
        IF s = {} THEN 0 ELSE f[First(s)] + SumFunctionOnSet(f, s \ {First(s)})
  BY <1>3, SumUnrolls DEF Unrolls
<1>5. s # {} /\ First(s) \in s
  BY <1>3, <1>4, FirstIsMember
<1>6. s \ {First(s)} \in SUBSET S /\ s \ {First(s)} # s
  BY <1>3, <1>5
<1>7. SumFunctionOnSet(f, s \ {First(s)}) \in Nat
  BY <1>2, <1>6
<1>8. f[First(s)] \in Nat
  BY <1>3, <1>5
<1> QED
  BY <1>3, <1>4, <1>5, <1>7, <1>8

\* Any member may be taken first.
LEMMA SumTakesOut ==
  ASSUME NEW f, NEW S, IsFiniteSet(S), \A x \in S : f[x] \in Nat, NEW u \in S
  PROVE  SumFunctionOnSet(f, S) = f[u] + SumFunctionOnSet(f, S \ {u})
<1> DEFINE Sum(s) == SumFunctionOnSet(f, s)
           bad == {s \in SUBSET S : \E x \in s : Sum(s) # f[x] + Sum(s \ {x})}
<1> SUFFICES ASSUME bad # {} PROVE FALSE
  OBVIOUS
<1>1. bad \in SUBSET SUBSET S
  OBVIOUS
<1>2. PICK s \in bad : \A t \in bad : t \subseteq s => t = s
  <2> HIDE DEF bad
  <2> QED
    BY <1>1, Smallest
<1>3. PICK x \in s : Sum(s) # f[x] + Sum(s \ {x})
  OBVIOUS
<1>4. s \in SUBSET S /\ s # {}
  OBVIOUS
<1>5. \A t \in SUBSET s : t # s => \A z \in t : Sum(t) = f[z] + Sum(t \ {z})
  BY <1>2, <1>4
<1>6. \A t \in SUBSET s : Sum(t) \in Nat
  BY <1>4, FS_Subset, SumIsNatural
<1> HIDE DEF bad
<1> DEFINE y == First(s)
<1>7. y \in s /\ Sum(s) = f[y] + Sum(s \ {y})
  BY <1>4, FS_Subset, FirstIsMember, SumUnrolls DEF Unrolls
<1> HIDE DEF y
<1>8. x # y
  BY <1>3, <1>7
<1> DEFINE both == (s \ {y}) \ {x}
<1>9. Sum(s \ {y}) = f[x] + Sum(both)
  BY <1>5, <1>7, <1>8
<1>10. Sum(s \ {x}) = f[y] + Sum(both)
  <2>1. both = (s \ {x}) \ {y}
    OBVIOUS
  <2> QED
    BY <1>5, <1>7, <1>8, <2>1
<1>11. f[x] \in Nat /\ f[y] \in Nat /\ Sum(both) \in Nat
  BY <1>4, <1>6, <1>7
<1> HIDE DEF both
<1> QED
  BY <1>3, <1>7, <1>9, <1>10, <1>11

LEMMA SumAdds ==
  ASSUME NEW f, NEW S, IsFiniteSet(S), NEW u, u \notin S, \A x \in S \cup {u} : f[x] \in Nat
  PROVE  SumFunctionOnSet(f, S \cup {u}) = SumFunctionOnSet(f, S) + f[u]
<1> DEFINE T == S \cup {u}
<1>1. IsFiniteSet(T)
  BY FS_AddElement
<1>2. u \in T /\ T \ {u} = S /\ \A x \in T : f[x] \in Nat
  OBVIOUS
<1>3. SumFunctionOnSet(f, S) \in Nat
  BY SumIsNatural
<1> HIDE DEF T
<1>4. SumFunctionOnSet(f, T) = f[u] + SumFunctionOnSet(f, T \ {u})
  BY <1>1, <1>2, SumTakesOut
<1>5. SumFunctionOnSet(f, T) = f[u] + SumFunctionOnSet(f, S)
  BY <1>2, <1>4, Zenon
<1>6. SumFunctionOnSet(f, T) = SumFunctionOnSet(f, S) + f[u]
  BY <1>2, <1>3, <1>5
<1> QED
  BY <1>6 DEF T

\* Functions that agree on the set have the same sum over it.
LEMMA SumAgrees ==
  ASSUME NEW f, NEW g, NEW S, IsFiniteSet(S), \A x \in S : f[x] = g[x]
  PROVE  SumFunctionOnSet(f, S) = SumFunctionOnSet(g, S)
<1> DEFINE bad == {s \in SUBSET S : SumFunctionOnSet(f, s) # SumFunctionOnSet(g, s)}
<1> SUFFICES ASSUME bad # {} PROVE FALSE
  OBVIOUS
<1>1. bad \in SUBSET SUBSET S
  OBVIOUS
<1>2. PICK s \in bad : \A t \in bad : t \subseteq s => t = s
  <2> HIDE DEF bad
  <2> QED
    BY <1>1, Smallest
<1>3. s \in SUBSET S /\ SumFunctionOnSet(f, s) # SumFunctionOnSet(g, s) /\ IsFiniteSet(s)
  BY FS_Subset
<1>4. Unrolls(f, s) /\ Unrolls(g, s)
  BY <1>3, SumUnrolls
<1> HIDE DEF bad
<1>5. s # {} /\ First(s) \in s
  <2>1. s # {}
    BY <1>3, <1>4 DEF Unrolls
  <2> QED
    BY <2>1, FirstIsMember
<1> USE DEF bad
<1>6. s \ {First(s)} \in SUBSET S /\ s \ {First(s)} # s
  BY <1>3, <1>5
<1>7. SumFunctionOnSet(f, s \ {First(s)}) = SumFunctionOnSet(g, s \ {First(s)})
  BY <1>2, <1>6
<1>8. f[First(s)] = g[First(s)]
  BY <1>3, <1>5
<1> QED
  BY <1>3, <1>4, <1>5, <1>7, <1>8 DEF Unrolls

\* The sum over two parts.
LEMMA SumSplits ==
  ASSUME NEW f, NEW S, IsFiniteSet(S), NEW T \in SUBSET S, \A x \in S : f[x] \in Nat
  PROVE  SumFunctionOnSet(f, S) = SumFunctionOnSet(f, T) + SumFunctionOnSet(f, S \ T)
<1> DEFINE Sum(s) == SumFunctionOnSet(f, s)
           bad == {s \in SUBSET T : Sum(S \ (T \ s)) # Sum(s) + Sum(S \ T)}
<1> SUFFICES ASSUME bad # {} PROVE FALSE
  <2> SUFFICES ASSUME Sum(S) # Sum(T) + Sum(S \ T) PROVE T \in bad
    OBVIOUS
  <2>1. S \ (T \ T) = S
    OBVIOUS
  <2> QED
    BY <2>1
<1>1. IsFiniteSet(T) /\ bad \in SUBSET SUBSET T
  BY FS_Subset
<1>2. PICK s \in bad : \A t \in bad : t \subseteq s => t = s
  <2> HIDE DEF bad
  <2> QED
    BY <1>1, Smallest
<1>3. s \in SUBSET T /\ Sum(S \ (T \ s)) # Sum(s) + Sum(S \ T)
  OBVIOUS
<1>4. /\ IsFiniteSet(s) /\ IsFiniteSet(S \ (T \ s)) /\ IsFiniteSet(S \ T)
      /\ Sum(S \ T) \in Nat
  BY <1>3, FS_Subset, SumIsNatural
<1>5. CASE s = {}
  <2>1. S \ (T \ s) = S \ T
    BY <1>5
  <2> QED
    BY <1>3, <1>4, <1>5, <2>1, SumOfNothing
<1>6. CASE s # {}
  <2>1. PICK x \in s : TRUE
    BY <1>6
  <2>2. s \ {x} \in SUBSET T /\ s \ {x} # s /\ x \in S
    BY <1>3, <2>1
  <2>3. Sum(S \ (T \ (s \ {x}))) = Sum(s \ {x}) + Sum(S \ T)
    BY <1>2, <2>2
  <2> HIDE DEF bad
  <2>4. Sum(s) = f[x] + Sum(s \ {x})
    BY <1>3, <1>4, <2>1, SumTakesOut
  <2>5. Sum(S \ (T \ s)) = f[x] + Sum((S \ (T \ s)) \ {x})
    <3>1. x \in S \ (T \ s) /\ \A z \in S \ (T \ s) : f[z] \in Nat
      BY <2>1, <2>2
    <3> QED
      BY <1>4, <3>1, SumTakesOut
  <2>6. (S \ (T \ s)) \ {x} = S \ (T \ (s \ {x}))
    BY <1>3, <2>1
  <2>7. f[x] \in Nat /\ Sum(s \ {x}) \in Nat
    <3>1. IsFiniteSet(s \ {x}) /\ \A z \in s \ {x} : f[z] \in Nat
      BY <1>3, <1>4, FS_Subset
    <3> QED
      BY <2>2, <3>1, SumIsNatural
  <2>8. Sum(S \ (T \ s)) = f[x] + (Sum(s \ {x}) + Sum(S \ T))
    BY <2>3, <2>5, <2>6, Zenon
  <2>9. Sum(S \ (T \ s)) = Sum(s) + Sum(S \ T)
    BY <1>4, <2>4, <2>7, <2>8
  <2> QED
    BY <1>3, <2>9
<1> QED
  BY <1>5, <1>6
=============================================================================
