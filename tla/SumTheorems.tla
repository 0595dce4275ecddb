---------------------------- MODULE SumTheorems ----------------------------
(***************************************************************************)
(* What the proofs share.  A set of numbers has a least member; and sums   *)
(* over finite sets, as the escrow contracts' books use them: what         *)
(* SumFunctionOnSet (of Functions) returns does not depend on the order    *)
(* its definition takes the elements in.                                   *)
(***************************************************************************)
EXTENDS Integers, Functions, FiniteSetTheorems, WellFoundedInduction, TLAPS

\* A set of numbers has a least member: the first line of a room, the block an
\* output is made in.
LEMMA LeastExists ==
  ASSUME NEW S \in SUBSET Nat, S # {}
  PROVE  \E x \in S : \A y \in S : x <= y
<1> DEFINE Less == OpToRel(<, Nat)
<1>1. IsWellFoundedOn(Less, Nat)
  BY NatLessThanWellFounded
<1>2. \A x, y \in Nat : x < y => <<x, y>> \in Less
  BY DEF OpToRel
<1> HIDE DEF Less
<1>3. PICK x \in S : \A y \in S : <<y, x>> \notin Less
  BY <1>1, WFMin
<1>4. ASSUME NEW y \in S PROVE x <= y
  <2>1. x \in Nat /\ y \in Nat /\ ~(y < x)
    BY <1>2, <1>3
  <2> QED
    BY <2>1
<1> QED
  BY <1>4

\* Which element of a set SumFunctionOnSet takes first.
Pick(s) == CHOOSE x \in s : TRUE

\* The equation SumFunctionOnSet takes its value from.
Sums(it, f, S) ==
  it = [s \in SUBSET S |-> IF s = {} THEN 0 ELSE f[Pick(s)] + it[s \ {Pick(s)}]]

\* A table of the sums over every subset of U, whatever element comes first.
Table(g, f, U) ==
  /\ g \in [SUBSET U -> Int]
  /\ g[{}] = 0
  /\ \A s \in SUBSET U : \A x \in s : g[s] = f[x] + g[s \ {x}]

\* Among subsets of a finite set there is a smallest one.
LEMMA SmallestSubset ==
  ASSUME NEW U, IsFiniteSet(U), NEW T \in SUBSET SUBSET U, T # {}
  PROVE  \E m \in T : \A s \in T : s \subseteq m => s = m
<1>1. T \subseteq FiniteSubsetsOf(U)
  BY FS_FiniteSubsetsOfFinite
<1>2. PICK m \in T : \A s \in T : <<s, m>> \notin StrictSubsetOrdering(U)
  BY <1>1, FS_StrictSubsetOrderingWellFounded, WFMin
<1>3. ASSUME NEW s \in T, s \subseteq m, s # m
      PROVE  FALSE
  <2>1. <<s, m>> \in (SUBSET U) \X (SUBSET U)
    OBVIOUS
  <2> QED
    BY <1>2, <1>3, <2>1 DEF StrictSubsetOrdering
<1> QED
  BY <1>2, <1>3

\* Every finite set has a table of sums.
LEMMA TableExists ==
  ASSUME NEW U, IsFiniteSet(U), NEW f, \A x \in U : f[x] \in Int
  PROVE  \E g : Table(g, f, U)
<1> DEFINE Bad == {u \in SUBSET U : ~ \E g : Table(g, f, u)}
<1> SUFFICES ASSUME U \in Bad
             PROVE  FALSE
  OBVIOUS
<1>0. Bad \in SUBSET SUBSET U /\ Bad # {}
  OBVIOUS
<1> HIDE DEF Bad
<1>1. PICK m \in Bad : \A s \in Bad : s \subseteq m => s = m
  BY <1>0, SmallestSubset
<1> USE DEF Bad
<1>2. m # {}
  <2> DEFINE g == [s \in SUBSET {} |-> 0]
  <2>1. Table(g, f, {})
    BY DEF Table
  <2> QED
    BY <1>1, <2>1
<1>3. PICK e \in m : TRUE
  BY <1>2
<1> DEFINE k == m \ {e}
<1>4. k \in SUBSET U /\ k \notin Bad
  BY <1>1, <1>3
<1>5. PICK g : Table(g, f, k)
  BY <1>4
<1> DEFINE h == [s \in SUBSET m |-> IF e \in s THEN f[e] + g[s \ {e}] ELSE g[s]]
<1>6. Table(h, f, m)
  <2>1. \A s \in SUBSET m : s \ {e} \in SUBSET k /\ (e \notin s => s \in SUBSET k)
    OBVIOUS
  <2>2. f[e] \in Int /\ g \in [SUBSET k -> Int]
    BY <1>1, <1>3, <1>5 DEF Table
  <2>3. h \in [SUBSET m -> Int]
    BY <2>1, <2>2
  <2>4. h[{}] = 0
    BY <1>5 DEF Table
  <2>5. ASSUME NEW s \in SUBSET m, NEW x \in s
        PROVE  h[s] = f[x] + h[s \ {x}]
    <3>1. f[x] \in Int
      BY <1>1
    <3>2. CASE e \notin s
      BY <1>5, <2>1, <3>2 DEF Table
    <3>3. CASE x = e
      <4>1. s \ {e} \in SUBSET m /\ e \notin s \ {e}
        OBVIOUS
      <4> QED
        BY <3>3, <4>1
    <3>4. CASE e \in s /\ x # e
      <4>1. x \in s \ {e} /\ (s \ {e}) \ {x} = (s \ {x}) \ {e} /\ e \in s \ {x}
        BY <3>4
      <4>2. g[s \ {e}] = f[x] + g[(s \ {x}) \ {e}]
        <5>1. s \ {e} \in SUBSET k
          BY <2>1
        <5>2. \A y \in s \ {e} : g[s \ {e}] = f[y] + g[(s \ {e}) \ {y}]
          BY <1>5, <5>1, Zenon DEF Table
        <5> QED
          BY <4>1, <5>2
      <4>3. h[s] = f[e] + g[s \ {e}] /\ h[s \ {x}] = f[e] + g[(s \ {x}) \ {e}]
        BY <3>4, <4>1
      <4>4. g[(s \ {x}) \ {e}] \in Int
        BY <2>1, <2>2, <4>1
      <4> HIDE DEF h
      <4> QED
        BY <2>2, <3>1, <4>2, <4>3, <4>4
    <3> QED
      BY <3>2, <3>3, <3>4
  <2> HIDE DEF h
  <2> QED
    BY <2>3, <2>4, <2>5 DEF Table
<1> QED
  BY <1>1, <1>6

\* SumFunctionOnSet satisfies its own equation wherever that has a solution.
LEMMA SumUnfold ==
  ASSUME NEW f, NEW S, NEW it, Sums(it, f, S)
  PROVE  \E g : Sums(g, f, S) /\ SumFunctionOnSet(f, S) = g[S]
<1> DEFINE g == CHOOSE g : Sums(g, f, S)
<1>1. Sums(g, f, S)
  OBVIOUS
<1>2. SumFunctionOnSet(f, S) = g[S]
  BY DEF SumFunctionOnSet, FoldFunctionOnSet, MapThenFoldSet, Sums, Pick
<1> QED
  BY <1>1, <1>2

\* SumFunctionOnSet is what a table says.
LEMMA SumIsTable ==
  ASSUME NEW U, IsFiniteSet(U), NEW f, NEW g, Table(g, f, U), NEW S \in SUBSET U
  PROVE  SumFunctionOnSet(f, S) = g[S]
<1>1. \A s \in SUBSET U : s # {} => Pick(s) \in s
  BY DEF Pick
<1> DEFINE it == [s \in SUBSET S |-> g[s]]
<1>2. Sums(it, f, S)
  <2>1. \A s \in SUBSET S : g[s] = IF s = {} THEN 0 ELSE f[Pick(s)] + it[s \ {Pick(s)}]
    BY <1>1 DEF Table
  <2> QED
    BY <2>1 DEF Sums
<1> HIDE DEF it
<1>3. PICK h : Sums(h, f, S) /\ SumFunctionOnSet(f, S) = h[S]
  BY <1>2, SumUnfold
<1> DEFINE Differ == {s \in SUBSET S : h[s] # g[s]}
<1>4. Differ = {}
  <2> SUFFICES ASSUME Differ # {}
               PROVE  FALSE
    OBVIOUS
  <2>1. IsFiniteSet(S)
    BY FS_Subset
  <2>0. Differ \in SUBSET SUBSET S
    OBVIOUS
  <2> HIDE DEF Differ
  <2>2. PICK m \in Differ : \A s \in Differ : s \subseteq m => s = m
    BY <2>1, <2>0, SmallestSubset
  <2> USE DEF Differ
  <2>3. m # {}
    BY <1>3, <2>2 DEF Sums, Table
  <2>4. Pick(m) \in m
    BY <1>1, <2>2, <2>3
  <2>5. m \ {Pick(m)} \in SUBSET S /\ h[m \ {Pick(m)}] = g[m \ {Pick(m)}]
    BY <2>2, <2>4
  <2>6. h[m] = f[Pick(m)] + h[m \ {Pick(m)}]
    BY <1>3, <2>2, <2>3 DEF Sums
  <2>7. g[m] = f[Pick(m)] + g[m \ {Pick(m)}]
    BY <2>2, <2>4 DEF Table
  <2> QED
    BY <2>2, <2>5, <2>6, <2>7
<1> QED
  BY <1>3, <1>4

-----------------------------------------------------------------------------
(* What a proof uses *)

\* A sum of integers is an integer, and that of nothing is zero.
LEMMA SumType ==
  ASSUME NEW S, IsFiniteSet(S), NEW f, \A x \in S : f[x] \in Int
  PROVE  SumFunctionOnSet(f, S) \in Int /\ SumFunctionOnSet(f, {}) = 0
<1>1. PICK g : Table(g, f, S)
  BY TableExists
<1>2. SumFunctionOnSet(f, S) = g[S] /\ SumFunctionOnSet(f, {}) = g[{}]
  BY <1>1, SumIsTable
<1> QED
  BY <1>1, <1>2 DEF Table

\* One element taken out, whichever it is.
LEMMA SumRemove ==
  ASSUME NEW S, IsFiniteSet(S), NEW f, \A x \in S : f[x] \in Int, NEW x \in S
  PROVE  SumFunctionOnSet(f, S) = f[x] + SumFunctionOnSet(f, S \ {x})
<1>1. PICK g : Table(g, f, S)
  BY TableExists
<1>2. SumFunctionOnSet(f, S) = g[S] /\ SumFunctionOnSet(f, S \ {x}) = g[S \ {x}]
  BY <1>1, SumIsTable
<1> QED
  BY <1>1, <1>2 DEF Table

\* Functions that agree on the set have the same sum.
LEMMA SumSame ==
  ASSUME NEW S, IsFiniteSet(S), NEW f, NEW g,
         \A x \in S : f[x] \in Int /\ g[x] = f[x]
  PROVE  SumFunctionOnSet(g, S) = SumFunctionOnSet(f, S)
<1>1. PICK t : Table(t, f, S)
  BY TableExists
<1>2. Table(t, g, S)
  BY <1>1 DEF Table
<1> QED
  BY <1>1, <1>2, SumIsTable

\* A sum of zeros.
LEMMA SumZero ==
  ASSUME NEW S, IsFiniteSet(S), NEW f, \A x \in S : f[x] = 0
  PROVE  SumFunctionOnSet(f, S) = 0
<1> DEFINE g == [s \in SUBSET S |-> 0]
<1>1. Table(g, f, S)
  BY DEF Table
<1>2. SumFunctionOnSet(f, S) = g[S]
  <2> HIDE DEF g
  <2> QED
    BY <1>1, SumIsTable
<1> QED
  BY <1>2

\* A sum of naturals.
LEMMA SumNat ==
  ASSUME NEW S, IsFiniteSet(S), NEW f, \A x \in S : f[x] \in Nat
  PROVE  SumFunctionOnSet(f, S) \in Nat
<1> DEFINE Bad == {s \in SUBSET S : SumFunctionOnSet(f, s) \notin Nat}
<1> SUFFICES ASSUME S \in Bad
             PROVE  FALSE
  OBVIOUS
<1>1. Bad \in SUBSET SUBSET S /\ Bad # {}
  OBVIOUS
<1> HIDE DEF Bad
<1>2. PICK m \in Bad : \A s \in Bad : s \subseteq m => s = m
  BY <1>1, SmallestSubset
<1> USE DEF Bad
<1>3. IsFiniteSet(m) /\ \A x \in m : f[x] \in Int
  BY FS_Subset
<1>4. m # {}
  <2>1. SumFunctionOnSet(f, {}) = 0
    BY <1>3, SumType
  <2>2. SumFunctionOnSet(f, m) \notin Nat
    BY <1>2
  <2> QED
    BY <2>1, <2>2
<1>5. PICK e \in m : TRUE
  BY <1>4
<1>6. SumFunctionOnSet(f, m) = f[e] + SumFunctionOnSet(f, m \ {e})
  BY <1>3, SumRemove
<1>7. SumFunctionOnSet(f, m \ {e}) \in Nat
  BY <1>2, <1>5
<1>8. f[e] \in Nat /\ SumFunctionOnSet(f, m) \notin Nat
  BY <1>2, <1>5
<1> HIDE DEF Bad
<1> QED
  BY <1>6, <1>7, <1>8

\* One value changed, and none of the others.
LEMMA SumChange ==
  ASSUME NEW S, IsFiniteSet(S), NEW f, NEW g, NEW x \in S,
         \A y \in S : f[y] \in Int /\ g[y] \in Int,
         \A y \in S \ {x} : g[y] = f[y]
  PROVE  SumFunctionOnSet(g, S) = SumFunctionOnSet(f, S) - f[x] + g[x]
<1>1. IsFiniteSet(S \ {x})
  BY FS_RemoveElement
<1>2. SumFunctionOnSet(g, S \ {x}) = SumFunctionOnSet(f, S \ {x})
  BY <1>1, SumSame
<1>3. /\ SumFunctionOnSet(f, S) = f[x] + SumFunctionOnSet(f, S \ {x})
      /\ SumFunctionOnSet(g, S) = g[x] + SumFunctionOnSet(g, S \ {x})
  BY SumRemove
<1>4. SumFunctionOnSet(f, S \ {x}) \in Int
  BY <1>1, SumType
<1> QED
  BY <1>2, <1>3, <1>4

\* One element more.
LEMMA SumAdd ==
  ASSUME NEW S, IsFiniteSet(S), NEW f, NEW x, x \notin S,
         \A y \in S \cup {x} : f[y] \in Int
  PROVE  SumFunctionOnSet(f, S \cup {x}) = SumFunctionOnSet(f, S) + f[x]
<1>1. IsFiniteSet(S \cup {x}) /\ (S \cup {x}) \ {x} = S
  BY FS_AddElement
<1>2. SumFunctionOnSet(f, S \cup {x}) = f[x] + SumFunctionOnSet(f, S)
  BY <1>1, SumRemove
<1>3. SumFunctionOnSet(f, S) \in Int
  BY SumType
<1> QED
  BY <1>2, <1>3

=============================================================================
