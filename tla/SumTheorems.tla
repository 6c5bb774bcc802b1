---------------------------- MODULE SumTheorems ----------------------------
(***************************************************************************)
(* Induction over the natural numbers and over finite sets, stated for     *)
(* sets instead of predicates, and what follows for the sums of the        *)
(* community modules: Crawler and ArchiveTask add up bytes with them.      *)
(***************************************************************************)
EXTENDS Integers, Functions, FiniteSetsExt, FiniteSetTheorems, WellFoundedInduction, TLAPS

(* Every set of natural numbers that is not empty has a least member.      *)
LEMMA LeastNatural ==
  ASSUME NEW T \in SUBSET Nat, T # {}
  PROVE  \E x \in T : \A y \in T : x <= y
PROOF
  <1>1. PICK x \in T : \A y \in T : ~ (<<y, x>> \in OpToRel(<, Nat))
    BY NatLessThanWellFounded, WFMin
  <1>2. ASSUME NEW y \in T PROVE x <= y
    <2>1. ~ (<<y, x>> \in OpToRel(<, Nat))
      BY <1>1
    <2> QED
      BY <2>1 DEF OpToRel
  <1> QED
    BY <1>2

(* A set with 0 and with the successors of its members is all of Nat.      *)
LEMMA InductiveSet ==
  ASSUME NEW T \in SUBSET Nat, 0 \in T, \A n \in T : n + 1 \in T
  PROVE  T = Nat
PROOF
  <1> SUFFICES ASSUME Nat \ T # {} PROVE FALSE
    OBVIOUS
  <1>1. PICK x \in Nat \ T : \A y \in Nat \ T : x <= y
    BY LeastNatural
  <1>2. x # 0 /\ x - 1 \in Nat
    BY <1>1
  <1>3. x - 1 \in T
    BY <1>1, <1>2
  <1> QED
    BY <1>1, <1>2, <1>3

(* A recursive function on 0 .. n exists, whatever its step: g takes it    *)
(* from the value at k - 1 to the value at k.                              *)
Iterated(f, n, V, base, g) ==
  f \in [0 .. n -> V] /\ f[0] = base /\ \A k \in 1 .. n : f[k] = g[<<k, f[k - 1]>>]

LEMMA IterationExists ==
  ASSUME NEW V, NEW base \in V, NEW g \in [Nat \X V -> V], NEW n \in Nat
  PROVE  \E f : Iterated(f, n, V, base, g)
PROOF
  <1> DEFINE Iterates(f, m) == f[0] = base /\ \A k \in 1 .. m : f[k] = g[<<k, f[k - 1]>>]
             T == {m \in Nat : \E f \in [0 .. m -> V] : Iterates(f, m)}
  <1>1. 0 \in T
    <2> DEFINE f == [k \in 0 .. 0 |-> base]
    <2>1. f \in [0 .. 0 -> V] /\ Iterates(f, 0)
      OBVIOUS
    <2> HIDE DEF f, Iterates
    <2> QED
      BY <2>1
  <1>2. ASSUME NEW m \in T PROVE m + 1 \in T
    <2>1. PICK f \in [0 .. m -> V] : Iterates(f, m)
      OBVIOUS
    <2> DEFINE h == [k \in 0 .. m + 1 |-> IF k = m + 1 THEN g[<<m + 1, f[m]>>] ELSE f[k]]
    <2>2. m \in Nat /\ \A k \in 0 .. m + 1 : k = m + 1 \/ k \in 0 .. m
      OBVIOUS
    <2>3. f[m] \in V
      BY <2>2
    <2>4. g[<<m + 1, f[m]>>] \in V
      BY <2>2, <2>3
    <2>5. h \in [0 .. m + 1 -> V]
      BY <2>2, <2>4
    <2>6. \A k \in 0 .. m : k \in 0 .. m + 1 /\ h[k] = f[k]
      BY <2>2
    <2>7. h[m + 1] = g[<<m + 1, f[m]>>]
      BY <2>2
    <2> HIDE DEF h
    <2>8. \A k \in 1 .. m + 1 : h[k] = g[<<k, h[k - 1]>>]
      <3> SUFFICES ASSUME NEW k \in 1 .. m + 1 PROVE h[k] = g[<<k, h[k - 1]>>]
        OBVIOUS
      <3>1. CASE k = m + 1
        <4>1. k - 1 = m /\ m \in 0 .. m
          BY <2>2, <3>1
        <4> QED
          BY <2>6, <2>7, <3>1, <4>1
      <3>2. CASE k \in 1 .. m
        <4>1. k \in 0 .. m /\ k - 1 \in 0 .. m
          BY <2>2, <3>2
        <4> QED
          BY <2>1, <2>6, <3>2, <4>1
      <3> QED
        BY <2>2, <3>1, <3>2
    <2>9. h[0] = base
      BY <2>1, <2>2, <2>6
    <2>10. Iterates(h, m + 1)
      BY <2>8, <2>9
    <2> HIDE DEF Iterates
    <2> QED
      BY <2>2, <2>5, <2>10
  <1>3. T = Nat
    <2> HIDE DEF T
    <2>1. T \in SUBSET Nat
      BY DEF T
    <2> QED
      BY <1>1, <1>2, <2>1, InductiveSet
  <1>4. PICK f \in [0 .. n -> V] : Iterates(f, n)
    BY <1>3
  <1>5. Iterated(f, n, V, base, g)
    BY <1>4 DEF Iterated
  <1> QED
    BY <1>5

(* All subsets of a finite set are good, if one is good whenever removing  *)
(* any of its members leaves a good one.                                   *)
LEMMA SubsetInduction ==
  ASSUME NEW D, IsFiniteSet(D), NEW G,
         \A s \in SUBSET D : (\A x \in s : s \ {x} \in G) => s \in G
  PROVE  SUBSET D \subseteq G
PROOF
  <1> DEFINE Sizes == {Cardinality(s) : s \in (SUBSET D) \ G}
  <1> SUFFICES ASSUME (SUBSET D) \ G # {} PROVE FALSE
    OBVIOUS
  <1>1. \A s \in SUBSET D : IsFiniteSet(s) /\ Cardinality(s) \in Nat
    BY FS_Subset, FS_CardinalityType
  <1>2. PICK s \in (SUBSET D) \ G : \A t \in (SUBSET D) \ G : Cardinality(s) <= Cardinality(t)
    <2>1. Sizes \in SUBSET Nat /\ Sizes # {}
      BY <1>1
    <2>2. PICK n \in Sizes : \A m \in Sizes : n <= m
      BY <2>1, LeastNatural
    <2> QED
      BY <2>2
  <1>3. ASSUME NEW x \in s PROVE s \ {x} \in G
    <2>1. Cardinality(s \ {x}) = Cardinality(s) - 1
      BY <1>1, FS_RemoveElement
    <2> QED
      BY <1>1, <1>2, <2>1
  <1>4. s \in SUBSET D /\ \A x \in s : s \ {x} \in G
    BY <1>2, <1>3
  <1>5. s \in G
    BY <1>4
  <1> QED
    BY <1>2, <1>5
-----------------------------------------------------------------------------
(* The community modules add up v over S by a function on SUBSET S that    *)
(* takes one member away at a time, whichever CHOOSE picks.                *)
Picked(s) == CHOOSE x \in s : TRUE

AddedUp(v, C, it) ==
  it = [s \in C |-> IF s = {} THEN 0 ELSE v[Picked(s)] + it[s \ {Picked(s)}]]

Total(v, S) == (CHOOSE it : AddedUp(v, SUBSET S, it))[S]

LEMMA PickedIn ==
  ASSUME NEW s, s # {}
  PROVE  Picked(s) \in s
PROOF
  BY DEF Picked

LEMMA AddingUpExists ==
  ASSUME NEW S, IsFiniteSet(S), NEW v
  PROVE  \E it : AddedUp(v, SUBSET S, it)
PROOF
  <1> DEFINE Upto(n) == {s \in SUBSET S : Cardinality(s) <= n}
             T == {n \in Nat : \E it : AddedUp(v, Upto(n), it)}
  <1>1. \A s \in SUBSET S : IsFiniteSet(s) /\ Cardinality(s) \in Nat
                            /\ (Cardinality(s) = 0 <=> s = {})
    BY FS_Subset, FS_CardinalityType, FS_EmptySet
  <1>2. 0 \in T
    <2> DEFINE it == [s \in Upto(0) |-> 0]
    <2>1. \A s \in Upto(0) : s = {}
      BY <1>1
    <2>2. AddedUp(v, Upto(0), it)
      BY <2>1 DEF AddedUp
    <2> QED
      BY <2>2
  <1>3. ASSUME NEW n \in T PROVE n + 1 \in T
    <2>1. PICK it : AddedUp(v, Upto(n), it)
      OBVIOUS
    <2> DEFINE more == [s \in Upto(n + 1) |->
                          IF s = {} THEN 0 ELSE v[Picked(s)] + it[s \ {Picked(s)}]]
    <2>2. \A s \in Upto(n + 1) : s # {} => s \ {Picked(s)} \in Upto(n)
      BY <1>1, PickedIn, FS_RemoveElement
    <2>3. \A s \in Upto(n) : s \in Upto(n + 1)
      BY <1>1
    <2>4. \A s \in Upto(n) : more[s] = it[s]
      BY <2>1, <2>3 DEF AddedUp
    <2> HIDE DEF Upto
    <2>5. AddedUp(v, Upto(n + 1), more)
      <3>1. \A s \in Upto(n + 1) : s # {} => more[s \ {Picked(s)}] = it[s \ {Picked(s)}]
        BY <2>2, <2>4
      <3>2. more = [s \in Upto(n + 1) |->
                      IF s = {} THEN 0 ELSE v[Picked(s)] + more[s \ {Picked(s)}]]
        BY <3>1
      <3> QED
        BY <3>2 DEF AddedUp
    <2> QED
      BY <2>5
  <1>4. T = Nat
    <2> HIDE DEF T
    <2>1. T \in SUBSET Nat
      BY DEF T
    <2> QED
      BY <1>2, <1>3, <2>1, InductiveSet
  <1>5. Cardinality(S) \in T /\ Upto(Cardinality(S)) = SUBSET S
    BY <1>4, FS_CardinalityType, FS_Subset
  <1> QED
    BY <1>5

LEMMA AddingUpIsUnique ==
  ASSUME NEW S, IsFiniteSet(S), NEW T \in SUBSET S, NEW v, NEW it, NEW jt,
         AddedUp(v, SUBSET S, it), AddedUp(v, SUBSET T, jt)
  PROVE  it[T] = jt[T]
PROOF
  <1> DEFINE G == {s \in SUBSET T : it[s] = jt[s]}
  <1>1. ASSUME NEW s \in SUBSET T, \A x \in s : s \ {x} \in G
        PROVE  s \in G
    <2>1. it[s] = IF s = {} THEN 0 ELSE v[Picked(s)] + it[s \ {Picked(s)}]
      BY DEF AddedUp
    <2>2. jt[s] = IF s = {} THEN 0 ELSE v[Picked(s)] + jt[s \ {Picked(s)}]
      BY DEF AddedUp
    <2>3. s # {} => it[s \ {Picked(s)}] = jt[s \ {Picked(s)}]
      BY <1>1, PickedIn
    <2> QED
      BY <2>1, <2>2, <2>3
  <1> HIDE DEF G
  <1>2. IsFiniteSet(T)
    BY FS_Subset
  <1>3. SUBSET T \subseteq G
    BY <1>1, <1>2, SubsetInduction
  <1> QED
    BY <1>3 DEF G

(* Total is what any such function says, on S and on its subsets.          *)
LEMMA TotalIs ==
  ASSUME NEW S, IsFiniteSet(S), NEW T \in SUBSET S, NEW v, NEW it,
         AddedUp(v, SUBSET S, it)
  PROVE  it[T] = Total(v, T)
PROOF
  <1> DEFINE jt == CHOOSE jt : AddedUp(v, SUBSET T, jt)
  <1>1. IsFiniteSet(T)
    BY FS_Subset
  <1>2. AddedUp(v, SUBSET T, jt)
    BY <1>1, AddingUpExists
  <1> HIDE DEF jt
  <1>3. it[T] = jt[T]
    BY <1>2, AddingUpIsUnique
  <1> QED
    BY <1>3 DEF Total, jt

LEMMA TotalStep ==
  ASSUME NEW S, IsFiniteSet(S), NEW v
  PROVE  Total(v, S) = IF S = {} THEN 0 ELSE v[Picked(S)] + Total(v, S \ {Picked(S)})
PROOF
  <1>1. PICK it : AddedUp(v, SUBSET S, it)
    BY AddingUpExists
  <1>2. it[S] = IF S = {} THEN 0 ELSE v[Picked(S)] + it[S \ {Picked(S)}]
    BY <1>1 DEF AddedUp
  <1>3. it[S] = Total(v, S) /\ it[S \ {Picked(S)}] = Total(v, S \ {Picked(S)})
    BY <1>1, TotalIs
  <1> QED
    BY <1>2, <1>3

LEMMA TotalType ==
  ASSUME NEW S, IsFiniteSet(S), NEW v, \A x \in S : v[x] \in Nat
  PROVE  Total(v, S) \in Nat
PROOF
  <1> DEFINE G == {s \in SUBSET S : Total(v, s) \in Nat}
  <1>1. ASSUME NEW s \in SUBSET S, \A x \in s : s \ {x} \in G
        PROVE  s \in G
    <2>1. Total(v, s) = IF s = {} THEN 0 ELSE v[Picked(s)] + Total(v, s \ {Picked(s)})
      BY FS_Subset, TotalStep
    <2>2. s # {} => Picked(s) \in S /\ Total(v, s \ {Picked(s)}) \in Nat
      BY <1>1, PickedIn
    <2> QED
      BY <2>1, <2>2
  <1> HIDE DEF G
  <1>2. SUBSET S \subseteq G
    BY <1>1, SubsetInduction
  <1> QED
    BY <1>2 DEF G

(* It does not matter which member is taken away first.                    *)
LEMMA TotalWithout ==
  ASSUME NEW S, IsFiniteSet(S), NEW v, \A x \in S : v[x] \in Nat, NEW y \in S
  PROVE  Total(v, S) = v[y] + Total(v, S \ {y})
PROOF
  <1> DEFINE G == {s \in SUBSET S : \A x \in s : Total(v, s) = v[x] + Total(v, s \ {x})}
  <1>1. ASSUME NEW s \in SUBSET S, \A x \in s : s \ {x} \in G, NEW x \in s
        PROVE  Total(v, s) = v[x] + Total(v, s \ {x})
    <2> DEFINE p == Picked(s)
    <2>1. p \in s /\ p \in S /\ x \in S
      BY PickedIn
    <2>2. Total(v, s) = v[p] + Total(v, s \ {p})
      BY FS_Subset, TotalStep
    <2> HIDE DEF p
    <2>3. CASE x = p
      BY <2>2, <2>3
    <2>4. CASE x # p
      <3>1. Total(v, s \ {p}) = v[x] + Total(v, (s \ {p}) \ {x})
        BY <1>1, <2>1, <2>4
      <3>2. Total(v, s \ {x}) = v[p] + Total(v, (s \ {x}) \ {p})
        BY <1>1, <2>1, <2>4
      <3>3. (s \ {p}) \ {x} = (s \ {x}) \ {p}
        OBVIOUS
      <3>4. Total(v, (s \ {x}) \ {p}) \in Nat
        <4>1. (s \ {x}) \ {p} \in SUBSET S
          OBVIOUS
        <4> QED
          BY <4>1, FS_Subset, TotalType
      <3>5. v[p] \in Nat /\ v[x] \in Nat
        BY <2>1
      <3> QED
        BY <2>2, <3>1, <3>2, <3>3, <3>4, <3>5
    <2> QED
      BY <2>3, <2>4
  <1>2. ASSUME NEW s \in SUBSET S, \A x \in s : s \ {x} \in G
        PROVE  s \in G
    BY <1>1, <1>2
  <1> HIDE DEF G
  <1>3. SUBSET S \subseteq G
    BY <1>2, SubsetInduction
  <1> QED
    BY <1>3 DEF G

LEMMA TotalWith ==
  ASSUME NEW S, IsFiniteSet(S), NEW v, \A x \in S : v[x] \in Nat,
         NEW y, y \notin S, v[y] \in Nat
  PROVE  Total(v, S \cup {y}) = Total(v, S) + v[y]
PROOF
  <1>1. IsFiniteSet(S \cup {y}) /\ (S \cup {y}) \ {y} = S
    BY FS_AddElement
  <1>2. Total(v, S) \in Nat
    BY TotalType
  <1>3. Total(v, S \cup {y}) = v[y] + Total(v, (S \cup {y}) \ {y})
    BY <1>1, TotalWithout
  <1>4. Total(v, (S \cup {y}) \ {y}) = Total(v, S)
    BY <1>1
  <1> QED
    BY <1>2, <1>3, <1>4

LEMMA TotalUnion ==
  ASSUME NEW S, IsFiniteSet(S), NEW T, IsFiniteSet(T), S \cap T = {},
         NEW v, \A x \in S \cup T : v[x] \in Nat
  PROVE  Total(v, S \cup T) = Total(v, S) + Total(v, T)
PROOF
  <1> DEFINE G == {t \in SUBSET T : Total(v, S \cup t) = Total(v, S) + Total(v, t)}
  <1>0. Total(v, S) \in Nat
    BY TotalType
  <1>1. ASSUME NEW t \in SUBSET T, \A x \in t : t \ {x} \in G
        PROVE  t \in G
    <2>1. CASE t = {}
      <3>1. S \cup t = S /\ Total(v, t) = 0
        BY <2>1, FS_EmptySet, TotalStep
      <3> QED
        BY <1>0, <3>1
    <2>2. CASE t # {}
      <3>1. PICK x \in t : TRUE
        BY <2>2
      <3>2. IsFiniteSet(t) /\ IsFiniteSet(t \ {x}) /\ IsFiniteSet(S \cup (t \ {x}))
        BY FS_Subset, FS_RemoveElement, FS_Union
      <3>3. /\ x \notin S \cup (t \ {x}) /\ (S \cup (t \ {x})) \cup {x} = S \cup t
            /\ (t \ {x}) \cup {x} = t /\ v[x] \in Nat
            /\ \A z \in S \cup (t \ {x}) : v[z] \in Nat
            /\ \A z \in t \ {x} : v[z] \in Nat
        BY <3>1
      <3>4. Total(v, S \cup t) = Total(v, S \cup (t \ {x})) + v[x]
        BY <3>2, <3>3, TotalWith
      <3>5. Total(v, t) = Total(v, t \ {x}) + v[x]
        BY <3>2, <3>3, TotalWith
      <3>6. Total(v, t \ {x}) \in Nat
        BY <3>2, <3>3, TotalType
      <3>7. Total(v, S \cup (t \ {x})) = Total(v, S) + Total(v, t \ {x})
        BY <1>1, <3>1
      <3> QED
        BY <1>0, <3>3, <3>4, <3>5, <3>6, <3>7
    <2> QED
      BY <2>1, <2>2
  <1> HIDE DEF G
  <1>2. SUBSET T \subseteq G
    BY <1>1, SubsetInduction
  <1> QED
    BY <1>2 DEF G

(* Only what the summed members have matters.                              *)
LEMMA TotalSame ==
  ASSUME NEW S, IsFiniteSet(S), NEW v, NEW u, \A x \in S : v[x] = u[x]
  PROVE  Total(v, S) = Total(u, S)
PROOF
  <1>1. PICK it : AddedUp(v, SUBSET S, it)
    BY AddingUpExists
  <1>2. \A s \in SUBSET S : s # {} => v[Picked(s)] = u[Picked(s)]
    BY PickedIn
  <1>3. AddedUp(u, SUBSET S, it)
    BY <1>1, <1>2 DEF AddedUp
  <1>4. S \in SUBSET S
    OBVIOUS
  <1>5. it[S] = Total(v, S)
    BY <1>1, <1>4, TotalIs
  <1>6. it[S] = Total(u, S)
    BY <1>3, <1>4, TotalIs
  <1> QED
    BY <1>5, <1>6
-----------------------------------------------------------------------------
(* The sums of the models are such totals.                                 *)
LEMMA SumOnSetIsTotal ==
  ASSUME NEW v, NEW S
  PROVE  SumFunctionOnSet(v, S) = Total(v, S)
PROOF
  BY DEF SumFunctionOnSet, FoldFunctionOnSet, MapThenFoldSet, Total, AddedUp, Picked
=============================================================================
