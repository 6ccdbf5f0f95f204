---------------------------- MODULE TotalsProofs ----------------------------
(***************************************************************************)
(* What a total is when a member enters, leaves or changes, and the least  *)
(* of a set of numbers.                                                    *)
(***************************************************************************)
EXTENDS Totals, FiniteSetTheorems, WellFoundedInduction, TLAPS

(* The units of one member: as many as it contributes. *)
LEMMA UnitsOfOne ==
    ASSUME NEW x, NEW n \in Nat
    PROVE  /\ IsFiniteSet({x} \X (1..n))
           /\ Cardinality({x} \X (1..n)) = n
<1>1. IsFiniteSet({x}) /\ Cardinality({x}) = 1
  BY FS_Singleton
<1>2. IsFiniteSet(1..n) /\ Cardinality(1..n) = n
  BY FS_Interval
<1>3. /\ IsFiniteSet({x} \X (1..n))
      /\ Cardinality({x} \X (1..n)) = Cardinality({x}) * Cardinality(1..n)
  BY <1>1, <1>2, FS_Product
<1> QED  BY <1>1, <1>2, <1>3

(* A total of naturals over a finite set is a natural. *)
LEMMA TotalType ==
    ASSUME NEW f, NEW S, IsFiniteSet(S), \A x \in S : f[x] \in Nat
    PROVE  IsFiniteSet(Units(f, S)) /\ Total(f, S) \in Nat
<1> DEFINE part == [x \in S |-> {x} \X (1..f[x])]
           parts == {{x} \X (1..f[x]) : x \in S}
<1>1. part \in Surjection(S, parts)
  BY DEF Surjection
<1>2. IsFiniteSet(parts)
  <2> HIDE DEF part, parts
  <2> QED  BY <1>1, FS_Surjection
<1>3. ASSUME NEW x \in S PROVE IsFiniteSet({x} \X (1..f[x]))
  <2>1. f[x] \in Nat
    OBVIOUS
  <2> HIDE DEF part, parts
  <2> QED  BY <2>1, UnitsOfOne
<1>4. IsFiniteSet(UNION parts)
  <2>1. \A p \in parts : IsFiniteSet(p)
    BY <1>3
  <2> HIDE DEF parts
  <2> QED  BY <1>2, <2>1, FS_UNION
<1> QED  BY <1>4, FS_CardinalityType DEF Units, Total

(* Nothing adds up to nothing. *)
LEMMA TotalOfNone == ASSUME NEW f PROVE Total(f, {}) = 0
<1>1. Units(f, {}) = {}
  BY DEF Units
<1> QED  BY <1>1, FS_EmptySet DEF Total

(* A total depends on what the members contribute, and on nothing else. *)
LEMMA TotalSame ==
    ASSUME NEW f, NEW g, NEW S, \A x \in S : f[x] = g[x]
    PROVE  Total(f, S) = Total(g, S)
<1>1. Units(f, S) = Units(g, S)
  BY DEF Units
<1> QED  BY <1>1 DEF Total

(* A new member adds what it contributes. *)
LEMMA TotalAdd ==
    ASSUME NEW f, NEW S, IsFiniteSet(S), NEW y, y \notin S,
           \A x \in S \cup {y} : f[x] \in Nat
    PROVE  Total(f, S \cup {y}) = Total(f, S) + f[y]
<1> DEFINE own == {y} \X (1..f[y])
<1>1. Units(f, S \cup {y}) = Units(f, S) \cup own
  BY DEF Units
<1>2. Units(f, S) \cap own = {}
  BY DEF Units
<1>3. IsFiniteSet(own) /\ Cardinality(own) = f[y] /\ f[y] \in Nat
  BY UnitsOfOne
<1>4. IsFiniteSet(Units(f, S)) /\ Total(f, S) \in Nat
  BY TotalType
<1> HIDE DEF own
<1>5. Cardinality(Units(f, S) \cup own)
          = Cardinality(Units(f, S)) + Cardinality(own) - Cardinality({})
  BY <1>2, <1>3, <1>4, FS_Union
<1>6. Cardinality({}) = 0
  BY FS_EmptySet
<1>7. Total(f, S \cup {y}) = Cardinality(Units(f, S) \cup own)
  BY <1>1 DEF Total
<1>8. Cardinality(Units(f, S)) = Total(f, S)
  BY DEF Total
<1> QED  BY <1>3, <1>4, <1>5, <1>6, <1>7, <1>8

(* A member that leaves takes away what it contributed, and no total is below
   the contribution of a member. *)
LEMMA TotalRemove ==
    ASSUME NEW f, NEW S, IsFiniteSet(S), NEW y \in S, \A x \in S : f[x] \in Nat
    PROVE  /\ Total(f, S \ {y}) \in Nat
           /\ Total(f, S) = Total(f, S \ {y}) + f[y]
           /\ Total(f, S \ {y}) = Total(f, S) - f[y]
           /\ f[y] <= Total(f, S)
<1>1. IsFiniteSet(S \ {y}) /\ S = (S \ {y}) \cup {y} /\ y \notin S \ {y}
  BY FS_RemoveElement
<1>2. Total(f, S) = Total(f, S \ {y}) + f[y]
  BY <1>1, TotalAdd
<1>3. Total(f, S \ {y}) \in Nat /\ f[y] \in Nat
  BY <1>1, TotalType
<1> QED  BY <1>2, <1>3

(* A part has no more than the whole. *)
LEMMA TotalSubset ==
    ASSUME NEW f, NEW S, IsFiniteSet(S), NEW T, T \subseteq S, \A x \in S : f[x] \in Nat
    PROVE  Total(f, T) \in Nat /\ Total(f, T) <= Total(f, S)
<1>1. IsFiniteSet(T)
  BY FS_Subset
<1>2. IsFiniteSet(Units(f, S)) /\ Total(f, S) \in Nat
  BY TotalType
<1>3. Total(f, T) \in Nat
  BY <1>1, TotalType
<1>4. Units(f, T) \in SUBSET Units(f, S)
  BY DEF Units
<1>5. Cardinality(Units(f, T)) <= Cardinality(Units(f, S))
  BY <1>2, <1>4, FS_Subset
<1> QED  BY <1>3, <1>5 DEF Total

(* Equal contributions make a product. *)
LEMMA TotalOfEqual ==
    ASSUME NEW f, NEW S, IsFiniteSet(S), NEW c \in Nat, \A x \in S : f[x] = c
    PROVE  Total(f, S) = Cardinality(S) * c
<1>1. Units(f, S) = S \X (1..c)
  BY DEF Units
<1>2. IsFiniteSet(1..c) /\ Cardinality(1..c) = c
  BY FS_Interval
<1>3. Cardinality(S \X (1..c)) = Cardinality(S) * Cardinality(1..c)
  BY <1>2, FS_Product
<1> QED  BY <1>1, <1>2, <1>3 DEF Total

(* What is not empty has a least number. *)
LEMMA LeastOf ==
    ASSUME NEW I, I \subseteq Nat, I # {}
    PROVE  \E n \in I : \A m \in I : n <= m
<1> DEFINE Below == {p \in Nat \X Nat : p[1] < p[2]}
<1>1. IsWellFoundedOn(Below, Nat)
  BY NatLessThanWellFounded DEF OpToRel
<1> HIDE DEF Below
<1>2. PICK n \in I : \A m \in I : <<m, n>> \notin Below
  BY <1>1, WFMin
<1>3. \A m \in I : n <= m
  <2> SUFFICES ASSUME NEW m \in I PROVE n <= m
    OBVIOUS
  <2>1. m \in Nat /\ n \in Nat /\ <<m, n>> \in Nat \X Nat
    OBVIOUS
  <2>2. ~(m < n)
    BY <1>2, <2>1 DEF Below
  <2> QED  BY <2>1, <2>2
<1> QED  BY <1>3
=============================================================================
