------------------------- MODULE UnitCountingProofs -------------------------
(* The laws of sums that the ledger proofs use, from cardinality theorems. *)
EXTENDS UnitCounting, FiniteSetTheorems, TLAPS

\* One owner's units are as many as its amount.
LEMMA OwnUnits ==
    ASSUME NEW x, NEW n \in Nat
    PROVE  IsFiniteSet({x} \X (1 .. n)) /\ Cardinality({x} \X (1 .. n)) = n
<1>1. IsFiniteSet({x}) /\ Cardinality({x}) = 1
  BY FS_Singleton
<1>2. IsFiniteSet(1 .. n) /\ Cardinality(1 .. n) = n
  BY FS_Interval
<1>3. /\ IsFiniteSet({x} \X (1 .. n))
      /\ Cardinality({x} \X (1 .. n)) = Cardinality({x}) * Cardinality(1 .. n)
  BY <1>1, <1>2, FS_Product, Zenon
<1>4. 1 * n = n
  OBVIOUS
<1>. QED  BY <1>1, <1>2, <1>3, <1>4, Zenon

\* The units of finitely many owners are finitely many.
LEMMA UnitsFinite ==
    ASSUME NEW S, IsFiniteSet(S), NEW g, \A s \in S : g[s] \in Nat
    PROVE  IsFiniteSet(Units(S, g))
<1>. DEFINE f == [s \in S |-> {s} \X (1 .. g[s])]
            T == {{s} \X (1 .. g[s]) : s \in S}
<1>1. f \in Surjection(S, T)
  BY DEF Surjection
<1>2. IsFiniteSet(T)
  BY <1>1, FS_Surjection
<1>3. ASSUME NEW u \in T
      PROVE  IsFiniteSet(u)
  <2>1. PICK s \in S : u = {s} \X (1 .. g[s])
    BY Zenon
  <2>2. g[s] \in Nat
    OBVIOUS
  <2>3. IsFiniteSet({s} \X (1 .. g[s]))
    BY <2>2, OwnUnits, Zenon
  <2>. QED  BY <2>1, <2>3, Zenon
<1>. QED  BY <1>2, <1>3, FS_UNION DEF Units

\* A sum of naturals is a natural.
LEMMA TotalNat ==
    ASSUME NEW S, IsFiniteSet(S), NEW g, \A s \in S : g[s] \in Nat
    PROVE  Total(S, g) \in Nat
BY UnitsFinite, FS_CardinalityType DEF Total

\* The empty sum.
LEMMA TotalEmpty ==
    ASSUME NEW g
    PROVE  Total({}, g) = 0
BY FS_EmptySet DEF Total, Units

\* A sum depends only on the amounts of the elements summed over.
LEMMA TotalCong ==
    ASSUME NEW S, NEW g, NEW h, \A s \in S : g[s] = h[s]
    PROVE  Total(S, g) = Total(S, h)
BY DEF Total, Units

\* One element can be taken out of a sum.
LEMMA TotalRemove ==
    ASSUME NEW S, IsFiniteSet(S), NEW g, \A s \in S : g[s] \in Nat, NEW x \in S
    PROVE  Total(S, g) = Total(S \ {x}, g) + g[x]
<1>. DEFINE A == Units(S \ {x}, g)
            B == {x} \X (1 .. g[x])
<1>1. Units(S, g) = A \cup B
  BY DEF Units
<1>2. A \cap B = {}
  BY DEF Units
<1>3. IsFiniteSet(A)
  BY UnitsFinite, FS_RemoveElement
<1>4. IsFiniteSet(B) /\ Cardinality(B) = g[x]
  BY OwnUnits
<1>5. Cardinality(A) \in Nat
  BY <1>3, FS_CardinalityType
<1>6. Cardinality(A \cup B) = Cardinality(A) + Cardinality(B) - Cardinality(A \cap B)
  BY <1>3, <1>4, FS_Union
<1>. HIDE DEF A, B
<1>7. Cardinality(A \cup B) = Cardinality(A) + g[x]
  BY <1>2, <1>4, <1>5, <1>6, FS_EmptySet
<1>. QED  BY <1>1, <1>7 DEF Total, A

\* Putting one element into a sum.
LEMMA TotalAdd ==
    ASSUME NEW S, IsFiniteSet(S), NEW x, x \notin S,
           NEW g, \A s \in S \cup {x} : g[s] \in Nat
    PROVE  Total(S \cup {x}, g) = Total(S, g) + g[x]
<1>1. IsFiniteSet(S \cup {x})
  BY FS_AddElement
<1>2. (S \cup {x}) \ {x} = S
  OBVIOUS
<1>. QED  BY <1>1, <1>2, TotalRemove

\* Changing the amount of one element changes the sum by as much.
LEMMA TotalUpdate ==
    ASSUME NEW S, IsFiniteSet(S), NEW x \in S,
           NEW g, \A s \in S : g[s] \in Nat,
           NEW h, h[x] \in Nat, \A s \in S \ {x} : h[s] = g[s]
    PROVE  Total(S, h) = Total(S, g) - g[x] + h[x]
<1>1. Total(S, g) = Total(S \ {x}, g) + g[x]
  BY TotalRemove
<1>2. Total(S, h) = Total(S \ {x}, h) + h[x]
  <2>1. \A s \in S : h[s] \in Nat
    OBVIOUS
  <2>. QED  BY <2>1, TotalRemove
<1>3. Total(S \ {x}, h) = Total(S \ {x}, g)
  BY TotalCong
<1>4. Total(S \ {x}, g) \in Nat
  BY FS_RemoveElement, TotalNat
<1>. QED  BY <1>1, <1>2, <1>3, <1>4

\* No single amount exceeds the sum.
LEMMA TotalMember ==
    ASSUME NEW S, IsFiniteSet(S), NEW x \in S, NEW g, \A s \in S : g[s] \in Nat
    PROVE  g[x] <= Total(S, g)
<1>1. Total(S \ {x}, g) \in Nat
  BY FS_RemoveElement, TotalNat
<1>. QED  BY <1>1, TotalRemove

\* A part of a sum is not more than the sum.
LEMMA TotalPart ==
    ASSUME NEW S, IsFiniteSet(S), NEW R \in SUBSET S, NEW g, \A s \in S : g[s] \in Nat
    PROVE  Total(R, g) <= Total(S, g)
<1>1. Units(R, g) \subseteq Units(S, g)
  BY DEF Units
<1>2. IsFiniteSet(Units(S, g))
  BY UnitsFinite
<1>. QED  BY <1>1, <1>2, FS_Subset DEF Total

\* A sum of zeros is zero.
LEMMA TotalZero ==
    ASSUME NEW S, NEW g, \A s \in S : g[s] = 0
    PROVE  Total(S, g) = 0
<1>1. Units(S, g) = {}
  BY DEF Units
<1>. QED  BY <1>1, FS_EmptySet DEF Total

=============================================================================
