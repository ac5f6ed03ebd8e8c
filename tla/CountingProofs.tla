--------------------------- MODULE CountingProofs ---------------------------
(***************************************************************************)
(* How a step changes the size of a finite set it adds to or takes from,   *)
(* and what that makes of a budget counted in multiples of a constant.     *)
(***************************************************************************)
EXTENDS Integers, FiniteSetTheorems, TLAPS

\* Two parts A and B of a finite set S, A being what B becomes.
LEMMA Counts ==
  ASSUME NEW S, IsFiniteSet(S), NEW A \in SUBSET S, NEW B \in SUBSET S
  PROVE  /\ Cardinality(A) \in Nat /\ Cardinality(B) \in Nat /\ Cardinality(S) \in Nat
         /\ Cardinality(A) <= Cardinality(S)
         /\ A \subseteq B => Cardinality(A) <= Cardinality(B)
         /\ \A x : A \subseteq B \cup {x} => Cardinality(A) <= Cardinality(B) + 1
         /\ \A x \in B : A \subseteq B \ {x} => Cardinality(A) <= Cardinality(B) - 1
<1>1. IsFiniteSet(A) /\ IsFiniteSet(B) /\ Cardinality(A) <= Cardinality(S)
  BY FS_Subset
<1>2. Cardinality(A) \in Nat /\ Cardinality(B) \in Nat /\ Cardinality(S) \in Nat
  BY <1>1, FS_CardinalityType
<1>3. A \subseteq B => Cardinality(A) <= Cardinality(B)
  BY <1>1, FS_Subset
<1>4. ASSUME NEW x, A \subseteq B \cup {x}
      PROVE  Cardinality(A) <= Cardinality(B) + 1
  <2>1. /\ IsFiniteSet(B \cup {x})
        /\ Cardinality(B \cup {x}) = IF x \in B THEN Cardinality(B) ELSE Cardinality(B) + 1
    BY <1>1, FS_AddElement
  <2>2. Cardinality(A) <= Cardinality(B \cup {x})
    BY <1>4, <2>1, FS_Subset
  <2> QED
    BY <1>2, <2>1, <2>2
<1>5. ASSUME NEW x \in B, A \subseteq B \ {x}
      PROVE  Cardinality(A) <= Cardinality(B) - 1
  <2>1. IsFiniteSet(B \ {x}) /\ Cardinality(B \ {x}) = Cardinality(B) - 1
    BY <1>1, FS_RemoveElement
  <2> QED
    BY <1>5, <2>1, FS_Subset
<1> QED
  BY <1>1, <1>2, <1>3, <1>4, <1>5

\* What is left of a finite set is finite.
LEMMA PartsCounted ==
  ASSUME NEW S, IsFiniteSet(S), NEW A \in SUBSET S
  PROVE  IsFiniteSet(A) /\ Cardinality(A) \in Nat /\ Cardinality(S) \in Nat
BY FS_Subset, FS_CardinalityType

\* A set that gains one element at most.
LEMMA OneMore ==
  ASSUME NEW B, IsFiniteSet(B), NEW A
  PROVE  /\ Cardinality(B) \in Nat
         /\ A \subseteq B => /\ IsFiniteSet(A) /\ Cardinality(A) \in Nat
                            /\ Cardinality(A) <= Cardinality(B)
         /\ \A x : A \subseteq B \cup {x} => /\ IsFiniteSet(A) /\ Cardinality(A) \in Nat
                                            /\ Cardinality(A) <= Cardinality(B) + 1
<1>1. Cardinality(B) \in Nat
  BY FS_CardinalityType
<1>2. A \subseteq B => IsFiniteSet(A) /\ Cardinality(A) \in Nat /\ Cardinality(A) <= Cardinality(B)
  BY FS_Subset, FS_CardinalityType
<1>3. ASSUME NEW x, A \subseteq B \cup {x}
      PROVE  IsFiniteSet(A) /\ Cardinality(A) \in Nat /\ Cardinality(A) <= Cardinality(B) + 1
  <2>1. IsFiniteSet(B \cup {x})
    BY FS_AddElement
  <2>2. IsFiniteSet(A)
    BY <1>3, <2>1, FS_Subset
  <2>3. A \in SUBSET (B \cup {x}) /\ B \in SUBSET (B \cup {x})
    BY <1>3
  <2> QED BY <1>3, <2>1, <2>2, <2>3, Counts
<1> QED BY <1>1, <1>2, <1>3

\* A union is no larger than its parts together.
LEMMA UnionCount ==
  ASSUME NEW A, NEW B, IsFiniteSet(A), IsFiniteSet(B)
  PROVE  /\ IsFiniteSet(A \cup B)
         /\ Cardinality(A \cup B) \in Nat
         /\ Cardinality(A \cup B) <= Cardinality(A) + Cardinality(B)
<1>1. /\ IsFiniteSet(A \cup B)
      /\ Cardinality(A \cup B) = Cardinality(A) + Cardinality(B) - Cardinality(A \cap B)
  BY FS_Union
<1>2. IsFiniteSet(A \cap B)
  BY FS_Intersection
<1>3. /\ Cardinality(A) \in Nat /\ Cardinality(B) \in Nat
      /\ Cardinality(A \cap B) \in Nat /\ Cardinality(A \cup B) \in Nat
  BY <1>1, <1>2, FS_CardinalityType
<1> QED
  BY <1>1, <1>3

\* A set with at most three elements that W lacks: when it is as large as it may be, there
\* are three of them.
LEMMA ThreeMore ==
  ASSUME NEW S, IsFiniteSet(S), NEW W \in SUBSET S, NEW A \in SUBSET S, NEW n \in Nat,
         Cardinality(W) <= n
  PROVE  /\ Cardinality(A) \in Nat
         /\ \A x, y, z \in S : A \subseteq W \cup {x, y, z} =>
              /\ Cardinality(A) <= n + 3
              /\ Cardinality(A) = n + 3 =>
                   x \notin W /\ y \notin W /\ z \notin W /\ x # y /\ x # z /\ y # z
         /\ \A x, y \in S : A \subseteq W \cup {x, y} => Cardinality(A) <= n + 2
<1>0. ASSUME NEW x \in S, NEW y \in S, NEW z \in S, A \subseteq W \cup {x, y, z}
      PROVE  /\ Cardinality(A) \in Nat /\ Cardinality(A) <= n + 3
             /\ Cardinality(A) = n + 3 =>
                  x \notin W /\ y \notin W /\ z \notin W /\ x # y /\ x # z /\ y # z
  <2> DEFINE X == W \cup {x}
             Y == X \cup {y}
             Z == Y \cup {z}
  <2>1. IsFiniteSet(W) /\ Cardinality(W) \in Nat /\ IsFiniteSet(A) /\ Cardinality(A) \in Nat
    BY PartsCounted
  <2>2. /\ IsFiniteSet(X) /\ Cardinality(X) \in Nat
        /\ Cardinality(X) = IF x \in W THEN Cardinality(W) ELSE Cardinality(W) + 1
    BY <2>1, FS_AddElement, FS_CardinalityType
  <2>3. /\ IsFiniteSet(Y) /\ Cardinality(Y) \in Nat
        /\ Cardinality(Y) = IF y \in X THEN Cardinality(X) ELSE Cardinality(X) + 1
    BY <2>2, FS_AddElement, FS_CardinalityType
  <2>4. /\ IsFiniteSet(Z) /\ Cardinality(Z) \in Nat
        /\ Cardinality(Z) = IF z \in Y THEN Cardinality(Y) ELSE Cardinality(Y) + 1
    BY <2>3, FS_AddElement, FS_CardinalityType
  <2>5. A \subseteq Z
    BY <1>0
  <2>6. Cardinality(A) <= Cardinality(Z)
    BY <2>4, <2>5, FS_Subset
  <2>7. Cardinality(A) <= n + 3 /\ (Cardinality(A) = n + 3 => x \notin W /\ y \notin X /\ z \notin Y)
    <3> HIDE DEF X, Y, Z
    <3> QED
      BY <2>1, <2>2, <2>3, <2>4, <2>6
  <2> QED
    BY <2>1, <2>7
<1>1. ASSUME NEW x \in S, NEW y \in S, A \subseteq W \cup {x, y}
      PROVE  Cardinality(A) <= n + 2
  <2>1. A \subseteq W \cup {x, y, y}
    BY <1>1
  <2>2. Cardinality(A) \in Nat /\ Cardinality(A) <= n + 3 /\ Cardinality(A) # n + 3
    BY <1>0, <2>1
  <2> QED
    BY <2>2
<1> QED
  BY <1>0, <1>1, PartsCounted

\* Multiples of a constant.
LEMMA Multiples ==
  ASSUME NEW n \in Nat, NEW a \in Nat, NEW b \in Nat
  PROVE  /\ n * a \in Nat
         /\ n * (a + 1) = n * a + n
         /\ a <= b => n * a <= n * b
         /\ a <= b + 1 => n * a <= n * b + n
         /\ a <= b - 1 => n * a <= n * b - n
<1>1. n * a \in Nat /\ n * (a + 1) = n * a + n /\ n * (b + 1) = n * b + n
  OBVIOUS
<1>2. \A c, d \in Nat : c <= d => n * c <= n * d
  OBVIOUS
<1>3. a <= b - 1 => n * a <= n * b - n
  <2>1. SUFFICES ASSUME a <= b - 1 PROVE n * a <= n * b - n
    OBVIOUS
  <2>2. n * (a + 1) <= n * b
    BY <2>1, <1>2
  <2> QED
    BY <2>2, <1>1
<1> QED
  BY <1>1, <1>2, <1>3
=============================================================================
