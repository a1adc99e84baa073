----------------------------- MODULE XorTheorems -----------------------------
(***************************************************************************)
(* Facts about the XOR of finitely many blocks.                            *)
(***************************************************************************)
EXTENDS XorSets, FiniteSetTheorems, TLAPS

(* Blocks under XOR: every block is its own inverse and {} is neutral. *)
LEMMA XorAlgebra ==
    /\ \A a : Xor(a, a) = {} /\ Xor({}, a) = a /\ Xor(a, {}) = a
    /\ \A a, b : Xor(a, b) = Xor(b, a) /\ Xor(a, Xor(a, b)) = b
    /\ \A a, b, c : Xor(Xor(a, b), c) = Xor(a, Xor(b, c))
<1>1. \A a : Xor(a, a) = {} /\ Xor({}, a) = a /\ Xor(a, {}) = a
  BY Zenon DEF Xor
<1>2. \A a, b : Xor(a, b) = Xor(b, a) /\ Xor(a, Xor(a, b)) = b
  BY Zenon DEF Xor
<1>3. \A a, b, c : Xor(Xor(a, b), c) = Xor(a, Xor(b, c))
  BY ZenonT(30) DEF Xor
<1> QED BY <1>1, <1>2, <1>3

(* A write is in the XOR of the blocks iff it is in an odd number of them. *)
LEMMA XorMember ==
    ASSUME NEW S, IsFiniteSet(S), NEW value, NEW k
    PROVE  k \in XorOver(S, value)
             <=> Cardinality({i \in S : k \in value[i]}) % 2 = 1
<1> DEFINE I == {i \in S : k \in value[i]}
<1>1. ASSUME Cardinality(I) % 2 = 1 PROVE k \in UNION {value[i] : i \in S}
  <2>1. I # {}
    BY <1>1, FS_EmptySet
  <2> QED BY <2>1
<1> QED BY <1>1 DEF XorOver

(* The XOR without one of the blocks. *)
THEOREM XorRemove ==
    ASSUME NEW S, IsFiniteSet(S), NEW value, NEW x \in S
    PROVE  XorOver(S \ {x}, value) = Xor(XorOver(S, value), value[x])
<1>1. ASSUME NEW k
      PROVE  k \in XorOver(S \ {x}, value)
               <=> (k \in XorOver(S, value) <=> k \notin value[x])
  <2> DEFINE I == {i \in S : k \in value[i]}
             J == {i \in S \ {x} : k \in value[i]}
  <2>1. IsFiniteSet(I) /\ Cardinality(I) \in Nat
    BY FS_Subset, FS_CardinalityType
  <2>2. k \in XorOver(S, value) <=> Cardinality(I) % 2 = 1
    BY XorMember
  <2>3. IsFiniteSet(S \ {x})
    BY FS_RemoveElement
  <2>4. k \in XorOver(S \ {x}, value) <=> Cardinality(J) % 2 = 1
    BY <2>3, XorMember
  <2>5. CASE k \in value[x]
    <3>1. J = I \ {x} /\ x \in I
      BY <2>5
    <3>2. Cardinality(J) = Cardinality(I) - 1
      BY <3>1, <2>1, FS_RemoveElement
    <3>3. Cardinality(J) % 2 = 1 <=> ~(Cardinality(I) % 2 = 1)
      BY <3>2, <2>1
    <3> QED BY <3>3, <2>5, <2>2, <2>4
  <2>6. CASE k \notin value[x]
    <3>1. J = I
      BY <2>6
    <3> QED BY <3>1, <2>6, <2>2, <2>4
  <2> QED BY <2>5, <2>6
<1> QED BY <1>1, Zenon DEF Xor

(* It depends on the blocks of S only. *)
THEOREM XorSame ==
    ASSUME NEW S, NEW value, NEW other, \A i \in S : value[i] = other[i]
    PROVE  XorOver(S, value) = XorOver(S, other)
<1>1. {value[i] : i \in S} = {other[i] : i \in S}
  OBVIOUS
<1>2. \A k : {i \in S : k \in value[i]} = {i \in S : k \in other[i]}
  OBVIOUS
<1> QED BY <1>1, <1>2, Zenon DEF XorOver

(* Changing one of the blocks. *)
THEOREM XorChange ==
    ASSUME NEW S, IsFiniteSet(S), NEW value, NEW other, NEW x \in S,
           \A i \in S \ {x} : value[i] = other[i]
    PROVE  XorOver(S, other)
             = Xor(Xor(XorOver(S, value), value[x]), other[x])
<1>1. XorOver(S \ {x}, value) = Xor(XorOver(S, value), value[x])
  BY XorRemove
<1>2. XorOver(S \ {x}, other) = Xor(XorOver(S, other), other[x])
  BY XorRemove
<1>3. XorOver(S \ {x}, value) = XorOver(S \ {x}, other)
  BY XorSame
<1>4. Xor(XorOver(S, other), other[x]) = Xor(XorOver(S, value), value[x])
  BY <1>1, <1>2, <1>3
<1>5. \A a, b, c : Xor(a, b) = c => Xor(c, b) = a
  BY Zenon DEF Xor
<1> QED BY <1>4, <1>5

(* XORing the same block into two of the blocks. *)
THEOREM XorTwice ==
    ASSUME NEW S, IsFiniteSet(S), NEW value, NEW other, NEW delta,
           NEW x \in S, NEW y \in S, x # y,
           other[x] = Xor(value[x], delta), other[y] = Xor(value[y], delta),
           \A i \in S \ {x, y} : value[i] = other[i]
    PROVE  XorOver(S, other) = XorOver(S, value)
<1> DEFINE M == [i \in S |-> IF i = x THEN other[x] ELSE value[i]]
<1>1. M[x] = other[x] /\ M[y] = value[y]
      /\ (\A i \in S \ {x} : value[i] = M[i]) /\ (\A i \in S \ {y} : M[i] = other[i])
  OBVIOUS
<1> HIDE DEF M
<1>2. XorOver(S, M) = Xor(Xor(XorOver(S, value), value[x]), M[x])
  BY <1>1, XorChange
<1>3. XorOver(S, other) = Xor(Xor(XorOver(S, M), M[y]), other[y])
  BY <1>1, XorChange
<1>4. \A a, b, c : Xor(Xor(a, b), Xor(b, c)) = Xor(a, c)
  BY ZenonT(30) DEF Xor
<1>5. \A a, c : Xor(Xor(a, c), c) = a
  BY Zenon DEF Xor
<1> QED BY <1>1, <1>2, <1>3, <1>4, <1>5

(* Blocks that were never written. *)
THEOREM XorFresh ==
    ASSUME NEW S, NEW value, \A i \in S : value[i] = {}
    PROVE  XorOver(S, value) = {}
  BY DEF XorOver

(* What the XOR can contain. *)
THEOREM XorType ==
    ASSUME NEW S, NEW value, NEW C, \A i \in S : value[i] \subseteq C
    PROVE  XorOver(S, value) \subseteq C
  BY DEF XorOver

(* Blocks in two heaps. *)
THEOREM XorUnion ==
    ASSUME NEW S, IsFiniteSet(S), NEW T, IsFiniteSet(T), S \cap T = {}, NEW value
    PROVE  XorOver(S \cup T, value) = Xor(XorOver(S, value), XorOver(T, value))
<1>1. ASSUME NEW k
      PROVE  k \in XorOver(S \cup T, value)
               <=> (k \in XorOver(S, value) <=> k \notin XorOver(T, value))
  <2> DEFINE I == {i \in S : k \in value[i]}
             J == {i \in T : k \in value[i]}
             U == {i \in S \cup T : k \in value[i]}
  <2>1. /\ IsFiniteSet(I) /\ Cardinality(I) \in Nat
        /\ IsFiniteSet(J) /\ Cardinality(J) \in Nat
    BY FS_Subset, FS_CardinalityType
  <2>2. U = I \cup J /\ I \cap J = {}
    OBVIOUS
  <2>3. Cardinality(U) = Cardinality(I) + Cardinality(J)
    <3> HIDE DEF I, J, U
    <3>1. Cardinality(I \cup J)
            = Cardinality(I) + Cardinality(J) - Cardinality(I \cap J)
      BY <2>1, FS_Union
    <3>2. Cardinality(I \cap J) = 0
      BY <2>2, FS_EmptySet
    <3> QED BY <2>1, <2>2, <3>1, <3>2
  <2>4. k \in XorOver(S, value) <=> Cardinality(I) % 2 = 1
    BY XorMember
  <2>5. k \in XorOver(T, value) <=> Cardinality(J) % 2 = 1
    BY XorMember
  <2>6. IsFiniteSet(S \cup T)
    BY FS_Union
  <2>7. k \in XorOver(S \cup T, value) <=> Cardinality(U) % 2 = 1
    BY <2>6, XorMember
  <2>8. \A a, b \in Nat : (a + b) % 2 = 1 <=> (a % 2 = 1 <=> ~(b % 2 = 1))
    OBVIOUS
  <2> QED BY <2>1, <2>3, <2>4, <2>5, <2>7, <2>8
<1> QED BY <1>1, Zenon DEF Xor

(* The same blocks under other names. *)
THEOREM XorRenamed ==
    ASSUME NEW S, IsFiniteSet(S), NEW T, NEW f \in Bijection(S, T),
           NEW value, NEW other, \A i \in S : other[i] = value[f[i]]
    PROVE  XorOver(S, other) = XorOver(T, value)
<1>1. IsFiniteSet(T)
  BY FS_Bijection DEF ExistsBijection
<1>2. ASSUME NEW k
      PROVE  k \in XorOver(S, other) <=> k \in XorOver(T, value)
  <2> DEFINE I == {i \in S : k \in other[i]}
             J == {j \in T : k \in value[j]}
             g == [i \in I |-> f[i]]
  <2>1. g \in Bijection(I, J)
    BY DEF Bijection, Injection, Surjection, IsInjective
  <2>2. IsFiniteSet(I)
    BY FS_Subset
  <2>3. Cardinality(J) = Cardinality(I)
    BY <2>1, <2>2, FS_Bijection DEF ExistsBijection
  <2> QED BY <2>3, <1>1, XorMember
<1> QED BY <1>2, Zenon
=============================================================================
