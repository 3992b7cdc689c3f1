---------------------------- MODULE VarIntProofs ----------------------------
(***************************************************************************)
(* The codec for every number of payload bits and every width: what write  *)
(* puts out, read takes back.                                              *)
(***************************************************************************)
EXTENDS VarInt, FiniteSetTheorems, FunctionTheorems, WellFoundedInduction, TLAPS

-----------------------------------------------------------------------------
(* Induction, in a form that needs no operator as a parameter.             *)

\* A set of natural numbers that is not empty has a least one.
LEMMA LeastNumber ==
    ASSUME NEW T, T \subseteq Nat, T # {}
    PROVE  \E x \in T : \A y \in T : x <= y
<1>1. IsWellFoundedOn(OpToRel(<, Nat), Nat)
    BY NatLessThanWellFounded
<1>2. PICK x \in T : \A y \in T : ~(<<y, x>> \in OpToRel(<, Nat))
    BY <1>1, WFMin
<1>3. \A y \in T : <<y, x>> \in Nat \X Nat
    OBVIOUS
<1>4. \A y \in T : ~(y < x)
    BY <1>2, <1>3 DEF OpToRel
<1> QED
    BY <1>4

\* Induction over the natural numbers.
LEMMA Induction ==
    ASSUME NEW T, 0 \in T, \A n \in Nat : n \in T => n + 1 \in T
    PROVE  \A n \in Nat : n \in T
<1> SUFFICES ASSUME {n \in Nat : n \notin T} # {} PROVE FALSE
    OBVIOUS
<1>1. PICK m \in Nat : m \notin T /\ \A y \in Nat : y \notin T => m <= y
    <2>1. {n \in Nat : n \notin T} \subseteq Nat
        OBVIOUS
    <2> QED
        BY <2>1, LeastNumber
<1>2. m # 0 /\ m - 1 \in Nat /\ (m - 1) + 1 = m
    BY <1>1
<1> QED
    BY <1>1, <1>2

\* Induction from all smaller numbers.
LEMMA StrongInduction ==
    ASSUME NEW T, \A n \in Nat : (\A m \in 0 .. n - 1 : m \in T) => n \in T
    PROVE  \A n \in Nat : n \in T
<1> SUFFICES ASSUME {n \in Nat : n \notin T} # {} PROVE FALSE
    OBVIOUS
<1>1. PICK m \in Nat : m \notin T /\ \A y \in Nat : y \notin T => m <= y
    <2>1. {n \in Nat : n \notin T} \subseteq Nat
        OBVIOUS
    <2> QED
        BY <2>1, LeastNumber
<1>2. \A k \in 0 .. m - 1 : k \in T
    BY <1>1
<1> QED
    BY <1>1, <1>2

-----------------------------------------------------------------------------
(* Powers of two, by counting subsets.                                     *)

Power(n) == 2 ^ n

\* Power(n) is the number of subsets of 1..n.
LEMMA PowerCounts ==
    ASSUME NEW S, IsFiniteSet(S)
    PROVE  IsFiniteSet(SUBSET S) /\ Cardinality(SUBSET S) = Power(Cardinality(S))
BY FS_SUBSET, Zenon DEF Power

\* The numbers from a to b.
LEMMA IntervalSize ==
    ASSUME NEW a \in Int, NEW b \in Int, a <= b + 1
    PROVE  IsFiniteSet(a .. b) /\ Cardinality(a .. b) = b - a + 1
<1>1. /\ IsFiniteSet(a .. b)
      /\ Cardinality(a .. b) = IF a > b THEN 0 ELSE b - a + 1
    BY FS_Interval, Zenon
<1> QED
    BY <1>1

\* A sum of exponents is a product of powers.
LEMMA PowerSum ==
    ASSUME NEW m \in Nat, NEW n \in Nat
    PROVE  Power(m + n) = Power(m) * Power(n)
<1> DEFINE S == 1 .. m
           T == m + 1 .. m + n
           U == 1 .. m + n
           f == [x \in SUBSET U |-> <<x \cap S, x \cap T>>]
<1>1. /\ IsFiniteSet(S) /\ Cardinality(S) = m
      /\ IsFiniteSet(T) /\ Cardinality(T) = n
      /\ IsFiniteSet(U) /\ Cardinality(U) = m + n
    <2>1. IsFiniteSet(S) /\ Cardinality(S) = m
        BY IntervalSize
    <2>2. IsFiniteSet(T) /\ Cardinality(T) = n
        <3>1. IsFiniteSet(T) /\ Cardinality(T) = (m + n) - (m + 1) + 1
            BY IntervalSize
        <3> HIDE DEF T
        <3> QED
            BY <3>1
    <2>3. IsFiniteSet(U) /\ Cardinality(U) = m + n
        <3>1. IsFiniteSet(U) /\ Cardinality(U) = (m + n) - 1 + 1
            BY IntervalSize
        <3> HIDE DEF U
        <3> QED
            BY <3>1
    <2> QED
        BY <2>1, <2>2, <2>3
<1>2. S \cup T = U /\ S \cap T = {}
    OBVIOUS
<1> HIDE DEF S, T, U
<1>3. ExistsBijection(SUBSET U, (SUBSET S) \X (SUBSET T))
    <2>1. f \in [SUBSET U -> (SUBSET S) \X (SUBSET T)]
        OBVIOUS
    <2>2. ASSUME NEW x \in SUBSET U, NEW y \in SUBSET U, f[x] = f[y] PROVE x = y
        <3>1. x \cap S = y \cap S /\ x \cap T = y \cap T
            BY <2>2
        <3> QED
            BY <1>2, <3>1
    <2>3. ASSUME NEW z \in (SUBSET S) \X (SUBSET T) PROVE \E x \in SUBSET U : f[x] = z
        <3>1. PICK a \in SUBSET S, b \in SUBSET T : z = <<a, b>>
            OBVIOUS
        <3>2. a \cup b \in SUBSET U /\ (a \cup b) \cap S = a /\ (a \cup b) \cap T = b
            BY <1>2
        <3> QED
            BY <3>1, <3>2
    <2> QED
        <3> HIDE DEF f
        <3>1. f \in Bijection(SUBSET U, (SUBSET S) \X (SUBSET T))
            BY <2>1, <2>2, <2>3, Fun_IsBij
        <3> QED
            BY <3>1 DEF ExistsBijection
<1>4. /\ IsFiniteSet(SUBSET U) /\ Cardinality(SUBSET U) = Power(m + n)
      /\ IsFiniteSet(SUBSET S) /\ Cardinality(SUBSET S) = Power(m)
      /\ IsFiniteSet(SUBSET T) /\ Cardinality(SUBSET T) = Power(n)
    BY <1>1, PowerCounts
<1>5. Cardinality((SUBSET S) \X (SUBSET T)) = Power(m) * Power(n)
    BY <1>4, FS_Product
<1> QED
    BY <1>3, <1>4, <1>5, FS_Bijection

\* Powers of two are positive.
LEMMA PowerPositive ==
    ASSUME NEW n \in Nat
    PROVE  Power(n) \in Nat \ {0}
<1> DEFINE S == 1 .. n
<1>1. IsFiniteSet(S) /\ Cardinality(S) = n
    BY FS_Interval
<1>2. IsFiniteSet(SUBSET S) /\ Cardinality(SUBSET S) = Power(n)
    BY <1>1, PowerCounts
<1>3. Cardinality(SUBSET S) \in Nat /\ Cardinality(SUBSET S) # 0
    <2>1. SUBSET S # {}
        OBVIOUS
    <2> QED
        BY <1>2, <2>1, FS_CardinalityType, FS_EmptySet
<1> QED
    BY <1>2, <1>3

\* The first powers.
LEMMA PowerOne == Power(0) = 1 /\ Power(1) = 2
BY DEF Power

-----------------------------------------------------------------------------
(* The sizes of the codec.                                                 *)

\* MaxLength bytes are as many as a value needs.
LEMMA Bits == GroupBits * (MaxLength - 1) < Width /\ Width <= GroupBits * MaxLength
BY VarIntAssumption DEF MaxLength

\* A byte carries at least one bit.
LEMMA Sizes ==
    /\ Group \in Nat /\ Group >= 2
    /\ Modulus \in Nat \ {0}
    /\ MaxLength \in Nat \ {0}
<1> USE VarIntAssumption
<1>1. Group = Power(GroupBits) /\ Modulus = Power(Width)
    BY Zenon DEF Group, Modulus, Power
<1>2. Group \in Nat /\ Group >= 2
    <2>1. Power(1 + (GroupBits - 1)) = Power(1) * Power(GroupBits - 1)
        BY PowerSum
    <2>2. Power(GroupBits - 1) \in Nat \ {0}
        BY PowerPositive
    <2>3. 1 + (GroupBits - 1) = GroupBits
        OBVIOUS
    <2> QED
        BY <1>1, <2>1, <2>2, <2>3, PowerOne
<1>3. Modulus \in Nat \ {0}
    BY <1>1, PowerPositive
<1>4. MaxLength \in Nat \ {0}
    BY DEF MaxLength
<1> QED
    BY <1>2, <1>3, <1>4

\* Each group weighs Group times as much as the one before it.
LEMMA Weights ==
    /\ Weight(0) = 1
    /\ \A n \in Nat : Weight(n) \in Nat \ {0} /\ Weight(n + 1) = Group * Weight(n)
<1> USE VarIntAssumption
<1>1. Group = Power(GroupBits) /\ \A n : Weight(n) = Power(GroupBits * n)
    BY Zenon DEF Group, Weight, Power
<1>2. Weight(0) = 1
    <2>1. GroupBits * 0 = 0
        OBVIOUS
    <2> QED
        BY <1>1, <2>1, PowerOne
<1>3. ASSUME NEW n \in Nat
      PROVE  Weight(n) \in Nat \ {0} /\ Weight(n + 1) = Group * Weight(n)
    <2>1. GroupBits * n \in Nat /\ GroupBits * (n + 1) = GroupBits + GroupBits * n
        OBVIOUS
    <2>2. Power(GroupBits + GroupBits * n) = Power(GroupBits) * Power(GroupBits * n)
        BY <2>1, PowerSum
    <2> QED
        BY <1>1, <2>1, <2>2, PowerPositive
<1> QED
    BY <1>2, <1>3

\* The weight that a last byte may still have.
Room == 2 ^ (Width - GroupBits * (MaxLength - 1))

\* A value fits MaxLength groups, the last of which has this room.
LEMMA LastGroup ==
    /\ Room \in Nat \ {0} /\ Modulus = Weight(MaxLength - 1) * Room
    /\ Modulus <= Weight(MaxLength)
    /\ \A n, b : Overflows(n, b) <=> n = MaxLength - 1 /\ b >= Room
<1> USE VarIntAssumption
<1> DEFINE low == GroupBits * (MaxLength - 1)
           high == GroupBits * MaxLength
<1>1. /\ Room = Power(Width - low) /\ Modulus = Power(Width)
      /\ Weight(MaxLength - 1) = Power(low) /\ Weight(MaxLength) = Power(high)
    BY Zenon DEF Room, Modulus, Weight, Power
<1>2. /\ low \in Nat /\ high \in Nat /\ Width - low \in Nat /\ high - Width \in Nat
      /\ low + (Width - low) = Width /\ Width + (high - Width) = high
    BY Bits, Sizes
<1> HIDE DEF low, high
<1>3. Power(low + (Width - low)) = Power(low) * Power(Width - low)
    BY <1>2, PowerSum
<1>4. Power(Width + (high - Width)) = Power(Width) * Power(high - Width)
    BY <1>2, PowerSum
<1>5. /\ Power(Width) \in Nat \ {0} /\ Power(high - Width) \in Nat \ {0}
      /\ Power(Width - low) \in Nat \ {0}
    BY <1>2, PowerPositive
<1>6. Power(Width) <= Power(Width) * Power(high - Width)
    BY <1>5
<1>7. \A n, b : Overflows(n, b) <=> n = MaxLength - 1 /\ b >= Room
    BY Zenon DEF Overflows, Room
<1> QED
    BY <1>1, <1>2, <1>3, <1>4, <1>5, <1>6, <1>7

-----------------------------------------------------------------------------
(* The recursive functions satisfy their equations: by induction, a        *)
(* function on an initial part of the domain does, and the domain is one.  *)

\* A value of more than one group has fewer groups without its first.
LEMMA Division ==
    ASSUME NEW v \in Nat
    PROVE  /\ v \div Group \in Nat /\ v % Group \in 0 .. Group - 1
           /\ v = Group * (v \div Group) + (v % Group)
           /\ v >= Group => v \div Group \in 1 .. v - 1
           /\ v < Group => v % Group = v /\ v \div Group = 0
<1>1. /\ v \div Group \in Nat /\ v % Group \in 0 .. Group - 1
      /\ v = Group * (v \div Group) + (v % Group)
    BY Sizes
<1>2. v >= Group => v \div Group \in 1 .. v - 1
    BY Sizes
<1>3. v < Group => v % Group = v /\ v \div Group = 0
    BY Sizes
<1> QED
    BY <1>1, <1>2, <1>3

\* The loop of varint::write that puts out the bytes.
GroupsOf(g, v) == IF v < Group THEN <<v>> ELSE <<(v % Group) + Group>> \o g[v \div Group]

\* A function satisfies the recursive definition of groups.
LEMMA GroupsDef == groups = [v \in Value |-> GroupsOf(groups, v)]
<1> DEFINE T == {m \in Nat : \E g : g = [v \in 0 .. m |-> GroupsOf(g, v)]}
<1>1. 0 \in T
    <2> DEFINE g == [v \in 0 .. 0 |-> <<v>>]
    <2>1. \A v \in 0 .. 0 : v < Group
        BY Sizes
    <2>2. g = [v \in 0 .. 0 |-> GroupsOf(g, v)]
        BY <2>1 DEF GroupsOf
    <2> QED
        BY <2>2
<1>2. ASSUME NEW m \in Nat, m \in T PROVE m + 1 \in T
    <2>1. PICK g : g = [v \in 0 .. m |-> GroupsOf(g, v)]
        BY <1>2
    <2> DEFINE h == [v \in 0 .. m + 1 |-> GroupsOf(g, v)]
    <2>2. \A v \in 0 .. m : h[v] = g[v]
        BY <2>1
    <2>3. ASSUME NEW v \in 0 .. m + 1 PROVE GroupsOf(g, v) = GroupsOf(h, v)
        <3>1. CASE v < Group
            BY <3>1 DEF GroupsOf
        <3>2. CASE ~(v < Group)
            <4>1. v \div Group \in 0 .. m
                BY <3>2, Division, Sizes
            <4> QED
                BY <2>2, <3>2, <4>1 DEF GroupsOf
        <3> QED
            BY <3>1, <3>2
    <2>4. h = [v \in 0 .. m + 1 |-> GroupsOf(h, v)]
        BY <2>3
    <2> HIDE DEF h
    <2> QED
        BY <2>4
<1>3. Modulus - 1 \in T
    <2> HIDE DEF T
    <2>1. \A n \in Nat : n \in T
        BY <1>1, <1>2, Induction
    <2>2. Modulus - 1 \in Nat
        BY Sizes
    <2> QED
        BY <2>1, <2>2
<1>4. \E g : g = [v \in Value |-> GroupsOf(g, v)]
    BY <1>3 DEF Value
<1>5. groups = CHOOSE g : g = [v \in Value |-> GroupsOf(g, v)]
    BY DEF groups, GroupsOf
<1> QED
    BY <1>4, <1>5

\* The loop of varint::write that counts them.
RequiredOf(g, v) == IF OneByte(v) THEN 1 ELSE 1 + g[v \div Group]

\* A function satisfies the recursive definition of required.
LEMMA RequiredDef == required = [v \in Value |-> RequiredOf(required, v)]
<1> DEFINE T == {m \in Nat : \E g : g = [v \in 0 .. m |-> RequiredOf(g, v)]}
<1>1. 0 \in T
    <2> DEFINE g == [v \in 0 .. 0 |-> 1]
    <2>1. \A v \in 0 .. 0 : v < Group
        BY Sizes
    <2>2. g = [v \in 0 .. 0 |-> RequiredOf(g, v)]
        BY <2>1 DEF RequiredOf, OneByte
    <2> QED
        BY <2>2
<1>2. ASSUME NEW m \in Nat, m \in T PROVE m + 1 \in T
    <2>1. PICK g : g = [v \in 0 .. m |-> RequiredOf(g, v)]
        BY <1>2
    <2> DEFINE h == [v \in 0 .. m + 1 |-> RequiredOf(g, v)]
    <2>2. \A v \in 0 .. m : h[v] = g[v]
        BY <2>1
    <2>3. ASSUME NEW v \in 0 .. m + 1 PROVE RequiredOf(g, v) = RequiredOf(h, v)
        <3>1. CASE v < Group
            BY <3>1 DEF RequiredOf, OneByte
        <3>2. CASE ~(v < Group)
            <4>1. v \div Group \in 0 .. m
                BY <3>2, Division, Sizes
            <4> QED
                BY <2>2, <3>2, <4>1 DEF RequiredOf, OneByte
        <3> QED
            BY <3>1, <3>2
    <2>4. h = [v \in 0 .. m + 1 |-> RequiredOf(h, v)]
        BY <2>3
    <2> HIDE DEF h
    <2> QED
        BY <2>4
<1>3. Modulus - 1 \in T
    <2> HIDE DEF T
    <2>1. \A n \in Nat : n \in T
        BY <1>1, <1>2, Induction
    <2>2. Modulus - 1 \in Nat
        BY Sizes
    <2> QED
        BY <2>1, <2>2
<1>4. \E g : g = [v \in Value |-> RequiredOf(g, v)]
    BY <1>3 DEF Value
<1>5. required = CHOOSE g : g = [v \in Value |-> RequiredOf(g, v)]
    BY DEF required, RequiredOf
<1> QED
    BY <1>4, <1>5

\* The loop of varint::read from index n on, with g what it does after a byte.
LoopOf(bytes, g, n) ==
    LET bits == (bytes[n + 1] % Group) * Weight(n)
    IN  IF n = MaxLength \/ n = Len(bytes) \/ Overflows(n, bytes[n + 1]) THEN Refused
        ELSE IF bytes[n + 1] < Group THEN [used |-> n + 1, value |-> bits]
        ELSE IF g[n + 1] = Refused THEN Refused
        ELSE [g[n + 1] EXCEPT !.value = (@ + bits) % Modulus]

\* A function satisfies the recursive definition of the loop.
LEMMA LoopDef ==
    ASSUME NEW bytes
    PROVE  ReadLoop(bytes) = [n \in 0 .. MaxLength |-> LoopOf(bytes, ReadLoop(bytes), n)]
<1> DEFINE T == {m \in Nat : m <= MaxLength =>
                     \E g : g = [n \in MaxLength - m .. MaxLength |-> LoopOf(bytes, g, n)]}
<1>1. 0 \in T
    <2> DEFINE g == [n \in MaxLength - 0 .. MaxLength |-> Refused]
    <2>1. \A n \in MaxLength - 0 .. MaxLength : n = MaxLength
        BY Sizes
    <2>2. g = [n \in MaxLength - 0 .. MaxLength |-> LoopOf(bytes, g, n)]
        BY <2>1 DEF LoopOf
    <2> QED
        BY <2>2
<1>2. ASSUME NEW m \in Nat, m \in T PROVE m + 1 \in T
    <2> SUFFICES ASSUME m + 1 <= MaxLength
                 PROVE  \E g : g = [n \in MaxLength - (m + 1) .. MaxLength |->
                                        LoopOf(bytes, g, n)]
        OBVIOUS
    <2>1. PICK g : g = [n \in MaxLength - m .. MaxLength |-> LoopOf(bytes, g, n)]
        BY <1>2, Sizes
    <2> DEFINE h == [n \in MaxLength - (m + 1) .. MaxLength |-> LoopOf(bytes, g, n)]
    <2>2. \A n \in MaxLength - m .. MaxLength : h[n] = g[n]
        <3>1. \A n \in MaxLength - m .. MaxLength : n \in MaxLength - (m + 1) .. MaxLength
            BY Sizes
        <3> QED
            BY <2>1, <3>1
    <2>3. ASSUME NEW n \in MaxLength - (m + 1) .. MaxLength
          PROVE  LoopOf(bytes, g, n) = LoopOf(bytes, h, n)
        <3> HIDE DEF h
        <3>1. CASE n = MaxLength
            BY <3>1 DEF LoopOf
        <3>2. CASE n # MaxLength
            <4>1. n + 1 \in MaxLength - m .. MaxLength
                BY <3>2, Sizes
            <4>2. g[n + 1] = h[n + 1]
                BY <2>2, <4>1
            <4> QED
                BY <4>2 DEF LoopOf
        <3> QED
            BY <3>1, <3>2
    <2>4. h = [n \in MaxLength - (m + 1) .. MaxLength |-> LoopOf(bytes, h, n)]
        BY <2>3
    <2> HIDE DEF h
    <2> QED
        BY <2>4
<1>3. MaxLength \in T
    <2> HIDE DEF T
    <2>1. \A n \in Nat : n \in T
        BY <1>1, <1>2, Induction
    <2> QED
        BY <2>1, Sizes
<1>4. \E g : g = [n \in 0 .. MaxLength |-> LoopOf(bytes, g, n)]
    <2>1. MaxLength - MaxLength = 0 /\ MaxLength <= MaxLength
        BY Sizes
    <2> QED
        BY <1>3, <2>1
<1>5. ReadLoop(bytes) = CHOOSE g : g = [n \in 0 .. MaxLength |-> LoopOf(bytes, g, n)]
    BY DEF ReadLoop, LoopOf
<1> QED
    BY <1>4, <1>5

-----------------------------------------------------------------------------
(* What write puts out.                                                    *)

\* A multiple is at most the next one but for a whole step.
LEMMA NextMultiple ==
    ASSUME NEW a \in Nat, NEW x \in Nat, NEW y \in Nat, x < y
    PROVE  a * x + a <= a * y
<1>1. PICK d \in Nat : y = x + 1 + d
    <2>1. y - x - 1 \in Nat /\ y = x + 1 + (y - x - 1)
        OBVIOUS
    <2> QED
        BY <2>1
<1>2. a * y = a * x + a + a * d /\ a * d \in Nat
    BY <1>1
<1> QED
    BY <1>2

\* Bytes are put out as many as were counted, and no more than the weight of
\* the value calls for.
LEMMA GroupsShape ==
    \A v \in Value :
        /\ groups[v] \in Seq(Byte) /\ Len(groups[v]) = required[v] /\ required[v] \in Nat \ {0}
        /\ \A k \in Nat \ {0} : v < Weight(k) => required[v] <= k
<1> DEFINE Shape(v) ==
        /\ groups[v] \in Seq(Byte) /\ Len(groups[v]) = required[v] /\ required[v] \in Nat \ {0}
        /\ \A k \in Nat \ {0} : v < Weight(k) => required[v] <= k
    T == {v \in Nat : v \in Value => Shape(v)}
<1>1. ASSUME NEW v \in Nat, \A u \in 0 .. v - 1 : u \in T PROVE v \in T
    <2> SUFFICES ASSUME v \in Value PROVE Shape(v)
        OBVIOUS
    <2>1. groups[v] = GroupsOf(groups, v) /\ required[v] = RequiredOf(required, v)
        BY GroupsDef, RequiredDef
    <2>2. CASE v < Group
        <3>1. groups[v] = <<v>> /\ required[v] = 1
            BY <2>1, <2>2 DEF GroupsOf, RequiredOf, OneByte
        <3>2. v \in Byte
            BY <2>2, Sizes DEF Byte
        <3> QED
            BY <3>1, <3>2
    <2>3. CASE ~(v < Group)
        <3> DEFINE u == v \div Group
        <3>1. u \in 1 .. v - 1 /\ v = Group * u + (v % Group) /\ v % Group \in 0 .. Group - 1
            BY <2>3, Division, Sizes
        <3>2. u \in Value
            BY <3>1, Sizes DEF Value
        <3>3. Shape(u)
            BY <1>1, <3>1, <3>2
        <3>4. /\ groups[v] = <<(v % Group) + Group>> \o groups[u]
              /\ required[v] = 1 + required[u]
            BY <2>1, <2>3 DEF GroupsOf, RequiredOf, OneByte
        <3>5. (v % Group) + Group \in Byte
            BY <3>1, Sizes DEF Byte
        <3>6. groups[v] \in Seq(Byte) /\ Len(groups[v]) = 1 + Len(groups[u])
            BY <3>3, <3>4, <3>5
        <3>7. ASSUME NEW k \in Nat \ {0}, v < Weight(k) PROVE required[v] <= k
            <4>1. k # 1
                <5>1. Weight(0 + 1) = Group * Weight(0)
                    BY Weights
                <5>2. Weight(1) = Group
                    BY <5>1, Weights, Sizes
                <5> QED
                    BY <2>3, <3>7, <5>2
            <4>2. k - 1 \in Nat \ {0} /\ (k - 1) + 1 = k
                BY <4>1
            <4>3. Weight(k) = Group * Weight(k - 1) /\ Weight(k - 1) \in Nat
                BY <4>2, Weights
            <4>4. u < Weight(k - 1)
                BY <3>1, <3>7, <4>3, Sizes
            <4>5. required[u] <= k - 1
                BY <3>3, <4>2, <4>4
            <4> QED
                BY <3>3, <3>4, <4>5
        <3> QED
            BY <3>3, <3>4, <3>6, <3>7
    <2> QED
        BY <2>2, <2>3
<1>2. \A v \in Nat : v \in T
    <2> HIDE DEF T
    <2> QED
        BY <1>1, StrongInduction
<1>3. Value \subseteq Nat
    BY Sizes DEF Value
<1> QED
    BY <1>2, <1>3

\* write puts out all the groups or nothing.
LEMMA WriteWhole ==
    ASSUME NEW v \in Value, NEW capacity \in Nat
    PROVE  write(capacity, v) = IF capacity < required[v] THEN << >> ELSE groups[v]
<1>1. groups[v] \in Seq(Byte) /\ Len(groups[v]) = required[v] /\ required[v] \in Nat
    BY GroupsShape
<1>2. CASE capacity < required[v]
    BY <1>2 DEF write
<1>3. CASE ~(capacity < required[v])
    <2> DEFINE both == {capacity, Len(groups[v])}
    <2>1. Min(both) = required[v]
        <3>1. required[v] \in both /\ \A x \in both : required[v] <= x
            BY <1>1, <1>3
        <3>2. \A x \in both : x \in Nat
            BY <1>1
        <3> HIDE DEF both
        <3>3. \E x \in both : \A y \in both : x <= y
            BY <3>1
        <3> DEFINE c == CHOOSE x \in both : \A y \in both : x <= y
        <3>4. c \in both /\ \A y \in both : c <= y
            BY <3>3
        <3>5. Min(both) = c
            BY DEF Min
        <3> HIDE DEF c
        <3> QED
            BY <1>1, <3>1, <3>2, <3>4, <3>5
    <2>2. write(capacity, v) = SubSeq(groups[v], 1, Len(groups[v]))
        BY <1>1, <1>3, <2>1 DEF write
    <2> QED
        BY <1>1, <1>3, <2>2
<1> QED
    BY <1>2, <1>3

\* A destination of MaxLength bytes is large enough for every value.
LEMMA LengthSuffices == \A v \in Value : required[v] \in 1 .. MaxLength
<1> SUFFICES ASSUME NEW v \in Value PROVE required[v] \in 1 .. MaxLength
    OBVIOUS
<1>1. v < Weight(MaxLength)
    BY Sizes, Weights, LastGroup DEF Value
<1> QED
    BY <1>1, GroupsShape, Sizes

\* A smaller value takes no more bytes.
LEMMA RequiredGrows ==
    \A u \in Value : \A v \in Value : u <= v => required[u] <= required[v]
<1> DEFINE T == {u \in Nat : u \in Value =>
                     \A v \in Value : u <= v => required[u] <= required[v]}
<1>1. ASSUME NEW u \in Nat, \A x \in 0 .. u - 1 : x \in T PROVE u \in T
    <2> SUFFICES ASSUME u \in Value, NEW v \in Value, u <= v
                 PROVE  required[u] <= required[v]
        OBVIOUS
    <2>0. v \in Nat
        BY Sizes DEF Value
    <2>1. required[u] = RequiredOf(required, u) /\ required[v] = RequiredOf(required, v)
        BY RequiredDef
    <2>2. required[v] \in Nat \ {0}
        BY GroupsShape
    <2>3. CASE u < Group
        BY <2>1, <2>2, <2>3 DEF RequiredOf, OneByte
    <2>4. CASE ~(u < Group)
        <3> DEFINE x == u \div Group
                   y == v \div Group
        <3>1. /\ x \in 1 .. u - 1 /\ u = Group * x + (u % Group)
              /\ u % Group \in 0 .. Group - 1
            BY <2>4, Division, Sizes
        <3>2. /\ y \in 1 .. v - 1 /\ v = Group * y + (v % Group)
              /\ v % Group \in 0 .. Group - 1
            BY <2>0, <2>4, Division, Sizes
        <3>3. required[u] = 1 + required[x] /\ required[v] = 1 + required[y]
            <4>1. ~(v < Group)
                BY <2>0, <2>4, Sizes
            <4> QED
                BY <2>1, <2>4, <4>1 DEF RequiredOf, OneByte
        <3>4. x \in Value /\ y \in Value
            BY <3>1, <3>2, Sizes DEF Value
        <3>5. required[x] \in Nat /\ required[y] \in Nat
            BY <3>4, GroupsShape
        <3> HIDE DEF x, y
        <3>6. x <= y
            <4> SUFFICES ASSUME y < x PROVE FALSE
                BY <3>1, <3>2
            <4>1. Group * y + Group <= Group * x
                BY <3>1, <3>2, NextMultiple, Sizes
            <4>2. Group * y \in Nat /\ Group * x \in Nat
                <5>1. \A i, j \in Nat : i * j \in Nat
                    OBVIOUS
                <5> QED
                    BY <3>1, <3>2, <5>1, Sizes
            <4> QED
                BY <3>1, <3>2, <4>1, <4>2, Sizes
        <3>7. required[x] <= required[y]
            <4>1. x \in T
                BY <1>1, <3>1
            <4> QED
                BY <3>4, <3>6, <4>1
        <3> QED
            BY <3>3, <3>5, <3>7
    <2> QED
        BY <2>3, <2>4
<1>2. \A u \in Nat : u \in T
    <2> HIDE DEF T
    <2> QED
        BY <1>1, StrongInduction
<1>3. Value \subseteq Nat
    BY Sizes DEF Value
<1> QED
    BY <1>2, <1>3

-----------------------------------------------------------------------------
(* What read returns.                                                      *)

\* A number below the modulus is its own remainder.
LEMMA SmallRemainder ==
    ASSUME NEW x \in Nat, NEW M \in Nat \ {0}, x < M
    PROVE  x % M = x
OBVIOUS

\* The weight of every group but the last divides the modulus.
LEMMA WeightDivides ==
    ASSUME NEW n \in 0 .. MaxLength - 1
    PROVE  \E q \in Nat \ {0} : Modulus = Weight(n) * q
<1> DEFINE T == {m \in Nat : m <= MaxLength - 1 =>
                     \E q \in Nat \ {0} : Modulus = Weight(MaxLength - 1 - m) * q}
<1>1. 0 \in T
    <2>1. MaxLength - 1 - 0 = MaxLength - 1
        BY Sizes
    <2> QED
        BY <2>1, LastGroup
<1>2. ASSUME NEW m \in Nat, m \in T PROVE m + 1 \in T
    <2> SUFFICES ASSUME m + 1 <= MaxLength - 1
                 PROVE  \E q \in Nat \ {0} : Modulus = Weight(MaxLength - 1 - (m + 1)) * q
        OBVIOUS
    <2> DEFINE k == MaxLength - 1 - (m + 1)
    <2>1. k \in Nat /\ MaxLength - 1 - m = k + 1 /\ m <= MaxLength - 1
        BY Sizes
    <2>2. PICK q \in Nat \ {0} : Modulus = Weight(k + 1) * q
        BY <1>2, <2>1
    <2> HIDE DEF k
    <2>3. Weight(k + 1) = Group * Weight(k) /\ Weight(k) \in Nat
        BY <2>1, Weights
    <2>4. Modulus = Weight(k) * (Group * q) /\ Group * q \in Nat \ {0}
        BY <2>2, <2>3, Sizes
    <2> QED
        BY <2>4 DEF k
<1>3. /\ MaxLength - 1 - n \in Nat /\ MaxLength - 1 - (MaxLength - 1 - n) = n
      /\ MaxLength - 1 - n <= MaxLength - 1
    BY Sizes
<1>4. MaxLength - 1 - n \in T
    <2> HIDE DEF T
    <2>1. \A m \in Nat : m \in T
        BY <1>1, <1>2, Induction
    <2> QED
        BY <1>3, <2>1
<1> QED
    BY <1>3, <1>4

\* The weight of a group divides those of the groups after it.
LEMMA WeightMultiple ==
    ASSUME NEW m \in Nat, NEW n \in Nat, m <= n
    PROVE  \E q \in Nat \ {0} : Weight(n) = Weight(m) * q
<1> USE VarIntAssumption
<1>1. \A i : Weight(i) = Power(GroupBits * i)
    BY Zenon DEF Weight, Power
<1> DEFINE low == GroupBits * m
           more == GroupBits * (n - m)
<1>2. low \in Nat /\ more \in Nat /\ low + more = GroupBits * n
    OBVIOUS
<1>3. Power(low + more) = Power(low) * Power(more) /\ Power(more) \in Nat \ {0}
    <2> HIDE DEF low, more
    <2> QED
        BY <1>2, PowerSum, PowerPositive
<1> QED
    BY <1>1, <1>2, <1>3

\* A byte with its flag set adds its group to what the rest stands for.
Adds(bytes, n, r) ==
    LET rest == ReadLoop(bytes)[n + 1]
    IN  /\ rest # Refused /\ r.used = rest.used
        /\ r.value = rest.value + (bytes[n + 1] % Group) * Weight(n)

\* What the loop returns from index n on: it ends with the first byte that
\* clears its flag, and the groups it has seen make up a value of the width.
Decoded(bytes, n, r) ==
    /\ r.used \in n + 1 .. MaxLength /\ r.used <= Len(bytes)
    /\ bytes[r.used] < Group
    /\ \A i \in n + 1 .. r.used - 1 : bytes[i] >= Group
    /\ r.value \in Value /\ r.value < Weight(r.used)
    /\ \E q \in Nat : r.value = Weight(n) * q
    /\ bytes[n + 1] >= Group => Adds(bytes, n, r)
    /\ r = [used |-> r.used, value |-> r.value]

\* Nothing wraps: the value is that of the groups.
LEMMA LoopDecodes ==
    ASSUME NEW bytes \in Seq(Byte), NEW n \in 0 .. MaxLength, n <= Len(bytes),
           ReadLoop(bytes)[n] # Refused
    PROVE  Decoded(bytes, n, ReadLoop(bytes)[n])
<1> DEFINE r(i) == ReadLoop(bytes)[i]
           T == {m \in Nat : m <= MaxLength /\ MaxLength - m <= Len(bytes)
                    /\ r(MaxLength - m) # Refused
                    => Decoded(bytes, MaxLength - m, r(MaxLength - m))}
<1>1. 0 \in T
    <2>1. MaxLength - 0 = MaxLength /\ MaxLength \in 0 .. MaxLength
        BY Sizes
    <2>2. r(MaxLength) = Refused
        BY <2>1, LoopDef DEF LoopOf
    <2> QED
        BY <2>1, <2>2
<1>2. ASSUME NEW m \in Nat, m \in T PROVE m + 1 \in T
    <2> SUFFICES ASSUME m + 1 <= MaxLength, MaxLength - (m + 1) <= Len(bytes),
                        r(MaxLength - (m + 1)) # Refused
                 PROVE  Decoded(bytes, MaxLength - (m + 1), r(MaxLength - (m + 1)))
        OBVIOUS
    <2>1. PICK k \in 0 .. MaxLength - 1 : k = MaxLength - (m + 1) /\ k + 1 = MaxLength - m
        BY Sizes
    <2>2. r(k) = LoopOf(bytes, ReadLoop(bytes), k)
        BY <2>1, LoopDef, Sizes
    <2>3. /\ k < Len(bytes) /\ bytes[k + 1] \in Nat
          /\ ~Overflows(k, bytes[k + 1])
        <3>1. k # Len(bytes) /\ ~Overflows(k, bytes[k + 1])
            BY <2>1, <2>2 DEF LoopOf
        <3>2. k < Len(bytes)
            BY <2>1, <3>1
        <3>3. bytes[k + 1] \in Byte
            BY <3>2
        <3> QED
            BY <3>1, <3>2, <3>3, Sizes DEF Byte
    <2> DEFINE b == bytes[k + 1]
               w == Weight(k)
    <2>4. w \in Nat \ {0} /\ Weight(k + 1) = Group * w
        BY Weights
    <2>5. b % Group \in 0 .. Group - 1 /\ b % Group <= b
        <3>1. /\ b \div Group \in Nat /\ b % Group \in 0 .. Group - 1
              /\ b = Group * (b \div Group) + (b % Group)
            BY <2>3, Division
        <3> HIDE DEF b
        <3>2. Group * (b \div Group) \in Nat
            <4>1. \A x, y \in Nat : x * y \in Nat
                OBVIOUS
            <4> QED
                BY <3>1, <4>1, Sizes
        <3> QED
            BY <3>1, <3>2, Sizes
    <2>6. CASE b < Group
        <3>1. r(k) = [used |-> k + 1, value |-> (b % Group) * w]
            BY <2>1, <2>2, <2>3, <2>6, Sizes DEF LoopOf
        <3> HIDE DEF b, w
        <3>2. (b % Group) * w \in Nat /\ (b % Group) * w < Weight(k + 1)
            BY <2>4, <2>5, Sizes
        <3>3. (b % Group) * w < Modulus
            <4>1. CASE k = MaxLength - 1
                <5>1. b % Group < Room /\ Room \in Nat /\ Modulus = w * Room
                    BY <2>3, <2>5, <4>1, LastGroup DEF b, w
                <5> QED
                    BY <2>4, <2>5, <5>1, Sizes
            <4>2. CASE k # MaxLength - 1
                <5>1. PICK q \in Nat \ {0} : Modulus = Weight(k + 1) * q
                    BY <2>1, <4>2, WeightDivides, Sizes
                <5>2. Weight(k + 1) \in Nat
                    BY <2>1, Weights
                <5>3. Weight(k + 1) <= Modulus
                    BY <5>1, <5>2
                <5> QED
                    BY <3>2, <5>2, <5>3, Sizes
            <4> QED
                BY <4>1, <4>2
        <3>4. \E q \in Nat : r(k).value = w * q
            <4>1. r(k).value = w * (b % Group) /\ b % Group \in Nat
                BY <2>4, <2>5, <3>1, Sizes
            <4> QED
                BY <4>1
        <3> QED
            <4>1. ~(bytes[k + 1] >= Group)
                BY <2>3, <2>6, Sizes DEF b
            <4> QED
                BY <2>1, <2>3, <2>6, <3>1, <3>2, <3>3, <3>4, <4>1, Sizes
                   DEF Decoded, Value, b, w
    <2>7. CASE ~(b < Group)
        <3> DEFINE rest == r(k + 1)
        <3>1. /\ rest # Refused
              /\ r(k) = [rest EXCEPT !.value = (@ + (b % Group) * w) % Modulus]
            BY <2>1, <2>2, <2>3, <2>7, Sizes DEF LoopOf
        <3>2. Decoded(bytes, k + 1, rest)
            BY <1>2, <2>1, <2>3, <3>1, Sizes
        <3>3. PICK q \in Nat : rest.value = Weight(k + 1) * q
            BY <3>2 DEF Decoded
        <3>4. /\ rest.used \in k + 2 .. MaxLength /\ rest.value \in Nat
              /\ rest.value < Modulus /\ rest.value < Weight(rest.used)
            BY <2>1, <3>2, Sizes DEF Decoded, Value
        <3> HIDE DEF b, w, rest
        <3>5. (b % Group) * w \in Nat /\ (b % Group) * w < Weight(k + 1)
            BY <2>4, <2>5, Sizes
        <3>6. Weight(k + 1) \in Nat \ {0}
            BY <2>1, Weights
        <3>7. ASSUME NEW M \in Nat, NEW p \in Nat, M = Weight(k + 1) * p, rest.value < M
              PROVE  rest.value + (b % Group) * w < M
            <4>1. q < p
                BY <3>3, <3>6, <3>7
            <4>2. Weight(k + 1) * q + Weight(k + 1) <= Weight(k + 1) * p
                BY <3>6, <4>1, NextMultiple
            <4> QED
                BY <3>3, <3>5, <3>6, <3>7, <4>2
        <3>8. rest.value + (b % Group) * w < Modulus
            <4>1. PICK p \in Nat \ {0} : Modulus = Weight(k + 1) * p
                BY <2>1, <3>4, WeightDivides, Sizes
            <4> QED
                BY <3>4, <3>7, <4>1, Sizes
        <3>9. rest.value + (b % Group) * w < Weight(rest.used)
            <4>1. k + 1 \in Nat /\ rest.used \in Nat /\ k + 1 <= rest.used
                BY <2>1, <3>4, Sizes
            <4>2. PICK p \in Nat \ {0} : Weight(rest.used) = Weight(k + 1) * p
                BY <4>1, WeightMultiple
            <4>3. Weight(rest.used) \in Nat
                BY <4>1, Weights
            <4> QED
                BY <3>4, <3>7, <4>2, <4>3
        <3>10. r(k) = [used |-> rest.used, value |-> rest.value + (b % Group) * w]
            <4>1. (rest.value + (b % Group) * w) % Modulus = rest.value + (b % Group) * w
                <5> DEFINE x == rest.value + (b % Group) * w
                <5>1. x \in Nat
                    BY <3>4, <3>5
                <5> HIDE DEF x
                <5>2. x % Modulus = x
                    BY <3>8, <5>1, SmallRemainder, Sizes DEF x
                <5> QED
                    BY <5>2 DEF x
            <4>2. rest = [used |-> rest.used, value |-> rest.value]
                BY <3>2 DEF Decoded
            <4> QED
                BY <3>1, <4>1, <4>2
        <3>11. \E p \in Nat : r(k).value = w * p
            <4>1. r(k).value = w * (Group * q + (b % Group))
                BY <2>4, <2>5, <3>3, <3>10, Sizes
            <4> QED
                BY <2>5, <4>1, Sizes
        <3>12. \A i \in k + 1 .. rest.used - 1 : bytes[i] >= Group
            <4>1. \A i \in k + 2 .. rest.used - 1 : bytes[i] >= Group
                <5>1. (k + 1) + 1 = k + 2
                    BY <2>1
                <5> QED
                    BY <3>2, <5>1 DEF Decoded
            <4>2. bytes[k + 1] >= Group
                BY <2>3, <2>7, Sizes DEF b
            <4>3. \A i \in k + 1 .. rest.used - 1 : i = k + 1 \/ i \in k + 2 .. rest.used - 1
                BY <2>1, <3>4
            <4> QED
                BY <4>1, <4>2, <4>3
        <3> QED
            <4> DEFINE x == rest.value + (b % Group) * w
            <4>1. r(k).used = rest.used /\ r(k).value = x
                BY <3>10
            <4>2. x \in Nat /\ x \in Value
                BY <3>4, <3>5, <3>8, Sizes DEF Value
            <4>3. rest.used \in k + 1 .. MaxLength /\ rest.used <= Len(bytes)
                  /\ bytes[rest.used] < Group
                BY <2>1, <3>2, <3>4 DEF Decoded
            <4> HIDE DEF x
            <4>4. Decoded(bytes, k, r(k))
                <5>1. Adds(bytes, k, r(k))
                    BY <3>1, <4>1 DEF Adds, b, w, x, rest
                <5>2. r(k) = [used |-> r(k).used, value |-> r(k).value]
                    BY <3>10
                <5> QED
                    BY <3>9, <3>11, <3>12, <4>1, <4>2, <4>3, <5>1, <5>2 DEF Decoded, x, w
            <4> QED
                BY <2>1, <4>4
    <2> QED
        BY <2>1, <2>6, <2>7
<1>3. MaxLength - n \in Nat /\ MaxLength - (MaxLength - n) = n /\ MaxLength - n <= MaxLength
    BY Sizes
<1>4. MaxLength - n \in T
    <2> HIDE DEF T
    <2>1. \A m \in Nat : m \in T
        BY <1>1, <1>2, Induction
    <2> QED
        BY <1>3, <2>1
<1> QED
    BY <1>3, <1>4

\* A value is the sum of its first group and the rest of them.
LEMMA SumOfGroups ==
    ASSUME NEW v \in Nat, NEW u \in Nat, NEW x \in 0 .. Group - 1, NEW w \in Nat,
           v = Group * u + x
    PROVE  /\ u * (Group * w) + x * w = v * w
           /\ u * (Group * w) \in Nat /\ x * w \in Nat /\ v * w \in Nat
<1>1. \A a, b, c \in Nat : (a + b) * c = a * c + b * c
    OBVIOUS
<1>2. \A a, b \in Nat : a * b \in Nat /\ a * b = b * a
    OBVIOUS
<1>3. \A a, b, c \in Nat : a * (b * c) = (a * b) * c
    OBVIOUS
<1>4. Group \in Nat /\ x \in Nat
    BY Sizes
<1>5. v * w = (Group * u) * w + x * w
    BY <1>1, <1>2, <1>4
<1>6. u * (Group * w) = (Group * u) * w
    BY <1>2, <1>3, <1>4
<1> QED
    BY <1>2, <1>4, <1>5, <1>6

\* The flag of a byte is no part of its group.
LEMMA CarriedGroup ==
    ASSUME NEW x \in 0 .. Group - 1
    PROVE  (x + Group) % Group = x
BY Sizes

\* What the loop returns depends on the bytes up to the first that clears its
\* flag, and on none after it.
LEMMA LoopAgrees ==
    ASSUME NEW bytes \in Seq(Byte), NEW others \in Seq(Byte), NEW j \in 1 .. MaxLength,
           j <= Len(bytes), j <= Len(others), bytes[j] < Group,
           \A i \in 1 .. j : others[i] = bytes[i]
    PROVE  \A n \in 0 .. j - 1 : ReadLoop(others)[n] = ReadLoop(bytes)[n]
<1> DEFINE T == {m \in Nat : m < j =>
                     ReadLoop(others)[j - 1 - m] = ReadLoop(bytes)[j - 1 - m]}
<1>0. ASSUME NEW k \in 0 .. j - 1
      PROVE  /\ ReadLoop(bytes)[k] = LoopOf(bytes, ReadLoop(bytes), k)
             /\ ReadLoop(others)[k] = LoopOf(others, ReadLoop(others), k)
             /\ k # MaxLength /\ k # Len(bytes) /\ k # Len(others)
             /\ others[k + 1] = bytes[k + 1]
    <2>1. k \in 0 .. MaxLength /\ k + 1 \in 1 .. j
        BY Sizes
    <2> QED
        BY <2>1, LoopDef, Sizes
<1>1. 0 \in T
    <2>1. PICK k \in 0 .. j - 1 : k = j - 1 - 0 /\ k + 1 = j
        OBVIOUS
    <2>2. /\ ReadLoop(bytes)[k] = LoopOf(bytes, ReadLoop(bytes), k)
          /\ ReadLoop(others)[k] = LoopOf(others, ReadLoop(others), k)
          /\ k # MaxLength /\ k # Len(bytes) /\ k # Len(others)
          /\ others[k + 1] = bytes[k + 1] /\ bytes[k + 1] < Group
        BY <1>0, <2>1
    <2>3. ReadLoop(others)[k] = ReadLoop(bytes)[k]
        BY <2>2 DEF LoopOf
    <2> QED
        BY <2>1, <2>3
<1>2. ASSUME NEW m \in Nat, m \in T PROVE m + 1 \in T
    <2> SUFFICES ASSUME m + 1 < j
                 PROVE  ReadLoop(others)[j - 1 - (m + 1)] = ReadLoop(bytes)[j - 1 - (m + 1)]
        OBVIOUS
    <2>1. PICK k \in 0 .. j - 1 : k = j - 1 - (m + 1) /\ k + 1 = j - 1 - m
        OBVIOUS
    <2>2. ReadLoop(others)[k + 1] = ReadLoop(bytes)[k + 1]
        BY <1>2, <2>1
    <2>3. /\ ReadLoop(bytes)[k] = LoopOf(bytes, ReadLoop(bytes), k)
          /\ ReadLoop(others)[k] = LoopOf(others, ReadLoop(others), k)
          /\ k # MaxLength /\ k # Len(bytes) /\ k # Len(others)
          /\ others[k + 1] = bytes[k + 1]
        BY <1>0
    <2>4. ReadLoop(others)[k] = ReadLoop(bytes)[k]
        BY <2>2, <2>3 DEF LoopOf
    <2> QED
        BY <2>1, <2>4
<1>3. \A m \in Nat : m \in T
    <2> HIDE DEF T
    <2> QED
        BY <1>1, <1>2, Induction
<1>4. ASSUME NEW n \in 0 .. j - 1 PROVE ReadLoop(others)[n] = ReadLoop(bytes)[n]
    <2>1. j - 1 - n \in Nat /\ j - 1 - n < j /\ j - 1 - (j - 1 - n) = n
        OBVIOUS
    <2> QED
        BY <1>3, <2>1
<1> QED
    BY <1>4

\* Bytes that the loop takes come back as they were put out, wherever the loop
\* is and whatever follows them.
LEMMA LoopReadsGroups ==
    \A v \in Value : \A bytes \in Seq(Byte), n \in 0 .. MaxLength - 1 :
        /\ v * Weight(n) < Modulus /\ n + required[v] <= MaxLength
        /\ n + required[v] <= Len(bytes)
        /\ \A i \in 1 .. required[v] : bytes[n + i] = groups[v][i]
        => ReadLoop(bytes)[n] = [used |-> n + required[v], value |-> v * Weight(n)]
<1> DEFINE Reads(v, bytes, n) ==
        /\ v * Weight(n) < Modulus /\ n + required[v] <= MaxLength
        /\ n + required[v] <= Len(bytes)
        /\ \A i \in 1 .. required[v] : bytes[n + i] = groups[v][i]
        => ReadLoop(bytes)[n] = [used |-> n + required[v], value |-> v * Weight(n)]
    T == {v \in Nat : v \in Value => \A bytes \in Seq(Byte), n \in 0 .. MaxLength - 1 :
                                         Reads(v, bytes, n)}
<1>1. ASSUME NEW v \in Nat, \A u \in 0 .. v - 1 : u \in T PROVE v \in T
    <2> SUFFICES ASSUME v \in Value, NEW bytes \in Seq(Byte), NEW n \in 0 .. MaxLength - 1,
                        v * Weight(n) < Modulus, n + required[v] <= MaxLength,
                        n + required[v] <= Len(bytes),
                        \A i \in 1 .. required[v] : bytes[n + i] = groups[v][i]
                 PROVE  ReadLoop(bytes)[n] = [used |-> n + required[v],
                                              value |-> v * Weight(n)]
        OBVIOUS
    <2>1. groups[v] = GroupsOf(groups, v) /\ required[v] = RequiredOf(required, v)
        BY GroupsDef, RequiredDef
    <2>2. /\ ReadLoop(bytes)[n] = LoopOf(bytes, ReadLoop(bytes), n)
          /\ n # MaxLength /\ n # Len(bytes)
        BY LoopDef, GroupsShape, Sizes
    <2>3. bytes[n + 1] = groups[v][1]
        BY GroupsShape
    <2>4. Weight(n) \in Nat \ {0} /\ Weight(n + 1) = Group * Weight(n)
        BY Weights
    <2>5. CASE v < Group
        <3>1. groups[v][1] = v /\ required[v] = 1
            BY <2>1, <2>5 DEF GroupsOf, RequiredOf, OneByte
        <3>2. ~Overflows(n, v)
            <4> SUFFICES ASSUME n = MaxLength - 1, v >= Room PROVE FALSE
                BY LastGroup
            <4>1. Room \in Nat /\ Modulus = Weight(n) * Room
                BY LastGroup
            <4> QED
                BY <2>4, <4>1
        <3>3. v % Group = v
            BY <2>5, Division
        <3> QED
            BY <2>2, <2>3, <2>5, <3>1, <3>2, <3>3 DEF LoopOf
    <2>6. CASE ~(v < Group)
        <3> DEFINE u == v \div Group
                   rest == ReadLoop(bytes)[n + 1]
        <3>1. u \in 1 .. v - 1 /\ v = Group * u + (v % Group) /\ v % Group \in 0 .. Group - 1
            BY <2>6, Division, Sizes
        <3>2. u \in Value /\ u \in Nat
            BY <3>1, Sizes DEF Value
        <3>3. /\ groups[v] = <<(v % Group) + Group>> \o groups[u]
              /\ required[v] = 1 + required[u]
            BY <2>1, <2>6 DEF GroupsOf, RequiredOf, OneByte
        <3>4. /\ groups[u] \in Seq(Byte) /\ Len(groups[u]) = required[u]
              /\ required[u] \in Nat \ {0}
            BY <3>2, GroupsShape
        <3> HIDE DEF u, rest
        <3>5. n + 1 \in 0 .. MaxLength - 1 /\ ~(n = MaxLength - 1)
            BY <3>3, <3>4, Sizes
        <3>6. /\ u * Weight(n + 1) + (v % Group) * Weight(n) = v * Weight(n)
              /\ u * Weight(n + 1) \in Nat /\ (v % Group) * Weight(n) \in Nat
              /\ v * Weight(n) \in Nat
            <4>1. PICK w \in Nat : w = Weight(n)
                BY <2>4
            <4>2. PICK x \in 0 .. Group - 1 : x = v % Group
                BY <3>1
            <4>3. v = Group * u + x
                BY <3>1, <4>2
            <4>4. /\ u * (Group * w) + x * w = v * w
                  /\ u * (Group * w) \in Nat /\ x * w \in Nat /\ v * w \in Nat
                BY <3>2, <4>3, SumOfGroups
            <4>5. Weight(n + 1) = Group * w
                BY <2>4, <4>1
            <4> QED
                BY <4>1, <4>2, <4>4, <4>5, Zenon
        <3>7. rest = [used |-> n + required[v], value |-> u * Weight(n + 1)]
            <4>1. u * Weight(n + 1) < Modulus
                BY <3>6, Sizes
            <4>2. \A i \in 1 .. required[u] : bytes[(n + 1) + i] = groups[u][i]
                <5> SUFFICES ASSUME NEW i \in 1 .. required[u]
                             PROVE  bytes[(n + 1) + i] = groups[u][i]
                    OBVIOUS
                <5>1. i + 1 \in 1 .. required[v] /\ n + (i + 1) = (n + 1) + i
                    BY <3>3, <3>4
                <5>2. groups[v][i + 1] = groups[u][i]
                    BY <3>3, <3>4
                <5> QED
                    BY <5>1, <5>2
            <4>3. (n + 1) + required[u] = n + required[v]
                <5>1. \A a, b \in Int : (a + 1) + b = a + (1 + b)
                    OBVIOUS
                <5>2. n \in Int /\ required[u] \in Int
                    BY <3>4
                <5> QED
                    BY <3>3, <5>1, <5>2
            <4>4. u \in 0 .. v - 1
                BY <3>1
            <4>5. u \in T
                BY <1>1, <4>4
            <4>6. Reads(u, bytes, n + 1)
                BY <3>2, <3>5, <4>5
            <4> QED
                BY <4>1, <4>2, <4>3, <4>6 DEF rest
        <3>8. rest # Refused
            <4>1. n + required[v] # 0
                BY <3>3, <3>4
            <4> QED
                BY <3>7, <4>1 DEF Refused
        <3>9. bytes[n + 1] = (v % Group) + Group
            BY <2>3, <3>3, <3>4
        <3>10. ~(bytes[n + 1] < Group) /\ bytes[n + 1] % Group = v % Group
            <4>1. ((v % Group) + Group) % Group = v % Group
                BY <3>1, CarriedGroup
            <4>2. ~((v % Group) + Group < Group)
                BY <3>1, Sizes
            <4> QED
                BY <3>9, <4>1, <4>2
        <3>11. ~Overflows(n, bytes[n + 1])
            BY <3>5, LastGroup
        <3>12. (u * Weight(n + 1) + (v % Group) * Weight(n)) % Modulus = v * Weight(n)
            BY <3>6, SmallRemainder, Sizes
        <3> QED
            BY <2>2, <3>7, <3>8, <3>10, <3>11, <3>12 DEF LoopOf, rest
    <2> QED
        BY <2>5, <2>6
<1>2. \A v \in Nat : v \in T
    <2> HIDE DEF T
    <2> QED
        BY <1>1, StrongInduction
<1>3. Value \subseteq Nat
    BY Sizes DEF Value
<1> QED
    BY <1>2, <1>3

\* What varint::write puts out for a value, varint::read takes back to that
\* value and to its length, whatever follows it: for every width.
THEOREM WrittenIsRead ==
    \A v \in Value : \A tail \in Seq(Byte) :
        /\ write(MaxLength, v) \in Seq(Byte) /\ Len(write(MaxLength, v)) = required[v]
        /\ read(write(MaxLength, v) \o tail) = [used |-> required[v], value |-> v]
<1> SUFFICES ASSUME NEW v \in Value, NEW tail \in Seq(Byte)
             PROVE  /\ write(MaxLength, v) \in Seq(Byte)
                    /\ Len(write(MaxLength, v)) = required[v]
                    /\ read(write(MaxLength, v) \o tail) = [used |-> required[v], value |-> v]
    OBVIOUS
<1>1. write(MaxLength, v) = groups[v] /\ required[v] \in 1 .. MaxLength
    BY WriteWhole, LengthSuffices, Sizes
<1>2. groups[v] \in Seq(Byte) /\ Len(groups[v]) = required[v]
    BY GroupsShape
<1> DEFINE bytes == groups[v] \o tail
<1>3. /\ bytes \in Seq(Byte) /\ 0 + required[v] <= Len(bytes)
      /\ \A i \in 1 .. required[v] : bytes[0 + i] = groups[v][i]
    BY <1>1, <1>2
<1>4. v * Weight(0) = v /\ v < Modulus /\ 0 + required[v] = required[v]
    <2>1. v \in Nat /\ v < Modulus
        BY Sizes DEF Value
    <2>2. Weight(0) = 1
        BY Weights
    <2>3. v * 1 = v
        BY <2>1
    <2>4. 0 + required[v] = required[v]
        BY <1>1
    <2> QED
        BY <2>1, <2>2, <2>3, <2>4
<1>5. 0 \in 0 .. MaxLength - 1
    BY Sizes
<1> HIDE DEF bytes
<1>6. ReadLoop(bytes)[0] = [used |-> 0 + required[v], value |-> v * Weight(0)]
    BY <1>1, <1>3, <1>4, <1>5, LoopReadsGroups
<1> QED
    BY <1>1, <1>2, <1>4, <1>6 DEF read, bytes
=============================================================================
