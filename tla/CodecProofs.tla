----------------------------- MODULE CodecProofs -----------------------------
(***************************************************************************)
(* The codecs are right for every packet and every address, whatever the   *)
(* widths and the limits are.                                              *)
(***************************************************************************)
EXTENDS Codec, ProtocolProofs

-----------------------------------------------------------------------------
(* Read against the number that the bytes stand for.                       *)

SumOf(bytes, g, n) ==
    IF n = 0 THEN 0 ELSE g[n - 1] + (bytes[n] % Group) * Weight(n - 1)

\* The sum satisfies its equation.
LEMMA MeaningDef ==
    ASSUME NEW bytes, Len(bytes) \in Nat
    PROVE  Meaning(bytes) = [n \in 0 .. Len(bytes) |-> SumOf(bytes, Meaning(bytes), n)]
<1> DEFINE T == {m \in Nat : \E g : g = [n \in 0 .. m |-> SumOf(bytes, g, n)]}
<1>1. 0 \in T
    <2> DEFINE g == [n \in 0 .. 0 |-> 0]
    <2>1. \A n \in 0 .. 0 : n = 0
        OBVIOUS
    <2>2. g = [n \in 0 .. 0 |-> SumOf(bytes, g, n)]
        BY <2>1 DEF SumOf
    <2> QED
        BY <2>2
<1>2. ASSUME NEW m \in Nat, m \in T PROVE m + 1 \in T
    <2>1. PICK g : g = [n \in 0 .. m |-> SumOf(bytes, g, n)]
        BY <1>2
    <2> DEFINE h == [n \in 0 .. m + 1 |-> SumOf(bytes, g, n)]
    <2>2. \A n \in 0 .. m : h[n] = g[n]
        BY <2>1
    <2>3. ASSUME NEW n \in 0 .. m + 1 PROVE SumOf(bytes, g, n) = SumOf(bytes, h, n)
        <3>1. CASE n = 0
            BY <3>1 DEF SumOf
        <3>2. CASE n # 0
            <4>1. n - 1 \in 0 .. m
                BY <3>2
            <4>2. h[n - 1] = g[n - 1]
                BY <2>2, <4>1
            <4> HIDE DEF h
            <4> QED
                BY <4>2 DEF SumOf
        <3> QED
            BY <3>1, <3>2
    <2>4. h = [n \in 0 .. m + 1 |-> SumOf(bytes, h, n)]
        BY <2>3
    <2> HIDE DEF h
    <2> QED
        BY <2>4
<1>3. Len(bytes) \in T
    <2> HIDE DEF T
    <2>1. \A n \in Nat : n \in T
        BY <1>1, <1>2, Induction
    <2> QED
        BY <2>1
<1>4. Meaning(bytes) = CHOOSE g : g = [n \in 0 .. Len(bytes) |-> SumOf(bytes, g, n)]
    BY Zenon DEF Meaning, SumOf, Weight
<1> QED
    BY <1>3, <1>4

\* It is a number that grows with every byte.
LEMMA MeaningType ==
    ASSUME NEW bytes \in Seq(Byte)
    PROVE  /\ \A n \in 0 .. Len(bytes) : Meaning(bytes)[n] \in Nat
           /\ Meaning(bytes)[0] = 0
           /\ \A n \in 1 .. Len(bytes) :
                  /\ (bytes[n] % Group) * Weight(n - 1) \in Nat
                  /\ Meaning(bytes)[n] = Meaning(bytes)[n - 1]
                                         + (bytes[n] % Group) * Weight(n - 1)
<1> DEFINE M == Meaning(bytes)
           T == {m \in Nat : m <= Len(bytes) => M[m] \in Nat}
<1>1. M[0] = 0
    BY MeaningDef DEF SumOf
<1>2. ASSUME NEW n \in 1 .. Len(bytes)
      PROVE  /\ (bytes[n] % Group) * Weight(n - 1) \in Nat
             /\ M[n] = M[n - 1] + (bytes[n] % Group) * Weight(n - 1)
    <2>1. bytes[n] \in Nat
        <3>1. bytes[n] \in Byte
            OBVIOUS
        <3> QED
            BY <3>1, Sizes DEF Byte
    <2>2. bytes[n] % Group \in Nat /\ Weight(n - 1) \in Nat
        <3>1. n - 1 \in Nat
            OBVIOUS
        <3>2. Weight(n - 1) \in Nat
            BY <3>1, Weights
        <3>3. bytes[n] % Group \in 0 .. Group - 1
            BY <2>1, Division
        <3> QED
            BY <3>2, <3>3, Sizes
    <2>3. \A x, y \in Nat : x * y \in Nat
        OBVIOUS
    <2>4. M[n] = SumOf(bytes, M, n) /\ n # 0
        BY MeaningDef
    <2> QED
        BY <2>2, <2>3, <2>4 DEF SumOf
<1>3. ASSUME NEW m \in Nat, m \in T PROVE m + 1 \in T
    <2> SUFFICES ASSUME m + 1 <= Len(bytes) PROVE M[m + 1] \in Nat
        OBVIOUS
    <2>1. m + 1 \in 1 .. Len(bytes) /\ (m + 1) - 1 = m /\ M[m] \in Nat
        BY <1>3
    <2> HIDE DEF M
    <2> QED
        BY <1>2, <2>1
<1>4. \A m \in Nat : m \in T
    <2>1. 0 \in T
        BY <1>1
    <2> HIDE DEF T
    <2> QED
        BY <1>3, <2>1, Induction
<1> QED
    BY <1>1, <1>2, <1>4

\* The loop returns what is left of the sum, or there is an overflow.
LEMMA LoopSums ==
    ASSUME NEW bytes \in Seq(Byte), NEW j \in 1 .. MaxLength, j <= Len(bytes),
           bytes[j] < Group, \A i \in 1 .. j - 1 : bytes[i] >= Group
    PROVE  \A n \in 0 .. j - 1 :
               IF ReadLoop(bytes)[n] = Refused THEN Meaning(bytes)[j] >= Modulus
               ELSE /\ ReadLoop(bytes)[n].used = j
                    /\ Meaning(bytes)[n] + ReadLoop(bytes)[n].value = Meaning(bytes)[j]
<1> DEFINE M == Meaning(bytes)
           Sums(n) == IF ReadLoop(bytes)[n] = Refused THEN M[j] >= Modulus
                      ELSE /\ ReadLoop(bytes)[n].used = j
                           /\ M[n] + ReadLoop(bytes)[n].value = M[j]
           T == {m \in Nat : m < j => Sums(j - 1 - m)}
<1>0. ASSUME NEW k \in 0 .. j - 1
      PROVE  /\ ReadLoop(bytes)[k] = LoopOf(bytes, ReadLoop(bytes), k)
             /\ k \in 0 .. MaxLength /\ k # MaxLength /\ k < Len(bytes)
             /\ bytes[k + 1] \in Nat /\ k + 1 \in 1 .. Len(bytes) /\ k \in Nat
    <2>1. k \in 0 .. MaxLength /\ k # MaxLength /\ k < Len(bytes) /\ k + 1 \in 1 .. Len(bytes)
        BY Sizes
    <2>2. bytes[k + 1] \in Byte
        BY <2>1
    <2>3. bytes[k + 1] \in Nat
        BY <2>2, Sizes DEF Byte
    <2> QED
        <3>1. ReadLoop(bytes)[k] = LoopOf(bytes, ReadLoop(bytes), k)
            BY <2>1, LoopDef
        <3> QED
            BY <2>1, <2>3, <3>1
<1>1. 0 \in T
    <2>1. PICK k \in 0 .. j - 1 : k = j - 1 - 0 /\ k + 1 = j
        OBVIOUS
    <2> DEFINE b == bytes[k + 1]
    <2>2. /\ ReadLoop(bytes)[k] = LoopOf(bytes, ReadLoop(bytes), k)
          /\ k # MaxLength /\ k # Len(bytes)
          /\ b \in Nat /\ b < Group /\ j \in 1 .. Len(bytes) /\ k = j - 1
        BY <1>0, <2>1
    <2>3. b % Group = b
        BY <2>2, Division
    <2>4. M[j] = M[k] + b * Weight(k) /\ M[k] \in Nat /\ b * Weight(k) \in Nat
        <3>1. /\ M[j] = M[j - 1] + (bytes[j] % Group) * Weight(j - 1)
              /\ (bytes[j] % Group) * Weight(j - 1) \in Nat
            BY <2>2, MeaningType
        <3>2. M[k] \in Nat
            BY <1>0, MeaningType
        <3> QED
            BY <2>1, <2>2, <2>3, <3>1, <3>2
    <2>5. CASE Overflows(k, b)
        <3>1. ReadLoop(bytes)[k] = Refused
            BY <2>2, <2>5 DEF LoopOf
        <3>2. b >= Room /\ Room \in Nat /\ Modulus = Weight(k) * Room /\ Weight(k) \in Nat
            <4>1. k = MaxLength - 1 /\ b >= Room
                BY <2>5, LastGroup
            <4>2. Room \in Nat /\ Modulus = Weight(k) * Room
                BY <4>1, LastGroup
            <4>3. Weight(k) \in Nat
                BY <1>0, Weights
            <4> QED
                BY <4>1, <4>2, <4>3
        <3>3. \A x, y, z \in Nat : x >= y => x * z >= z * y
            OBVIOUS
        <3>4. b * Weight(k) >= Modulus
            BY <2>2, <3>2, <3>3
        <3> QED
            BY <2>1, <2>4, <3>1, <3>4, Sizes
    <2>6. CASE ~Overflows(k, b)
        <3>1. ReadLoop(bytes)[k] = [used |-> k + 1, value |-> b * Weight(k)]
            BY <2>2, <2>3, <2>6 DEF LoopOf
        <3> QED
            BY <2>1, <2>4, <3>1 DEF Refused
    <2> QED
        BY <2>5, <2>6
<1>2. ASSUME NEW m \in Nat, m \in T PROVE m + 1 \in T
    <2> SUFFICES ASSUME m + 1 < j PROVE Sums(j - 1 - (m + 1))
        OBVIOUS
    <2>1. PICK k \in 0 .. j - 1 :
              k = j - 1 - (m + 1) /\ k + 1 = j - 1 - m /\ k + 1 \in 1 .. j - 1
        OBVIOUS
    <2>2. Sums(k + 1)
        BY <1>2, <2>1
    <2> DEFINE b == bytes[k + 1]
               rest == ReadLoop(bytes)[k + 1]
    <2>3. /\ ReadLoop(bytes)[k] = LoopOf(bytes, ReadLoop(bytes), k)
          /\ k \in 0 .. MaxLength /\ k # MaxLength /\ k <= Len(bytes) /\ k # Len(bytes)
          /\ b \in Nat /\ b >= Group /\ k + 1 \in 1 .. Len(bytes) /\ k \in Nat
        <3>1. /\ k \in 0 .. MaxLength /\ k # MaxLength /\ k <= Len(bytes) /\ k # Len(bytes)
              /\ k + 1 \in 1 .. Len(bytes) /\ k \in Nat
            BY <1>0, <2>1
        <3>2. ReadLoop(bytes)[k] = LoopOf(bytes, ReadLoop(bytes), k)
            BY <1>0, <3>1
        <3>3. b \in Nat /\ b >= Group
            BY <1>0, <2>1
        <3> QED
            BY <3>1, <3>2, <3>3
    <2>4. ~Overflows(k, b)
        <3>1. k # MaxLength - 1
            BY <2>1, Sizes
        <3> QED
            BY <3>1, LastGroup
    <2>5. ~(b < Group)
        BY <2>3, Sizes
    <2>6. CASE rest = Refused
        <3>1. ReadLoop(bytes)[k] = Refused
            BY <2>3, <2>4, <2>5, <2>6 DEF LoopOf
        <3> QED
            BY <2>1, <2>2, <2>6, <3>1
    <2>7. CASE rest # Refused
        <3>1. ReadLoop(bytes)[k] # Refused
            <4>1. ReadLoop(bytes)[k]
                      = [rest EXCEPT !.value = (@ + (b % Group) * Weight(k)) % Modulus]
                BY <2>3, <2>4, <2>5, <2>7 DEF LoopOf
            <4>2. k + 1 \in 0 .. MaxLength /\ k + 1 <= Len(bytes)
                BY <2>3, Sizes
            <4>3. Decoded(bytes, k + 1, rest)
                BY <2>7, <4>2, LoopDecodes
            <4>4. rest.used # 0 /\ rest = [used |-> rest.used, value |-> rest.value]
                BY <2>3, <4>3 DEF Decoded
            <4> HIDE DEF rest
            <4> QED
                <5>1. ReadLoop(bytes)[k].used = rest.used
                    BY <4>1, <4>4
                <5>2. Refused.used = 0
                    BY DEF Refused
                <5> QED
                    BY <4>4, <5>1, <5>2
        <3>2. Decoded(bytes, k, ReadLoop(bytes)[k])
            BY <2>3, <3>1, LoopDecodes
        <3>3. Adds(bytes, k, ReadLoop(bytes)[k])
            BY <2>3, <3>2 DEF Decoded
        <3>4. /\ ReadLoop(bytes)[k].used = rest.used
              /\ ReadLoop(bytes)[k].value = rest.value + (b % Group) * Weight(k)
            BY <3>3 DEF Adds
        <3>5. rest.used = j /\ M[k + 1] + rest.value = M[j]
            BY <2>2, <2>7
        <3>6. /\ M[k + 1] = M[k] + (b % Group) * Weight(k) /\ (b % Group) * Weight(k) \in Nat
              /\ M[k] \in Nat
            <4>1. (k + 1) - 1 = k /\ k \in 0 .. Len(bytes)
                BY <2>3
            <4> QED
                BY <2>3, <4>1, MeaningType
        <3>7. rest.value \in Nat
            <4>1. k + 1 \in 0 .. MaxLength /\ k + 1 <= Len(bytes)
                BY <2>3, Sizes
            <4>2. Decoded(bytes, k + 1, rest)
                BY <2>7, <4>1, LoopDecodes
            <4> QED
                BY <4>2, Sizes DEF Decoded, Value
        <3>8. M[k] + ReadLoop(bytes)[k].value = M[j]
            <4> HIDE DEF M, rest, b
            <4> QED
                BY <3>4, <3>5, <3>6, <3>7
        <3> QED
            BY <2>1, <3>1, <3>4, <3>5, <3>8
    <2> QED
        BY <2>6, <2>7
<1>3. ASSUME NEW n \in 0 .. j - 1 PROVE Sums(n)
    <2>1. j - 1 - n \in Nat /\ j - 1 - n < j /\ j - 1 - (j - 1 - n) = n
        OBVIOUS
    <2>2. j - 1 - n \in T
        <3> HIDE DEF T
        <3>1. \A m \in Nat : m \in T
            BY <1>1, <1>2, Induction
        <3> QED
            BY <2>1, <3>1
    <2> QED
        BY <2>1, <2>2
<1> QED
    BY <1>3

\* The first byte that clears its flag is where the loop ends.
LEMMA OneEnd ==
    ASSUME packet \in Seq(Byte), NEW m \in 1 .. MaxLength, NEW n \in 1 .. MaxLength,
           Ends(m), Ends(n)
    PROVE  m = n
<1>1. packet[m] \in Nat /\ packet[n] \in Nat
    <2>1. m \in 1 .. Len(packet) /\ n \in 1 .. Len(packet)
        BY Sizes DEF Ends
    <2>2. packet[m] \in Byte /\ packet[n] \in Byte
        BY <2>1
    <2> QED
        BY <2>2, Sizes DEF Byte
<1>2. ~(m < n)
    BY <1>1, Sizes DEF Ends
<1>3. ~(n < m)
    BY <1>1, Sizes DEF Ends
<1> QED
    BY <1>2, <1>3, Sizes

\* varint::read for every input.
LEMMA ReadMeans == packet \in Seq(Byte) => ReadMeansValue
<1> SUFFICES ASSUME packet \in Seq(Byte) PROVE ReadMeansValue
    OBVIOUS
<1> DEFINE good == {n \in 1 .. MaxLength : Ends(n) /\ Meaning(packet)[n] \in Value}
<1>1. ASSUME NEW n \in 1 .. MaxLength, Ends(n)
      PROVE  IF read(packet) = Refused THEN Meaning(packet)[n] \notin Value
             ELSE read(packet) = [used |-> n, value |-> Meaning(packet)[n]]
    <2>1. 0 \in 0 .. n - 1 /\ n <= Len(packet) /\ 0 \in 0 .. MaxLength /\ 0 <= Len(packet)
        BY <1>1, Sizes DEF Ends
    <2>2. IF ReadLoop(packet)[0] = Refused THEN Meaning(packet)[n] >= Modulus
          ELSE /\ ReadLoop(packet)[0].used = n
               /\ Meaning(packet)[0] + ReadLoop(packet)[0].value = Meaning(packet)[n]
        BY <1>1, <2>1, LoopSums DEF Ends
    <2>3. Meaning(packet)[0] = 0
        BY MeaningType
    <2>4. CASE read(packet) = Refused
        <3>1. Meaning(packet)[n] >= Modulus
            BY <2>2, <2>4 DEF read
        <3> QED
            BY <2>4, <3>1, Sizes DEF Value
    <2>5. CASE read(packet) # Refused
        <3> DEFINE r == ReadLoop(packet)[0]
        <3>1. Decoded(packet, 0, r)
            BY <2>1, <2>5, LoopDecodes DEF read
        <3>2. r = [used |-> r.used, value |-> r.value] /\ r.value \in Nat
            BY <3>1, Sizes DEF Decoded, Value
        <3>3. r.used = n /\ Meaning(packet)[0] + r.value = Meaning(packet)[n]
            BY <2>2, <2>5 DEF read
        <3> HIDE DEF r
        <3>4. r.value = Meaning(packet)[n]
            BY <2>3, <3>2, <3>3
        <3> QED
            BY <2>5, <3>2, <3>3, <3>4 DEF read, r
    <2> QED
        BY <2>4, <2>5
<1>2. ASSUME read(packet) # Refused PROVE good # {}
    <2> DEFINE r == ReadLoop(packet)[0]
    <2>1. Decoded(packet, 0, r)
        BY <1>2, LoopDecodes, Sizes DEF read
    <2>2. r.used \in 1 .. MaxLength /\ Ends(r.used) /\ r.value \in Value
        BY <2>1 DEF Decoded, Ends
    <2>3. r = [used |-> r.used, value |-> Meaning(packet)[r.used]]
        BY <1>1, <1>2, <2>2 DEF read
    <2> HIDE DEF r
    <2>4. r.value = Meaning(packet)[r.used]
        BY <2>3
    <2> QED
        BY <2>2, <2>4
<1>3. CASE good = {}
    BY <1>2, <1>3 DEF ReadMeansValue
<1>4. CASE good # {}
    <2>1. ASSUME NEW n \in good
          PROVE  read(packet) = [used |-> n, value |-> Meaning(packet)[n]]
        BY <1>1
    <2> QED
        BY <1>4, <2>1 DEF ReadMeansValue
<1> QED
    BY <1>3, <1>4

\* varint::write is read's inverse for every value that read returns.
LEMMA WriteReads == packet \in Seq(Byte) => WriteReadsBack
<1> SUFFICES ASSUME packet \in Seq(Byte), read(packet) # Refused,
                    NEW capacity \in 0 .. MaxLength
             PROVE  LET r == read(packet)
                        out == write(capacity, r.value)
                    IN  IF capacity < r.used /\ out = << >>
                        THEN write(r.used, r.value) # << >>
                        ELSE /\ read(out) = [used |-> Len(out), value |-> r.value]
                             /\ Len(out) <= r.used
    BY DEF WriteReadsBack
<1> DEFINE r == read(packet)
           out == write(capacity, r.value)
<1>1. Decoded(packet, 0, r)
    BY LoopDecodes, Sizes DEF read
<1>2. r.value \in Value /\ r.used \in Nat \ {0} /\ r.value < Weight(r.used)
    BY <1>1, Sizes DEF Decoded
<1> HIDE DEF r
<1>3. required[r.value] <= r.used /\ required[r.value] \in 1 .. MaxLength
    BY <1>2, GroupsShape, LengthSuffices
<1>4. groups[r.value] \in Seq(Byte) /\ Len(groups[r.value]) = required[r.value]
    BY <1>2, GroupsShape
<1>5. groups[r.value] # << >>
    BY <1>3, <1>4
<1>6. CASE capacity < required[r.value]
    <2>1. out = << >> /\ capacity < r.used
        BY <1>2, <1>3, <1>6, WriteWhole, Sizes
    <2>2. write(r.used, r.value) = groups[r.value]
        BY <1>2, <1>3, WriteWhole
    <2> QED
        BY <1>5, <2>1, <2>2 DEF r
<1>7. CASE ~(capacity < required[r.value])
    <2>1. out = groups[r.value]
        BY <1>2, <1>7, WriteWhole, Sizes
    <2>2. write(MaxLength, r.value) = groups[r.value]
        BY <1>2, <1>3, WriteWhole, Sizes
    <2>3. read(groups[r.value] \o << >>) = [used |-> required[r.value], value |-> r.value]
        <3>1. << >> \in Seq(Byte)
            OBVIOUS
        <3> QED
            BY <1>2, <2>2, <3>1, WrittenIsRead, Zenon
    <2>4. groups[r.value] \o << >> = groups[r.value]
        BY <1>4
    <2> QED
        BY <1>3, <1>4, <1>5, <2>1, <2>3, <2>4 DEF r
<1> QED
    BY <1>6, <1>7 DEF r

-----------------------------------------------------------------------------
(* Parsing.                                                                *)

\* Some bytes of a packet are a VarInt and nothing else if and only if a VarInt
\* is read there that ends where they do.
LEMMA FieldHere ==
    ASSUME NEW p \in Seq(Byte), NEW i \in 0 .. Len(p), NEW j \in i + 1 .. Len(p)
    PROVE  /\ IsField(SubSeq(p, i + 1, j)) <=> ReadAt(p, i).used = j - i
           /\ ReadAt(p, i).used = j - i => read(SubSeq(p, i + 1, j)) = ReadAt(p, i)
<1> DEFINE a == SubSeq(p, i + 1, j)
           b == Rest(p, i)
           n == j - i
<1>1. n \in Nat \ {0} /\ n <= Len(p) - i
    OBVIOUS
<1>2. a \in Seq(Byte) /\ Len(a) = n /\ \A k \in 1 .. n : a[k] = p[i + k]
    OBVIOUS
<1>3. b \in Seq(Byte) /\ Len(b) = Len(p) - i /\ \A k \in 1 .. n : b[k] = p[i + k]
    <2>1. /\ b \in Seq(Byte) /\ Len(b) = Len(p) - i
          /\ \A k \in 1 .. Len(p) - i : b[k] = p[i + k]
        BY RestIs
    <2>2. \A k \in 1 .. n : k \in 1 .. Len(p) - i
        BY <1>1
    <2> QED
        BY <2>1, <2>2
<1>4. a # << >>
    BY <1>1, <1>2
<1>5. IsField(a) <=> read(a).used = n
    BY <1>2, <1>4 DEF IsField
<1> HIDE DEF a, b, n
<1>6. ASSUME read(a).used = n PROVE read(b) = read(a)
    <2>1. Decoded(a, 0, read(a))
        BY <1>1, <1>2, <1>6, ReadType
    <2>2. n \in 1 .. MaxLength /\ a[n] < Group
        BY <1>1, <1>6, <2>1, Sizes DEF Decoded
    <2>3. \A k \in 1 .. n : b[k] = a[k]
        BY <1>2, <1>3
    <2>4. n <= Len(a) /\ n <= Len(b) /\ 0 \in 0 .. n - 1
        BY <1>1, <1>2, <1>3
    <2> QED
        BY <1>2, <1>3, <2>2, <2>3, <2>4, LoopAgrees DEF read
<1>7. ASSUME read(b).used = n PROVE read(a) = read(b)
    <2>1. Decoded(b, 0, read(b))
        BY <1>1, <1>3, <1>7, ReadType
    <2>2. n \in 1 .. MaxLength /\ b[n] < Group
        BY <1>1, <1>7, <2>1, Sizes DEF Decoded
    <2>3. \A k \in 1 .. n : a[k] = b[k]
        BY <1>2, <1>3
    <2>4. n <= Len(a) /\ n <= Len(b) /\ 0 \in 0 .. n - 1
        BY <1>1, <1>2, <1>3
    <2> QED
        BY <1>2, <1>3, <2>2, <2>3, <2>4, LoopAgrees DEF read
<1> QED
    BY <1>5, <1>6, <1>7 DEF a, b, n, ReadAt

\* The packet is a handshake whose fields end there, as Codec says it.
Grammar(a, b, c, d) ==
    /\ a \in FieldEnds(0) /\ b \in FieldEnds(a) /\ c \in FieldEnds(b)
    /\ d \in 0 .. Len(packet) /\ IsHandshake(a, b, c, d)

\* What parse_handshake takes for one is one.
LEMMA HandshakeHasFields ==
    ASSUME packet \in Seq(Byte), NEW a, NEW b, NEW c, NEW d, Handshake(packet, a, b, c, d)
    PROVE  Grammar(a, b, c, d)
<1>1. /\ 0 \in 0 .. Len(packet) /\ a \in 0 + 1 .. Len(packet)
      /\ a \in 0 .. Len(packet) /\ b \in a + 1 .. Len(packet)
      /\ b \in 0 .. Len(packet) /\ c \in b + 1 .. Len(packet)
      /\ d + 2 \in 0 .. Len(packet) /\ Len(packet) \in (d + 2) + 1 .. Len(packet)
      /\ a - 0 = a
    BY DEF Handshake
<1>2. IsField(Slice(0, a)) /\ read(Slice(0, a)) = ReadAt(packet, 0)
    BY <1>1, FieldHere DEF Handshake, Slice
<1>3. IsField(Slice(a, b))
    BY <1>1, FieldHere DEF Handshake, Slice
<1>4. IsField(Slice(b, c)) /\ read(Slice(b, c)) = ReadAt(packet, b)
    BY <1>1, FieldHere DEF Handshake, Slice
<1>5. /\ IsField(Slice(d + 2, Len(packet)))
      /\ read(Slice(d + 2, Len(packet))) = ReadAt(packet, d + 2)
    BY <1>1, FieldHere DEF Handshake, Slice
<1>6. d \in 0 .. Len(packet) /\ Len(packet) <= max_packet_bytes
    BY ProtocolAssumption DEF Handshake
<1>7. ValidAddress(Slice(c, d))
    BY DEF Handshake, Slice
<1>8. a \in FieldEnds(0) /\ b \in FieldEnds(a) /\ c \in FieldEnds(b)
    BY <1>1, <1>2, <1>3, <1>4 DEF FieldEnds
<1>9. Len(packet) \in FieldEnds(d + 2)
    BY <1>1, <1>5 DEF FieldEnds
<1>10. IsHandshake(a, b, c, d)
    <2>1. /\ ReadAt(packet, 0).value = 0 /\ ReadAt(packet, b).value = d - c
          /\ ReadAt(packet, d + 2).value \in {1, 2}
        BY DEF Handshake
    <2> QED
        BY <1>2, <1>4, <1>5, <1>6, <1>7, <1>9, <2>1, Zenon DEF IsHandshake
<1> QED
    BY <1>6, <1>8, <1>10 DEF Grammar

\* What is one, parse_handshake takes for one, with these fields.
LEMMA FieldsMakeHandshake ==
    ASSUME packet \in Seq(Byte), NEW a, NEW b, NEW c, NEW d, Grammar(a, b, c, d)
    PROVE  /\ Handshake(packet, a, b, c, d)
           /\ parse_handshake(packet) = FieldsAt(a, b, c, d)
<1>1. /\ 0 \in 0 .. Len(packet) /\ a \in 0 + 1 .. Len(packet)
      /\ a \in 0 .. Len(packet) /\ b \in a + 1 .. Len(packet)
      /\ b \in 0 .. Len(packet) /\ c \in b + 1 .. Len(packet)
      /\ d \in Nat /\ a - 0 = a
      /\ IsField(Slice(0, a)) /\ IsField(Slice(a, b)) /\ IsField(Slice(b, c))
    BY DEF Grammar, FieldEnds
<1>2. /\ Len(packet) <= max_packet_bytes
      /\ read(Slice(0, a)).value = 0 /\ read(Slice(b, c)).value = d - c
      /\ ValidAddress(Slice(c, d)) /\ Len(packet) \in FieldEnds(d + 2)
      /\ read(Slice(d + 2, Len(packet))).value \in {1, 2}
    BY Zenon DEF Grammar, IsHandshake
<1>3. ReadAt(packet, 0).used = a /\ read(Slice(0, a)) = ReadAt(packet, 0)
    BY <1>1, FieldHere DEF Slice
<1>4. ReadAt(packet, a).used = b - a /\ read(Slice(a, b)) = ReadAt(packet, a)
    BY <1>1, FieldHere DEF Slice
<1>5. ReadAt(packet, b).used = c - b /\ read(Slice(b, c)) = ReadAt(packet, b)
    BY <1>1, FieldHere DEF Slice
<1>6. /\ Len(packet) \in (d + 2) + 1 .. Len(packet) /\ IsField(Slice(d + 2, Len(packet)))
      /\ d + 2 \in 0 .. Len(packet) /\ d + 2 < Len(packet)
    BY <1>1, <1>2 DEF FieldEnds
<1>7. /\ ReadAt(packet, d + 2).used = Len(packet) - (d + 2)
      /\ read(Slice(d + 2, Len(packet))) = ReadAt(packet, d + 2)
    BY <1>6, FieldHere DEF Slice
<1>8. ReadAt(packet, b).value = d - c
    BY <1>2, <1>5
<1>9. d \in c .. Len(packet) - 3
    <2>1. ReadAt(packet, b).value \in Nat
        BY <1>1, RestIs, Sizes DEF Value
    <2> QED
        BY <1>1, <1>6, <1>8, <2>1
<1>10. Len(packet) \in 1 .. max_packet_bytes
    BY <1>1, <1>2, ProtocolAssumption
<1>11. ValidAddress(SubSeq(packet, c + 1, d))
    BY <1>2 DEF Slice
<1>12. Handshake(packet, a, b, c, d)
    BY <1>1, <1>2, <1>3, <1>4, <1>5, <1>7, <1>8, <1>9, <1>10, <1>11 DEF Handshake
<1>13. parse_handshake(packet) =
           [protocol |-> ReadAt(packet, a).value, address |-> SubSeq(packet, c + 1, d),
            port |-> packet[d + 1] * 2 * Group + packet[d + 2],
            next_state |-> ReadAt(packet, d + 2).value]
    BY <1>12, HandshakeIsParsed
<1>14. Slice(c, d) = SubSeq(packet, c + 1, d)
    BY DEF Slice
<1> QED
    BY <1>4, <1>7, <1>12, <1>13, <1>14, Zenon DEF FieldsAt

\* parse_handshake and the grammar of handshakes.
LEMMA ParsesAll == packet \in Seq(Byte) => ParsesHandshakes
<1> SUFFICES ASSUME packet \in Seq(Byte) PROVE ParsesHandshakes
    OBVIOUS
<1>1. ASSUME NEW a, NEW b, NEW c, NEW d, Grammar(a, b, c, d)
      PROVE  parse_handshake(packet) = FieldsAt(a, b, c, d)
    BY <1>1, FieldsMakeHandshake
<1>2. parse_handshake(packet) # Malformed => \E a, b, c, d : Grammar(a, b, c, d)
    BY ParsedIsHandshake, HandshakeHasFields
<1>3. \A a \in FieldEnds(0) : \A b \in FieldEnds(a) :
          \A c \in FieldEnds(b), d \in 0 .. Len(packet) :
              IsHandshake(a, b, c, d) => parse_handshake(packet) = FieldsAt(a, b, c, d)
    BY <1>1, Zenon DEF Grammar
<1>4. parse_handshake(packet) # Malformed =>
          \E a \in FieldEnds(0) : \E b \in FieldEnds(a) :
              \E c \in FieldEnds(b), d \in 0 .. Len(packet) : IsHandshake(a, b, c, d)
    BY <1>2, Zenon DEF Grammar
<1> QED
    BY <1>3, <1>4, Zenon DEF ParsesHandshakes

-----------------------------------------------------------------------------
(* Rewriting.                                                              *)

\* A rewritten handshake arrives as it was meant, in a frame that fits.
LEMMA Rewrites ==
    ASSUME packet \in Seq(Byte), parse_handshake(packet) # Malformed,
           NEW host \in Seq(Byte), NEW rewritten, NEW frame,
           rewritten = [parse_handshake(packet) EXCEPT !.address = host],
           frame = serialize_handshake(rewritten)
    PROVE  /\ ValidAddress(host) =>
                  Framed(frame) /\ parse_handshake(Unframed(frame)) = rewritten
           /\ ~ValidAddress(host) => frame = << >>
           /\ Len(frame) <= LargestFrame
<1>1. PICK protocol, address, port, next_state :
          /\ Fields(protocol, address, port, next_state)
          /\ parse_handshake(packet) = [protocol |-> protocol, address |-> address,
                                        port |-> port, next_state |-> next_state]
    BY ParsedFields
<1>2. rewritten = [protocol |-> protocol, address |-> host, port |-> port,
                   next_state |-> next_state]
    BY <1>1
<1>3. CASE ValidAddress(host)
    <2>1. Fields(protocol, host, port, next_state)
        BY <1>1, <1>3 DEF Fields
    <2>2. /\ frame # << >> /\ read(frame).value = Len(Unframed(frame))
          /\ parse_handshake(Unframed(frame)) = rewritten /\ Len(frame) <= LargestFrame
        <3>1. PICK payload : payload = Unframed(frame)
            OBVIOUS
        <3>2. payload = SubSeq(frame, read(frame).used + 1, Len(frame))
            BY <3>1 DEF Unframed
        <3>3. frame = serialize_handshake(rewritten)
            OBVIOUS
        <3>4. Arrives(rewritten, frame, payload)
            <4>1. \A h, f, p :
                      /\ h = [protocol |-> protocol, address |-> host, port |-> port,
                              next_state |-> next_state]
                      /\ f = serialize_handshake(h)
                      /\ p = SubSeq(f, read(f).used + 1, Len(f))
                      => Arrives(h, f, p)
                BY <2>1, SerializedIsParsed, Zenon
            <4> QED
                BY <1>2, <3>2, <3>3, <4>1, Zenon
        <3> QED
            BY <3>1, <3>4 DEF Arrives
    <2> QED
        BY <1>3, <2>2 DEF Framed
<1>4. CASE ~ValidAddress(host)
    <2>1. rewritten.address = host
        BY <1>2
    <2>2. frame = << >>
        BY <1>4, <2>1, Zenon DEF serialize_handshake
    <2>3. 0 <= LargestFrame
        <3>1. LargestHandshake \in Value /\ LargestHandshake \in Nat
            BY LargestIsValue, Sizes DEF Value
        <3>2. required[LargestHandshake] \in Nat
            BY <3>1, GroupsShape
        <3> QED
            BY <3>1, <3>2 DEF LargestFrame
    <2> QED
        BY <1>4, <2>2, <2>3
<1> QED
    BY <1>3, <1>4

-----------------------------------------------------------------------------
(* The specification of module Codec.                                      *)

\* Every packet is a sequence of bytes.
Bytes == packet \in Seq(Byte)

\* So it stays, for a packet only gets shorter.
LEMMA PacketType == Spec => []Bytes
<1>1. Init => Bytes
    BY CodecAssumption DEF Init, Bytes
<1>2. Bytes /\ [Next]_packet => Bytes'
    <2> SUFFICES ASSUME Bytes, Next PROVE Bytes'
        BY DEF Bytes
    <2>1. packet # << >> /\ packet' = SubSeq(packet, 1, Len(packet) - 1)
        BY DEF Next, Front
    <2> QED
        BY <2>1 DEF Bytes
<1> QED
    BY <1>1, <1>2, PTL DEF Spec

\* varint::read returns the number its input stands for, or refuses it because
\* it is incomplete, overlong or too large: for every input and width.
THEOREM ReadIsRight == Spec => []ReadMeansValue
<1>1. Bytes => ReadMeansValue
    BY ReadMeans DEF Bytes
<1> QED
    BY <1>1, PacketType, PTL

\* varint::write is all or nothing, read's inverse, and never longer than any
\* encoding that read accepts: for every width.
THEOREM WriteIsRight == Spec => []WriteReadsBack
<1>1. Bytes => WriteReadsBack
    BY WriteReads DEF Bytes
<1> QED
    BY <1>1, PacketType, PTL

\* parse_handshake returns the fields of the packets that are handshakes and
\* refuses all others: for every packet, width and limit.
THEOREM ParseIsRight == Spec => []ParsesHandshakes
<1>1. Bytes => ParsesHandshakes
    BY ParsesAll DEF Bytes
<1> QED
    BY <1>1, PacketType, PTL

\* Upstream finds the client's handshake with the configured host in the frame
\* that serialize_handshake makes: for every handshake and host.
THEOREM RewriteIsRight == Spec => []RewriteReadsBack
<1>1. Bytes => RewriteReadsBack
    BY Rewrites, CodecAssumption DEF Bytes, RewriteReadsBack
<1> QED
    BY <1>1, PacketType, PTL

\* No rewritten handshake is larger than the largest frame: for every handshake
\* and host.
THEOREM RewriteIsSmall == Spec => []RewriteFits
<1>1. Bytes => RewriteFits
    BY Rewrites, CodecAssumption DEF Bytes, RewriteFits
<1> QED
    BY <1>1, PacketType, PTL
=============================================================================
