--------------------------- MODULE ProtocolProofs ---------------------------
(***************************************************************************)
(* Lemmas about handshake packets: what parse_handshake makes of a packet, *)
(* and that it reads back what serialize_handshake writes.                 *)
(***************************************************************************)
EXTENDS Protocol, VarIntProofs, SequenceTheorems

\* What read returns, of any bytes.
LEMMA ReadType ==
    ASSUME NEW bytes \in Seq(Byte)
    PROVE  /\ read(bytes).used \in 0 .. Len(bytes) /\ read(bytes).used <= MaxLength
           /\ read(bytes).value \in Value
           /\ read(bytes).used = 0 <=> read(bytes) = Refused
           /\ read(bytes) # Refused => Decoded(bytes, 0, read(bytes))
<1>1. CASE read(bytes) = Refused
    <2>1. read(bytes).used = 0 /\ read(bytes).value = 0
        BY <1>1 DEF Refused
    <2> QED
        BY <1>1, <2>1, Sizes DEF Value
<1>2. CASE read(bytes) # Refused
    <2>1. Decoded(bytes, 0, read(bytes))
        BY <1>2, LoopDecodes, Sizes DEF read
    <2> QED
        BY <1>2, <2>1, Sizes DEF Decoded
<1> QED
    BY <1>1, <1>2

\* What is left of a packet at a position, and the VarInt there.
Rest(p, pos) == SubSeq(p, pos + 1, Len(p))
ReadAt(p, pos) == read(Rest(p, pos))

\* The bytes of a packet from a position on.
LEMMA RestIs ==
    ASSUME NEW p \in Seq(Byte), NEW i \in 0 .. Len(p)
    PROVE  /\ Rest(p, i) \in Seq(Byte) /\ Len(Rest(p, i)) = Len(p) - i
           /\ \A k \in 1 .. Len(p) - i : Rest(p, i)[k] = p[i + k]
           /\ ReadAt(p, i).used \in 0 .. Len(p) - i /\ ReadAt(p, i).value \in Value
<1>1. /\ Rest(p, i) \in Seq(Byte) /\ Len(Rest(p, i)) = Len(p) - i
      /\ \A k \in 1 .. Len(p) - i : Rest(p, i)[k] = p[i + k]
    BY DEF Rest
<1> QED
    BY <1>1, ReadType DEF ReadAt

\* A packet is a handshake whose ID ends at a, the protocol at b, the length of
\* the address at c and the address at d.
Handshake(p, a, b, c, d) ==
    /\ Len(p) \in 1 .. max_packet_bytes
    /\ a \in 1 .. Len(p) /\ b \in a + 1 .. Len(p) /\ c \in b + 1 .. Len(p)
    /\ d \in c .. Len(p) - 3
    /\ ReadAt(p, 0).used = a /\ ReadAt(p, 0).value = 0
    /\ ReadAt(p, a).used = b - a
    /\ ReadAt(p, b).used = c - b /\ ReadAt(p, b).value = d - c
    /\ ValidAddress(SubSeq(p, c + 1, d))
    /\ ReadAt(p, d + 2).used = Len(p) - (d + 2)
    /\ ReadAt(p, d + 2).value \in {1, 2}

\* Such a packet is parsed into its fields.
LEMMA HandshakeIsParsed ==
    ASSUME NEW p \in Seq(Byte), NEW a, NEW b, NEW c, NEW d, Handshake(p, a, b, c, d)
    PROVE  parse_handshake(p) =
               [protocol |-> ReadAt(p, a).value, address |-> SubSeq(p, c + 1, d),
                port |-> p[d + 1] * 2 * Group + p[d + 2],
                next_state |-> ReadAt(p, d + 2).value]
<1>1. /\ Len(p) \in Nat /\ a \in Nat /\ b \in Nat /\ c \in Nat /\ d \in Nat
      /\ a > 0 /\ b > a /\ c > b /\ d >= c /\ d + 2 < Len(p)
    BY DEF Handshake
<1>2. /\ read(SubSeq(p, 0 + 1, Len(p))) = ReadAt(p, 0)
      /\ read(SubSeq(p, a + 1, Len(p))) = ReadAt(p, a)
      /\ read(SubSeq(p, b + 1, Len(p))) = ReadAt(p, b)
      /\ read(SubSeq(p, d + 2 + 1, Len(p))) = ReadAt(p, d + 2)
    BY DEF ReadAt, Rest
<1>3. /\ a + (b - a) = b /\ b + (c - b) = c /\ c + (d - c) = d
      /\ (d + 2) + (Len(p) - (d + 2)) = Len(p)
      /\ a > 0 /\ b - a > 0 /\ c - b > 0 /\ d - c <= Len(p) - c /\ Len(p) - d >= 2
      /\ Len(p) - (d + 2) > 0
    BY <1>1
<1>4. /\ ReadAt(p, 0).used = a /\ ReadAt(p, 0).value = 0
      /\ ReadAt(p, a).used = b - a
      /\ ReadAt(p, b).used = c - b /\ ReadAt(p, b).value = d - c
      /\ ReadAt(p, d + 2).used = Len(p) - (d + 2)
    BY DEF Handshake
<1>5. Len(p) \in 1 .. max_packet_bytes /\ ValidAddress(SubSeq(p, c + 1, d))
      /\ ValidState(ReadAt(p, d + 2).value)
    BY DEF Handshake, ValidState
<1> QED
    BY <1>2, <1>3, <1>4, <1>5, Zenon DEF parse_handshake, ConsumedAll

\* No other packet is.
LEMMA ParsedIsHandshake ==
    ASSUME NEW p \in Seq(Byte), parse_handshake(p) # Malformed
    PROVE  \E a, b, c, d : Handshake(p, a, b, c, d)
<1> DEFINE a == ReadAt(p, 0).used
           b == a + ReadAt(p, a).used
           c == b + ReadAt(p, b).used
           d == c + ReadAt(p, b).value
<1>1. /\ Len(p) \in 1 .. max_packet_bytes
      /\ ReadAt(p, 0).used > 0 /\ ReadAt(p, 0).value = 0
      /\ ReadAt(p, a).used > 0 /\ ReadAt(p, b).used > 0
      /\ ReadAt(p, b).value <= Len(p) - c
      /\ ValidAddress(SubSeq(p, c + 1, c + ReadAt(p, b).value))
      /\ Len(p) - d >= 2
      /\ ReadAt(p, d + 2).used > 0 /\ ValidState(ReadAt(p, d + 2).value)
      /\ d + 2 + ReadAt(p, d + 2).used = Len(p)
    BY Zenon DEF parse_handshake, ConsumedAll, ReadAt, Rest
<1>2. 0 \in 0 .. Len(p) /\ a \in 1 .. Len(p)
    <2>1. 0 \in 0 .. Len(p)
        OBVIOUS
    <2>2. a \in 0 .. Len(p) - 0
        BY <2>1, RestIs
    <2>3. a > 0
        BY <1>1, Zenon
    <2> QED
        BY <2>1, <2>2, <2>3
<1> HIDE DEF a
<1>3. b \in a + 1 .. Len(p) /\ ReadAt(p, a).used = b - a
    <2>1. a \in 0 .. Len(p)
        BY <1>2
    <2>2. ReadAt(p, a).used \in 0 .. Len(p) - a
        BY <2>1, RestIs
    <2>3. ReadAt(p, a).used > 0
        BY <1>1, Zenon
    <2> QED
        BY <1>2, <2>2, <2>3
<1> HIDE DEF b
<1>4. c \in b + 1 .. Len(p) /\ ReadAt(p, b).used = c - b /\ ReadAt(p, b).value \in Nat
    <2>1. b \in 0 .. Len(p)
        BY <1>2, <1>3
    <2>2. ReadAt(p, b).used \in 0 .. Len(p) - b /\ ReadAt(p, b).value \in Value
        BY <2>1, RestIs
    <2>3. ReadAt(p, b).value \in Nat
        BY <2>2, Sizes DEF Value
    <2>4. ReadAt(p, b).used > 0
        BY <1>1, Zenon
    <2> QED
        BY <1>2, <1>3, <2>2, <2>3, <2>4
<1> HIDE DEF c
<1>5. d \in c .. Len(p) - 2 /\ ReadAt(p, b).value = d - c
    <2>1. Len(p) - d >= 2
        BY <1>1, Zenon
    <2> QED
        BY <1>2, <1>3, <1>4, <2>1
<1> HIDE DEF d
<1>6. d + 2 \in 0 .. Len(p)
    BY <1>2, <1>3, <1>4, <1>5
<1>7. ReadAt(p, d + 2).used \in 0 .. Len(p) - (d + 2)
    BY <1>6, RestIs
<1>8. ReadAt(p, d + 2).used = Len(p) - (d + 2) /\ d \in c .. Len(p) - 3
    BY <1>1, <1>2, <1>3, <1>4, <1>5, <1>7
<1>9. SubSeq(p, c + 1, c + ReadAt(p, b).value) = SubSeq(p, c + 1, d)
    BY DEF d
<1>10. Handshake(p, a, b, c, d)
    BY <1>1, <1>2, <1>3, <1>4, <1>5, <1>8, <1>9 DEF Handshake, ValidState, a
<1> QED
    BY <1>10


-----------------------------------------------------------------------------
(* Serialising.                                                            *)

\* These bytes are in the packet, from a position on.
At(p, i, s) == i + Len(s) <= Len(p) /\ \A k \in 1 .. Len(s) : p[i + k] = s[k]

\* What is in the front of a packet stays there when more follows.
LEMMA AtFront ==
    ASSUME NEW s \in Seq(Byte), NEW t \in Seq(Byte)
    PROVE  /\ s \o t \in Seq(Byte) /\ Len(s \o t) = Len(s) + Len(t)
           /\ At(s \o t, 0, s) /\ At(s \o t, Len(s), t)
           /\ \A u \in Seq(Byte), i \in Nat : At(s, i, u) => At(s \o t, i, u)
           /\ \A u \in Seq(Byte), i \in Nat : At(t, i, u) => At(s \o t, Len(s) + i, u)
<1>1. s \o t \in Seq(Byte) /\ Len(s \o t) = Len(s) + Len(t)
    OBVIOUS
<1>2. /\ \A k \in 1 .. Len(s) : (s \o t)[k] = s[k]
      /\ \A k \in 1 .. Len(t) : (s \o t)[Len(s) + k] = t[k]
    OBVIOUS
<1>3. At(s \o t, 0, s) /\ At(s \o t, Len(s), t)
    BY <1>1, <1>2 DEF At
<1>4. ASSUME NEW u \in Seq(Byte), NEW i \in Nat, At(s, i, u)
      PROVE  At(s \o t, i, u)
    <2>1. \A k \in 1 .. Len(u) : i + k \in 1 .. Len(s)
        BY <1>4 DEF At
    <2> QED
        BY <1>1, <1>2, <1>4, <2>1 DEF At
<1>5. ASSUME NEW u \in Seq(Byte), NEW i \in Nat, At(t, i, u)
      PROVE  At(s \o t, Len(s) + i, u)
    <2>1. \A k \in 1 .. Len(u) : i + k \in 1 .. Len(t) /\ (Len(s) + i) + k = Len(s) + (i + k)
        BY <1>5 DEF At
    <2>2. (Len(s) + i) + Len(u) <= Len(s \o t)
        BY <1>1, <1>5 DEF At
    <2>3. \A k \in 1 .. Len(u) : (s \o t)[(Len(s) + i) + k] = u[k]
        BY <1>2, <1>5, <2>1 DEF At
    <2> QED
        BY <2>2, <2>3 DEF At
<1> QED
    BY <1>1, <1>3, <1>4, <1>5

\* Such bytes are what SubSeq cuts out.
LEMMA CutOut ==
    ASSUME NEW p \in Seq(Byte), NEW s \in Seq(Byte), NEW i \in Nat, At(p, i, s)
    PROVE  SubSeq(p, i + 1, i + Len(s)) = s
<1> DEFINE c == SubSeq(p, i + 1, i + Len(s))
<1>1. Len(s) \in Nat /\ i + Len(s) <= Len(p) /\ Len(p) \in Nat
    BY DEF At
<1>2. c \in Seq(Byte) /\ Len(c) = Len(s) /\ \A k \in 1 .. Len(s) : c[k] = p[i + k]
    BY <1>1
<1>3. \A k \in 1 .. Len(s) : c[k] = s[k]
    BY <1>2 DEF At
<1> HIDE DEF c
<1>4. c = s
    <2>1. \A k \in 1 .. Len(c) : c[k] = s[k]
        BY <1>2, <1>3
    <2> QED
        BY <1>2, <2>1, SeqEqual, Zenon
<1> QED
    BY <1>4 DEF c

\* Where the groups of a value are, it is read.
LEMMA ReadHere ==
    ASSUME NEW p \in Seq(Byte), NEW i \in Nat, NEW v \in Value, At(p, i, groups[v])
    PROVE  ReadAt(p, i) = [used |-> required[v], value |-> v]
<1>1. Len(groups[v]) = required[v] /\ required[v] \in 1 .. MaxLength
    BY GroupsShape, LengthSuffices
<1>2. i + required[v] <= Len(p) /\ \A k \in 1 .. required[v] : p[i + k] = groups[v][k]
    BY <1>1 DEF At
<1>3. i \in 0 .. Len(p)
    BY <1>1, <1>2
<1>4. /\ Rest(p, i) \in Seq(Byte) /\ Len(Rest(p, i)) = Len(p) - i
      /\ \A k \in 1 .. Len(p) - i : Rest(p, i)[k] = p[i + k]
    BY <1>3, RestIs
<1>5. /\ 0 \in 0 .. MaxLength - 1 /\ v * Weight(0) = v /\ v < Modulus
      /\ 0 + required[v] = required[v] /\ required[v] <= MaxLength
    <2>1. v \in Nat /\ v < Modulus /\ 0 \in 0 .. MaxLength - 1
        BY Sizes DEF Value
    <2>2. v * Weight(0) = v
        BY <2>1, Weights
    <2> QED
        BY <1>1, <2>1, <2>2
<1>6. required[v] <= Len(Rest(p, i))
    BY <1>1, <1>2, <1>3, <1>4
<1>7. \A k \in 1 .. required[v] : Rest(p, i)[0 + k] = groups[v][k]
    <2>1. \A k \in 1 .. required[v] : k \in 1 .. Len(p) - i /\ 0 + k = k
        BY <1>1, <1>2, <1>3
    <2> QED
        BY <1>2, <1>4, <2>1
<1>8. ReadLoop(Rest(p, i))[0] = [used |-> 0 + required[v], value |-> v * Weight(0)]
    BY <1>4, <1>5, <1>6, <1>7, LoopReadsGroups
<1> QED
    BY <1>5, <1>8 DEF ReadAt, read

\* A port is put together again from its two bytes.
LEMMA TwoBytes ==
    ASSUME NEW q \in Nat
    PROVE  /\ q % (2 * Group) \in Byte
           /\ (q \div (2 * Group)) * 2 * Group + (q % (2 * Group)) = q
<1> DEFINE M == 2 * Group
<1>1. M \in Nat \ {0}
    BY Sizes
<1> HIDE DEF M
<1>2. q % M \in 0 .. M - 1 /\ q \div M \in Int
    BY <1>1
<1>3. q = M * (q \div M) + (q % M)
    BY <1>1
<1>4. PICK d \in Int : d = q \div M
    BY <1>2
<1>5. d * 2 * Group = M * d
    BY <1>4, Sizes DEF M
<1> QED
    BY <1>2, <1>3, <1>4, <1>5 DEF Byte, M

\* And two bytes come apart again.
LEMMA OnePort ==
    ASSUME NEW x \in Byte, NEW y \in Byte
    PROVE  x * 2 * Group + y \in Nat /\ (x * 2 * Group + y) \div (2 * Group) = x
<1> DEFINE M == 2 * Group
<1>1. M \in Nat \ {0} /\ x \in Nat /\ y \in 0 .. M - 1
    BY Sizes DEF Byte
<1>2. x * 2 * Group = M * x
    BY <1>1, Sizes
<1> HIDE DEF M
<1>3. M * x + y \in Nat
    BY <1>1
<1>4. PICK q \in Int, r \in 0 .. M - 1 : q = (M * x + y) \div M /\ M * x + y = M * q + r
    <2>1. /\ (M * x + y) \div M \in Int /\ (M * x + y) % M \in 0 .. M - 1
          /\ M * x + y = M * ((M * x + y) \div M) + ((M * x + y) % M)
        BY <1>1, <1>3
    <2> QED
        BY <2>1
<1>5. q \in Nat
    <2>1. q < 0 => M * q <= -M
        BY <1>1, <1>4
    <2> QED
        BY <1>1, <1>3, <1>4, <2>1
<1>6. ~(x < q)
    <2>1. x < q => M * x + M <= M * q
        BY <1>1, <1>5, NextMultiple
    <2> QED
        BY <1>1, <1>3, <1>4, <1>5, <2>1
<1>7. ~(q < x)
    <2>1. q < x => M * q + M <= M * x
        BY <1>1, <1>5, NextMultiple
    <2> QED
        BY <1>1, <1>3, <1>4, <1>5, <2>1
<1> QED
    BY <1>1, <1>2, <1>3, <1>4, <1>5, <1>6, <1>7 DEF M

\* A size that frame_packet writes is a value.
LEMMA LargestIsValue == LargestHandshake \in Value /\ Int32Max \in Nat /\ Int32Max < Modulus
<1>1. Int32Max = Power(Width - 1) - 1 /\ Modulus = Power(Width)
    BY Zenon DEF Int32Max, Modulus, Power
<1>2. Width - 1 \in Nat /\ Width = (Width - 1) + 1
    BY VarIntAssumption
<1>3. Power((Width - 1) + 1) = Power(Width - 1) * 2
    BY <1>2, PowerSum, PowerOne
<1>4. Power(Width - 1) \in Nat \ {0}
    BY <1>2, PowerPositive
<1>5. Modulus = Power(Width - 1) * 2
    BY <1>1, <1>2, <1>3
<1>6. Int32Max \in Nat /\ Int32Max < Modulus
    BY <1>1, <1>4, <1>5
<1>7. LargestHandshake \in Nat
    <2>1. 0 \in Value /\ max_hostname_bytes \in Value /\ 2 \in Value
        BY ProtocolAssumption, Sizes DEF Value
    <2>2. required[0] \in Nat /\ required[max_hostname_bytes] \in Nat /\ required[2] \in Nat
        BY <2>1, LengthSuffices
    <2>3. max_hostname_bytes \in Nat
        BY <2>1, Sizes DEF Value
    <2> QED
        BY <2>2, <2>3, Sizes DEF LargestHandshake
<1> QED
    BY <1>6, <1>7, ProtocolAssumption, Sizes DEF Value

\* The payload that serialize_handshake puts together.
Payload(protocol, address, port, next_state) ==
    groups[0] \o groups[protocol] \o (groups[Len(address)] \o address)
        \o <<port \div (2 * Group), port % (2 * Group)>> \o groups[next_state]

\* What serialize_handshake can be given: the fields of a Handshake.
Fields(protocol, address, port, next_state) ==
    /\ protocol \in Value /\ address \in Seq(Byte) /\ ValidAddress(address)
    /\ port \in Nat /\ port \div (2 * Group) \in Byte /\ next_state \in {1, 2}

\* The fields of a payload are where parse_handshake looks for them: the ID ends
\* at a, the protocol at b, the length of the address at c, the address at d.
Laid(p, a, b, c, d, protocol, address, port, next_state) ==
    /\ p = Payload(protocol, address, port, next_state) /\ p \in Seq(Byte)
    /\ a \in Nat /\ b \in Nat /\ c \in Nat /\ d \in Nat
    /\ a > 0 /\ b > a /\ c > b /\ d >= c /\ Len(p) > d + 2
    /\ a = required[0] /\ b - a = required[protocol] /\ c - b = required[Len(address)]
    /\ d - c = Len(address) /\ Len(p) - (d + 2) = required[next_state]
    /\ Len(address) \in Value
    /\ At(p, 0, groups[0]) /\ At(p, a, groups[protocol])
    /\ At(p, b, groups[Len(address)]) /\ At(p, c, address)
    /\ At(p, d, <<port \div (2 * Group), port % (2 * Group)>>)
    /\ At(p, d + 2, groups[next_state])

\* Every payload is laid out so.
LEMMA PayloadShape ==
    ASSUME NEW protocol, NEW address, NEW port, NEW next_state,
           Fields(protocol, address, port, next_state)
    PROVE  \E p, a, b, c, d : Laid(p, a, b, c, d, protocol, address, port, next_state)
<1> DEFINE s == groups[0]
           t == groups[protocol]
           f == groups[Len(address)] \o address
           g == <<port \div (2 * Group), port % (2 * Group)>>
           u == groups[next_state]
<1>1. /\ 0 \in Value /\ protocol \in Value /\ Len(address) \in Value /\ next_state \in Value
      /\ address \in Seq(Byte)
    <2>1. max_hostname_bytes \in Nat /\ max_hostname_bytes < Modulus /\ 0 \in Value
        BY ProtocolAssumption, Sizes DEF Value
    <2>2. Len(address) \in Value
        BY <2>1, Sizes DEF Value, Fields, ValidAddress
    <2>3. next_state \in Value
        BY ProtocolAssumption, Sizes DEF Value, Fields
    <2> QED
        BY <2>1, <2>2, <2>3 DEF Fields
<1>2. /\ s \in Seq(Byte) /\ Len(s) = required[0] /\ required[0] \in Nat
      /\ t \in Seq(Byte) /\ Len(t) = required[protocol] /\ required[protocol] \in Nat
      /\ groups[Len(address)] \in Seq(Byte)
      /\ Len(groups[Len(address)]) = required[Len(address)] /\ required[Len(address)] \in Nat
      /\ u \in Seq(Byte) /\ Len(u) = required[next_state] /\ required[next_state] \in Nat
    BY <1>1, GroupsShape
<1>3. PICK a \in Nat \ {0}, m \in Nat \ {0}, n \in Nat \ {0}, l \in Nat, r \in Nat \ {0} :
           /\ a = required[0] /\ m = required[protocol] /\ n = required[Len(address)]
           /\ l = Len(address) /\ r = required[next_state]
    <2>1. /\ required[0] \in Nat \ {0} /\ required[protocol] \in Nat \ {0}
          /\ required[Len(address)] \in Nat \ {0} /\ required[next_state] \in Nat \ {0}
        BY <1>1, GroupsShape
    <2>2. Len(address) \in Nat
        BY <1>1
    <2> QED
        BY <2>1, <2>2
<1>4. PICK b \in Nat, c \in Nat, d \in Nat : b = a + m /\ c = b + n /\ d = c + l
    <2>1. a + m \in Nat /\ (a + m) + n \in Nat /\ ((a + m) + n) + l \in Nat
        OBVIOUS
    <2> QED
        BY <2>1
<1>5. g \in Seq(Byte) /\ Len(g) = 2
    BY TwoBytes DEF Fields
<1>6. f \in Seq(Byte) /\ Len(f) = required[Len(address)] + Len(address)
    BY <1>1, <1>2, AtFront
<1>7. At(f, 0, groups[Len(address)]) /\ At(f, required[Len(address)], address)
    BY <1>1, <1>2, AtFront
<1> HIDE DEF s, t, f, g, u
<1>8. /\ s \o t \in Seq(Byte) /\ Len(s \o t) = b
      /\ At(s \o t, 0, s) /\ At(s \o t, a, t)
    <2>1. Len(s) = a /\ Len(t) = m
        BY <1>2, <1>3
    <2> QED
        BY <1>2, <1>4, <2>1, AtFront
<1>9. /\ s \o t \o f \in Seq(Byte) /\ Len(s \o t \o f) = d
      /\ At(s \o t \o f, 0, s) /\ At(s \o t \o f, a, t)
      /\ At(s \o t \o f, b, groups[Len(address)]) /\ At(s \o t \o f, c, address)
    <2> DEFINE q == s \o t
    <2>1. q \in Seq(Byte) /\ Len(q) = b /\ At(q, 0, s) /\ At(q, a, t)
        BY <1>8
    <2> HIDE DEF q
    <2>2. /\ q \o f \in Seq(Byte) /\ Len(q \o f) = b + Len(f)
          /\ At(q \o f, 0, s) /\ At(q \o f, a, t)
        BY <1>2, <1>6, <1>3, <2>1, AtFront
    <2>3. Len(f) = n + l /\ At(f, 0, groups[Len(address)]) /\ At(f, n, address)
        BY <1>6, <1>7, <1>3
    <2>4. /\ At(q \o f, b + 0, groups[Len(address)]) /\ At(q \o f, b + n, address)
        BY <1>1, <1>2, <1>6, <2>1, <2>3, AtFront
    <2>5. b + 0 = b /\ b + n = c /\ b + Len(f) = d
        BY <1>4, <2>3
    <2> QED
        BY <2>2, <2>4, <2>5 DEF q
<1>10. /\ s \o t \o f \o g \in Seq(Byte) /\ Len(s \o t \o f \o g) = d + 2
      /\ At(s \o t \o f \o g, 0, s) /\ At(s \o t \o f \o g, a, t)
      /\ At(s \o t \o f \o g, b, groups[Len(address)]) /\ At(s \o t \o f \o g, c, address)
      /\ At(s \o t \o f \o g, d, g)
    <2> DEFINE q == s \o t \o f
    <2>1. /\ q \in Seq(Byte) /\ Len(q) = d /\ At(q, 0, s) /\ At(q, a, t)
          /\ At(q, b, groups[Len(address)]) /\ At(q, c, address)
        BY <1>9
    <2>2. 0 \in Nat /\ a \in Nat /\ b \in Nat /\ c \in Nat
        OBVIOUS
    <2> HIDE DEF q
    <2>3. q \o g \in Seq(Byte) /\ Len(q \o g) = d + 2 /\ At(q \o g, d, g)
        BY <1>5, <2>1, AtFront
    <2>4. At(q \o g, 0, s) /\ At(q \o g, a, t)
        BY <1>2, <1>5, <2>1, <2>2, AtFront
    <2>5. At(q \o g, b, groups[Len(address)]) /\ At(q \o g, c, address)
        BY <1>1, <1>2, <1>5, <2>1, <2>2, AtFront
    <2> QED
        BY <2>3, <2>4, <2>5 DEF q
<1>11. /\ s \o t \o f \o g \o u \in Seq(Byte)
      /\ Len(s \o t \o f \o g \o u) = d + 2 + r
      /\ At(s \o t \o f \o g \o u, 0, s) /\ At(s \o t \o f \o g \o u, a, t)
      /\ At(s \o t \o f \o g \o u, b, groups[Len(address)])
      /\ At(s \o t \o f \o g \o u, c, address)
      /\ At(s \o t \o f \o g \o u, d, g) /\ At(s \o t \o f \o g \o u, d + 2, u)
    <2> DEFINE q == s \o t \o f \o g
    <2>1. /\ q \in Seq(Byte) /\ Len(q) = d + 2 /\ At(q, 0, s) /\ At(q, a, t)
          /\ At(q, b, groups[Len(address)]) /\ At(q, c, address) /\ At(q, d, g)
        BY <1>10
    <2>2. 0 \in Nat /\ a \in Nat /\ b \in Nat /\ c \in Nat /\ d \in Nat
        OBVIOUS
    <2> HIDE DEF q
    <2>5. /\ q \o u \in Seq(Byte) /\ Len(q \o u) = d + 2 + r
          /\ At(q \o u, d + 2, u)
        BY <1>2, <1>3, <2>1, AtFront
    <2>6. At(q \o u, 0, s) /\ At(q \o u, a, t) /\ At(q \o u, d, g)
        BY <1>2, <1>5, <2>1, <2>2, AtFront
    <2>7. At(q \o u, b, groups[Len(address)]) /\ At(q \o u, c, address)
        BY <1>1, <1>2, <2>1, <2>2, AtFront
    <2> QED
        BY <2>5, <2>6, <2>7 DEF q
<1>12. PICK p : p = s \o t \o f \o g \o u
    OBVIOUS
<1>13. p = Payload(protocol, address, port, next_state)
    BY <1>12 DEF Payload, s, t, f, g, u
<1>14. /\ a > 0 /\ b - a = m /\ b > a /\ c - b = n /\ c > b /\ d - c = l /\ d >= c
    BY <1>4
<1>15. Len(p) - (d + 2) = r /\ Len(p) > d + 2
    BY <1>11, <1>12
<1>16. /\ p \in Seq(Byte) /\ At(p, 0, groups[0]) /\ At(p, a, groups[protocol])
       /\ At(p, b, groups[Len(address)]) /\ At(p, c, address)
       /\ At(p, d, <<port \div (2 * Group), port % (2 * Group)>>)
       /\ At(p, d + 2, groups[next_state])
    BY <1>11, <1>12 DEF s, t, g, u
<1>17. Laid(p, a, b, c, d, protocol, address, port, next_state)
    BY <1>1, <1>3, <1>13, <1>14, <1>15, <1>16 DEF Laid
<1> QED
    BY <1>17

\* No handshake is larger than LargestHandshake.
LEMMA PayloadFits ==
    ASSUME NEW protocol, NEW address, NEW port, NEW next_state,
           Fields(protocol, address, port, next_state)
    PROVE  /\ Len(Payload(protocol, address, port, next_state)) \in 1 .. LargestHandshake
           /\ Len(Payload(protocol, address, port, next_state)) \in Value
<1>1. PICK p, a, b, c, d : Laid(p, a, b, c, d, protocol, address, port, next_state)
    BY PayloadShape
<1>2. /\ protocol \in Value /\ Len(address) \in Nat /\ Len(address) <= max_hostname_bytes
      /\ next_state \in {1, 2}
    BY DEF Fields, ValidAddress
<1>3. 0 \in Value /\ 2 \in Value /\ max_hostname_bytes \in Value /\ next_state \in Value
    BY <1>2, ProtocolAssumption, Sizes DEF Value
<1>4. max_hostname_bytes \in Nat /\ next_state <= 2
    BY <1>2, <1>3, Sizes DEF Value
<1>5. c - b <= required[max_hostname_bytes]
    <2>1. required[Len(address)] <= required[max_hostname_bytes]
        BY <1>1, <1>2, <1>3, RequiredGrows DEF Laid
    <2> QED
        BY <1>1, <2>1 DEF Laid
<1>6. Len(p) - (d + 2) <= required[2]
    <2>1. required[next_state] <= required[2]
        BY <1>3, <1>4, RequiredGrows
    <2> QED
        BY <1>1, <2>1 DEF Laid
<1>7. b - a <= MaxLength /\ d - c <= max_hostname_bytes
    <2>1. required[protocol] \in 1 .. MaxLength
        BY <1>2, LengthSuffices
    <2> QED
        BY <1>1, <1>2, <2>1 DEF Laid
<1>8. required[max_hostname_bytes] \in Nat /\ required[2] \in Nat /\ MaxLength \in Nat
    BY <1>3, LengthSuffices, Sizes
<1>9. LargestHandshake =
          a + MaxLength + required[max_hostname_bytes] + max_hostname_bytes + 2 + required[2]
    BY <1>1 DEF Laid, LargestHandshake
<1>10. LargestHandshake \in Nat /\ LargestHandshake < Modulus
    BY LargestIsValue, Sizes DEF Value
<1>11. Len(p) \in Nat /\ Len(p) >= 1 /\ Len(p) <= LargestHandshake
    <2>1. PICK m \in Nat, n \in Nat, l \in Nat :
              m = required[max_hostname_bytes] /\ n = max_hostname_bytes /\ l = required[2]
        BY <1>4, <1>8
    <2>2. c - b <= m /\ Len(p) - (d + 2) <= l /\ d - c <= n /\ b - a <= MaxLength
        BY <1>5, <1>6, <1>7, <2>1
    <2>3. LargestHandshake = a + MaxLength + m + n + 2 + l
        BY <1>9, <2>1
    <2>4. /\ Len(p) \in Nat /\ Len(p) > d + 2 /\ MaxLength \in Nat
          /\ a \in Nat /\ b \in Nat /\ c \in Nat /\ d \in Nat
        BY <1>1, <1>8 DEF Laid
    <2> QED
        BY <2>2, <2>3, <2>4
<1> QED
    BY <1>1, <1>10, <1>11, Sizes DEF Laid, Value

\* parse_handshake makes of such a payload the fields it was made from.
LEMMA PayloadIsParsed ==
    ASSUME NEW protocol, NEW address, NEW port, NEW next_state,
           Fields(protocol, address, port, next_state)
    PROVE  parse_handshake(Payload(protocol, address, port, next_state)) =
               [protocol |-> protocol, address |-> address, port |-> port,
                next_state |-> next_state]
<1>1. PICK p, a, b, c, d : Laid(p, a, b, c, d, protocol, address, port, next_state)
    BY PayloadShape
<1>2. PICK g : g = <<port \div (2 * Group), port % (2 * Group)>>
    OBVIOUS
<1>3. /\ protocol \in Value /\ address \in Seq(Byte) /\ Len(address) \in Nat
      /\ ValidAddress(address) /\ next_state \in {1, 2} /\ port \in Nat
    BY DEF Fields
<1>4. 0 \in Value /\ next_state \in Value
    BY <1>3, ProtocolAssumption, Sizes DEF Value
<1>5. Len(p) \in Nat /\ d + 2 \in Nat
    BY <1>1 DEF Laid
<1>6. /\ a \in 1 .. Len(p) /\ b \in a + 1 .. Len(p) /\ c \in b + 1 .. Len(p)
      /\ d \in c .. Len(p) - 3
    <2>1. /\ a \in Nat /\ b \in Nat /\ c \in Nat /\ d \in Nat
          /\ a > 0 /\ b > a /\ c > b /\ d >= c /\ Len(p) > d + 2
        BY <1>1 DEF Laid
    <2> QED
        BY <1>5, <2>1
<1>7. Len(p) \in 1 .. max_packet_bytes
    <2>1. Len(p) \in 1 .. LargestHandshake
        BY <1>1, PayloadFits DEF Laid
    <2>2. LargestHandshake \in Nat
        BY LargestIsValue, Sizes DEF Value
    <2> QED
        BY <2>1, <2>2, ProtocolAssumption
<1>8. /\ ReadAt(p, 0) = [used |-> a, value |-> 0]
      /\ ReadAt(p, a) = [used |-> b - a, value |-> protocol]
      /\ ReadAt(p, b) = [used |-> c - b, value |-> d - c]
      /\ ReadAt(p, d + 2) = [used |-> Len(p) - (d + 2), value |-> next_state]
    <2>1. ReadAt(p, 0) = [used |-> required[0], value |-> 0]
        BY <1>1, <1>4, ReadHere DEF Laid
    <2>2. ReadAt(p, a) = [used |-> required[protocol], value |-> protocol]
        BY <1>1, <1>3, ReadHere DEF Laid
    <2>3. ReadAt(p, b) = [used |-> required[Len(address)], value |-> Len(address)]
        BY <1>1, ReadHere DEF Laid
    <2>4. ReadAt(p, d + 2) = [used |-> required[next_state], value |-> next_state]
        BY <1>1, <1>4, <1>5, ReadHere DEF Laid
    <2> QED
        BY <1>1, <2>1, <2>2, <2>3, <2>4 DEF Laid
<1>9. SubSeq(p, c + 1, d) = address
    <2>1. SubSeq(p, c + 1, c + Len(address)) = address
        BY <1>1, <1>3, CutOut DEF Laid
    <2>2. c + Len(address) = d
        BY <1>1, <1>3 DEF Laid
    <2> QED
        BY <2>1, <2>2
<1>10. Handshake(p, a, b, c, d)
    <2>1. /\ ReadAt(p, 0).used = a /\ ReadAt(p, 0).value = 0 /\ ReadAt(p, a).used = b - a
          /\ ReadAt(p, b).used = c - b /\ ReadAt(p, b).value = d - c
          /\ ReadAt(p, d + 2).used = Len(p) - (d + 2)
          /\ ReadAt(p, d + 2).value = next_state
        BY <1>8
    <2> QED
        BY <1>3, <1>6, <1>7, <1>9, <2>1 DEF Handshake
<1>11. p[d + 1] * 2 * Group + p[d + 2] = port
    <2>1. Len(g) = 2 /\ g[1] = port \div (2 * Group) /\ g[2] = port % (2 * Group)
        BY <1>2
    <2>2. p[d + 1] = g[1] /\ p[d + 2] = g[2]
        BY <1>1, <1>2, <2>1 DEF Laid, At
    <2> QED
        BY <1>3, <2>1, <2>2, TwoBytes
<1>12. ReadAt(p, a).value = protocol /\ ReadAt(p, d + 2).value = next_state
    BY <1>8
<1>13. parse_handshake(p) =
           [protocol |-> ReadAt(p, a).value, address |-> SubSeq(p, c + 1, d),
            port |-> p[d + 1] * 2 * Group + p[d + 2],
            next_state |-> ReadAt(p, d + 2).value]
    <2>1. p \in Seq(Byte)
        BY <1>1 DEF Laid
    <2> QED
        BY <1>10, <2>1, HandshakeIsParsed, Zenon
<1> QED
    BY <1>1, <1>9, <1>11, <1>12, <1>13, Zenon DEF Laid

\* A field that fits the rest of the vector is written whole.
LEMMA FieldIsWritten ==
    ASSUME NEW s \in Seq(Byte), NEW v \in Value, Len(s) + required[v] <= max_packet_bytes
    PROVE  /\ write(max_packet_bytes - Len(s), v) = groups[v]
           /\ write_field(s, v) = s \o groups[v]
<1>1. required[v] \in Nat /\ max_packet_bytes \in Nat /\ Len(s) \in Nat
    BY GroupsShape, ProtocolAssumption
<1>2. PICK m \in Nat : m = max_packet_bytes - Len(s) /\ ~(m < required[v])
    <2>1. PICK l \in Nat, r \in Nat : l = Len(s) /\ r = required[v]
        BY <1>1
    <2>2. l + r <= max_packet_bytes
        BY <2>1
    <2>3. max_packet_bytes - l \in Nat /\ ~(max_packet_bytes - l < r)
        BY <1>1, <2>2
    <2> QED
        BY <2>1, <2>3
<1>3. write(m, v) = groups[v]
    BY <1>2, WriteWhole
<1> QED
    BY <1>2, <1>3 DEF write_field

\* Two pieces of a payload put together.
LEMMA Joined ==
    \A s, t \in Seq(Byte) : s \o t \in Seq(Byte) /\ Len(s \o t) = Len(s) + Len(t)
OBVIOUS

\* The frame of a handshake: its size, and the payload above behind it.
LEMMA SerializedIs ==
    ASSUME NEW protocol, NEW address, NEW port, NEW next_state,
           Fields(protocol, address, port, next_state),
           NEW h, h.protocol = protocol, h.address = address, h.port = port,
           h.next_state = next_state
    PROVE  serialize_handshake(h) =
               write(MaxLength, Len(Payload(protocol, address, port, next_state)))
                   \o Payload(protocol, address, port, next_state)
<1> DEFINE p == Payload(protocol, address, port, next_state)
<1>1. PICK q, a, b, c, d : Laid(q, a, b, c, d, protocol, address, port, next_state)
    BY PayloadShape
<1>2. /\ protocol \in Value /\ Len(address) \in Value /\ address \in Seq(Byte)
      /\ ValidAddress(address) /\ ValidState(next_state)
    BY <1>1 DEF Fields, ValidState, Laid
<1>3. 0 \in Value /\ next_state \in Value
    BY <1>2, ProtocolAssumption, Sizes DEF Value, ValidState
<1>4. /\ groups[0] \in Seq(Byte) /\ groups[protocol] \in Seq(Byte)
      /\ groups[Len(address)] \in Seq(Byte)
      /\ Len(groups[0]) = required[0] /\ Len(groups[protocol]) = required[protocol]
      /\ Len(groups[Len(address)]) = required[Len(address)]
    BY <1>2, <1>3, GroupsShape
<1>5. /\ required[0] = a /\ required[protocol] = b - a /\ required[Len(address)] = c - b
      /\ Len(address) = d - c /\ required[next_state] = Len(q) - (d + 2)
    BY <1>1 DEF Laid
<1>6. /\ a \in Nat /\ b \in Nat /\ c \in Nat /\ d \in Nat /\ Len(q) \in Nat
      /\ a > 0 /\ b > a /\ c > b /\ d >= c /\ Len(q) > d + 2 /\ Len(q) <= max_packet_bytes
    <2>1. Len(q) \in 1 .. LargestHandshake
        BY <1>1, PayloadFits DEF Laid
    <2>2. LargestHandshake \in Nat
        BY LargestIsValue, Sizes DEF Value
    <2>3. /\ a \in Nat /\ b \in Nat /\ c \in Nat /\ d \in Nat
          /\ a > 0 /\ b > a /\ c > b /\ d >= c /\ Len(q) > d + 2
        BY <1>1 DEF Laid
    <2> QED
        BY <2>1, <2>2, <2>3, ProtocolAssumption
<1>7. PICK s \in Seq(Byte) : s = groups[0] /\ Len(s) = a
    BY <1>4, <1>5
<1>8. write_field(<< >>, 0) = s
    <2>1. << >> \in Seq(Byte) /\ Len(<< >>) + required[0] <= max_packet_bytes
        BY <1>5, <1>6, ProtocolAssumption
    <2>2. write_field(<< >>, 0) = << >> \o groups[0]
        BY <1>3, <2>1, FieldIsWritten
    <2> QED
        BY <1>7, <2>2
<1>9. PICK t \in Seq(Byte) : t = s \o groups[protocol] /\ Len(t) = b
    <2>1. PICK x \in Seq(Byte) : x = groups[protocol] /\ Len(x) = b - a
        BY <1>4, <1>5
    <2>2. Len(s) + Len(x) = b
        BY <1>6, <1>7, <2>1
    <2> QED
        BY <1>7, <2>1, <2>2, Joined
<1>10. write_field(s, protocol) = t
    <2>1. Len(s) + required[protocol] <= max_packet_bytes
        BY <1>5, <1>6, <1>7, ProtocolAssumption
    <2> QED
        BY <1>2, <1>9, <2>1, FieldIsWritten
<1>11. PICK f \in Seq(Byte) : f = groups[Len(address)] \o address /\ Len(f) = d - b
    <2>1. PICK x \in Seq(Byte) : x = groups[Len(address)] /\ Len(x) = c - b
        BY <1>4, <1>5
    <2>2. Len(x) + Len(address) = d - b
        BY <1>5, <1>6, <2>1
    <2> QED
        <3>1. x \o address \in Seq(Byte) /\ Len(x \o address) = d - b
            BY <1>2, <2>1, <2>2, Joined
        <3> QED
            BY <2>1, <3>1, Zenon
<1>12. PICK u \in Seq(Byte) : u = t \o f /\ Len(u) = d
    <2>1. Len(t) + Len(f) = d
        BY <1>6, <1>9, <1>11
    <2> QED
        <3>1. t \o f \in Seq(Byte) /\ Len(t \o f) = d
            BY <1>9, <1>11, <2>1, Joined
        <3> QED
            BY <3>1, Zenon
<1>13. AddressField(t, address) = u
    <2>1. Len(t) + required[Len(address)] <= max_packet_bytes
        BY <1>5, <1>6, <1>9, ProtocolAssumption
    <2>2. write(max_packet_bytes - Len(t), Len(address)) = groups[Len(address)]
        BY <1>2, <2>1, FieldIsWritten
    <2> QED
        BY <1>11, <1>12, <2>2, Zenon DEF AddressField
<1>14. PICK g \in Seq(Byte) : g = <<port \div (2 * Group), port % (2 * Group)>> /\ Len(g) = 2
    <2>1. port \div (2 * Group) \in Byte /\ port % (2 * Group) \in Byte
        BY TwoBytes DEF Fields
    <2>2. \A x, y \in Byte : <<x, y>> \in Seq(Byte) /\ Len(<<x, y>>) = 2
        OBVIOUS
    <2> QED
        BY <2>1, <2>2, Zenon
<1>15. PICK w \in Seq(Byte) : w = u \o g /\ Len(w) = d + 2
    <2>1. Len(u) + Len(g) = d + 2
        BY <1>12, <1>14
    <2>2. u \o g \in Seq(Byte) /\ Len(u \o g) = Len(u) + Len(g)
        BY <1>12, <1>14, Joined, Zenon
    <2> QED
        BY <2>1, <2>2, Zenon
<1>16. write_field(w, next_state) = p
    <2>1. Len(w) + required[next_state] <= max_packet_bytes
        BY <1>5, <1>6, <1>15, ProtocolAssumption
    <2>2. write_field(w, next_state) = w \o groups[next_state]
        BY <1>3, <2>1, FieldIsWritten
    <2> QED
        BY <1>7, <1>9, <1>11, <1>12, <1>14, <1>15, <2>2, Zenon DEF Payload
<1>17. serialize_handshake(h) = frame_packet(p)
    BY <1>2, <1>8, <1>10, <1>13, <1>14, <1>15, <1>16, Zenon DEF serialize_handshake
<1>18. ~(Len(p) > Int32Max)
    <2>1. Len(p) \in 1 .. LargestHandshake
        BY PayloadFits
    <2>2. LargestHandshake \in Nat
        BY LargestIsValue, Sizes DEF Value
    <2> HIDE DEF p
    <2> QED
        BY <2>1, <2>2, LargestIsValue, ProtocolAssumption
<1> QED
    BY <1>17, <1>18 DEF frame_packet

\* Upstream finds this handshake in its frame, and the frame is no larger than
\* the largest.
Arrives(h, frame, payload) ==
    /\ frame \in Seq(Byte) /\ frame # << >> /\ Len(frame) <= LargestFrame
    /\ read(frame).value = Len(payload) /\ parse_handshake(payload) = h

\* So it is with every handshake that can be serialised.
LEMMA SerializedIsParsed ==
    ASSUME NEW protocol, NEW address, NEW port, NEW next_state,
           Fields(protocol, address, port, next_state)
    PROVE  \A h, frame, payload :
               /\ h = [protocol |-> protocol, address |-> address, port |-> port,
                       next_state |-> next_state]
               /\ frame = serialize_handshake(h)
               /\ payload = SubSeq(frame, read(frame).used + 1, Len(frame))
               => Arrives(h, frame, payload)
<1> SUFFICES ASSUME NEW h, h = [protocol |-> protocol, address |-> address, port |-> port,
                                next_state |-> next_state],
                    NEW frame, frame = serialize_handshake(h),
                    NEW payload,
                    payload = SubSeq(frame, read(frame).used + 1, Len(frame))
             PROVE  Arrives(h, frame, payload)
    BY Zenon
<1>1. PICK p : p = Payload(protocol, address, port, next_state)
    OBVIOUS
<1>2. /\ p \in Seq(Byte) /\ Len(p) \in Value /\ Len(p) \in 1 .. LargestHandshake
    <2>1. PICK q, a, b, c, d : Laid(q, a, b, c, d, protocol, address, port, next_state)
        BY PayloadShape
    <2>2. p \in Seq(Byte)
        BY <1>1, <2>1 DEF Laid
    <2> QED
        BY <1>1, <2>2, PayloadFits
<1>3. PICK w : w = write(MaxLength, Len(p))
    OBVIOUS
<1>4. frame = w \o p
    <2>1. /\ h.protocol = protocol /\ h.address = address /\ h.port = port
          /\ h.next_state = next_state
        OBVIOUS
    <2> QED
        BY <1>1, <1>3, <2>1, SerializedIs
<1>5. /\ w \in Seq(Byte) /\ Len(w) = required[Len(p)]
      /\ read(frame) = [used |-> required[Len(p)], value |-> Len(p)]
    BY <1>2, <1>3, <1>4, WrittenIsRead
<1>6. frame \in Seq(Byte) /\ Len(frame) = Len(w) + Len(p) /\ At(frame, Len(w), p)
    BY <1>2, <1>4, <1>5, AtFront
<1>7. SubSeq(frame, Len(w) + 1, Len(w) + Len(p)) = p
    <2>1. Len(w) \in Nat
        BY <1>5
    <2> QED
        BY <1>2, <1>6, <2>1, CutOut
<1>8. payload = p
    <2>1. read(frame).used = Len(w)
        BY <1>5
    <2> QED
        BY <1>6, <1>7, <2>1, Zenon
<1>9. parse_handshake(p) = h
    BY <1>1, PayloadIsParsed
<1>10. Len(frame) <= LargestFrame /\ frame # << >>
    <2>1. LargestHandshake \in Value /\ LargestHandshake \in Nat
        BY LargestIsValue, Sizes DEF Value
    <2>2. required[Len(p)] <= required[LargestHandshake]
        BY <1>2, <2>1, RequiredGrows
    <2>3. required[Len(p)] \in Nat /\ required[LargestHandshake] \in Nat
        BY <1>2, <2>1, GroupsShape
    <2> QED
        BY <1>2, <1>5, <1>6, <2>1, <2>2, <2>3 DEF LargestFrame
<1>11. read(frame).value = Len(p)
    BY <1>5
<1> QED
    BY <1>6, <1>8, <1>9, <1>10, <1>11, Zenon DEF Arrives

\* What parse_handshake returns can be serialised.
LEMMA ParsedFields ==
    ASSUME NEW p \in Seq(Byte), parse_handshake(p) # Malformed
    PROVE  \E protocol, address, port, next_state :
               /\ Fields(protocol, address, port, next_state)
               /\ parse_handshake(p) = [protocol |-> protocol, address |-> address,
                                        port |-> port, next_state |-> next_state]
<1>1. PICK a, b, c, d : Handshake(p, a, b, c, d)
    BY ParsedIsHandshake
<1>2. PICK protocol, address, port, next_state :
          /\ protocol = ReadAt(p, a).value /\ address = SubSeq(p, c + 1, d)
          /\ port = p[d + 1] * 2 * Group + p[d + 2] /\ next_state = ReadAt(p, d + 2).value
    OBVIOUS
<1>3. parse_handshake(p) = [protocol |-> protocol, address |-> address,
                            port |-> port, next_state |-> next_state]
    BY <1>1, <1>2, HandshakeIsParsed
<1>4. Len(p) \in Nat /\ a \in 0 .. Len(p) /\ c \in Nat /\ d \in Nat /\ d + 2 < Len(p)
    BY <1>1 DEF Handshake
<1>5. protocol \in Value
    BY <1>2, <1>4, RestIs
<1>6. address \in Seq(Byte)
    <2>1. \A k \in c + 1 .. d : k \in 1 .. Len(p)
        BY <1>4
    <2> QED
        BY <1>2, <1>4, <2>1
<1>7. ValidAddress(address) /\ next_state \in {1, 2}
    BY <1>1, <1>2 DEF Handshake
<1>8. port \in Nat /\ port \div (2 * Group) \in Byte
    <2>1. p[d + 1] \in Byte /\ p[d + 2] \in Byte
        BY <1>4
    <2> QED
        BY <1>2, <2>1, OnePort
<1>9. Fields(protocol, address, port, next_state)
    BY <1>5, <1>6, <1>7, <1>8 DEF Fields
<1> QED
    BY <1>3, <1>9
=============================================================================
