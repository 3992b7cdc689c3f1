-------------------------- MODULE PacketReaderProofs --------------------------
(***************************************************************************)
(* The reader takes every byte from the wire in its order, and the         *)
(* exchange comes out as the bytes say.                                    *)
(***************************************************************************)
EXTENDS PacketReader, ProtocolProofs

-----------------------------------------------------------------------------
(* Frames on the wire.                                                     *)

\* The bytes i+1..j of a sequence.
LEMMA CutIs ==
    ASSUME NEW p \in Seq(Byte), NEW i \in 0 .. Len(p), NEW j \in i .. Len(p)
    PROVE  /\ SubSeq(p, i + 1, j) \in Seq(Byte) /\ Len(SubSeq(p, i + 1, j)) = j - i
           /\ \A k \in 1 .. j - i : SubSeq(p, i + 1, j)[k] = p[i + k]
OBVIOUS

\* One byte more of them.
LEMMA CutAppend ==
    ASSUME NEW p \in Seq(Byte), NEW i \in 0 .. Len(p) - 1, NEW j \in i .. Len(p) - 1
    PROVE  Append(SubSeq(p, i + 1, j), p[j + 1]) = SubSeq(p, i + 1, j + 1)
<1>1. PICK a : a = SubSeq(p, i + 1, j)
    OBVIOUS
<1>2. PICK c : c = SubSeq(p, i + 1, j + 1)
    OBVIOUS
<1>3. PICK n \in Nat : n = j - i
    OBVIOUS
<1>4. i \in 0 .. Len(p) /\ j \in i .. Len(p) /\ j + 1 \in i .. Len(p) /\ (j + 1) - i = n + 1
    BY <1>3
<1>5. a \in Seq(Byte) /\ Len(a) = n /\ \A k \in 1 .. n : a[k] = p[i + k]
    BY <1>1, <1>3, <1>4, CutIs
<1>6. c \in Seq(Byte) /\ Len(c) = n + 1 /\ \A k \in 1 .. n + 1 : c[k] = p[i + k]
    BY <1>2, <1>4, CutIs
<1>7. p[j + 1] \in Byte /\ i + (n + 1) = j + 1
    BY <1>3
<1>8. PICK e : e = Append(a, p[j + 1])
    OBVIOUS
<1>9. e \in Seq(Byte) /\ Len(e) = n + 1 /\ e[n + 1] = p[j + 1] /\ \A k \in 1 .. n : e[k] = a[k]
    BY <1>5, <1>7, <1>8
<1>10. \A k \in 1 .. Len(e) : e[k] = c[k]
    <2> SUFFICES ASSUME NEW k \in 1 .. n + 1 PROVE e[k] = c[k]
        BY <1>9
    <2>1. CASE k = n + 1
        BY <1>6, <1>7, <1>9, <2>1
    <2>2. CASE k \in 1 .. n
        BY <1>5, <1>6, <1>9, <2>2
    <2> QED
        BY <2>1, <2>2
<1> QED
    BY <1>1, <1>2, <1>6, <1>8, <1>9, <1>10, SeqEqual

\* A VarInt that ends within some bytes is read from them as from all that
\* follow.
LEMMA CutReads ==
    ASSUME NEW p \in Seq(Byte), NEW i \in 0 .. Len(p), NEW j \in i .. Len(p),
           NEW n \in 1 .. MaxLength, i + n <= j, p[i + n] < Group
    PROVE  read(SubSeq(p, i + 1, j)) = ReadAt(p, i)
<1>1. PICK a, b : a = SubSeq(p, i + 1, j) /\ b = Rest(p, i)
    OBVIOUS
<1>2. a \in Seq(Byte) /\ Len(a) = j - i /\ \A k \in 1 .. j - i : a[k] = p[i + k]
    BY <1>1, CutIs
<1>3. b \in Seq(Byte) /\ Len(b) = Len(p) - i /\ \A k \in 1 .. Len(p) - i : b[k] = p[i + k]
    BY <1>1, RestIs
<1>4. n \in Nat /\ n >= 1 /\ n <= j - i /\ n <= Len(p) - i
    BY Sizes
<1>5. \A k \in 1 .. n : b[k] = a[k]
    <2>1. \A k \in 1 .. n : k \in 1 .. j - i /\ k \in 1 .. Len(p) - i
        BY <1>4
    <2> QED
        BY <1>2, <1>3, <2>1
<1>6. n <= Len(a) /\ n <= Len(b) /\ 0 \in 0 .. n - 1 /\ a[n] < Group
    BY <1>2, <1>3, <1>4
<1>7. ReadLoop(b)[0] = ReadLoop(a)[0]
    BY <1>2, <1>3, <1>5, <1>6, LoopAgrees
<1> QED
    BY <1>1, <1>7 DEF read, ReadAt

\* Where the VarInt at a position ends.
LEMMA ReadStops ==
    ASSUME NEW p \in Seq(Byte), NEW i \in 0 .. Len(p), ReadAt(p, i).used > 0
    PROVE  /\ ReadAt(p, i).used \in 1 .. MaxLength /\ i + ReadAt(p, i).used <= Len(p)
           /\ p[i + ReadAt(p, i).used] < Group
           /\ \A k \in i + 1 .. i + ReadAt(p, i).used - 1 : p[k] >= Group
           /\ ReadAt(p, i).value \in Nat
<1>1. PICK b : b = Rest(p, i)
    OBVIOUS
<1>2. b \in Seq(Byte) /\ Len(b) = Len(p) - i /\ \A k \in 1 .. Len(p) - i : b[k] = p[i + k]
    BY <1>1, RestIs
<1>3. read(b) = ReadAt(p, i) /\ read(b) # Refused
    BY <1>1 DEF ReadAt, Refused
<1>4. Decoded(b, 0, read(b))
    BY <1>2, <1>3, ReadType
<1>5. PICK u : u = read(b).used
    OBVIOUS
<1>6. /\ u \in 1 .. MaxLength /\ u <= Len(b) /\ b[u] < Group
      /\ \A k \in 1 .. u - 1 : b[k] >= Group
    BY <1>4, <1>5 DEF Decoded
<1>7. u \in Nat /\ u >= 1 /\ u <= Len(p) - i
    BY <1>2, <1>6, Sizes
<1>8. p[i + u] < Group
    BY <1>2, <1>6, <1>7
<1>9. ASSUME NEW k \in i + 1 .. i + u - 1
      PROVE  p[k] >= Group
    <2>1. PICK m \in 1 .. u - 1 : k = i + m /\ m \in 1 .. Len(p) - i
        <3>1. k - i \in 1 .. u - 1 /\ k = i + (k - i) /\ k - i \in 1 .. Len(p) - i
            BY <1>7
        <3> QED
            BY <3>1
    <2> QED
        BY <1>2, <1>6, <2>1
<1>10. ReadAt(p, i).value \in Nat
    BY RestIs, Sizes DEF Value
<1> QED
    BY <1>3, <1>5, <1>6, <1>7, <1>8, <1>9, <1>10

\* A VarInt read from some bytes is the one at their position, and the other
\* way round if it ends within them.
LEMMA CutSame ==
    ASSUME NEW p \in Seq(Byte), NEW i \in 0 .. Len(p), NEW j \in i .. Len(p)
    PROVE  /\ read(SubSeq(p, i + 1, j)) # Refused => read(SubSeq(p, i + 1, j)) = ReadAt(p, i)
           /\ ReadAt(p, i).used > 0 /\ i + ReadAt(p, i).used <= j
                  => read(SubSeq(p, i + 1, j)) = ReadAt(p, i)
<1>1. ASSUME read(SubSeq(p, i + 1, j)) # Refused
      PROVE  read(SubSeq(p, i + 1, j)) = ReadAt(p, i)
    <2>1. PICK a : a = SubSeq(p, i + 1, j)
        OBVIOUS
    <2>2. a \in Seq(Byte) /\ Len(a) = j - i /\ \A k \in 1 .. j - i : a[k] = p[i + k]
        BY <2>1, CutIs
    <2>3. Decoded(a, 0, read(a))
        BY <1>1, <2>1, <2>2, ReadType
    <2>4. PICK n \in 1 .. MaxLength : n <= Len(a) /\ a[n] < Group
        BY <2>3 DEF Decoded
    <2>5. n \in 1 .. j - i /\ i + n <= j
        BY <2>2, <2>4, Sizes
    <2>6. p[i + n] < Group
        BY <2>2, <2>4, <2>5
    <2> QED
        BY <2>5, <2>6, CutReads
<1>2. ASSUME ReadAt(p, i).used > 0, i + ReadAt(p, i).used <= j
      PROVE  read(SubSeq(p, i + 1, j)) = ReadAt(p, i)
    BY <1>2, ReadStops, CutReads
<1> QED
    BY <1>1, <1>2

\* The end of a frame and its payload follow from where it begins.
LEMMA FrameIs ==
    ASSUME wire \in Seq(Byte), NEW i \in 0 .. Len(wire), NEW j \in i .. Len(wire),
           PacketIn(i, j) # << >>
    PROVE  /\ ReadAt(wire, i).used > 0 /\ ReadAt(wire, i).value > 0
           /\ j = i + ReadAt(wire, i).used + ReadAt(wire, i).value
           /\ PacketIn(i, j) = SubSeq(wire, i + ReadAt(wire, i).used + 1, j)
           /\ Len(PacketIn(i, j)) = ReadAt(wire, i).value
<1>1. PICK a : a = SubSeq(wire, i + 1, j)
    OBVIOUS
<1>2. a \in Seq(Byte) /\ Len(a) = j - i /\ \A k \in 1 .. j - i : a[k] = wire[i + k]
    BY <1>1, CutIs
<1>3. /\ read(a) # Refused /\ Len(a) = read(a).used + read(a).value
      /\ PacketIn(i, j) = SubSeq(a, read(a).used + 1, Len(a))
    BY <1>1, Zenon DEF PacketIn
<1>4. read(a) = ReadAt(wire, i)
    BY <1>1, <1>3, CutSame
<1>5. read(a).used \in Nat \ {0} /\ read(a).used <= Len(a)
    BY <1>2, <1>3, ReadType
<1>6. PICK u \in Nat \ {0} : u = read(a).used /\ u <= j - i
    BY <1>2, <1>5
<1>7. PICK v \in Nat : v = read(a).value
    BY <1>2, ReadType, Sizes DEF Value
<1>8. j - i = u + v /\ j = i + u + v /\ i \in Nat /\ j \in Nat /\ Len(wire) \in Nat
    <2>1. Len(a) = u + v
        BY <1>3, <1>6, <1>7
    <2> QED
        BY <1>2, <2>1
<1>9. PICK q : q = SubSeq(a, u + 1, j - i)
    OBVIOUS
<1>10. q \in Seq(Byte) /\ Len(q) = v /\ \A k \in 1 .. v : q[k] = a[u + k]
    <2>1. PICK n \in Nat : n = j - i /\ n = Len(a) /\ n = u + v
        BY <1>2, <1>6, <1>7, <1>8
    <2>2. u \in 0 .. n /\ n \in u .. n /\ n - u = v
        BY <2>1
    <2> QED
        BY <1>2, <1>9, <2>1, <2>2, CutIs
<1>11. PICK r : r = SubSeq(wire, i + u + 1, j)
    OBVIOUS
<1>12. r \in Seq(Byte) /\ Len(r) = v /\ \A k \in 1 .. v : r[k] = wire[(i + u) + k]
    <2>1. i + u \in 0 .. Len(wire) /\ j \in i + u .. Len(wire) /\ j - (i + u) = v
        BY <1>8
    <2> QED
        BY <1>11, <2>1, CutIs
<1>13. \A k \in 1 .. Len(q) : q[k] = r[k]
    <2> SUFFICES ASSUME NEW k \in 1 .. v PROVE q[k] = r[k]
        BY <1>10
    <2>1. u + k \in 1 .. j - i /\ i + (u + k) = (i + u) + k
        BY <1>8
    <2> QED
        BY <1>2, <1>10, <1>12, <2>1
<1>14. q = r
    BY <1>10, <1>12, <1>13, SeqEqual
<1>15. PacketIn(i, j) = q
    BY <1>2, <1>3, <1>6, <1>9
<1>16. v > 0
    BY <1>10, <1>15
<1>17. ReadAt(wire, i).used = u /\ ReadAt(wire, i).value = v
    BY <1>4, <1>6, <1>7
<1>18. PacketIn(i, j) = SubSeq(wire, i + u + 1, j) /\ Len(PacketIn(i, j)) = v
    BY <1>10, <1>11, <1>14, <1>15
<1> QED
    BY <1>8, <1>16, <1>17, <1>18

\* A length and as many bytes behind it are a frame.
LEMMA FrameHere ==
    ASSUME wire \in Seq(Byte), NEW i \in 0 .. Len(wire),
           ReadAt(wire, i).used > 0, ReadAt(wire, i).value > 0,
           NEW j \in i .. Len(wire), j = i + ReadAt(wire, i).used + ReadAt(wire, i).value
    PROVE  /\ PacketIn(i, j) # << >>
           /\ PacketIn(i, j) = SubSeq(wire, i + ReadAt(wire, i).used + 1, j)
<1>1. PICK u \in Nat \ {0} : u = ReadAt(wire, i).used
    BY ReadStops, Sizes
<1>2. PICK v \in Nat \ {0} : v = ReadAt(wire, i).value
    BY ReadStops
<1>3. j = i + u + v /\ i + u <= j /\ j - i = u + v
    BY <1>1, <1>2
<1>4. PICK a : a = SubSeq(wire, i + 1, j)
    OBVIOUS
<1>5. read(a) = ReadAt(wire, i)
    BY <1>1, <1>3, <1>4, CutSame
<1>6. a \in Seq(Byte) /\ Len(a) = u + v
    BY <1>3, <1>4, CutIs
<1>7. read(a) # Refused
    BY <1>5 DEF Refused
<1>8. PacketIn(i, j) = SubSeq(a, u + 1, Len(a))
    BY <1>1, <1>2, <1>4, <1>5, <1>6, <1>7, Zenon DEF PacketIn
<1>9. Len(SubSeq(a, u + 1, Len(a))) = v
    <2>1. u \in 0 .. Len(a) /\ Len(a) \in u .. Len(a) /\ Len(a) - u = v
        BY <1>6
    <2> QED
        BY <1>6, <2>1, CutIs
<1>10. PacketIn(i, j) # << >>
    BY <1>8, <1>9
<1> QED
    BY <1>10, FrameIs

\* What is read anywhere on the wire are numbers.
LEMMA ReadAtType ==
    ASSUME NEW p \in Seq(Byte), NEW i \in 0 .. Len(p)
    PROVE  ReadAt(p, i).used \in Nat /\ ReadAt(p, i).value \in Nat
<1>1. PICK q \in Seq(Byte) : q = Rest(p, i)
    BY RestIs
<1>2. read(q).used \in Nat /\ read(q).value \in Value
    BY ReadType
<1>3. read(q).value \in Nat
    BY <1>2, Sizes DEF Value
<1> QED
    BY <1>1, <1>2, <1>3 DEF ReadAt

-----------------------------------------------------------------------------
(* The inductive invariant.                                                *)

Reading == at \in {"handshake", "request", "ping"}

\* The bytes of the wire that the loops have taken from the buffer.
Done == IF Resumed THEN taken - 1 ELSE taken

\* The buffer holds one byte that was not taken, or none.
Positions ==
    /\ io = "pending" /\ Reading => read_pos = write_pos /\ write_pos < buf_size
    /\ Resumed => write_pos = read_pos + 1 /\ taken >= 1 /\ byte = wire[taken]
    /\ at \in {"spawned", "response", "pong"} => read_pos = write_pos

\* An operation is awaited, or its outcome is, while the exchange goes on.
Awaits ==
    /\ at \in {"spawned", "returned"} <=> io = "idle"
    /\ at = "returned" <=> result # "none"
    /\ at = "spawned" => taken = 0 /\ write_pos = 0

\* A part of the frame that begins after byte b: its bytes up to byte n are those
\* of an unfinished length, or a length and an unfinished packet.
Parts(b, n, enc, len, pkt) ==
    \/ /\ len = 0 /\ pkt = << >> /\ enc = SubSeq(wire, b + 1, n)
       /\ \A k \in b + 1 .. n : wire[k] >= Group
    \/ /\ len > 0 /\ enc = << >> /\ LengthOK(len)
       /\ ReadAt(wire, b).used > 0 /\ ReadAt(wire, b).value = len
       /\ b + ReadAt(wire, b).used <= n
       /\ pkt = SubSeq(wire, b + ReadAt(wire, b).used + 1, n)
       /\ Len(pkt) < len

\* What ReadVarInt and FillPacket have is such a part.
Assembled(b) == Parts(b, Done, encoded, packet_length, packet)

\* The frames up to byte b are the ones that this stage follows.
Follows(stage, b) ==
    \/ stage = "handshake" /\ b = 0
    \/ stage = "request" /\ HandshakeAt(b, 1)
    \/ stage = "ping" /\ \E i \in 0 .. b : HandshakeAt(i, 1) /\ PacketIn(i, b) = <<0>>

\* The exchange is where the bytes taken so far lead.
Stages ==
    /\ Reading => \E b \in 0 .. Done : Follows(at, b) /\ Assembled(b)
    /\ at \in {"spawned", "response"} =>
           encoded = << >> /\ packet_length = 0 /\ packet = << >>
    /\ at = "response" => Follows("ping", taken)
    /\ at = "pong" => StatusExchange(taken)

\* One reply is the status, two are the status and the pong.
Replies ==
    /\ at \in {"spawned", "handshake", "request"} => Len(replies) = 0
    /\ at \in {"response", "ping"} => Len(replies) = 1
    /\ Len(replies) >= 1 =>
           replies[1] = write(MaxLength, Len(StatusPayload)) \o StatusPayload
    /\ Len(replies) = 2 =>
           Carries(replies[2], SubSeq(wire, taken - PingBytes + 1, taken))

\* Only a text that is not UTF-8 fails a status request.
DumpFails == result = "undumped" => FALSE \in Utf8

IInv ==
    /\ TypeOK /\ Positions /\ Awaits /\ Stages /\ Replies /\ OutcomeRight /\ RewriteRight
    /\ DumpFails
-----------------------------------------------------------------------------
(* Who may be refused.                                                     *)

\* This client sends neither a login nor a status exchange.
Hopeless == \A k \in 1 .. Len(wire) : ~HandshakeAt(k, 2) /\ ~StatusExchange(k)

\* The packet that a stage waits for.
Wanted(stage, p) ==
    \/ stage = "handshake" /\ parse_handshake(p) # Malformed
    \/ stage = "request" /\ p = <<0>>
    \/ stage = "ping" /\ Len(p) = PingBytes /\ p[1] = 1

\* Frames that begin at the same byte are the same.
LEMMA SameFrame ==
    ASSUME wire \in Seq(Byte), NEW i \in 0 .. Len(wire), NEW j \in i .. Len(wire),
           NEW k \in i .. Len(wire), PacketIn(i, j) # << >>, PacketIn(i, k) # << >>
    PROVE  j = k
<1>1. j = i + ReadAt(wire, i).used + ReadAt(wire, i).value
    BY FrameIs
<1>2. k = i + ReadAt(wire, i).used + ReadAt(wire, i).value
    BY FrameIs
<1> QED
    BY <1>1, <1>2

\* A client whose next frame does not carry what the stage waits for is one.
LEMMA Unwanted ==
    ASSUME wire \in Seq(Byte), Reading, NEW b \in 0 .. Len(wire), Follows(at, b),
           \A k \in b .. Len(wire) : PacketIn(b, k) # << >> => ~Wanted(at, PacketIn(b, k))
    PROVE  Hopeless
<1>1. CASE at = "handshake"
    <2>1. b = 0
        BY <1>1 DEF Follows
    <2>2. ASSUME NEW k \in 0 .. Len(wire), NEW n \in {1, 2}
          PROVE  ~HandshakeAt(k, n)
        <3>1. PacketIn(0, k) # << >> => parse_handshake(PacketIn(0, k)) = Malformed
            BY <1>1, <2>1 DEF Wanted
        <3>2. Malformed.next_state = 0
            BY DEF Malformed
        <3> QED
            BY <3>1, <3>2 DEF HandshakeAt
    <2>3. ASSUME NEW k \in 1 .. Len(wire), StatusExchange(k) PROVE FALSE
        <3>1. PICK i \in 1 .. k : HandshakeAt(i, 1)
            BY <2>3 DEF StatusExchange
        <3> QED
            BY <2>2, <3>1
    <2> QED
        BY <2>2, <2>3 DEF Hopeless
<1>2. ASSUME NEW i \in 0 .. Len(wire), HandshakeAt(i, 1), NEW k \in 0 .. Len(wire), NEW n,
             HandshakeAt(k, n)
      PROVE  k = i /\ n = 1
    <2>1. PacketIn(0, i) # << >> /\ PacketIn(0, k) # << >>
        BY <1>2 DEF HandshakeAt
    <2>2. k = i
        BY <1>2, <2>1, SameFrame
    <2> QED
        BY <1>2, <2>2 DEF HandshakeAt
<1>3. CASE at = "request"
    <2>1. HandshakeAt(b, 1)
        BY <1>3 DEF Follows
    <2>2. ASSUME NEW k \in 1 .. Len(wire), HandshakeAt(k, 2) PROVE FALSE
        <3>1. k \in 0 .. Len(wire)
            OBVIOUS
        <3> QED
            BY <1>2, <2>1, <2>2, <3>1
    <2>3. ASSUME NEW k \in 1 .. Len(wire), StatusExchange(k) PROVE FALSE
        <3>1. PICK i \in 1 .. k, j \in 1 .. k :
                  i < j /\ HandshakeAt(i, 1) /\ PacketIn(i, j) = <<0>>
            BY <2>3 DEF StatusExchange
        <3>2. i \in 0 .. Len(wire) /\ j \in i .. Len(wire)
            BY <3>1
        <3>3. i = b
            BY <1>2, <2>1, <3>1, <3>2
        <3>4. PacketIn(b, j) # << >>
            <4>1. <<0>> # << >>
                OBVIOUS
            <4> QED
                BY <3>1, <3>3, <4>1
        <3> QED
            BY <1>3, <3>1, <3>2, <3>3, <3>4 DEF Wanted
    <2> QED
        BY <2>2, <2>3 DEF Hopeless
<1>4. CASE at = "ping"
    <2>1. PICK i \in 0 .. b : HandshakeAt(i, 1) /\ PacketIn(i, b) = <<0>>
        BY <1>4 DEF Follows
    <2>2. i \in 0 .. Len(wire)
        OBVIOUS
    <2>3. ASSUME NEW k \in 1 .. Len(wire), HandshakeAt(k, 2) PROVE FALSE
        <3>1. k \in 0 .. Len(wire)
            OBVIOUS
        <3> QED
            BY <1>2, <2>1, <2>2, <2>3, <3>1
    <2>4. ASSUME NEW k \in 1 .. Len(wire), StatusExchange(k) PROVE FALSE
        <3>1. PICK m \in 1 .. k, j \in 1 .. k :
                  /\ m < j /\ HandshakeAt(m, 1) /\ PacketIn(m, j) = <<0>>
                  /\ Len(PacketIn(j, k)) = PingBytes /\ PacketIn(j, k)[1] = 1
            BY <2>4 DEF StatusExchange
        <3>2. m \in 0 .. Len(wire) /\ j \in m .. Len(wire) /\ b \in i .. Len(wire)
            BY <3>1
        <3>3. m = i
            BY <1>2, <2>1, <2>2, <3>1, <3>2
        <3>4. PacketIn(i, j) # << >> /\ PacketIn(i, b) # << >>
            <4>1. <<0>> # << >>
                OBVIOUS
            <4> QED
                BY <2>1, <3>1, <3>3, <4>1
        <3>5. j = b
            BY <2>2, <3>2, <3>3, <3>4, SameFrame
        <3>6. PacketIn(b, k) # << >>
            BY <3>1, <3>5, ProtocolAssumption
        <3>7. k \in b .. Len(wire)
            BY <3>1, <3>5
        <3> QED
            BY <1>4, <3>1, <3>5, <3>6, <3>7 DEF Wanted
    <2> QED
        BY <2>3, <2>4 DEF Hopeless
<1> QED
    BY <1>1, <1>3, <1>4 DEF Reading

\* So is one whose next length is no VarInt, or not one this stage takes.
LEMMA BadLength ==
    ASSUME wire \in Seq(Byte), Reading, NEW b \in 0 .. Len(wire), Follows(at, b),
           ReadAt(wire, b).used = 0 \/ ~LengthOK(ReadAt(wire, b).value)
    PROVE  Hopeless
<1>1. ASSUME NEW k \in b .. Len(wire), PacketIn(b, k) # << >>, Wanted(at, PacketIn(b, k))
      PROVE  FALSE
    <2>1. /\ ReadAt(wire, b).used > 0
          /\ Len(PacketIn(b, k)) = ReadAt(wire, b).value
        BY <1>1, FrameIs
    <2>2. PICK n : n = Len(PacketIn(b, k))
        OBVIOUS
    <2>3. ~LengthOK(n)
        BY <2>1, <2>2
    <2>4. CASE at = "handshake"
        <3>1. parse_handshake(PacketIn(b, k)) # Malformed
            BY <1>1, <2>4 DEF Wanted
        <3>2. n \in 1 .. max_packet_bytes
            BY <2>2, <3>1, Zenon DEF parse_handshake
        <3> QED
            BY <2>3, <2>4, <3>2 DEF LengthOK, HandshakeLength,
               RequestLength, PingLength
    <2>5. CASE at = "request"
        <3>1. n = 1
            BY <1>1, <2>2, <2>5 DEF Wanted
        <3> QED
            BY <2>3, <2>5, <3>1 DEF LengthOK, HandshakeLength,
               RequestLength, PingLength
    <2>6. CASE at = "ping"
        <3>1. n = PingBytes
            BY <1>1, <2>2, <2>6 DEF Wanted
        <3> QED
            BY <2>3, <2>6, <3>1 DEF LengthOK, HandshakeLength,
               RequestLength, PingLength
    <2> QED
        BY <2>4, <2>5, <2>6 DEF Reading
<1> QED
    BY <1>1, Unwanted

\* And one whose next packet is not the one.
LEMMA BadPacket ==
    ASSUME wire \in Seq(Byte), Reading, NEW b \in 0 .. Len(wire), Follows(at, b),
           NEW j \in b .. Len(wire), PacketIn(b, j) # << >>, ~Wanted(at, PacketIn(b, j))
    PROVE  Hopeless
<1>1. ASSUME NEW k \in b .. Len(wire), PacketIn(b, k) # << >>
      PROVE  ~Wanted(at, PacketIn(b, k))
    <2>1. k = j
        BY <1>1, SameFrame
    <2> QED
        BY <2>1
<1> QED
    BY <1>1, Unwanted

-----------------------------------------------------------------------------
(* What is written.                                                        *)

\* A size and the bytes behind it.
LEMMA FrameCarries ==
    ASSUME NEW p \in Seq(Byte), Len(p) \in Value, NEW f, f = write(MaxLength, Len(p)) \o p
    PROVE  f \in Seq(Byte) /\ Carries(f, p) /\ Behind(f) = p
<1>1. PICK w : w = write(MaxLength, Len(p))
    OBVIOUS
<1>2. w \in Seq(Byte) /\ read(f) = [used |-> Len(w), value |-> Len(p)]
    BY <1>1, WrittenIsRead
<1>3. f \in Seq(Byte) /\ Len(f) = Len(w) + Len(p) /\ At(f, Len(w), p) /\ Len(w) \in Nat
    BY <1>1, <1>2, AtFront
<1>4. SubSeq(f, Len(w) + 1, Len(w) + Len(p)) = p
    BY <1>3, CutOut
<1>5. read(f).used = Len(w) /\ read(f).value = Len(p)
    BY <1>2
<1>6. Behind(f) = p
    BY <1>3, <1>4, <1>5, Zenon DEF Behind
<1> QED
    BY <1>3, <1>5, <1>6 DEF Carries

\* The packet ID 0.
LEMMA WriteZero == 0 \in Value /\ write(MaxLength, 0) = <<0>> /\ required[0] = 1
<1>1. 0 \in Value /\ MaxLength \in Nat
    BY Sizes DEF Value
<1>2. required[0] \in 1 .. MaxLength
    BY <1>1, LengthSuffices
<1>3. write(MaxLength, 0) = groups[0]
    BY <1>1, <1>2, WriteWhole
<1>4. groups[0] = <<0>>
    <2>1. groups[0] = GroupsOf(groups, 0)
        BY <1>1, GroupsDef
    <2> QED
        BY <2>1, Sizes DEF GroupsOf
<1>5. required[0] = 1
    <2>1. required[0] = RequiredOf(required, 0)
        BY <1>1, RequiredDef
    <2> QED
        BY <2>1, Sizes DEF RequiredOf, OneByte
<1> QED
    BY <1>1, <1>3, <1>4, <1>5

\* The status behind its length.
Status == write(MaxLength, Len(StatusText)) \o StatusText

\* What the status reply is made of.
LEMMA StatusIs ==
    /\ Status \in Seq(Byte) /\ Carries(Status, StatusText)
    /\ StatusPayload = <<0>> \o Status
    /\ StatusPayload \in Seq(Byte) /\ Len(StatusPayload) \in Value
<1>1. PICK n \in Nat : n = Len(StatusText)
    BY ReaderAssumption
<1>2. 1 + MaxLength + n \in Value /\ MaxLength \in Nat
    BY <1>1, ReaderAssumption, WriteZero, Sizes
<1>3. n \in Value
    BY <1>2, Sizes DEF Value
<1>4. Status \in Seq(Byte) /\ Carries(Status, StatusText)
    BY <1>1, <1>3, FrameCarries, ReaderAssumption DEF Status
<1>5. PICK w : w = write(MaxLength, Len(StatusText))
    OBVIOUS
<1>6. w \in Seq(Byte) /\ Len(w) = required[n] /\ required[n] \in 1 .. MaxLength
    <2>1. << >> \in Seq(Byte) /\ required[n] \in 1 .. MaxLength
        BY <1>3, LengthSuffices
    <2> QED
        BY <1>1, <1>3, <1>5, <2>1, WrittenIsRead
<1>7. StatusText \in Seq(Byte) /\ <<0>> \in Seq(Byte)
    BY ReaderAssumption, Sizes DEF Byte
<1>8. StatusPayload = <<0>> \o w \o StatusText
    BY <1>5, WriteZero DEF StatusPayload
<1>9. <<0>> \o w \o StatusText = <<0>> \o (w \o StatusText)
    BY <1>6, <1>7, ConcatAssociative
<1>10. StatusPayload = <<0>> \o Status
    BY <1>5, <1>8, <1>9 DEF Status
<1>11. StatusPayload \in Seq(Byte) /\ Len(StatusPayload) = 1 + Len(Status)
    BY <1>4, <1>7, <1>10
<1>12. Len(Status) = Len(w) + n
    BY <1>1, <1>5, <1>6, <1>7 DEF Status
<1>13. Len(StatusPayload) \in Value
    <2>1. Len(w) \in 1 .. MaxLength
        BY <1>6
    <2>2. PICK m \in Nat : m = Len(w) /\ m <= MaxLength
        BY <1>2, <2>1
    <2>3. Len(StatusPayload) = 1 + (m + n)
        BY <1>11, <1>12, <2>2
    <2>4. 1 + (m + n) \in 0 .. 1 + MaxLength + n
        BY <1>2, <2>2
    <2> QED
        BY <1>2, <2>3, <2>4, Sizes DEF Value
<1> QED
    BY <1>4, <1>10, <1>11, <1>13

\* A ping is small enough for a frame.
LEMMA PingIsValue == PingBytes \in Value /\ PingBytes \in Nat
<1>1. PingBytes \in Nat /\ PingBytes <= Int32Max
    BY ProtocolAssumption
<1>2. Int32Max \in Nat /\ Int32Max < Modulus /\ Modulus \in Nat
    BY LargestIsValue, Sizes
<1> QED
    BY <1>1, <1>2 DEF Value

\* The bytes behind the length and an ID.
LEMMA TextBehind ==
    ASSUME NEW f \in Seq(Byte), NEW u \in Nat, NEW id \in Byte, NEW t \in Seq(Byte),
           <<id>> \o t = SubSeq(f, u + 1, Len(f))
    PROVE  SubSeq(f, u + 2, Len(f)) = t
<1>1. PICK a : a = <<id>> \o t
    OBVIOUS
<1>2. <<id>> \in Seq(Byte)
    OBVIOUS
<1>3. a \in Seq(Byte) /\ Len(a) = Len(t) + 1 /\ \A k \in 1 .. Len(t) : a[k + 1] = t[k]
    BY <1>1, <1>2
<1>4. u + 1 <= Len(f)
    <2>1. CASE u + 1 > Len(f)
        <3>1. SubSeq(f, u + 1, Len(f)) = << >>
            BY <2>1
        <3> QED
            BY <1>1, <1>3, <3>1
    <2> QED
        BY <2>1
<1>5. u \in 0 .. Len(f) /\ u + 1 \in 0 .. Len(f) /\ Len(f) \in u .. Len(f)
      /\ Len(f) \in u + 1 .. Len(f) /\ (u + 1) + 1 = u + 2
    BY <1>4
<1>6. Len(a) = Len(f) - u /\ \A k \in 1 .. Len(f) - u : a[k] = f[u + k]
    <2>1. PICK b : b = SubSeq(f, u + 1, Len(f))
        OBVIOUS
    <2>2. Len(b) = Len(f) - u /\ \A k \in 1 .. Len(f) - u : b[k] = f[u + k]
        BY <1>5, <2>1, CutIs, Zenon
    <2>3. a = b
        BY <1>1, <2>1, Zenon
    <2> QED
        BY <2>2, <2>3, Zenon
<1>7. PICK c : c = SubSeq(f, u + 2, Len(f))
    OBVIOUS
<1>8. PICK v \in Nat : v = u + 1 /\ v + 1 = u + 2 /\ v \in 0 .. Len(f)
    BY <1>5
<1>9. /\ c \in Seq(Byte) /\ Len(c) = Len(f) - v
      /\ \A k \in 1 .. Len(f) - v : c[k] = f[v + k]
    BY <1>5, <1>7, <1>8, CutIs
<1>10. Len(c) = Len(t)
    <2>1. PICK m \in Nat, n \in Nat : m = Len(t) /\ n = Len(f)
        OBVIOUS
    <2>2. m + 1 = n - u /\ Len(c) = n - (u + 1)
        BY <1>3, <1>6, <1>8, <1>9, <2>1
    <2> QED
        BY <2>1, <2>2
<1>11. ASSUME NEW k \in 1 .. Len(c) PROVE c[k] = t[k]
    <2>1. c[k] = f[v + k]
        BY <1>9, <1>11
    <2>2. a[k + 1] = f[u + (k + 1)]
        <3>1. PICK m \in Nat : m = Len(t)
            OBVIOUS
        <3>2. k + 1 \in 1 .. m + 1
            BY <1>10, <1>11, <3>1
        <3>3. Len(f) - u = m + 1
            BY <1>3, <1>6, <3>1
        <3> QED
            BY <1>6, <3>2, <3>3
    <2>3. a[k + 1] = t[k]
        BY <1>3, <1>10
    <2>4. u + (k + 1) = v + k
        BY <1>8
    <2> QED
        BY <2>1, <2>2, <2>3, <2>4
<1> QED
    BY <1>7, <1>9, <1>10, <1>11, SeqEqual

\* What a second element does to a sequence of one.
LEMMA SecondReply ==
    ASSUME NEW elements, NEW a \in Seq(elements), Len(a) = 1, NEW e \in elements
    PROVE  Len(Append(a, e)) = 2 /\ Append(a, e)[1] = a[1] /\ Append(a, e)[2] = e
<1>1. Len(Append(a, e)) = Len(a) + 1
    BY AppendProperties
<1>2. \A i \in 1 .. Len(a) : Append(a, e)[i] = a[i]
    BY AppendProperties
<1>3. Append(a, e)[Len(a) + 1] = e
    BY AppendProperties
<1>4. Len(a) + 1 = 2 /\ 1 \in 1 .. Len(a)
    OBVIOUS
<1>5. Append(a, e)[1] = a[1]
    BY <1>2, <1>4
<1>6. Append(a, e)[2] = e
    BY <1>3, <1>4
<1> QED
    BY <1>1, <1>4, <1>5, <1>6

\* The login handshake that is forwarded.
LEMMA LoginIs ==
    ASSUME NEW p \in Seq(Byte), parse_handshake(p) # Malformed,
           NEW frame, frame = serialize_handshake(Rewritten(parse_handshake(p)))
    PROVE  /\ frame \in Seq(Byte) /\ frame # << >> /\ Len(frame) <= BufferSize
           /\ Carries(frame, Behind(frame))
           /\ parse_handshake(Behind(frame)) = Rewritten(parse_handshake(p))
<1>1. PICK protocol, address, port, next_state :
          /\ Fields(protocol, address, port, next_state)
          /\ parse_handshake(p) = [protocol |-> protocol, address |-> address,
                                   port |-> port, next_state |-> next_state]
    BY ParsedFields
<1>2. PICK h : h = Rewritten(parse_handshake(p))
    OBVIOUS
<1>3. h = [protocol |-> protocol, address |-> Host, port |-> Port, next_state |-> next_state]
    <2>1. PICK r, t :
              /\ r = [protocol |-> protocol, address |-> address, port |-> port,
                      next_state |-> next_state]
              /\ t = [r EXCEPT !.address = Host]
        OBVIOUS
    <2>2. t = [protocol |-> protocol, address |-> Host, port |-> port,
               next_state |-> next_state]
        BY <2>1
    <2>3. [t EXCEPT !.port = Port] = [protocol |-> protocol, address |-> Host,
                                      port |-> Port, next_state |-> next_state]
        BY <2>2
    <2>4. [r EXCEPT !.address = Host, !.port = Port] = [t EXCEPT !.port = Port]
        BY <2>1
    <2> QED
        BY <1>1, <1>2, <2>1, <2>3, <2>4, Zenon DEF Rewritten
<1>4. Fields(protocol, Host, Port, next_state)
    BY <1>1, ReaderAssumption DEF Fields
<1>5. frame = serialize_handshake(h)
    BY <1>2
<1>6. PICK payload : payload = Behind(frame)
    OBVIOUS
<1>7. payload = SubSeq(frame, read(frame).used + 1, Len(frame))
    BY <1>6 DEF Behind
<1>8. \A g, f, q :
          /\ g = [protocol |-> protocol, address |-> Host, port |-> Port,
                  next_state |-> next_state]
          /\ f = serialize_handshake(g)
          /\ q = SubSeq(f, read(f).used + 1, Len(f))
          => Arrives(g, f, q)
    BY <1>4, SerializedIsParsed, Zenon
<1>9. Arrives(h, frame, payload)
    BY <1>3, <1>5, <1>7, <1>8, Zenon
<1>10. /\ frame \in Seq(Byte) /\ frame # << >> /\ Len(frame) <= LargestFrame
       /\ read(frame).value = Len(payload) /\ parse_handshake(payload) = h
    BY <1>9 DEF Arrives
<1>11. LargestFrame \in Nat
    <2>1. LargestHandshake \in Value /\ LargestHandshake \in Nat
        BY LargestIsValue, Sizes DEF Value
    <2>2. required[LargestHandshake] \in Nat
        BY <2>1, GroupsShape
    <2> QED
        BY <2>1, <2>2 DEF LargestFrame
<1>12. Len(frame) <= BufferSize
    BY <1>10, <1>11, ReaderAssumption
<1> QED
    BY <1>2, <1>6, <1>10, <1>12 DEF Carries

-----------------------------------------------------------------------------
(* Steps that several actions share.                                       *)

\* The wire stays as it is, and so does all that is said of it.
LEMMA SameWire ==
    ASSUME wire' = wire
    PROVE  /\ \A i, j : PacketIn(i, j)' = PacketIn(i, j)
           /\ \A i, n : HandshakeAt(i, n)' = HandshakeAt(i, n)
           /\ \A k : StatusExchange(k)' = StatusExchange(k)
           /\ \A stage, b : Follows(stage, b)' = Follows(stage, b)
           /\ Hopeless' = Hopeless
<1>1. ASSUME NEW i, NEW j PROVE PacketIn(i, j)' = PacketIn(i, j)
    BY DEF PacketIn
<1>2. ASSUME NEW i, NEW n PROVE HandshakeAt(i, n)' = HandshakeAt(i, n)
    BY DEF HandshakeAt, PacketIn
<1>3. ASSUME NEW k PROVE StatusExchange(k)' = StatusExchange(k)
    BY DEF StatusExchange, HandshakeAt, PacketIn
<1>4. ASSUME NEW stage, NEW b PROVE Follows(stage, b)' = Follows(stage, b)
    BY DEF Follows, HandshakeAt, PacketIn
<1>5. Hopeless' = Hopeless
    BY DEF Hopeless, StatusExchange, HandshakeAt, PacketIn
<1> QED
    BY <1>1, <1>2, <1>3, <1>4, <1>5

\* CurrentByte has to wait for the byte it wants.
LEMMA ByteAwaited ==
    ASSUME write_pos \in 0 .. buf_size, NEW r, r = write_pos, CurrentByte(r)
    PROVE  /\ io' = "pending" /\ read_pos' = write_pos' /\ write_pos' \in 0 .. buf_size
           /\ write_pos' < buf_size
<1>1. /\ io' = "pending" /\ read_pos' = IF write_pos = buf_size THEN 0 ELSE write_pos
      /\ write_pos' = IF write_pos = buf_size THEN 0 ELSE write_pos
    BY DEF CurrentByte, BufferEnds
<1> QED
    BY <1>1, ReaderAssumption

\* The exchange ends, and rightly so.
LEMMA Finishes ==
    ASSUME IInv, NEW how \in {"refused", "undumped", "answered", "failed"}, Finish(how),
           UNCHANGED server_buffer, how = "refused" => Hopeless,
           how = "answered" => StatusExchange(taken),
           how = "undumped" => Follows("ping", taken) /\ FALSE \in Utf8
    PROVE  IInv'
<1>1. /\ at' = "returned" /\ io' = "idle" /\ result' = how /\ wire' = wire /\ taken' = taken
      /\ UNCHANGED <<buffer, read_pos, write_pos, encoded, packet_length, packet, replies>>
    BY DEF Finish, reader
<1>2. TypeOK'
    BY <1>1 DEF IInv, TypeOK
<1>3. Positions' /\ Awaits'
    BY <1>1 DEF Positions, Awaits, Reading, Resumed
<1>4. Stages'
    BY <1>1 DEF Stages, Reading
<1>5. Replies'
    BY <1>1 DEF IInv, Replies, StatusPayload, Carries, Behind
<1>6. OutcomeRight' /\ RewriteRight'
    <2>1. StatusExchange(taken)' = StatusExchange(taken) /\ Hopeless' = Hopeless
        <3>1. StatusExchange(taken)' = StatusExchange(taken)
            BY <1>1 DEF StatusExchange, HandshakeAt, PacketIn
        <3> QED
            BY <1>1, <3>1, SameWire
    <2>2. how = "undumped" => StatusRequest(taken)'
        BY <1>1 DEF Follows, StatusRequest, HandshakeAt, PacketIn
    <2> QED
        BY <1>1, <2>1, <2>2 DEF OutcomeRight, RewriteRight, Hopeless
<1>7. DumpFails'
    BY <1>1 DEF DumpFails
<1> QED
    BY <1>2, <1>3, <1>4, <1>5, <1>6, <1>7 DEF IInv

\* These bytes of the frame after byte b are in hand as a stage begins or goes on.
InHand(stage, enc, len, pkt, b) ==
    /\ stage \in {"handshake", "request", "ping"}
    /\ \/ stage = at
       \/ len = 0 /\ at = "handshake" /\ stage = "request"
    /\ enc \in Seq(Byte) /\ Len(enc) < MaxLength
    /\ len \in 0 .. max_packet_bytes /\ pkt \in Seq(Byte) /\ Len(pkt) <= len
    /\ b \in 0 .. taken /\ Follows(stage, b) /\ Parts(b, taken, enc, len, pkt)

\* A stage is begun or goes on.
LEMMA Continues ==
    ASSUME IInv, Resumed, NEW stage, NEW enc, NEW len, NEW pkt, NEW b,
           InHand(stage, enc, len, pkt, b), Continue(stage, enc, len, pkt)
    PROVE  IInv'
<1> USE DEF InHand
<1>1. /\ at' = stage /\ encoded' = enc /\ packet_length' = len /\ packet' = pkt
      /\ CurrentByte(read_pos + 1)
      /\ wire' = wire /\ taken' = taken /\ buffer' = buffer /\ replies' = replies
      /\ server_buffer' = server_buffer /\ result' = result
    BY DEF Continue
<1>2. /\ io' = "pending" /\ read_pos' = write_pos' /\ write_pos' \in 0 .. buf_size
      /\ write_pos' < buf_size
    BY <1>1, ByteAwaited DEF IInv, TypeOK, Positions
<1>3. TypeOK'
    BY <1>1, <1>2 DEF IInv, TypeOK
<1>4. at \in {"handshake", "request", "ping"} /\ at # "returned" /\ result = "none"
    BY DEF IInv, Awaits, Resumed
<1>5. Positions' /\ Awaits'
    BY <1>1, <1>2, <1>4 DEF Positions, Awaits, Reading, Resumed
<1>6. Done' = taken
    BY <1>1, <1>2 DEF Done, Resumed
<1>7. Stages'
    <2>1. Follows(stage, b)'
        BY <1>1, SameWire
    <2>2. LengthOK(len) /\ stage = at => LengthOK(len)'
        BY <1>1 DEF LengthOK, HandshakeLength,
           RequestLength, PingLength
    <2>3. ReadAt(wire, b)' = ReadAt(wire, b)
        BY <1>1 DEF ReadAt, Rest
    <2>4. Assembled(b)'
        <3>1. CASE len = 0
            <4>1. /\ pkt = << >> /\ enc = SubSeq(wire, b + 1, taken)
                  /\ \A k \in b + 1 .. taken : wire[k] >= Group
                BY <3>1 DEF Parts
            <4> QED
                BY <1>1, <1>6, <3>1, <4>1 DEF Assembled, Parts
        <3>2. CASE len > 0
            <4>1. /\ enc = << >> /\ LengthOK(len)
                  /\ ReadAt(wire, b).used > 0 /\ ReadAt(wire, b).value = len
                  /\ b + ReadAt(wire, b).used <= taken
                  /\ pkt = SubSeq(wire, b + ReadAt(wire, b).used + 1, taken)
                  /\ Len(pkt) < len
                BY <3>2 DEF Parts
            <4> QED
                BY <1>1, <1>6, <2>2, <2>3, <3>2, <4>1 DEF Assembled, Parts
        <3>3. len \in Nat
            BY ProtocolAssumption
        <3> QED
            BY <3>1, <3>2, <3>3
    <2>5. \E c \in 0 .. Done' : Follows(stage, c)' /\ Assembled(c)'
        BY <1>6, <2>1, <2>4
    <2> QED
        BY <1>1, <2>5 DEF Stages, Reading
<1>8. Replies'
    <2>1. stage \in {"handshake", "request"} => at \in {"handshake", "request"}
        BY <1>4
    <2>2. stage = "ping" => at = "ping"
        OBVIOUS
    <2> QED
        BY <1>1, <1>4, <2>1, <2>2 DEF IInv, Replies, StatusPayload, Carries, Behind
<1>9. OutcomeRight' /\ RewriteRight' /\ DumpFails'
    BY <1>1, <1>4 DEF OutcomeRight, RewriteRight, DumpFails
<1> QED
    BY <1>3, <1>5, <1>7, <1>8, <1>9 DEF IInv

\* Where the byte that CurrentByte returns is on the wire, and in which frame.
LEMMA ByteIs ==
    ASSUME IInv, Resumed
    PROVE  /\ taken \in 1 .. Len(wire) /\ byte = wire[taken] /\ byte \in Byte
           /\ Done = taken - 1 /\ Reading
           /\ \E b \in 0 .. taken - 1 : Follows(at, b) /\ Assembled(b)
<1>1. Reading /\ Done = taken - 1
    BY DEF Reading, Resumed, Done
<1>2. taken \in 0 .. Len(wire) /\ wire \in Seq(Byte) /\ taken >= 1 /\ byte = wire[taken]
    BY DEF IInv, TypeOK, Positions
<1>3. taken \in 1 .. Len(wire) /\ byte \in Byte
    BY <1>2
<1>4. \E b \in 0 .. Done : Follows(at, b) /\ Assembled(b)
    BY <1>1 DEF IInv, Stages
<1> QED
    BY <1>1, <1>2, <1>3, <1>4

\* ReadVarInt has the bytes of the length so far, all but the last with a flag.
LEMMA Encodes ==
    ASSUME IInv, Resumed, packet_length = 0
    PROVE  /\ Append(encoded, byte) \in Seq(Byte)
           /\ Len(Append(encoded, byte)) = Len(encoded) + 1
           /\ \E b \in 0 .. taken - 1 :
                  /\ Follows(at, b) /\ Append(encoded, byte) = SubSeq(wire, b + 1, taken)
                  /\ Len(Append(encoded, byte)) = taken - b
                  /\ \A k \in b + 1 .. taken - 1 : wire[k] >= Group
<1>1. /\ taken \in 1 .. Len(wire) /\ byte = wire[taken] /\ byte \in Byte
      /\ Done = taken - 1
    BY ByteIs
<1>2. PICK b \in 0 .. taken - 1 : Follows(at, b) /\ Assembled(b)
    BY ByteIs
<1>3. /\ encoded = SubSeq(wire, b + 1, taken - 1)
      /\ \A k \in b + 1 .. taken - 1 : wire[k] >= Group
    BY <1>1, <1>2 DEF Assembled, Parts
<1>4. encoded \in Seq(Byte) /\ wire \in Seq(Byte)
    BY DEF IInv, TypeOK
<1>5. Append(encoded, byte) \in Seq(Byte) /\ Len(Append(encoded, byte)) = Len(encoded) + 1
    BY <1>1, <1>4
<1>6. PICK j \in b .. Len(wire) - 1 : j = taken - 1 /\ j + 1 = taken
    <2>1. taken - 1 \in b .. Len(wire) - 1 /\ (taken - 1) + 1 = taken
        BY <1>1
    <2> QED
        BY <2>1
<1>7. Append(encoded, byte) = SubSeq(wire, b + 1, taken)
    <2>1. b \in 0 .. Len(wire) - 1
        BY <1>6
    <2>2. Append(SubSeq(wire, b + 1, j), wire[j + 1]) = SubSeq(wire, b + 1, j + 1)
        BY <1>4, <2>1, CutAppend
    <2> QED
        BY <1>1, <1>3, <1>6, <2>2
<1>8. Len(Append(encoded, byte)) = taken - b
    <2>1. b \in 0 .. Len(wire) /\ taken \in b .. Len(wire)
        BY <1>1
    <2> QED
        BY <1>4, <1>7, <2>1, CutIs
<1> QED
    BY <1>2, <1>3, <1>5, <1>7, <1>8

\* FillPacket has the bytes behind the length so far.
LEMMA Fills ==
    ASSUME IInv, Resumed, packet_length > 0
    PROVE  /\ Append(packet, byte) \in Seq(Byte)
           /\ Len(Append(packet, byte)) = Len(packet) + 1
           /\ encoded = << >> /\ LengthOK(packet_length)
           /\ \E b \in 0 .. taken - 1 :
                  /\ Follows(at, b)
                  /\ ReadAt(wire, b).used > 0 /\ ReadAt(wire, b).value = packet_length
                  /\ b + ReadAt(wire, b).used <= taken - 1
                  /\ Append(packet, byte) = SubSeq(wire, b + ReadAt(wire, b).used + 1, taken)
                  /\ taken = b + ReadAt(wire, b).used + (Len(packet) + 1)
<1>1. /\ taken \in 1 .. Len(wire) /\ byte = wire[taken] /\ byte \in Byte
      /\ Done = taken - 1
    BY ByteIs
<1>2. PICK b \in 0 .. taken - 1 : Follows(at, b) /\ Assembled(b)
    BY ByteIs
<1>3. packet \in Seq(Byte) /\ wire \in Seq(Byte) /\ packet_length \in Nat
    BY ProtocolAssumption DEF IInv, TypeOK
<1>4. /\ encoded = << >> /\ LengthOK(packet_length)
      /\ ReadAt(wire, b).used > 0 /\ ReadAt(wire, b).value = packet_length
      /\ b + ReadAt(wire, b).used <= taken - 1
      /\ packet = SubSeq(wire, b + ReadAt(wire, b).used + 1, taken - 1)
    BY <1>1, <1>2, <1>3 DEF Assembled, Parts
<1>5. Append(packet, byte) \in Seq(Byte) /\ Len(Append(packet, byte)) = Len(packet) + 1
    BY <1>1, <1>3
<1>6. b \in 0 .. Len(wire)
    BY <1>1
<1>7. PICK i \in 0 .. Len(wire) - 1 : i = b + ReadAt(wire, b).used /\ i <= taken - 1
    <2>1. ReadAt(wire, b).used \in 1 .. MaxLength
        BY <1>3, <1>4, <1>6, ReadStops
    <2>2. ReadAt(wire, b).used \in Nat
        BY <2>1, Sizes
    <2>3. b + ReadAt(wire, b).used \in 0 .. Len(wire) - 1
        BY <1>1, <1>4, <2>2
    <2> QED
        BY <1>4, <2>3
<1>8. PICK j \in i .. Len(wire) - 1 : j = taken - 1 /\ j + 1 = taken
    <2>1. taken - 1 \in i .. Len(wire) - 1 /\ (taken - 1) + 1 = taken
        BY <1>1, <1>7
    <2> QED
        BY <2>1
<1>9. Append(packet, byte) = SubSeq(wire, i + 1, taken)
    <2>1. Append(SubSeq(wire, i + 1, j), wire[j + 1]) = SubSeq(wire, i + 1, j + 1)
        BY <1>3, CutAppend
    <2> QED
        BY <1>1, <1>4, <1>7, <1>8, <2>1
<1>10. taken = i + (Len(packet) + 1)
    <2>1. i \in 0 .. Len(wire) /\ taken \in i .. Len(wire)
        BY <1>1, <1>7
    <2>2. Len(SubSeq(wire, i + 1, taken)) = taken - i
        BY <1>3, <2>1, CutIs
    <2>3. Len(packet) + 1 = taken - i /\ Len(packet) \in Nat
        BY <1>3, <1>5, <1>9, <2>2
    <2> QED
        BY <1>1, <2>3
<1> QED
    BY <1>2, <1>4, <1>5, <1>7, <1>9, <1>10

\* With the last byte of a packet, its frame is complete.
LEMMA Completes ==
    ASSUME IInv, Resumed, Len(packet) + 1 = packet_length
    PROVE  /\ Append(packet, byte) \in Seq(Byte)
           /\ Len(Append(packet, byte)) = packet_length /\ LengthOK(packet_length)
           /\ taken \in 1 .. Len(wire)
           /\ \E b \in 0 .. taken - 1 :
                  /\ Follows(at, b) /\ PacketIn(b, taken) # << >>
                  /\ PacketIn(b, taken) = Append(packet, byte)
                  /\ Append(packet, byte) =
                         SubSeq(wire, (taken - packet_length) + 1, taken)
<1>1. packet_length \in Nat /\ Len(packet) \in Nat /\ packet_length > 0
    BY ProtocolAssumption DEF IInv, TypeOK
<1>2. /\ Append(packet, byte) \in Seq(Byte)
      /\ Len(Append(packet, byte)) = packet_length /\ LengthOK(packet_length)
    BY <1>1, Fills
<1>3. taken \in 1 .. Len(wire) /\ wire \in Seq(Byte)
    BY ByteIs DEF IInv, TypeOK
<1>4. PICK b \in 0 .. taken - 1 :
          /\ Follows(at, b)
          /\ ReadAt(wire, b).used > 0 /\ ReadAt(wire, b).value = packet_length
          /\ b + ReadAt(wire, b).used <= taken - 1
          /\ Append(packet, byte) = SubSeq(wire, b + ReadAt(wire, b).used + 1, taken)
          /\ taken = b + ReadAt(wire, b).used + (Len(packet) + 1)
    BY <1>1, Fills
<1>5. b \in 0 .. Len(wire) /\ taken \in b .. Len(wire)
    BY <1>3
<1>6. PICK u \in Nat : u = ReadAt(wire, b).used
    BY <1>3, <1>4, <1>5, ReadStops, Sizes
<1>7. taken = b + u + packet_length /\ b + u = taken - packet_length
    BY <1>1, <1>3, <1>4, <1>6
<1>8. /\ PacketIn(b, taken) # << >>
      /\ PacketIn(b, taken) = SubSeq(wire, b + ReadAt(wire, b).used + 1, taken)
    BY <1>1, <1>3, <1>4, <1>5, <1>6, <1>7, FrameHere
<1>9. Append(packet, byte) = SubSeq(wire, (taken - packet_length) + 1, taken)
    BY <1>4, <1>6, <1>7
<1> QED
    BY <1>2, <1>3, <1>4, <1>8, <1>9

-----------------------------------------------------------------------------
(* Every step keeps the invariant.                                         *)

\* The invariant holds when the reader is made.
LEMMA Initial == Init => IInv
<1> SUFFICES ASSUME Init PROVE IInv
    OBVIOUS
<1>1. wire \in Seq(Byte) /\ Len(wire) \in Nat
    BY ReaderAssumption DEF Init
<1>2. TypeOK
    <2>1. 0 \in Byte /\ MaxLength > 0
        BY Sizes DEF Byte
    <2>2. buffer \in [0 .. buf_size - 1 -> Byte]
        BY <2>1 DEF Init
    <2> QED
        BY <1>1, <2>1, <2>2, ReaderAssumption, ProtocolAssumption DEF Init, TypeOK
<1>3. Positions /\ Awaits
    BY DEF Init, Positions, Awaits, Reading, Resumed
<1>4. Stages
    BY DEF Init, Stages, Reading
<1>5. Replies
    BY DEF Init, Replies
<1>6. OutcomeRight /\ RewriteRight /\ DumpFails
    BY DEF Init, OutcomeRight, RewriteRight, DumpFails
<1> QED
    BY <1>2, <1>3, <1>4, <1>5, <1>6 DEF IInv

\* A stage is entered with nothing in hand.
LEMMA Enters ==
    ASSUME IInv, at \in {"spawned", "response"},
           NEW stage, at' = stage,
           at = "spawned" => stage = "handshake" /\ taken = 0,
           at = "response" => stage = "ping",
           CurrentByte(read_pos),
           UNCHANGED <<wire, taken, buffer, reader, replies, server_buffer, result>>
    PROVE  IInv'
<1>1. /\ wire' = wire /\ taken' = taken /\ buffer' = buffer /\ encoded' = encoded
      /\ packet_length' = packet_length /\ packet' = packet /\ replies' = replies
      /\ server_buffer' = server_buffer /\ result' = result
      /\ stage \in {"handshake", "ping"}
    BY DEF reader
<1>2. read_pos = write_pos /\ write_pos \in 0 .. buf_size /\ result = "none"
    BY DEF IInv, TypeOK, Positions, Awaits
<1>3. /\ io' = "pending" /\ read_pos' = write_pos' /\ write_pos' \in 0 .. buf_size
      /\ write_pos' < buf_size
    BY <1>2, ByteAwaited
<1>4. TypeOK'
    BY <1>1, <1>3 DEF IInv, TypeOK
<1>5. Positions' /\ Awaits'
    BY <1>1, <1>2, <1>3 DEF Positions, Awaits, Reading, Resumed
<1>6. Stages'
    <2>1. encoded = << >> /\ packet_length = 0 /\ packet = << >>
        BY DEF IInv, Stages
    <2>2. Follows(stage, taken)
        <3>1. CASE at = "spawned"
            BY <3>1 DEF Follows
        <3>2. CASE at = "response"
            BY <3>2 DEF IInv, Stages
        <3> QED
            BY <3>1, <3>2
    <2>3. Follows(stage, taken)'
        BY <1>1, <2>2 DEF Follows, HandshakeAt, PacketIn
    <2>4. Done' = taken /\ taken \in Nat
        BY <1>1, <1>3 DEF Done, Resumed, IInv, TypeOK
    <2>5. Assembled(taken)'
        <3>1. SubSeq(wire, taken + 1, taken) = << >>
            BY <2>4
        <3>2. \A k \in taken + 1 .. taken : wire[k] >= Group
            BY <2>4
        <3> QED
            BY <1>1, <2>1, <2>4, <3>1, <3>2 DEF Assembled, Parts
    <2>6. \E c \in 0 .. Done' : Follows(stage, c)' /\ Assembled(c)'
        BY <1>1, <2>3, <2>4, <2>5
    <2> QED
        BY <1>1, <2>6 DEF Stages, Reading
<1>7. Replies'
    BY <1>1 DEF IInv, Replies, StatusPayload, Carries, Behind
<1>8. OutcomeRight' /\ RewriteRight' /\ DumpFails'
    BY <1>1, <1>2 DEF OutcomeRight, RewriteRight, DumpFails
<1> QED
    BY <1>4, <1>5, <1>6, <1>7, <1>8 DEF IInv

\* Start.
LEMMA StartKeeps == IInv /\ Start => IInv'
<1> SUFFICES ASSUME IInv, Start PROVE IInv'
    OBVIOUS
<1>1. taken = 0
    BY DEF IInv, Awaits, Start
<1> QED
    BY <1>1, Enters DEF Start

\* An operation fails.
LEMMA ThrowsKeeps == IInv /\ AwaitThrows => IInv'
BY Finishes DEF AwaitThrows

\* ReadVarInt.
LEMMA ReadVarIntKeeps == IInv /\ ReadVarInt => IInv'
<1> SUFFICES ASSUME IInv, ReadVarInt PROVE IInv'
    OBVIOUS
<1>1. Resumed /\ packet_length = 0
    BY DEF ReadVarInt
<1>2. PICK enc : enc = Append(encoded, byte)
    OBVIOUS
<1>3. PICK b \in 0 .. taken - 1 :
          /\ Follows(at, b) /\ enc = SubSeq(wire, b + 1, taken)
          /\ Len(enc) = taken - b
          /\ \A k \in b + 1 .. taken - 1 : wire[k] >= Group
    BY <1>1, <1>2, Encodes
<1>4. /\ taken \in 1 .. Len(wire) /\ byte = wire[taken] /\ byte \in Byte /\ Reading
      /\ wire \in Seq(Byte)
    BY <1>1, ByteIs DEF IInv, TypeOK
<1>5. /\ enc \in Seq(Byte) /\ Len(enc) = Len(encoded) + 1 /\ Len(encoded) \in Nat
      /\ Len(encoded) < MaxLength
    BY <1>1, <1>2, Encodes DEF IInv, TypeOK
<1>6. b \in 0 .. taken /\ b \in 0 .. Len(wire) /\ taken \in b .. Len(wire)
    BY <1>4
<1>7. max_packet_bytes \in Nat /\ at \in {"handshake", "request", "ping"}
    BY <1>4, ProtocolAssumption DEF Reading
<1>8. ASSUME byte >= Group
      PROVE  \A k \in b + 1 .. taken : wire[k] >= Group
    <2> SUFFICES ASSUME NEW k \in b + 1 .. taken PROVE wire[k] >= Group
        OBVIOUS
    <2>1. k = taken \/ k \in b + 1 .. taken - 1
        BY <1>4
    <2> QED
        BY <1>3, <1>4, <1>8, <2>1
<1>9. CASE byte >= Group /\ Len(enc) < MaxLength /\ Continue(at, enc, 0, << >>)
    <2>1. << >> \in Seq(Byte) /\ Len(<< >>) <= 0 /\ 0 \in 0 .. max_packet_bytes
        BY <1>7
    <2>2. Parts(b, taken, enc, 0, << >>)
        BY <1>3, <1>8, <1>9 DEF Parts
    <2>3. PICK stage : stage = at
        OBVIOUS
    <2>4. /\ stage \in {"handshake", "request", "ping"} /\ Follows(stage, b)
          /\ Continue(stage, enc, 0, << >>)
        BY <1>3, <1>7, <1>9, <2>3
    <2>5. InHand(stage, enc, 0, << >>, b)
        BY <1>5, <1>6, <1>9, <2>1, <2>2, <2>3, <2>4 DEF InHand
    <2> QED
        BY <1>1, <2>4, <2>5, Continues, Zenon
<1>10. CASE byte >= Group /\ Len(enc) = MaxLength /\ Refuse
    <2>1. ASSUME ReadAt(wire, b).used > 0 PROVE FALSE
        <3>1. PICK u \in 1 .. MaxLength : u = ReadAt(wire, b).used /\ wire[b + u] < Group
            BY <1>4, <1>6, <2>1, ReadStops
        <3>2. b + u \in b + 1 .. taken
            BY <1>3, <1>4, <1>10, <3>1, Sizes
        <3>3. wire[b + u] \in Byte /\ wire[b + u] >= Group
            <4>1. b + u \in 1 .. Len(wire)
                BY <1>4, <3>2
            <4> QED
                BY <1>4, <1>8, <1>10, <3>2, <4>1
        <3> QED
            BY <3>1, <3>3, Sizes DEF Byte
    <2>2. ReadAt(wire, b).used = 0
        <3>1. ReadAt(wire, b).used \in Nat
            BY <1>4, <1>6, RestIs
        <3> QED
            BY <2>1, <3>1
    <2>3. Hopeless
        BY <1>3, <1>4, <1>6, <2>2, BadLength
    <2> QED
        BY <1>10, <2>3, Finishes DEF Refuse
<1>11. ASSUME byte < Group
       PROVE  read(enc) = ReadAt(wire, b)
    <2>1. PICK n \in 1 .. MaxLength : n = taken - b /\ b + n = taken
        <3>1. taken - b \in 1 .. MaxLength /\ b + (taken - b) = taken
            BY <1>3, <1>4, <1>5, Sizes
        <3> QED
            BY <3>1
    <2> QED
        BY <1>3, <1>4, <1>6, <1>11, <2>1, CutReads
<1>12. CASE /\ byte < Group /\ read(enc) # Refused /\ LengthOK(read(enc).value)
            /\ Continue(at, << >>, read(enc).value, << >>)
    <2>1. read(enc) = ReadAt(wire, b)
        BY <1>11, <1>12
    <2>2. ReadAt(wire, b).used > 0
        <3>1. read(enc).used # 0 /\ read(enc).used \in Nat
            BY <1>5, <1>12, ReadType
        <3> QED
            BY <2>1, <3>1
    <2>3. PICK u \in Nat \ {0} : u = ReadAt(wire, b).used
        <3>1. ReadAt(wire, b).used \in 1 .. MaxLength
            BY <1>4, <1>6, <2>2, ReadStops
        <3> QED
            BY <3>1, Sizes
    <2>4. b + u = taken
        <3>1. /\ b + u <= Len(wire) /\ wire[b + u] < Group
              /\ \A k \in b + 1 .. b + u - 1 : wire[k] >= Group
            BY <1>4, <1>6, <2>2, <2>3, ReadStops
        <3>2. wire[taken] \in Nat /\ wire[b + u] \in Nat /\ Group \in Nat
            <4>1. b + u \in 1 .. Len(wire)
                BY <1>4, <2>3, <3>1
            <4> QED
                BY <1>4, <4>1, Sizes DEF Byte
        <3>3. CASE b + u < taken
            <4>1. b + u \in b + 1 .. taken - 1
                BY <1>4, <3>3
            <4> QED
                BY <1>3, <3>1, <3>2, <4>1
        <3>4. CASE b + u > taken
            <4>1. taken \in b + 1 .. b + u - 1
                BY <1>4, <3>4
            <4> QED
                BY <1>4, <1>12, <3>1, <3>2, <4>1
        <3> QED
            BY <1>4, <3>3, <3>4
    <2>5. PICK len \in 1 .. max_packet_bytes : len = read(enc).value
        <3>1. read(enc).value \in 1 .. max_packet_bytes
            <4>1. CASE at = "handshake"
                BY <1>12, <4>1 DEF LengthOK, HandshakeLength,
                   RequestLength, PingLength
            <4>2. CASE at = "request"
                <5>1. read(enc).value = 1
                    BY <1>12, <4>2 DEF LengthOK, HandshakeLength,
                       RequestLength, PingLength
                <5> QED
                    BY <5>1, ProtocolAssumption
            <4>3. CASE at = "ping"
                <5>1. read(enc).value = PingBytes
                    BY <1>12, <4>3 DEF LengthOK, HandshakeLength,
                       RequestLength, PingLength
                <5> QED
                    BY <5>1, ProtocolAssumption
            <4> QED
                BY <1>7, <4>1, <4>2, <4>3
        <3> QED
            BY <3>1
    <2>6. << >> = SubSeq(wire, b + u + 1, taken)
        BY <1>4, <2>4
    <2>7. /\ << >> \in Seq(Byte) /\ Len(<< >>) <= len /\ Len(<< >>) < len /\ len > 0
          /\ len \in 0 .. max_packet_bytes /\ Len(<< >>) < MaxLength
        BY <1>7, <2>5, Sizes
    <2>8. /\ LengthOK(len) /\ Continue(at, << >>, len, << >>)
          /\ ReadAt(wire, b).value = len /\ b + ReadAt(wire, b).used <= taken
          /\ << >> = SubSeq(wire, b + ReadAt(wire, b).used + 1, taken)
        BY <1>4, <1>12, <2>1, <2>3, <2>4, <2>5, <2>6
    <2>9. Parts(b, taken, << >>, len, << >>)
        BY <2>2, <2>7, <2>8 DEF Parts
    <2>10. PICK stage : stage = at
        OBVIOUS
    <2>11. /\ stage \in {"handshake", "request", "ping"} /\ Follows(stage, b)
           /\ Continue(stage, << >>, len, << >>)
        BY <1>3, <1>7, <2>8, <2>10
    <2>12. InHand(stage, << >>, len, << >>, b)
        BY <1>6, <2>7, <2>9, <2>10, <2>11 DEF InHand
    <2> QED
        BY <1>1, <2>11, <2>12, Continues, Zenon
<1>13. CASE byte < Group /\ (read(enc) = Refused \/ ~LengthOK(read(enc).value)) /\ Refuse
    <2>1. read(enc) = ReadAt(wire, b)
        BY <1>11, <1>13
    <2>2. ReadAt(wire, b).used = 0 \/ ~LengthOK(ReadAt(wire, b).value)
        BY <1>13, <2>1 DEF Refused
    <2>3. Hopeless
        BY <1>3, <1>4, <1>6, <2>2, BadLength
    <2> QED
        BY <1>13, <2>3, Finishes DEF Refuse
<1> QED
    BY <1>2, <1>9, <1>10, <1>12, <1>13, Zenon DEF ReadVarInt

\* FillPacket, up to the last byte.
LEMMA FillPacketKeeps == IInv /\ FillPacket => IInv'
<1> SUFFICES ASSUME IInv, FillPacket PROVE IInv'
    OBVIOUS
<1>1. /\ Resumed /\ Len(packet) + 1 < packet_length
      /\ Continue(at, << >>, packet_length, Append(packet, byte))
    BY DEF FillPacket
<1>2. /\ packet_length \in 0 .. max_packet_bytes /\ Len(packet) \in Nat
      /\ packet_length \in Nat /\ packet_length > 0
    BY <1>1, ProtocolAssumption DEF IInv, TypeOK
<1>3. PICK pkt : pkt = Append(packet, byte)
    OBVIOUS
<1>4. PICK b \in 0 .. taken - 1 :
          /\ Follows(at, b)
          /\ ReadAt(wire, b).used > 0 /\ ReadAt(wire, b).value = packet_length
          /\ b + ReadAt(wire, b).used <= taken - 1
          /\ pkt = SubSeq(wire, b + ReadAt(wire, b).used + 1, taken)
    BY <1>1, <1>2, <1>3, Fills
<1>5. pkt \in Seq(Byte) /\ Len(pkt) < packet_length /\ Len(pkt) <= packet_length
    BY <1>1, <1>2, <1>3, Fills
<1>6. LengthOK(packet_length)
    BY <1>1, <1>2, Fills
<1>7. taken \in 1 .. Len(wire) /\ wire \in Seq(Byte) /\ at \in {"handshake", "request", "ping"}
    BY <1>1, ByteIs DEF IInv, TypeOK, Reading
<1>8. b \in 0 .. taken /\ b + ReadAt(wire, b).used <= taken
    <2>1. b \in 0 .. Len(wire)
        BY <1>7
    <2>2. ReadAt(wire, b).used \in Nat
        BY <1>7, <2>1, RestIs
    <2> QED
        BY <1>4, <1>7, <2>2
<1>9. << >> \in Seq(Byte) /\ Len(<< >>) < MaxLength
    BY Sizes
<1>10. Parts(b, taken, << >>, packet_length, pkt)
    BY <1>2, <1>4, <1>5, <1>6, <1>8 DEF Parts
<1>11. PICK stage, len : stage = at /\ len = packet_length
    OBVIOUS
<1>12. /\ stage \in {"handshake", "request", "ping"} /\ Follows(stage, b)
       /\ Continue(stage, << >>, len, pkt) /\ Parts(b, taken, << >>, len, pkt)
       /\ len \in 0 .. max_packet_bytes /\ Len(pkt) <= len
    BY <1>1, <1>2, <1>3, <1>4, <1>5, <1>7, <1>10, <1>11
<1>13. InHand(stage, << >>, len, pkt, b)
    BY <1>5, <1>8, <1>9, <1>11, <1>12 DEF InHand
<1> QED
    BY <1>1, <1>12, <1>13, Continues, Zenon

\* InterceptHandshake, with the handshake packet complete.
LEMMA InterceptHandshakeKeeps == IInv /\ InterceptHandshake => IInv'
<1> SUFFICES ASSUME IInv, InterceptHandshake PROVE IInv'
    OBVIOUS
<1>1. Resumed /\ at = "handshake" /\ Len(packet) + 1 = packet_length
    BY DEF InterceptHandshake
<1>2. PICK p : p = Append(packet, byte)
    OBVIOUS
<1>3. p \in Seq(Byte) /\ taken \in 1 .. Len(wire) /\ wire \in Seq(Byte) /\ Reading
    BY <1>1, <1>2, Completes DEF IInv, TypeOK, Reading
<1>4. Follows(at, 0) /\ PacketIn(0, taken) # << >> /\ PacketIn(0, taken) = p
    <2>1. PICK b \in 0 .. taken - 1 :
              /\ Follows(at, b) /\ PacketIn(b, taken) # << >>
              /\ PacketIn(b, taken) = Append(packet, byte)
        BY <1>1, Completes
    <2>2. b = 0
        BY <1>1, <2>1 DEF Follows
    <2> QED
        BY <1>2, <2>1, <2>2
<1>5. CASE parse_handshake(p) = Malformed /\ Refuse
    <2>1. ~Wanted(at, p)
        BY <1>1, <1>5 DEF Wanted
    <2>2. 0 \in 0 .. Len(wire) /\ taken \in 0 .. Len(wire)
        BY <1>3
    <2>3. Hopeless
        BY <1>3, <1>4, <2>1, <2>2, BadPacket
    <2> QED
        BY <1>5, <2>3, Finishes DEF Refuse
<1>6. CASE parse_handshake(p).next_state = 1 /\ Continue("request", << >>, 0, << >>)
    <2>1. PICK n : n = taken
        OBVIOUS
    <2>2. Follows("request", n)
        BY <1>4, <1>6, <2>1 DEF Follows, HandshakeAt
    <2>3. Parts(n, taken, << >>, 0, << >>)
        <3>1. << >> = SubSeq(wire, n + 1, taken) /\ \A k \in n + 1 .. taken : wire[k] >= Group
            BY <1>3, <2>1
        <3> QED
            BY <3>1 DEF Parts
    <2>4. n \in 0 .. taken /\ << >> \in Seq(Byte) /\ Len(<< >>) <= 0
        BY <1>3, <2>1
    <2>5. 0 \in 0 .. max_packet_bytes /\ Len(<< >>) < MaxLength
        BY ProtocolAssumption, Sizes
    <2>6. InHand("request", << >>, 0, << >>, n)
        BY <1>1, <2>2, <2>3, <2>4, <2>5 DEF InHand
    <2> QED
        BY <1>1, <1>6, <2>6, Continues, Zenon
<1>7. CASE /\ parse_handshake(p).next_state = 2
           /\ InterceptHandshake
           /\ IF \/ serialize_handshake(Rewritten(parse_handshake(p))) = << >>
                 \/ Len(serialize_handshake(Rewritten(parse_handshake(p)))) > BufferSize
              THEN Refuse
              ELSE /\ server_buffer' = serialize_handshake(Rewritten(parse_handshake(p)))
                   /\ read_pos' = read_pos + 1
                   /\ at' = "returned" /\ io' = "idle" /\ result' = "login"
                   /\ UNCHANGED <<wire, taken, buffer, write_pos, reader, replies>>
    <2>1. PICK frame : frame = serialize_handshake(Rewritten(parse_handshake(p)))
        OBVIOUS
    <2>2. parse_handshake(p) # Malformed
        <3>1. Malformed.next_state = 0
            BY DEF Malformed
        <3> QED
            BY <1>7, <3>1
    <2>3. /\ frame \in Seq(Byte) /\ frame # << >> /\ Len(frame) <= BufferSize
          /\ Carries(frame, Behind(frame))
          /\ parse_handshake(Behind(frame)) = Rewritten(parse_handshake(p))
        BY <1>3, <2>1, <2>2, LoginIs
    <2>4. ~(frame = << >> \/ Len(frame) > BufferSize)
        BY <2>3, ReaderAssumption
    <2>5. /\ server_buffer' = frame /\ read_pos' = read_pos + 1
          /\ at' = "returned" /\ io' = "idle" /\ result' = "login"
          /\ wire' = wire /\ taken' = taken /\ buffer' = buffer /\ write_pos' = write_pos
          /\ encoded' = encoded /\ packet_length' = packet_length /\ packet' = packet
          /\ replies' = replies
        BY <1>7, <2>1, <2>4 DEF reader
    <2>6. TypeOK'
        <3>1. read_pos + 1 \in 0 .. buf_size
            BY <1>1 DEF IInv, TypeOK, Positions
        <3> QED
            BY <2>3, <2>5, <3>1 DEF IInv, TypeOK
    <2>7. Positions' /\ Awaits' /\ Stages'
        BY <2>5 DEF Positions, Awaits, Stages, Reading, Resumed
    <2>8. Replies'
        BY <1>1, <2>5 DEF IInv, Replies, StatusPayload, Carries, Behind
    <2>9. PacketIn(0, taken)' = p /\ p # << >>
        BY <1>4, <2>5 DEF PacketIn
    <2>10. OutcomeRight'
        BY <1>7, <2>5, <2>9 DEF OutcomeRight, HandshakeAt
    <2>11. RewriteRight'
        <3>1. parse_handshake(Behind(frame)) =
                  [parse_handshake(p) EXCEPT !.address = Host, !.port = Port]
            BY <2>3, Zenon DEF Rewritten
        <3>2. Behind(server_buffer)' = Behind(frame)
            BY <2>5 DEF Behind
        <3>3. Carries(server_buffer, Behind(server_buffer))'
            BY <2>3, <2>5, <3>2 DEF Carries, Behind
        <3> QED
            BY <2>3, <2>5, <2>9, <3>1, <3>2, <3>3 DEF RewriteRight
    <2>12. DumpFails'
        BY <2>5 DEF DumpFails
    <2> QED
        BY <2>6, <2>7, <2>8, <2>10, <2>11, <2>12 DEF IInv
<1> QED
    BY <1>2, <1>5, <1>6, <1>7, Zenon DEF InterceptHandshake

\* This is the reply that is due.
Due(label, frame) ==
    /\ frame \in Seq(Byte)
    /\ \/ /\ at = "request" /\ label = "response" /\ Follows("ping", taken)
          /\ frame = write(MaxLength, Len(StatusPayload)) \o StatusPayload
       \/ /\ at = "ping" /\ label = "pong" /\ StatusExchange(taken)
          /\ Carries(frame, SubSeq(wire, taken - PingBytes + 1, taken))

\* It is written.
LEMMA ReplyKeeps ==
    ASSUME IInv, Resumed, NEW label, NEW frame, Due(label, frame), Reply(label, frame)
    PROVE  IInv'
<1>1. /\ at' = label /\ io' = "pending" /\ read_pos' = read_pos + 1
      /\ replies' = Append(replies, frame)
      /\ encoded' = << >> /\ packet_length' = 0 /\ packet' = << >>
      /\ wire' = wire /\ taken' = taken /\ buffer' = buffer /\ write_pos' = write_pos
      /\ server_buffer' = server_buffer /\ result' = result
    BY DEF Reply
<1>2. /\ label \in {"response", "pong"} /\ frame \in Seq(Byte)
      /\ label = "response" => at = "request" /\ Follows("ping", taken)
      /\ label = "pong" => at = "ping" /\ StatusExchange(taken)
    BY DEF Due
<1>3. write_pos = read_pos + 1 /\ result = "none"
    BY DEF IInv, Positions, Awaits, Resumed
<1>4. TypeOK'
    <2>1. read_pos + 1 \in 0 .. buf_size
        BY <1>3 DEF IInv, TypeOK
    <2>2. << >> \in Seq(Byte) /\ Len(<< >>) < MaxLength /\ 0 \in 0 .. max_packet_bytes
        BY ProtocolAssumption, Sizes
    <2>3. replies' \in Seq(Seq(Byte))
        BY <1>1, <1>2 DEF IInv, TypeOK
    <2> QED
        BY <1>1, <1>2, <2>1, <2>2, <2>3 DEF IInv, TypeOK
<1>5. Positions' /\ Awaits'
    BY <1>1, <1>2, <1>3 DEF Positions, Awaits, Reading, Resumed
<1>6. Stages'
    <2>1. Follows("ping", taken)' = Follows("ping", taken)
        BY <1>1 DEF Follows, HandshakeAt, PacketIn
    <2>2. StatusExchange(taken)' = StatusExchange(taken)
        BY <1>1 DEF StatusExchange, HandshakeAt, PacketIn
    <2> QED
        BY <1>1, <1>2, <2>1, <2>2 DEF Stages, Reading
<1>7. Replies'
    <2>1. StatusPayload' = StatusPayload
        BY DEF StatusPayload
    <2>2. replies \in Seq(Seq(Byte))
        BY DEF IInv, TypeOK
    <2>3. CASE label = "response"
        <3>1. Len(replies) = 0 /\ at = "request"
            BY <1>2, <2>3 DEF IInv, Replies
        <3>2. Len(replies') = 1 /\ replies'[1] = frame
            BY <1>1, <1>2, <2>2, <3>1
        <3>3. frame = write(MaxLength, Len(StatusPayload)) \o StatusPayload
            BY <3>1 DEF Due
        <3> QED
            BY <1>1, <2>1, <2>3, <3>2, <3>3 DEF Replies
    <2>4. CASE label = "pong"
        <3>1. Len(replies) = 1 /\ at = "ping"
            BY <1>2, <2>4 DEF IInv, Replies
        <3>2. Len(replies') = 2 /\ replies'[1] = replies[1] /\ replies'[2] = frame
            <4>1. PICK before, after : before = replies /\ after = replies'
                OBVIOUS
            <4>2. before \in Seq(Seq(Byte)) /\ Len(before) = 1 /\ after = Append(before, frame)
                BY <1>1, <2>2, <3>1, <4>1
            <4>3. Len(after) = 2 /\ after[1] = before[1] /\ after[2] = frame
                BY <1>2, <4>2, SecondReply
            <4> QED
                BY <4>1, <4>3
        <3>3. replies[1] = write(MaxLength, Len(StatusPayload)) \o StatusPayload
            BY <3>1 DEF IInv, Replies
        <3>4. Carries(frame, SubSeq(wire, taken - PingBytes + 1, taken))
            BY <3>1 DEF Due
        <3>5. Carries(replies[2], SubSeq(wire, taken - PingBytes + 1, taken))'
            BY <1>1, <3>2, <3>4 DEF Carries, Behind
        <3> QED
            BY <1>1, <2>1, <2>4, <3>2, <3>3, <3>5 DEF Replies
    <2> QED
        BY <1>2, <2>3, <2>4
<1>8. OutcomeRight' /\ RewriteRight' /\ DumpFails'
    BY <1>1, <1>3 DEF OutcomeRight, RewriteRight, DumpFails
<1> QED
    BY <1>4, <1>5, <1>6, <1>7, <1>8 DEF IInv

\* WriteCustomStatusRequest, with the request or the ping complete.
LEMMA WriteCustomStatusRequestKeeps == IInv /\ WriteCustomStatusRequest => IInv'
<1> SUFFICES ASSUME IInv, WriteCustomStatusRequest PROVE IInv'
    OBVIOUS
<1>1. PICK p : p = Append(packet, byte)
    OBVIOUS
<1>2. Resumed /\ Len(packet) + 1 = packet_length
    <2>1. Resumed /\ Len(p) = packet_length
        BY <1>1, Zenon DEF WriteCustomStatusRequest
    <2>2. Len(p) = Len(packet) + 1
        BY <1>1 DEF IInv, TypeOK
    <2> QED
        BY <2>1, <2>2
<1>3. /\ p \in Seq(Byte) /\ Len(p) = packet_length /\ LengthOK(packet_length)
      /\ taken \in 1 .. Len(wire) /\ wire \in Seq(Byte) /\ Reading
    BY <1>1, <1>2, Completes, ByteIs DEF IInv, TypeOK
<1>4. PICK b \in 0 .. taken - 1 :
          /\ Follows(at, b) /\ PacketIn(b, taken) # << >> /\ PacketIn(b, taken) = p
          /\ p = SubSeq(wire, (taken - packet_length) + 1, taken)
    BY <1>1, <1>2, Completes
<1>5. b \in 0 .. Len(wire) /\ taken \in b .. Len(wire) /\ b \in 0 .. taken
    BY <1>3
<1>6. ASSUME ~Wanted(at, p), Refuse
      PROVE  IInv'
    <2>1. Hopeless
        BY <1>3, <1>4, <1>5, <1>6, BadPacket
    <2> QED
        BY <1>6, <2>1, Finishes DEF Refuse
<1>7. CASE at = "request" /\ p[1] # 0 /\ Refuse
    <2>1. <<0>>[1] = 0
        OBVIOUS
    <2>2. ~Wanted(at, p)
        BY <1>7, <2>1 DEF Wanted
    <2> QED
        BY <1>6, <1>7, <2>2
<1>8. CASE at = "ping" /\ p[1] # 1 /\ Refuse
    <2>1. ~Wanted(at, p)
        BY <1>8 DEF Wanted
    <2> QED
        BY <1>6, <1>8, <2>1
<1>9. ASSUME at = "request", p[1] = 0
      PROVE  Follows("ping", taken)
    <2>1. Len(p) = 1
        BY <1>3, <1>9 DEF LengthOK, HandshakeLength,
           RequestLength, PingLength
    <2>2. p = <<0>>
        BY <1>3, <1>9, <2>1
    <2>3. HandshakeAt(b, 1)
        BY <1>4, <1>9 DEF Follows
    <2> QED
        BY <1>4, <1>5, <2>2, <2>3 DEF Follows
<1>10. CASE /\ at = "request" /\ p[1] = 0 /\ FALSE \in Utf8
            /\ Finish("undumped") /\ UNCHANGED server_buffer
    BY <1>9, <1>10, Finishes
<1>11. CASE /\ at = "request" /\ p[1] = 0
            /\ Reply("response", write(MaxLength, Len(StatusPayload)) \o StatusPayload)
    <2>1. PICK frame : frame = write(MaxLength, Len(StatusPayload)) \o StatusPayload
        OBVIOUS
    <2>2. frame \in Seq(Byte)
        BY <2>1, StatusIs, FrameCarries
    <2>3. Due("response", frame)
        BY <1>9, <1>11, <2>1, <2>2 DEF Due
    <2> QED
        BY <1>2, <1>11, <2>1, <2>3, ReplyKeeps, Zenon
<1>12. CASE at = "ping" /\ p[1] = 1 /\ Reply("pong", pong_response(p))
    <2>1. PICK frame : frame = pong_response(p)
        OBVIOUS
    <2>2. Len(p) = PingBytes /\ packet_length = PingBytes
        BY <1>3, <1>12 DEF LengthOK, HandshakeLength,
           RequestLength, PingLength
    <2>3. frame = write(MaxLength, Len(p)) \o p
        <3>1. ~(Len(p) > Int32Max)
            BY <2>2, ProtocolAssumption, LargestIsValue
        <3>2. ~(Len(p) # PingBytes \/ p[1] # 1)
            BY <1>12, <2>2
        <3> QED
            BY <2>1, <3>1, <3>2, Zenon DEF pong_response, frame_packet
    <2>4. Len(p) \in Value
        BY <2>2, PingIsValue
    <2>5. frame \in Seq(Byte) /\ Carries(frame, p)
        BY <1>3, <2>3, <2>4, FrameCarries
    <2>6. Carries(frame, SubSeq(wire, taken - PingBytes + 1, taken))
        BY <1>4, <2>2, <2>5
    <2>7. PICK i \in 0 .. b : HandshakeAt(i, 1) /\ PacketIn(i, b) = <<0>>
        BY <1>4, <1>12 DEF Follows
    <2>8. 0 < i /\ i < b
        <3>1. PacketIn(0, i) # << >> /\ i \in 0 .. Len(wire) /\ 0 \in 0 .. Len(wire)
            BY <1>3, <2>7 DEF HandshakeAt
        <3>2. 0 < i
            <4>1. /\ ReadAt(wire, 0).used > 0 /\ ReadAt(wire, 0).value > 0
                  /\ i = 0 + ReadAt(wire, 0).used + ReadAt(wire, 0).value
                BY <1>3, <3>1, FrameIs
            <4>2. ReadAt(wire, 0).used \in Nat /\ ReadAt(wire, 0).value \in Nat
                BY <1>3, <3>1, ReadAtType
            <4> QED
                BY <4>1, <4>2
        <3>3. PacketIn(i, b) # << >> /\ b \in i .. Len(wire)
            <4>1. <<0>> # << >>
                OBVIOUS
            <4> QED
                BY <1>5, <2>7, <4>1
        <3>4. /\ ReadAt(wire, i).used > 0 /\ ReadAt(wire, i).value > 0
              /\ b = i + ReadAt(wire, i).used + ReadAt(wire, i).value
            BY <1>3, <3>1, <3>3, FrameIs
        <3>5. ReadAt(wire, i).used \in Nat /\ ReadAt(wire, i).value \in Nat
            BY <1>3, <3>1, ReadAtType
        <3> QED
            BY <3>2, <3>4, <3>5
    <2>9. i \in 1 .. taken /\ b \in 1 .. taken
        BY <1>3, <2>8
    <2>10. StatusExchange(taken)
        BY <1>4, <1>12, <2>2, <2>7, <2>8, <2>9 DEF StatusExchange
    <2>11. Due("pong", frame)
        BY <1>12, <2>5, <2>6, <2>10 DEF Due
    <2> QED
        BY <1>2, <1>12, <2>1, <2>11, ReplyKeeps, Zenon
<1> QED
    BY <1>1, <1>7, <1>8, <1>10, <1>11, <1>12, Zenon DEF WriteCustomStatusRequest

\* A reply has been written.
LEMMA RepliedKeeps == IInv /\ Replied => IInv'
<1> SUFFICES ASSUME IInv, Replied PROVE IInv'
    OBVIOUS
<1>1. CASE /\ at = "response" /\ at' = "ping" /\ CurrentByte(read_pos)
           /\ UNCHANGED <<wire, taken, buffer, reader, replies, server_buffer, result>>
    BY <1>1, Enters
<1>2. CASE at = "pong" /\ Finish("answered") /\ UNCHANGED server_buffer
    <2>1. StatusExchange(taken)
        BY <1>2 DEF IInv, Stages
    <2> QED
        BY <1>2, <2>1, Finishes
<1> QED
    BY <1>1, <1>2 DEF Replied

\* The read of BlockRead completes.
LEMMA ReceiveByteKeeps == IInv /\ ReceiveByte => IInv'
<1> SUFFICES ASSUME IInv, ReceiveByte PROVE IInv'
    OBVIOUS
<1>1. io = "pending" /\ Reading /\ ~Resumed
    BY DEF ReceiveByte, Reading, Resumed
<1>2. PICK n \in 1 .. BytesAsked :
          /\ taken + n <= Len(wire)
          /\ buffer' = [i \in DOMAIN buffer |->
                           IF i \in write_pos .. write_pos + n - 1
                           THEN wire[taken + i - write_pos + 1] ELSE buffer[i]]
          /\ taken' = taken + n
          /\ write_pos' = write_pos + n
    BY DEF ReceiveByte
<1>3. n = 1
    BY DEF BytesAsked
<1>4. /\ io' = "ok" /\ wire' = wire /\ at' = at /\ read_pos' = read_pos
      /\ encoded' = encoded /\ packet_length' = packet_length /\ packet' = packet
      /\ replies' = replies /\ server_buffer' = server_buffer /\ result' = result
    BY DEF ReceiveByte, reader
<1>5. /\ wire \in Seq(Byte) /\ taken \in Nat /\ taken + 1 \in 1 .. Len(wire)
      /\ buffer \in [0 .. buf_size - 1 -> Byte] /\ write_pos \in 0 .. buf_size
      /\ buf_size \in Nat
    BY <1>2, <1>3, ReaderAssumption DEF IInv, TypeOK
<1>6. read_pos = write_pos /\ write_pos < buf_size /\ result = "none" /\ at # "returned"
    BY <1>1 DEF IInv, Positions, Awaits, Reading
<1>7. buffer' = [i \in 0 .. buf_size - 1 |->
                    IF i = write_pos THEN wire[taken + 1] ELSE buffer[i]]
    <2>1. \A i \in 0 .. buf_size - 1 : i \in write_pos .. write_pos + n - 1 <=> i = write_pos
        BY <1>3, <1>5
    <2>2. taken + write_pos - write_pos + 1 = taken + 1 /\ DOMAIN buffer = 0 .. buf_size - 1
        BY <1>5
    <2> QED
        BY <1>2, <2>1, <2>2
<1>8. TypeOK'
    <2>1. buffer' \in [0 .. buf_size - 1 -> Byte]
        <3>1. wire[taken + 1] \in Byte
            BY <1>5
        <3> QED
            BY <1>5, <1>7, <3>1
    <2>2. taken' \in 0 .. Len(wire) /\ write_pos' \in 0 .. buf_size
        BY <1>2, <1>3, <1>5, <1>6
    <2> QED
        BY <1>4, <2>1, <2>2 DEF IInv, TypeOK
<1>9. Positions' /\ Awaits'
    <2>1. buffer'[read_pos'] = wire'[taken']
        BY <1>2, <1>3, <1>4, <1>5, <1>6, <1>7
    <2>2. write_pos' = read_pos' + 1 /\ taken' >= 1
        BY <1>2, <1>3, <1>4, <1>5, <1>6
    <2> QED
        BY <1>1, <1>4, <1>6, <2>1, <2>2 DEF Positions, Awaits, Reading, Resumed, byte
<1>10. Stages'
    <2>1. Done' = taken /\ Done = taken
        BY <1>1, <1>2, <1>3, <1>4, <1>5 DEF Done, Resumed, Reading
    <2>2. PICK b \in 0 .. taken : Follows(at, b) /\ Assembled(b)
        BY <1>1, <2>1 DEF IInv, Stages
    <2>3. Follows(at, b)'
        BY <1>4, <2>2 DEF Follows, HandshakeAt, PacketIn
    <2>4. Assembled(b)'
        <3>1. Parts(b, taken, encoded, packet_length, packet)
            BY <2>1, <2>2 DEF Assembled
        <3> QED
            BY <1>4, <2>1, <3>1 DEF Assembled, Parts, LengthOK, HandshakeLength,
               RequestLength, PingLength, ReadAt, Rest
    <2>5. \E c \in 0 .. Done' : Follows(at, c)' /\ Assembled(c)'
        BY <2>1, <2>2, <2>3, <2>4
    <2> QED
        BY <1>1, <1>4, <2>5 DEF Stages, Reading
<1>11. Replies'
    <2>1. Len(replies) \in {0, 1}
        BY <1>1 DEF IInv, Replies, Reading
    <2>2. replies' = replies /\ at' = at /\ Len(replies)' = Len(replies)
        BY <1>4
    <2>3. StatusPayload' = StatusPayload
        BY Zenon DEF StatusPayload
    <2>4. /\ at \in {"spawned", "handshake", "request"} => Len(replies) = 0
          /\ at \in {"response", "ping"} => Len(replies) = 1
          /\ Len(replies) >= 1 =>
                 replies[1] = write(MaxLength, Len(StatusPayload)) \o StatusPayload
        BY Zenon DEF IInv, Replies
    <2>5. Len(replies) # 2
        BY <2>1
    <2> QED
        BY <2>2, <2>3, <2>4, <2>5, Zenon DEF Replies
<1>12. OutcomeRight' /\ RewriteRight' /\ DumpFails'
    BY <1>4, <1>6 DEF OutcomeRight, RewriteRight, DumpFails
<1> QED
    BY <1>8, <1>9, <1>10, <1>11, <1>12 DEF IInv

\* Nothing but the state of the operation changes, or nothing at all.
LEMMA RestKeeps ==
    ASSUME IInv, io' = io \/ (io = "pending" /\ (io' = "error" \/ (io' = "ok" /\ ~Reading))),
           UNCHANGED <<wire, taken, at, buffer, read_pos, write_pos, reader, replies,
                       server_buffer, result>>
    PROVE  IInv'
<1>1. /\ wire' = wire /\ taken' = taken /\ at' = at /\ buffer' = buffer
      /\ read_pos' = read_pos /\ write_pos' = write_pos
      /\ encoded' = encoded /\ packet_length' = packet_length /\ packet' = packet
      /\ replies' = replies /\ server_buffer' = server_buffer /\ result' = result
    BY DEF reader
<1>2. Resumed' = Resumed /\ Reading' = Reading
    BY <1>1 DEF Resumed, Reading
<1>3. TypeOK'
    BY <1>1 DEF IInv, TypeOK
<1>4. Positions' /\ Awaits'
    <2>1. byte' = byte
        BY <1>1 DEF byte
    <2>2. io' = "pending" => io = "pending"
        OBVIOUS
    <2>3. io' = "idle" <=> io = "idle"
        OBVIOUS
    <2>4. Positions'
        BY <1>1, <1>2, <2>1, <2>2 DEF IInv, Positions
    <2>5. Awaits'
        BY <1>1, <2>3 DEF IInv, Awaits
    <2> QED
        BY <2>4, <2>5
<1>5. Stages'
    <2>1. Done' = Done
        BY <1>1, <1>2 DEF Done
    <2>2. \A b : Follows(at, b)' = Follows(at, b)
        BY <1>1 DEF Follows, HandshakeAt, PacketIn
    <2>3. \A b : Assembled(b)' = Assembled(b)
        BY <1>1, <2>1 DEF Assembled, Parts, LengthOK, HandshakeLength,
           RequestLength, PingLength, ReadAt, Rest
    <2>4. Follows("ping", taken)' = Follows("ping", taken)
        BY <1>1 DEF Follows, HandshakeAt, PacketIn
    <2>5. StatusExchange(taken)' = StatusExchange(taken)
        BY <1>1 DEF StatusExchange, HandshakeAt, PacketIn
    <2>6. Reading => \E b \in 0 .. Done' : Follows(at, b)' /\ Assembled(b)'
        BY <2>1, <2>2, <2>3 DEF IInv, Stages
    <2> QED
        BY <1>1, <1>2, <2>4, <2>5, <2>6 DEF IInv, Stages
<1>6. Replies'
    BY <1>1 DEF IInv, Replies, StatusPayload, Carries, Behind
<1>7. OutcomeRight'
    <2>1. HandshakeAt(taken, 2)' = HandshakeAt(taken, 2)
        BY <1>1 DEF HandshakeAt, PacketIn
    <2>2. StatusExchange(taken)' = StatusExchange(taken)
        BY <1>1 DEF StatusExchange, HandshakeAt, PacketIn
    <2>3. Hopeless' = Hopeless
        BY <1>1, SameWire
    <2>4. StatusRequest(taken)' = StatusRequest(taken)
        BY <1>1 DEF StatusRequest, HandshakeAt, PacketIn
    <2> QED
        BY <1>1, <2>1, <2>2, <2>3, <2>4 DEF IInv, OutcomeRight, Hopeless
<1>8. RewriteRight'
    BY <1>1 DEF IInv, RewriteRight, PacketIn, Carries, Behind
<1>9. DumpFails'
    BY <1>1 DEF IInv, DumpFails
<1> QED
    BY <1>3, <1>4, <1>5, <1>6, <1>7, <1>8, <1>9 DEF IInv

\* A reply is sent.
LEMMA SendReplyKeeps == IInv /\ SendReply => IInv'
BY RestKeeps DEF SendReply, Reading

\* An operation fails.
LEMMA FailKeeps == IInv /\ Fail => IInv'
BY RestKeeps DEF Fail

\* No step breaks the invariant.
LEMMA NextKeeps == IInv /\ [Next]_vars => IInv'
<1> SUFFICES ASSUME IInv, [Next]_vars PROVE IInv'
    OBVIOUS
<1>1. CASE UNCHANGED vars
    BY <1>1, RestKeeps DEF vars
<1>2. CASE Next
    BY <1>2, StartKeeps, ThrowsKeeps, ReadVarIntKeeps, FillPacketKeeps,
       InterceptHandshakeKeeps, WriteCustomStatusRequestKeeps, RepliedKeeps,
       ReceiveByteKeeps, SendReplyKeeps, FailKeeps DEF Next
<1> QED
    BY <1>1, <1>2

-----------------------------------------------------------------------------
(* What follows for every stream, buffer size and configuration.           *)

\* The invariant holds in every state of the reader.
THEOREM Invariance == Spec => []IInv
BY Initial, NextKeeps, PTL DEF Spec

\* The reader's variables have their types: its positions stay within its buffer,
\* a VarInt in five bytes and a packet in the vector made for it.
THEOREM TypeCorrect == Spec => []TypeOK
<1>1. IInv => TypeOK
    BY DEF IInv
<1> QED
    BY <1>1, Invariance, PTL

\* BlockRead always has room, at the place of the byte that is wanted next.
THEOREM ReadsHaveRoom == Spec => []ReadHasRoom
<1>1. IInv => ReadHasRoom
    <2> SUFFICES ASSUME IInv, io = "pending", Reading
                 PROVE  read_pos = write_pos /\ write_pos + BytesAsked <= buf_size
        BY DEF ReadHasRoom, Reading
    <2> QED
        BY ReaderAssumption DEF IInv, TypeOK, Positions, BytesAsked
<1> QED
    BY <1>1, Invariance, PTL

\* The exchange comes out as the bytes on the wire say, or fails because the
\* status has a text that is not UTF-8.
THEOREM OutcomeIsRight == Spec => []OutcomeRight
<1>1. IInv => OutcomeRight
    BY DEF IInv
<1> QED
    BY <1>1, Invariance, PTL

\* If the configured texts are UTF-8, every client that sends a status exchange
\* is answered unless its connection fails: that parse_config does not look at
\* the texts is the only reason why the code does not keep StatusAnswered.
THEOREM StatusIsAnswered ==
    ASSUME FALSE \notin Utf8
    PROVE  Spec => []StatusAnswered
<1>1. IInv => StatusAnswered
    <2> SUFFICES ASSUME IInv PROVE StatusAnswered
        OBVIOUS
    <2>1. result # "undumped"
        BY DEF IInv, DumpFails
    <2>2. result = "refused" => \A k \in 1 .. Len(wire) : ~StatusExchange(k)
        BY DEF IInv, OutcomeRight
    <2> QED
        BY <2>1, <2>2 DEF StatusAnswered
<1> QED
    BY <1>1, Invariance, PTL

\* Upstream finds the client's own handshake, with the configured host and port.
THEOREM LoginIsRewritten == Spec => []RewriteRight
<1>1. IInv => RewriteRight
    BY DEF IInv
<1> QED
    BY <1>1, Invariance, PTL

\* The client finds the status text in the first reply, its own ping in the second.
THEOREM RepliesAreReadable == Spec => []RepliesReadable
<1>1. IInv => RepliesReadable
    <2> SUFFICES ASSUME IInv PROVE RepliesReadable
        OBVIOUS
    <2>1. ASSUME Len(replies) >= 1, NEW text,
                 text = SubSeq(replies[1], read(replies[1]).used + 2, Len(replies[1]))
          PROVE  Carries(replies[1], <<0>> \o text) /\ Carries(text, StatusText)
        <3>1. PICK f : /\ f = replies[1]
                       /\ f = write(MaxLength, Len(StatusPayload)) \o StatusPayload
            BY <2>1 DEF IInv, Replies
        <3>2. f \in Seq(Byte) /\ Carries(f, StatusPayload) /\ Behind(f) = StatusPayload
            BY <3>1, StatusIs, FrameCarries
        <3>3. text = Status
            <4>1. PICK u \in Nat : u = read(f).used
                BY <3>2, ReadType
            <4>2. <<0>> \o Status = SubSeq(f, u + 1, Len(f))
                BY <3>2, <4>1, StatusIs DEF Behind
            <4>3. text = SubSeq(f, u + 2, Len(f))
                BY <2>1, <3>1, <4>1
            <4>4. 0 \in Byte
                BY Sizes DEF Byte
            <4> QED
                BY <3>2, <4>2, <4>3, <4>4, StatusIs, TextBehind
        <3> QED
            BY <3>1, <3>2, <3>3, StatusIs
    <2>2. Len(replies) = 2 => Carries(replies[2], SubSeq(wire, taken - PingBytes + 1, taken))
        BY DEF IInv, Replies
    <2> QED
        BY <2>1, <2>2, Zenon DEF RepliesReadable
<1> QED
    BY <1>1, Invariance, PTL

=============================================================================
