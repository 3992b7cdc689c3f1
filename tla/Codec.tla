------------------------------- MODULE Codec --------------------------------
(***************************************************************************)
(* The codecs against what encodings and handshakes mean, over a set of    *)
(* packets and all their prefixes.                                         *)
(***************************************************************************)
EXTENDS Protocol

CONSTANTS Packets,  \* whole packets to try
          Hosts     \* addresses to put into them

ASSUME CodecAssumption == Packets \subseteq Seq(Byte) /\ Hosts \subseteq Seq(Byte)

VARIABLE packet

Init == packet \in Packets
Next == packet # << >> /\ packet' = Front(packet)
Spec == Init /\ [][Next]_packet

\* The number that the first n bytes stand for, of any size.
Meaning(bytes) ==
    LET sum[n \in 0 .. Len(bytes)] ==
            IF n = 0 THEN 0
            ELSE sum[n - 1] + (bytes[n] % Group) * 2 ^ (GroupBits * (n - 1))
    IN  sum

\* The n bytes the first of which to clear its flag is the last.
Ends(n) == n <= Len(packet) /\ packet[n] < Group /\ \A i \in 1 .. n - 1 : packet[i] >= Group

(***************************************************************************)
(* varint::read returns the number its input stands for and how many bytes *)
(* it took, whatever follows them, for exactly the inputs that end in time *)
(* and whose number has at most 32 bits: nothing wraps, nothing is read    *)
(* beyond the input, and an incomplete, overlong or overflowing one is     *)
(* refused (VarInt.hpp: "Decoding throws invalid_argument for incomplete,  *)
(* overlong, or overflowing input").                                       *)
(***************************************************************************)
ReadMeansValue ==
    LET good == {n \in 1 .. MaxLength : Ends(n) /\ Meaning(packet)[n] \in Value}
    IN  IF good = {} THEN read(packet) = Refused
        ELSE \A n \in good : read(packet) = [used |-> n, value |-> Meaning(packet)[n]]

(***************************************************************************)
(* varint::write is all or nothing and read's inverse: into any            *)
(* destination it either writes nothing, because the destination is too    *)
(* small, or an encoding that read takes back to the value, and no         *)
(* accepted encoding of the value is shorter.                              *)
(***************************************************************************)
WriteReadsBack ==
    LET r == read(packet)
    IN  r # Refused =>
            \A capacity \in 0 .. MaxLength :
                LET out == write(capacity, r.value)
                IN  IF capacity < r.used /\ out = << >>
                    THEN write(r.used, r.value) # << >>
                    ELSE /\ read(out) = [used |-> Len(out), value |-> r.value]
                         /\ Len(out) <= r.used

-----------------------------------------------------------------------------
\* These bytes are one VarInt and nothing else.
IsField(bytes) == bytes # << >> /\ read(bytes).used = Len(bytes)
Slice(from, to) == SubSeq(packet, from + 1, to)

\* Where a VarInt that begins behind this place may end.
FieldEnds(from) == {to \in from + 1 .. Len(packet) : IsField(Slice(from, to))}

\* The packet is a handshake and nothing else if its ID ends at id, its protocol
\* at proto, the length of its address at len and its address at addr.
IsHandshake(id, proto, len, addr) ==
    /\ Len(packet) <= max_packet_bytes
    /\ read(Slice(0, id)).value = 0
    /\ read(Slice(proto, len)).value = addr - len /\ ValidAddress(Slice(len, addr))
    /\ Len(packet) \in FieldEnds(addr + 2)
    /\ read(Slice(addr + 2, Len(packet))).value \in {1, 2}

\* What its fields say then.
FieldsAt(id, proto, len, addr) ==
    [protocol |-> read(Slice(id, proto)).value,
     address |-> Slice(len, addr),
     port |-> packet[addr + 1] * 2 * Group + packet[addr + 2],
     next_state |-> read(Slice(addr + 2, Len(packet))).value]

(***************************************************************************)
(* parse_handshake returns the fields of every packet that is nothing but  *)
(* the five fields of a handshake, for some place where each of them ends, *)
(* and refuses all others: no field is read past the packet's end, an      *)
(* address length that lies is refused, and so is anything before or after *)
(* the fields.                                                             *)
(***************************************************************************)
ParsesHandshakes ==
    /\ \A id \in FieldEnds(0) : \A proto \in FieldEnds(id) :
           \A len \in FieldEnds(proto), addr \in 0 .. Len(packet) :
               IsHandshake(id, proto, len, addr) =>
                   parse_handshake(packet) = FieldsAt(id, proto, len, addr)
    /\ parse_handshake(packet) # Malformed =>
           \E id \in FieldEnds(0) : \E proto \in FieldEnds(id) :
               \E len \in FieldEnds(proto), addr \in 0 .. Len(packet) :
                   IsHandshake(id, proto, len, addr)

\* The payload of a frame, if the frame is nothing but its length and that.
Unframed(frame) == SubSeq(frame, read(frame).used + 1, Len(frame))
Framed(frame) == frame # << >> /\ read(frame).value = Len(Unframed(frame))

(***************************************************************************)
(* A login handshake is rewritten with the configured host and sent to     *)
(* upstream: what upstream finds in the frame is the client's handshake    *)
(* with the new address, whatever lengths the two addresses and the        *)
(* encodings had.  A host that is not valid is refused.                    *)
(***************************************************************************)
RewriteReadsBack ==
    \A host \in Hosts :
        LET handshake == parse_handshake(packet)
            rewritten == [handshake EXCEPT !.address = host]
            frame == serialize_handshake(rewritten)
        IN  handshake # Malformed =>
                IF ~ValidAddress(host) THEN frame = << >>
                ELSE Framed(frame) /\ parse_handshake(Unframed(frame)) = rewritten

(***************************************************************************)
(* The rewritten handshake is never larger than LargestFrame, 268 bytes,   *)
(* so it fits the session's buffer of 4096 bytes and the length_error of   *)
(* InterceptHandshake is never thrown.                                     *)
(***************************************************************************)
RewriteFits ==
    \A host \in Hosts :
        LET handshake == parse_handshake(packet)
        IN  handshake # Malformed =>
                Len(serialize_handshake([handshake EXCEPT !.address = host])) <= LargestFrame
=============================================================================
