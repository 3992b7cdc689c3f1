------------------------------ MODULE Protocol ------------------------------
(***************************************************************************)
(* Handshake packets (Protocol.cpp): parsing, serialising and framing of   *)
(* byte sequences.  A definition whose comment begins with "Broken:" is a  *)
(* wrong variant of the definition after it, kept to show that a property  *)
(* would notice it.                                                        *)
(***************************************************************************)
EXTENDS VarInt, SequencesExt

CONSTANTS max_packet_bytes,    \* 4096
          max_hostname_bytes,  \* 255
          PingBytes            \* 9: the packet ID and the payload of a ping

\* The largest size that frame_packet writes.
Int32Max == 2 ^ (Width - 1) - 1

\* The largest handshake, 266 bytes of at most 4096, and its frame.
LargestHandshake ==
    required[0] + MaxLength + required[max_hostname_bytes] + max_hostname_bytes + 2
        + required[2]
LargestFrame == required[LargestHandshake] + LargestHandshake

\* serialize_handshake writes into a vector of max_packet_bytes.
ASSUME ProtocolAssumption ==
    /\ 2 \in Value /\ max_hostname_bytes \in Value \ {0}
    /\ max_packet_bytes \in Nat /\ LargestHandshake <= max_packet_bytes
    /\ LargestHandshake <= Int32Max
    /\ PingBytes \in 1 .. max_packet_bytes /\ PingBytes <= Int32Max

\* What parse_handshake throws instead of returning a Handshake.
Malformed == [next_state |-> 0]

\* Broken: an address of any length.
ValidAddressAnyLength(address) == Len(address) >= 1 /\ ~Contains(address, 0)

ValidAddress(address) ==
    Len(address) \in 1 .. max_hostname_bytes /\ ~Contains(address, 0)

ValidState(next_state) == next_state \in {1, 2}

\* Broken: what follows the last field is ignored.
ConsumedSome(packet, pos) == TRUE

ConsumedAll(packet, pos) == pos = Len(packet)

parse_handshake(packet) ==
    LET read_field(pos) == read(SubSeq(packet, pos + 1, Len(packet)))
        packet_id == read_field(0)
        protocol == read_field(packet_id.used)
        addr_len == read_field(packet_id.used + protocol.used)
        addr_at == packet_id.used + protocol.used + addr_len.used
        addr == SubSeq(packet, addr_at + 1, addr_at + addr_len.value)
        port_at == addr_at + addr_len.value
        next_state == read_field(port_at + 2)
    IN  IF /\ Len(packet) \in 1 .. max_packet_bytes
           /\ packet_id.used > 0 /\ packet_id.value = 0
           /\ protocol.used > 0 /\ addr_len.used > 0
           /\ addr_len.value <= Len(packet) - addr_at
           /\ ValidAddress(addr)
           /\ Len(packet) - port_at >= 2
           /\ next_state.used > 0 /\ ValidState(next_state.value)
           /\ ConsumedAll(packet, port_at + 2 + next_state.used)
        THEN [protocol |-> protocol.value, address |-> addr,
              port |-> packet[port_at + 1] * 2 * Group + packet[port_at + 2],
              next_state |-> next_state.value]
        ELSE Malformed

\* The frame of a payload, empty if it is too large for a frame.
frame_packet(payload) ==
    IF Len(payload) > Int32Max THEN << >>
    ELSE write(MaxLength, Len(payload)) \o payload

\* The value behind the bytes written so far, in what is left of the vector.
write_field(payload, value) == payload \o write(max_packet_bytes - Len(payload), value)

\* Broken: the length of the address is left to the receiver to find out.
AddressUnmeasured(payload, address) == payload \o address

\* The length of the address and the address.
AddressField(payload, address) ==
    payload \o (write(max_packet_bytes - Len(payload), Len(address)) \o address)

\* The framed handshake, empty if its fields are not valid (an exception).  By
\* ProtocolAssumption no field is too large for what is left of the vector.
serialize_handshake(handshake) ==
    LET id == write_field(<< >>, 0)
        protocol == write_field(id, handshake.protocol)
        address == AddressField(protocol, handshake.address)
        port == address \o <<handshake.port \div (2 * Group), handshake.port % (2 * Group)>>
    IN  IF ~ValidAddress(handshake.address) \/ ~ValidState(handshake.next_state) THEN << >>
        ELSE frame_packet(write_field(port, handshake.next_state))

\* The framed answer to a ping, empty if the packet is not a ping.
pong_response(packet) ==
    IF Len(packet) # PingBytes \/ packet[1] # 1 THEN << >> ELSE frame_packet(packet)
=============================================================================
