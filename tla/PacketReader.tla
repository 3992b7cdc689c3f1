---------------------------- MODULE PacketReader ----------------------------
(***************************************************************************)
(* The reader of the initial exchange (MCPacketReader.cpp), byte by byte:  *)
(* its buffer, the VarInts and packets it puts together, the answers to a  *)
(* status exchange and the rewritten login handshake.  Module Session has  *)
(* the same coroutine without its data; this module implements that part   *)
(* of it (ImplementsSession).                                              *)
(*                                                                         *)
(* A definition whose comment begins with "Broken:" is a wrong variant of  *)
(* the definition after it, kept to show that a property would notice it.  *)
(***************************************************************************)
EXTENDS Protocol

CONSTANTS buf_size,       \* the bytes of the reader's buffer
          BufferSize,     \* the bytes of the session's buffer
          RewrittenSize,  \* the bytes of a rewritten handshake
          Host, Port,     \* config_.handshake_host and config_.upstream_port
          StatusText,     \* the text of the status, as bytes
          Utf8,           \* whether the texts of config_ are UTF-8: answers to try
          Streams         \* what the client may send

\* parse_config has checked the host and the port; a status has less than 4 GiB.
ASSUME ReaderAssumption ==
    /\ buf_size \in Nat \ {0}
    /\ BufferSize \in Nat /\ LargestFrame <= BufferSize /\ RewrittenSize \in 1 .. BufferSize
    /\ Host \in Seq(Byte) /\ ValidAddress(Host)
    /\ Port \in Nat /\ Port \div (2 * Group) \in Byte
    /\ Utf8 \subseteq BOOLEAN
    /\ StatusText \in Seq(Byte) /\ required[0] + MaxLength + Len(StatusText) \in Value
    /\ Streams \subseteq Seq(Byte)

VARIABLES
    wire,           \* all the client sends
    taken,          \* bytes of it read from the socket
    at,             \* where the coroutine is, as in Session
    io,             \* the operation it awaits
    buffer, read_pos, write_pos,
    encoded,        \* the bytes ReadVarInt has so far
    packet_length,  \* what it returned; 0 while it reads
    packet,         \* the bytes FillPacket has so far
    replies,        \* what was written to the client
    server_buffer,  \* the front of the session's outgoing_buffer
    result          \* how the exchange came out

reader == <<encoded, packet_length, packet>>
vars == <<wire, taken, at, io, buffer, read_pos, write_pos, reader, replies,
          server_buffer, result>>

Init ==
    /\ wire \in Streams
    /\ taken = 0
    /\ at = "spawned"
    /\ io = "idle"
    /\ buffer = [i \in 0 .. buf_size - 1 |-> 0]
    /\ read_pos = 0 /\ write_pos = 0
    /\ encoded = << >> /\ packet_length = 0 /\ packet = << >>
    /\ replies = << >>
    /\ server_buffer = << >>
    /\ result = "none"

\* Broken: the buffer is used one byte too long.
BufferEndsLate == write_pos = buf_size + 1

BufferEnds == write_pos = buf_size

\* CurrentByte after the byte before r: BlockRead, unless bytes are left.
CurrentByte(r) ==
    IF r < write_pos
    THEN read_pos' = r /\ io' = "ok" /\ UNCHANGED write_pos
    ELSE /\ io' = "pending"
         /\ read_pos' = IF BufferEnds THEN 0 ELSE r
         /\ write_pos' = IF BufferEnds THEN 0 ELSE write_pos

\* Broken: BlockRead asks for all the buffer has room for.
BytesAskedMore == buf_size - write_pos

BytesAsked == 1

\* The read of BlockRead completes.
ReceiveByte ==
    /\ io = "pending" /\ at \in {"handshake", "request", "ping"}
    /\ \E n \in 1 .. BytesAsked :
           /\ taken + n <= Len(wire)
           /\ buffer' = [i \in DOMAIN buffer |->
                            IF i \in write_pos .. write_pos + n - 1
                            THEN wire[taken + i - write_pos + 1] ELSE buffer[i]]
           /\ taken' = taken + n
           /\ write_pos' = write_pos + n
    /\ io' = "ok"
    /\ UNCHANGED <<wire, at, read_pos, reader, replies, server_buffer, result>>

SendReply ==
    /\ io = "pending" /\ at \in {"response", "pong"}
    /\ io' = "ok"
    /\ UNCHANGED <<wire, taken, at, buffer, read_pos, write_pos, reader, replies,
                   server_buffer, result>>

Fail ==
    /\ io = "pending"
    /\ io' = "error"
    /\ UNCHANGED <<wire, taken, at, buffer, read_pos, write_pos, reader, replies,
                   server_buffer, result>>

-----------------------------------------------------------------------------
\* The exchange is over and the reader destroyed.
Finish(how) ==
    /\ at' = "returned" /\ io' = "idle" /\ result' = how
    /\ UNCHANGED <<wire, taken, buffer, read_pos, write_pos, reader, replies>>

\* false, or an exception that is not of the socket.
Refuse == Finish("refused") /\ UNCHANGED server_buffer

Start ==
    /\ at = "spawned"
    /\ at' = "handshake"
    /\ CurrentByte(read_pos)
    /\ UNCHANGED <<wire, taken, buffer, reader, replies, server_buffer, result>>

AwaitThrows ==
    /\ io = "error"
    /\ Finish("failed") /\ UNCHANGED server_buffer

\* The byte CurrentByte returns is taken and the next one wanted.
Continue(label, enc, len, pkt) ==
    /\ at' = label
    /\ encoded' = enc /\ packet_length' = len /\ packet' = pkt
    /\ CurrentByte(read_pos + 1)
    /\ UNCHANGED <<wire, taken, buffer, replies, server_buffer, result>>

byte == buffer[read_pos]
Resumed == io = "ok" /\ at \in {"handshake", "request", "ping"}

\* Broken: the vector is as large as the client says.
LengthOKUnbounded(length) == length # 0

HandshakeLength(length) == length \in 1 .. max_packet_bytes
RequestLength(length) == length = 1
PingLength(length) == length = PingBytes

\* The lengths that a packet of this stage may have.
LengthOK(length) ==
    CASE at = "handshake" -> HandshakeLength(length)
      [] at = "request" -> RequestLength(length)
      [] at = "ping" -> PingLength(length)

\* One turn of the loop of ReadVarInt, and what its caller does with the length.
ReadVarInt ==
    LET enc == Append(encoded, byte)
        length == read(enc)
    IN  /\ Resumed /\ packet_length = 0
        /\ \/ byte >= Group /\ Len(enc) < MaxLength /\ Continue(at, enc, 0, << >>)
           \/ byte >= Group /\ Len(enc) = MaxLength /\ Refuse
           \/ byte < Group /\ length # Refused /\ LengthOK(length.value)
                  /\ Continue(at, << >>, length.value, << >>)
           \/ byte < Group /\ (length = Refused \/ ~LengthOK(length.value)) /\ Refuse

\* One turn of the loop of FillPacket, up to the last.
FillPacket ==
    /\ Resumed /\ Len(packet) + 1 < packet_length
    /\ Continue(at, << >>, packet_length, Append(packet, byte))

\* The write of a reply is awaited.
Reply(label, frame) ==
    /\ at' = label /\ io' = "pending"
    /\ read_pos' = read_pos + 1
    /\ replies' = Append(replies, frame)
    /\ encoded' = << >> /\ packet_length' = 0 /\ packet' = << >>
    /\ UNCHANGED <<wire, taken, buffer, write_pos, server_buffer, result>>

\* Broken: upstream is told the port that the client used.
RewrittenHost(handshake) == [handshake EXCEPT !.address = Host]

Rewritten(handshake) == [handshake EXCEPT !.address = Host, !.port = Port]

\* The rest of InterceptHandshake, with the handshake packet complete.
InterceptHandshake ==
    LET handshake == parse_handshake(Append(packet, byte))
        new_packet == serialize_handshake(Rewritten(handshake))
    IN  /\ Resumed /\ at = "handshake" /\ Len(packet) + 1 = packet_length
        /\ \/ handshake = Malformed /\ Refuse
           \/ handshake.next_state = 1 /\ Continue("request", << >>, 0, << >>)
           \/ /\ handshake.next_state = 2
              /\ IF new_packet = << >> \/ Len(new_packet) > BufferSize THEN Refuse
                 ELSE server_buffer' = new_packet /\ read_pos' = read_pos + 1
                      /\ at' = "returned" /\ io' = "idle" /\ result' = "login"
                      /\ UNCHANGED <<wire, taken, buffer, write_pos, reader, replies>>

\* Broken: the length of the text is not counted.
StatusPayloadShort == write(MaxLength, 0) \o StatusText

StatusPayload == write(MaxLength, 0) \o write(MaxLength, Len(StatusText)) \o StatusText

\* The rest of WriteCustomStatusRequest: the request, or the ping, is complete.
\* status.dump() throws if a text is not UTF-8.  A reader calls it once at most,
\* so that to choose here is to choose a configuration.
WriteCustomStatusRequest ==
    LET pkt == Append(packet, byte)
    IN  /\ Resumed /\ Len(pkt) = packet_length
        /\ \/ at = "request" /\ pkt[1] # 0 /\ Refuse
           \/ at = "request" /\ pkt[1] = 0 /\ FALSE \in Utf8
                  /\ Finish("undumped") /\ UNCHANGED server_buffer
           \/ at = "request" /\ pkt[1] = 0 /\ TRUE \in Utf8
                  /\ Reply("response", write(MaxLength, Len(StatusPayload)) \o StatusPayload)
           \/ at = "ping" /\ pkt[1] # 1 /\ Refuse
           \/ at = "ping" /\ pkt[1] = 1 /\ Reply("pong", pong_response(pkt))

\* A reply is written: now the ping, or the end.
Replied ==
    /\ io = "ok"
    /\ \/ /\ at = "response" /\ at' = "ping"
          /\ CurrentByte(read_pos)
          /\ UNCHANGED <<wire, taken, buffer, reader, replies, server_buffer, result>>
       \/ at = "pong" /\ Finish("answered") /\ UNCHANGED server_buffer

Next ==
    \/ Start \/ AwaitThrows \/ ReadVarInt \/ FillPacket \/ InterceptHandshake
    \/ WriteCustomStatusRequest \/ Replied
    \/ ReceiveByte \/ SendReply \/ Fail

Spec == Init /\ [][Next]_vars
-----------------------------------------------------------------------------
TypeOK ==
    /\ wire \in Seq(Byte) /\ taken \in 0 .. Len(wire)
    /\ at \in {"spawned", "handshake", "request", "response", "ping", "pong", "returned"}
    /\ io \in {"idle", "pending", "ok", "error"}
    /\ buffer \in [0 .. buf_size - 1 -> Byte]
    /\ read_pos \in 0 .. buf_size /\ write_pos \in 0 .. buf_size
    /\ encoded \in Seq(Byte) /\ Len(encoded) < MaxLength
    /\ packet_length \in 0 .. max_packet_bytes
    /\ packet \in Seq(Byte) /\ Len(packet) <= packet_length
    /\ replies \in Seq(Seq(Byte)) /\ server_buffer \in Seq(Byte)
    /\ result \in {"none", "login", "refused", "undumped", "answered", "failed"}

(***************************************************************************)
(* Whenever the reader waits for bytes, the read has room in the buffer    *)
(* and its first byte is the one CurrentByte returns next, in particular   *)
(* where the buffer starts again at its end.                               *)
(***************************************************************************)
ReadHasRoom ==
    io = "pending" /\ at \in {"handshake", "request", "ping"} =>
        read_pos = write_pos /\ write_pos + BytesAsked <= buf_size

\* The packet in the bytes i+1..j of what the client sends, if they are one
\* frame and nothing else.
PacketIn(i, j) ==
    LET frame == SubSeq(wire, i + 1, j)
        length == read(frame)
    IN  IF length # Refused /\ Len(frame) = length.used + length.value
        THEN SubSeq(frame, length.used + 1, Len(frame)) ELSE << >>

HandshakeAt(i, next_state) ==
    PacketIn(0, i) # << >> /\ parse_handshake(PacketIn(0, i)).next_state = next_state

\* A status handshake and a status request that ends with byte k.
StatusRequest(k) == \E i \in 0 .. k : HandshakeAt(i, 1) /\ PacketIn(i, k) = <<0>>

\* These two and a ping that ends with byte k.
StatusExchange(k) ==
    \E i \in 1 .. k, j \in 1 .. k :
        /\ i < j /\ HandshakeAt(i, 1) /\ PacketIn(i, j) = <<0>>
        /\ Len(PacketIn(j, k)) = PingBytes /\ PacketIn(j, k)[1] = 1

(***************************************************************************)
(* The exchange comes out as the bytes on the wire say, however they are   *)
(* framed: a login is accepted when exactly its handshake, not a byte      *)
(* more, has been taken from the socket; a status exchange is answered     *)
(* after its ping; no client that sends either is refused, wherever the    *)
(* reader's buffer starts again in between; and only a status request      *)
(* fails for a text that is not UTF-8 (StatusAnswered is about that).      *)
(***************************************************************************)
OutcomeRight ==
    /\ result = "login" => HandshakeAt(taken, 2)
    /\ result = "answered" => StatusExchange(taken)
    /\ result = "undumped" => StatusRequest(taken)
    /\ result = "refused" =>
           \A k \in 1 .. Len(wire) : ~HandshakeAt(k, 2) /\ ~StatusExchange(k)

(***************************************************************************)
(* A client that sends a whole status exchange is answered unless its      *)
(* connection fails.  The code does not keep this: parse_config accepts    *)
(* texts that are not UTF-8, and status.dump() throws for them.            *)
(***************************************************************************)
StatusAnswered ==
    result \in {"refused", "undumped"} => \A k \in 1 .. Len(wire) : ~StatusExchange(k)

\* The bytes behind the length of a frame, and a frame that carries these.
Behind(frame) == SubSeq(frame, read(frame).used + 1, Len(frame))
Carries(frame, payload) == read(frame).value = Len(payload) /\ Behind(frame) = payload

(***************************************************************************)
(* What the session forwards for a login is a frame in which upstream      *)
(* finds the client's own handshake, with the configured host and port.    *)
(* It fits the session's buffer (that it has the size Session assumes is   *)
(* part of ImplementsSession).                                             *)
(***************************************************************************)
RewriteRight ==
    result = "login" =>
        /\ Carries(server_buffer, Behind(server_buffer)) /\ Len(server_buffer) <= BufferSize
        /\ parse_handshake(Behind(server_buffer)) =
               [parse_handshake(PacketIn(0, taken)) EXCEPT !.address = Host, !.port = Port]

(***************************************************************************)
(* The replies are frames a client can read: the first carries packet ID 0 *)
(* and the status text behind its length, the second the very bytes of the *)
(* client's ping.                                                          *)
(***************************************************************************)
RepliesReadable ==
    /\ Len(replies) >= 1 =>
           LET text == SubSeq(replies[1], read(replies[1]).used + 2, Len(replies[1]))
           IN  Carries(replies[1], <<0>> \o text) /\ Carries(text, StatusText)
    /\ Len(replies) = 2 =>
           Carries(replies[2], SubSeq(wire, taken - PingBytes + 1, taken))

-----------------------------------------------------------------------------
(* The reader as the coroutine of a session.                               *)

Closed == result \in {"refused", "undumped", "answered", "failed"}
Login == result = "login"

S == INSTANCE Session WITH
    Endpoints <- 1,
    MaxBytes <- 100,
    shutdown_initiated <- Closed,
    open <- [s \in {"source", "dest"} |-> IF s = "source" THEN ~Closed ELSE Login],
    deadline_generation <- IF at = "spawned" THEN 0 ELSE IF result = "none" THEN 1 ELSE 2,
    wait <- [t \in {"handshake", "connect"} |->
                IF t = "connect" THEN IF Login THEN "waiting" ELSE "none"
                ELSE IF at = "spawned" THEN "none"
                ELSE IF result = "none" THEN "waiting" ELSE "aborted"],
    armed <- [t \in {"handshake", "connect"} |->
                IF t = "connect" THEN IF Login THEN 2 ELSE 0
                ELSE IF at = "spawned" THEN 0 ELSE 1],
    io <- [c \in {"co", "connect", "up", "down"} |->
                IF c = "co" THEN io
                ELSE IF c = "connect" /\ Login THEN "pending" ELSE "idle"],
    endpoint <- IF Login THEN 1 ELSE 0,
    mode <- [d \in {"up", "down"} |-> "read"],
    buffer <- [d \in {"up", "down"} |-> [i \in 1 .. BufferSize |->
                IF d = "up" /\ i <= Len(server_buffer) THEN -i ELSE 0]],
    length <- [d \in {"up", "down"} |-> 0],
    offset <- [d \in {"up", "down"} |-> 0],
    consumed <- [d \in {"up", "down"} |-> IF d = "up" THEN taken ELSE 0],
    intercepted <- taken - (write_pos - read_pos),
    delivered <- [d \in {"up", "down"} |-> << >>],
    end_post <- "none",
    registry <- IF Closed THEN "erasing" ELSE "listed"

(***************************************************************************)
(* The reader behaves as the coroutine of module Session does: every byte  *)
(* is one await and one byte off the socket, replies are written in its    *)
(* order, and what is over ends or connects the session as it says.        *)
(***************************************************************************)
ImplementsSession == S!Spec
=============================================================================
