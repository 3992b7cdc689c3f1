--------------------------- MODULE MCPacketReader ---------------------------
(* Clients for TLC: logins and status exchanges framed in all ways, and    *)
(* what goes wrong in each of their frames.                                *)
EXTENDS PacketReader

MCHost == <<3, 1>>
MCStatusText == <<7, 0, 7, 1, 2>>

Handshakes(state) ==
    {<<0, 1>> \o a \o <<7, 2>> \o state : a \in {<<1, 7>>, <<2, 7, 4>>, <<5, 0, 2>>}}
Malformeds == {<<1, 1, 1, 7, 7, 2, 1>>, <<0, 1, 2, 7, 7, 2, 1>>, <<0, 1, 1, 7, 7, 2, 3>>,
               <<0, 1, 1, 7, 7, 2, 1, 0>>, <<0>>}

\* The frames of a packet: the shortest length, a longer one, one too small,
\* one too large, and lengths that are no VarInt.
Frames(p) ==
    {write(MaxLength, Len(p)) \o p, <<4 + (Len(p) % 4), 4 + (Len(p) \div 4), 0>> \o p,
     <<4 + (Len(p) % 4), 4 + (Len(p) \div 4), 4>> \o p, <<7, 7, 2>> \o p, <<0>> \o p,
     write(MaxLength, Len(p) - 1) \o p, write(MaxLength, Len(p) + 1) \o p}

Tails == {<< >>, <<0, 1>>}

Logins == {f \o tail : f \in UNION {Frames(p) : p \in Handshakes(<<2>>) \cup Malformeds},
                       tail \in Tails}
Statuses == {write(MaxLength, 7) \o <<0, 1, 1, 7, 7, 2, 1>> \o request \o ping :
                 request \in UNION {Frames(p) : p \in {<<0>>, <<1>>, <<0, 0>>}},
                 ping \in UNION {Frames(p) : p \in {<<1, 3, 6>>, <<2, 3, 6>>, <<1, 3>>}}}

MCStreams == Logins \cup Statuses
=============================================================================
