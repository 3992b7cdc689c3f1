----------------------------- MODULE MCProtocol -----------------------------
(* Packets for TLC: put together from good and bad fields, and all short   *)
(* inputs of a VarInt.                                                     *)
EXTENDS Codec

Ids == {<<0>>, <<4, 0>>, <<1>>}
Protocols == {<<0>>, <<7, 3>>, <<5, 4, 1>>, <<5, 4, 2>>, <<5, 4, 4, 0>>}
Lengths == {<<0>>, <<1>>, <<5, 0>>, <<2>>, <<3>>, <<4, 1>>}
MCHosts == {<< >>, <<1>>, <<7>>, <<0>>, <<1, 7>>, <<7, 0>>, <<1, 2, 7>>}
Ports == {<<0, 1>>, <<7, 2>>}
States == {<<0>>, <<1>>, <<2>>, <<6, 0>>, <<3>>}
Tails == {<< >>, <<0>>}

\* Such a packet, or any bytes up to one more than the longest VarInt.
MCPackets ==
    UNION {[1 .. n -> Byte] : n \in 0 .. MaxLength + 1}
    \cup {id \o p \o n \o a \o port \o state \o tail :
              id \in Ids, p \in Protocols, n \in Lengths, a \in MCHosts, port \in Ports,
              state \in States, tail \in Tails}
=============================================================================
