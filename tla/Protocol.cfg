SPECIFICATION Spec
CONSTANTS
    GroupBits = 2
    Width = 5
    max_packet_bytes = 11
    max_hostname_bytes = 2
    PingBytes = 3
    Packets <- MCPackets
    Hosts <- MCHosts
INVARIANTS ReadMeansValue WriteReadsBack ParsesHandshakes RewriteReadsBack RewriteFits
CHECK_DEADLOCK FALSE
