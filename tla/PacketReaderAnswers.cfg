SPECIFICATION Spec
CONSTANTS
    GroupBits = 2
    Width = 5
    max_packet_bytes = 10
    max_hostname_bytes = 2
    PingBytes = 3
    buf_size = 4
    BufferSize = 12
    RewrittenSize = 10
    Host <- MCHost
    Port = 9
    StatusText <- MCStatusText
    Utf8 = {TRUE, FALSE}
    Streams <- MCStreams
INVARIANT StatusAnswered
CHECK_DEADLOCK FALSE
