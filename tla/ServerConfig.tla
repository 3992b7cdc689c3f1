---------------------------- MODULE ServerConfig ----------------------------
(***************************************************************************)
(* The command line (ServerConfig.cpp): parse_config takes the options one *)
(* after the other and then looks at the whole.  A number stands for       *)
(* itself, NotANumber for what from_chars does not take as one; a text is  *)
(* its length.                                                             *)
(*                                                                         *)
(* A definition whose comment begins with "Broken:" is a wrong variant of  *)
(* the definition after it, kept to show that a property would notice it.  *)
(***************************************************************************)
EXTENDS Integers, Sequences

CONSTANTS Hosts,       \* lengths of upstream hostnames to try
          Texts,       \* lengths of option texts to try
          Numbers,     \* values of numeric options to try
          Files,       \* favicon files to try
          MaxOptions   \* bound of the model: options on a command line

ASSUME ConfigAssumption ==
    /\ Hosts \subseteq Nat /\ Texts \subseteq Nat /\ Numbers \subseteq Int
    /\ Files \subseteq [none : BOOLEAN, opens : BOOLEAN, png : BOOLEAN,
                       uri : Nat, line_ends : Nat]
    /\ MaxOptions \in Nat

NotANumber == -1
NoHost == -1           \* argv[1] is missing or an option
Int32Max == 2147483647
max_hostname_bytes == 255
MaxFavicon == 65536
MaxPort == 65535

\* The field that an option sets to its text.
TextOptions ==
    [listen_address |-> "listen_address", handshake_host |-> "handshake_host",
     motd |-> "description", version_name |-> "version_name"]

\* The field that an option sets to its number, and the limits of the number.
Number(field, low, high) == [field |-> field, low |-> low, high |-> high]

NumberOptions ==
    [listen_port |-> Number("listen_port", 0, MaxPort),
     upstream_port |-> Number("upstream_port", 1, MaxPort),
     threads |-> Number("threads", 1, 256),
     max_connections |-> Number("max_connections", 1, 100000),
     handshake_timeout_ms |-> Number("handshake_timeout", 1, 3600000),
     connect_timeout_ms |-> Number("connect_timeout", 1, 3600000),
     protocol |-> Number("protocol", 0, Int32Max),
     max_players |-> Number("max_players", 0, Int32Max),
     online_players |-> Number("online_players", 0, Int32Max)]

\* The ServerConfig of a command line that gives only the upstream host.
Defaults(host) ==
    [target_host |-> host, handshake_host |-> host, listen_address |-> 7,
     listen_port |-> 25565, upstream_port |-> 25565, threads |-> 2,
     max_connections |-> 1024, handshake_timeout |-> 10000, connect_timeout |-> 10000,
     version_name |-> 5, protocol |-> 47, max_players |-> 1, online_players |-> 0,
     description |-> 105, favicon |-> 12918]

VARIABLES config,    \* the ServerConfig as far as it is parsed
          taken,     \* options looked at so far
          outcome    \* of parse_config

vars == <<config, taken, outcome>>

\* parse_config has looked at argv[1].
Init ==
    /\ \E host \in Hosts \cup {NoHost} :
           /\ config = Defaults(host)
           /\ outcome = IF host = NoHost THEN "refused" ELSE "parsing"
    /\ taken = 0

\* An exception, whatever the message.
Refuse ==
    /\ outcome' = "refused"
    /\ taken' = taken + 1
    /\ UNCHANGED config

\* Broken: the port to listen on is assigned to the port of upstream.
AssignMixed(field, value) ==
    /\ config' = [config EXCEPT ![IF field = "listen_port" THEN "upstream_port"
                                  ELSE field] = value]
    /\ taken' = taken + 1
    /\ UNCHANGED outcome

Assign(field, value) ==
    /\ config' = [config EXCEPT ![field] = value]
    /\ taken' = taken + 1
    /\ UNCHANGED outcome

number(value, minimum, maximum) == value # NotANumber /\ value \in minimum .. maximum

NumberOption(option, value) ==
    IF number(value, NumberOptions[option].low, NumberOptions[option].high)
    THEN Assign(NumberOptions[option].field, value) ELSE Refuse

TextOption(option, value) == Assign(TextOptions[option], value)

\* More than MaxFavicon bytes are read from the file, line ends included.
TooLong(file) == file.uri + file.line_ends > MaxFavicon

\* The option names a file, or is "none".
FaviconOption(file) ==
    IF file.none THEN Assign("favicon", 0)
    ELSE IF file.opens /\ ~TooLong(file) /\ file.png THEN Assign("favicon", file.uri)
    ELSE Refuse

\* An option the code does not know, or one without a value.
BadOption == Refuse

HostLength(host) == host \in 1 .. max_hostname_bytes

HostsGood(c) == HostLength(c.target_host) /\ HostLength(c.handshake_host)

\* The checks after the last option.
Consistent(c) ==
    /\ HostsGood(c)
    /\ c.description <= 4096 /\ c.version_name <= 128
    /\ c.online_players <= c.max_players

Finish ==
    /\ outcome' = IF Consistent(config) THEN "accepted" ELSE "refused"
    /\ UNCHANGED <<config, taken>>

Option ==
    \/ \E option \in DOMAIN NumberOptions, value \in Numbers : NumberOption(option, value)
    \/ \E option \in DOMAIN TextOptions, value \in Texts : TextOption(option, value)
    \/ \E file \in Files : FaviconOption(file)
    \/ BadOption

Next == outcome = "parsing" /\ (Finish \/ (taken < MaxOptions /\ Option))

Spec == Init /\ [][Next]_vars
-----------------------------------------------------------------------------
(***************************************************************************)
(* Whatever the options and their order, an accepted configuration has the *)
(* numbers and lengths that the rest of the program relies on: a thread    *)
(* and a connection at least (Server), deadlines that are not zero         *)
(* (Session), a port to connect to, hosts of a length that                 *)
(* serialize_handshake accepts (PacketReader), no more players than the    *)
(* maximum, and a status text that fits a packet even if every character   *)
(* is escaped.  It says nothing of the characters of a text, which         *)
(* parse_config does not look at.                                          *)
(***************************************************************************)
AcceptedIsUsable ==
    outcome = "accepted" =>
        /\ config.threads >= 1 /\ config.max_connections >= 1
        /\ config.handshake_timeout >= 1 /\ config.connect_timeout >= 1
        /\ config.upstream_port \in 1 .. MaxPort
        /\ config.target_host \in 1 .. max_hostname_bytes
        /\ config.handshake_host \in 1 .. max_hostname_bytes
        /\ config.online_players <= config.max_players
        /\ 6 * (config.description + config.version_name + config.favicon) < Int32Max
=============================================================================
