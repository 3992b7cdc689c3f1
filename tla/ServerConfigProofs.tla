------------------------- MODULE ServerConfigProofs -------------------------
(***************************************************************************)
(* What parse_config accepts, for command lines of any length and any      *)
(* values.  The property AcceptedIsUsable is about the last state; what    *)
(* holds before it (IInv) is that every field is within the limits of its  *)
(* option from the defaults on, which needs that no two options set one    *)
(* field (OwnFields).  Numerals as large as these are kept folded in their *)
(* definitions, and unfolded only where the arithmetic needs them.         *)
(***************************************************************************)
EXTENDS ServerConfig, TLAPS

\* The members of ServerConfig.
Fields == {"target_host", "favicon", "listen_address", "handshake_host", "description",
           "version_name", "listen_port", "upstream_port", "threads", "max_connections",
           "handshake_timeout", "connect_timeout", "protocol", "max_players",
           "online_players"}

\* The options, the field each of the numeric ones sets, and its limits.
Numeric == DOMAIN NumberOptions
FieldOf(o) == NumberOptions[o].field
InLimits(o, value) == value \in NumberOptions[o].low .. NumberOptions[o].high

\* The values that options may set, checked when an option is taken.
Ranges(c) ==
    /\ c \in [Fields -> Int]
    /\ c["favicon"] \in 0 .. MaxFavicon
    /\ \A o \in Numeric : InLimits(o, c[FieldOf(o)])

\* The types of the variables, each numeric field within its limits.
TypeOK ==
    /\ Ranges(config)
    /\ taken \in Nat
    /\ outcome \in {"parsing", "refused", "accepted"}

\* What was accepted has passed the checks after the last option.
Checked == outcome = "accepted" => Consistent(config)

\* The inductive invariant.
IInv == TypeOK /\ Checked

\* The names of the numeric options.
LEMMA NumericOptions ==
    Numeric = {"listen_port", "upstream_port", "threads", "max_connections",
               "handshake_timeout_ms", "connect_timeout_ms", "protocol", "max_players",
               "online_players"}
BY DEF Numeric, NumberOptions

\* The field of each numeric option.
LEMMA FieldsOf ==
    /\ FieldOf("listen_port") = "listen_port" /\ FieldOf("upstream_port") = "upstream_port"
    /\ FieldOf("threads") = "threads" /\ FieldOf("max_connections") = "max_connections"
    /\ FieldOf("handshake_timeout_ms") = "handshake_timeout"
    /\ FieldOf("connect_timeout_ms") = "connect_timeout"
    /\ FieldOf("protocol") = "protocol" /\ FieldOf("max_players") = "max_players"
    /\ FieldOf("online_players") = "online_players"
BY SMT DEF FieldOf, NumberOptions, Number

\* Every option sets a field of its own.
LEMMA OwnFields ==
    /\ \A o \in Numeric : FieldOf(o) \in Fields \ {"target_host", "favicon"}
    /\ \A o, p \in Numeric : FieldOf(o) = FieldOf(p) => o = p
    /\ \A t \in DOMAIN TextOptions : /\ TextOptions[t] \in Fields \ {"target_host", "favicon"}
                                     /\ \A o \in Numeric : FieldOf(o) # TextOptions[t]
<1>1. \A o \in Numeric : FieldOf(o) \in Fields \ {"target_host", "favicon"}
    BY NumericOptions, FieldsOf DEF Fields
<1>2. \A o, p \in Numeric : FieldOf(o) = FieldOf(p) => o = p
    BY NumericOptions, FieldsOf
<1>3. ASSUME NEW t \in DOMAIN TextOptions
      PROVE  TextOptions[t] \in {"listen_address", "handshake_host", "description",
                                 "version_name"}
    BY DEF TextOptions
<1>4. \A o \in Numeric : FieldOf(o) \notin {"listen_address", "handshake_host",
                                            "description", "version_name"}
    BY NumericOptions, FieldsOf
<1> QED
    BY <1>1, <1>2, <1>3, <1>4 DEF Fields

\* Every default is a value that its option could have set.
LEMMA DefaultsInRange == \A host \in Int : Ranges(Defaults(host))
<1> SUFFICES ASSUME NEW host \in Int PROVE Ranges(Defaults(host))
    OBVIOUS
<1> DEFINE c == Defaults(host)
<1>1. c \in [Fields -> Int]
    BY DEF Defaults, Fields
<1>2. c["favicon"] \in 0 .. MaxFavicon
    BY DEF Defaults, MaxFavicon
<1>3. ASSUME NEW o \in Numeric
      PROVE  InLimits(o, c[FieldOf(o)])
    BY NumericOptions DEF Defaults, FieldOf, InLimits, NumberOptions, Number, MaxPort, Int32Max
<1> QED
    BY <1>1, <1>2, <1>3 DEF Ranges

\* A field and a value that the options leave in its limits.
Assignable(field, value) ==
    /\ field \in Fields \ {"target_host"}
    /\ value \in Int
    /\ field = "favicon" => value \in 0 .. MaxFavicon
    /\ \A o \in Numeric : FieldOf(o) = field => InLimits(o, value)

\* Every option assigns such a value or is refused.
LEMMA OptionAssigns ==
    Option => Refuse \/ \E field, value : Assignable(field, value) /\ Assign(field, value)
<1>1. ASSUME NEW o \in Numeric, NEW value \in Numbers, NumberOption(o, value)
      PROVE  Refuse \/ (Assignable(FieldOf(o), value) /\ Assign(FieldOf(o), value))
    <2>1. value \in Int
        BY ConfigAssumption
    <2>2. CASE number(value, NumberOptions[o].low, NumberOptions[o].high)
        <3>1. InLimits(o, value)
            BY <2>2 DEF number, InLimits
        <3>2. Assignable(FieldOf(o), value)
            BY <2>1, <3>1, OwnFields DEF Assignable
        <3> QED
            BY <1>1, <2>2, <3>2 DEF NumberOption, FieldOf
    <2>3. CASE ~number(value, NumberOptions[o].low, NumberOptions[o].high)
        BY <1>1, <2>3 DEF NumberOption
    <2> QED
        BY <2>2, <2>3
<1>2. ASSUME NEW t \in DOMAIN TextOptions, NEW value \in Texts, TextOption(t, value)
      PROVE  Assignable(TextOptions[t], value) /\ Assign(TextOptions[t], value)
    <2>1. value \in Int
        BY ConfigAssumption
    <2> QED
        BY <1>2, <2>1, OwnFields DEF Assignable, TextOption
<1>3. ASSUME NEW file \in Files, FaviconOption(file)
      PROVE  Refuse \/ \E value : Assignable("favicon", value) /\ Assign("favicon", value)
    <2>1. "favicon" \in Fields \ {"target_host"} /\ \A o \in Numeric : FieldOf(o) # "favicon"
        BY OwnFields DEF Fields
    <2>2. file.uri \in Nat /\ file.line_ends \in Nat
        BY ConfigAssumption
    <2>3. MaxFavicon \in Nat
        BY SMT DEF MaxFavicon
    <2>4. 0 \in 0 .. MaxFavicon /\ (~TooLong(file) => file.uri \in 0 .. MaxFavicon)
        BY <2>2, <2>3 DEF TooLong
    <2>5. Assignable("favicon", 0) /\ (~TooLong(file) => Assignable("favicon", file.uri))
        BY <2>1, <2>2, <2>4 DEF Assignable
    <2> QED
        BY <1>3, <2>5 DEF FaviconOption
<1> QED
    BY <1>1, <1>2, <1>3 DEF Option, BadOption, Numeric

\* Assigning such a value leaves every field within its limits.
LEMMA AssignKeeps ==
    ASSUME TypeOK, NEW field, NEW value, Assignable(field, value), Assign(field, value)
    PROVE  TypeOK'
<1>1. /\ config' = [config EXCEPT ![field] = value] /\ taken' = taken + 1
      /\ outcome' = outcome
    BY DEF Assign
<1>2. config \in [Fields -> Int] /\ field \in Fields /\ value \in Int
    BY DEF TypeOK, Ranges, Assignable
<1>3. config' \in [Fields -> Int]
    BY <1>1, <1>2
<1>4. config'["favicon"] \in 0 .. MaxFavicon
    BY <1>1, <1>2 DEF TypeOK, Ranges, Assignable
<1>5. ASSUME NEW o \in Numeric
      PROVE  InLimits(o, config'[FieldOf(o)])
    <2>1. FieldOf(o) \in Fields /\ InLimits(o, config[FieldOf(o)])
        BY OwnFields DEF TypeOK, Ranges
    <2>2. FieldOf(o) = field => InLimits(o, value)
        BY DEF Assignable
    <2>3. config'[FieldOf(o)] = IF FieldOf(o) = field THEN value ELSE config[FieldOf(o)]
        BY <1>1, <1>2, <2>1
    <2> QED
        BY <2>1, <2>2, <2>3
<1>6. Ranges(config)'
    BY <1>3, <1>4, <1>5 DEF Ranges
<1> QED
    BY <1>1, <1>6 DEF TypeOK

\* The configuration starts in range.
LEMMA InitInv == Init => IInv
<1> SUFFICES ASSUME Init PROVE IInv
    OBVIOUS
<1>1. PICK host \in Hosts \cup {NoHost} :
          config = Defaults(host) /\ outcome \in {"refused", "parsing"} /\ taken = 0
    BY DEF Init
<1>2. host \in Int
    BY ConfigAssumption, SMT DEF NoHost
<1>3. TypeOK
    BY <1>1, <1>2, DefaultsInRange DEF TypeOK
<1> QED
    BY <1>1, <1>3 DEF IInv, Checked

\* Every option and the final checks preserve the invariant.
LEMMA NextInv == IInv /\ [Next]_vars => IInv'
<1> SUFFICES ASSUME IInv, [Next]_vars PROVE IInv'
    OBVIOUS
<1>0. TypeOK /\ Checked
    BY DEF IInv
<1>1. ASSUME NEW field, NEW value, outcome = "parsing",
             Assignable(field, value), Assign(field, value)
      PROVE  IInv'
    <2>1. TypeOK'
        BY <1>0, <1>1, AssignKeeps
    <2>2. outcome' = "parsing"
        BY <1>1 DEF Assign
    <2> QED
        BY <2>1, <2>2 DEF IInv, Checked
<1>2. CASE Refuse
    <2>1. config' = config /\ outcome' = "refused" /\ taken' = taken + 1
        BY <1>2 DEF Refuse
    <2>2. TypeOK'
        BY <1>0, <2>1 DEF TypeOK, Ranges
    <2> QED
        BY <2>1, <2>2 DEF IInv, Checked
<1>3. CASE outcome = "parsing" /\ Finish
    <2>1. /\ UNCHANGED <<config, taken>> /\ outcome' \in {"accepted", "refused"}
          /\ outcome' = "accepted" => Consistent(config)'
        BY <1>3 DEF Finish, Consistent, HostsGood, HostLength
    <2>2. TypeOK'
        BY <1>0, <2>1 DEF TypeOK, Ranges
    <2> QED
        BY <2>1, <2>2 DEF IInv, Checked
<1>4. CASE UNCHANGED vars
    <2>1. UNCHANGED <<config, taken, outcome>>
        BY <1>4 DEF vars
    <2>2. TypeOK'
        BY <1>0, <2>1 DEF TypeOK, Ranges
    <2>3. Checked'
        BY <1>0, <2>1 DEF Checked, Consistent, HostsGood, HostLength
    <2> QED
        BY <2>2, <2>3 DEF IInv
<1> QED
    BY <1>1, <1>2, <1>3, <1>4, OptionAssigns DEF Next

\* Every field within its limits and, once accepted, a consistent whole: true of
\* parse_config at every point of every command line.
THEOREM Invariance == Spec => []IInv
BY InitInv, NextInv, PTL DEF Spec

\* A field within the limits of its option.
LEMMA Within ==
    ASSUME NEW o \in Numeric, NEW f, FieldOf(o) = f, NEW low \in Int, NEW high \in Int,
           NumberOptions[o].low = low, NumberOptions[o].high = high, Ranges(config)
    PROVE  config[f] \in Int /\ low <= config[f] /\ config[f] <= high
<1>1. config[f] \in low .. high
    BY DEF Ranges, InLimits
<1> QED
    BY <1>1

\* For command lines of every length: an accepted configuration has the numbers
\* and lengths that the server, a session and the packet reader rely on.
THEOREM Usable == Spec => []AcceptedIsUsable
<1>1. IInv => AcceptedIsUsable
    <2> SUFFICES ASSUME IInv, outcome = "accepted" PROVE AcceptedIsUsable
        BY SMT DEF AcceptedIsUsable
    <2>1. Consistent(config) /\ Ranges(config)
        BY DEF IInv, TypeOK, Checked
    <2>2. config["threads"] >= 1
        <3>1. NumberOptions["threads"].low = 1 /\ NumberOptions["threads"].high = 256
            BY SMT DEF NumberOptions, Number
        <3> QED
            BY <2>1, <3>1, NumericOptions, FieldsOf, Within, SMT
    <2>3. config["max_connections"] >= 1
        <3>1. /\ NumberOptions["max_connections"].low = 1
              /\ NumberOptions["max_connections"].high = 100000
            BY SMT DEF NumberOptions, Number
        <3> QED
            BY <2>1, <3>1, NumericOptions, FieldsOf, Within, SMT
    <2>4. config["handshake_timeout"] >= 1
        <3>1. /\ NumberOptions["handshake_timeout_ms"].low = 1
              /\ NumberOptions["handshake_timeout_ms"].high = 3600000
            BY SMT DEF NumberOptions, Number
        <3> QED
            BY <2>1, <3>1, NumericOptions, FieldsOf, Within, SMT
    <2>5. config["connect_timeout"] >= 1
        <3>1. /\ NumberOptions["connect_timeout_ms"].low = 1
              /\ NumberOptions["connect_timeout_ms"].high = 3600000
            BY SMT DEF NumberOptions, Number
        <3> QED
            BY <2>1, <3>1, NumericOptions, FieldsOf, Within, SMT
    <2>6. config["upstream_port"] \in 1 .. MaxPort
        <3>1. MaxPort \in Int
            BY SMT DEF MaxPort
        <3>2. /\ NumberOptions["upstream_port"].low = 1
              /\ NumberOptions["upstream_port"].high = MaxPort
            BY SMT DEF NumberOptions, Number
        <3> QED
            BY <2>1, <3>1, <3>2, NumericOptions, FieldsOf, Within, SMT
    <2>7. /\ config["description"] \in Int /\ config["version_name"] \in Int
          /\ config["favicon"] \in Int
        BY <2>1 DEF Ranges, Fields
    <2>8. config["favicon"] <= MaxFavicon
        <3>1. MaxFavicon \in Int
            BY SMT DEF MaxFavicon
        <3> QED
            BY <2>1, <3>1, SMT DEF Ranges
    <2>9. /\ config.target_host \in 1 .. max_hostname_bytes
          /\ config.handshake_host \in 1 .. max_hostname_bytes
          /\ config.online_players <= config.max_players
        BY <2>1, SMT DEF Consistent, HostsGood, HostLength
    <2>10. config["description"] <= 4096 /\ config["version_name"] <= 128
        BY <2>1, SMT DEF Consistent
    <2>11. 6 * (config["description"] + config["version_name"] + config["favicon"]) < Int32Max
        BY <2>7, <2>8, <2>10, SMT DEF MaxFavicon, Int32Max
    <2> QED
        BY <2>2, <2>3, <2>4, <2>5, <2>6, <2>9, <2>11, SMT DEF AcceptedIsUsable
<1> QED
    BY <1>1, Invariance, PTL
=============================================================================
