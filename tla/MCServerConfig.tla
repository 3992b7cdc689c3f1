--------------------------- MODULE MCServerConfig ---------------------------
(* Numbers and favicon files for TLC, around the limits of the code.       *)
EXTENDS ServerConfig

MCNumbers ==
    UNION {{o.low - 1, o.low, o.high, IF o.high < Int32Max THEN o.high + 1 ELSE 2} :
               o \in {NumberOptions[n] : n \in DOMAIN NumberOptions}}

File(none, opens, png, uri, line_ends) ==
    [none |-> none, opens |-> opens, png |-> png, uri |-> uri, line_ends |-> line_ends]

MCFiles ==
    {File(TRUE, FALSE, FALSE, 0, 0), File(FALSE, FALSE, FALSE, 0, 0)}
        \cup {File(FALSE, TRUE, png, uri, ends) :
                  png \in BOOLEAN, uri \in {22, MaxFavicon, MaxFavicon + 1}, ends \in {0, 2}}
=============================================================================
