------------------------------- MODULE Tunnel -------------------------------
(***************************************************************************)
(* What a session promises, to its two peers and to the server, without    *)
(* its timers, buffers and handlers (README.md, "Architecture"): it is     *)
(* established or not, passes on what it takes, in order and without       *)
(* taking more before all is passed on, is closed once, and is then erased *)
(* from the registry and freed.  Module SessionTunnel shows that Session   *)
(* implements it; module Server relies on it.                              *)
(***************************************************************************)
EXTENDS Integers

CONSTANTS ChunkSize,  \* the most bytes taken at once
          HeadSize    \* the bytes of the handshake sent first

VARIABLES phase,      \* of the connection: opening, relaying or closed
          taken,      \* bytes taken over for each receiver
          given,      \* bytes of these the receiver was given
          registry,   \* the server's reference
          freed       \* is the session object destroyed

vars == <<phase, taken, given, registry, freed>>

Directions == {"up", "down"}

Init ==
    /\ phase = "opening"
    /\ taken = [d \in Directions |-> 0]
    /\ given = [d \in Directions |-> 0]
    /\ registry = "listed"
    /\ freed = FALSE

\* The connection to upstream stands and is owed the rewritten handshake.
Establish ==
    /\ phase = "opening"
    /\ phase' = "relaying"
    /\ taken' = [taken EXCEPT !["up"] = HeadSize]
    /\ UNCHANGED <<given, registry, freed>>

Take(d) ==
    /\ phase = "relaying" /\ given[d] = taken[d]
    /\ \E n \in 1 .. ChunkSize : taken' = [taken EXCEPT ![d] = @ + n]
    /\ UNCHANGED <<phase, given, registry, freed>>

Give(d) ==
    /\ phase = "relaying" /\ given[d] < taken[d]
    /\ given' = [given EXCEPT ![d] = @ + 1]
    /\ UNCHANGED <<phase, taken, registry, freed>>

\* The server hears of the end once, when it happens.
Close ==
    /\ phase \in {"opening", "relaying"}
    /\ phase' = "closed"
    /\ registry' = "erasing"
    /\ UNCHANGED <<taken, given, freed>>

Erase ==
    /\ registry = "erasing"
    /\ registry' = "gone"
    /\ freed' \in BOOLEAN
    /\ UNCHANGED <<phase, taken, given>>

Free ==
    /\ registry = "gone" /\ ~freed
    /\ freed' = TRUE
    /\ UNCHANGED <<phase, taken, given, registry>>

Next ==
    \/ Establish \/ Close \/ Erase \/ Free
    \/ \E d \in Directions : Take(d) \/ Give(d)

Spec == Init /\ [][Next]_vars

\* What is taken is given, and what is closed is erased and freed.
Fairness ==
    /\ \A d \in Directions : WF_vars(Give(d))
    /\ WF_vars(Erase) /\ WF_vars(Free)

FairSpec == Spec /\ Fairness
=============================================================================
