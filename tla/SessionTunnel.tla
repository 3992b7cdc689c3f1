--------------------------- MODULE SessionTunnel ---------------------------
(* Session implements Tunnel.                                              *)
EXTENDS Session

T == INSTANCE Tunnel WITH
    ChunkSize <- BufferSize,
    HeadSize <- RewrittenSize,
    phase <- IF shutdown_initiated THEN "closed"
             ELSE IF length["up"] # 0 THEN "relaying" ELSE "opening",
    taken <- [d \in Directions |-> IF length["up"] # 0 THEN Received(d) ELSE 0],
    given <- [d \in Directions |-> Len(delivered[d])],
    freed <- ~Alive

(***************************************************************************)
(* Whatever completions, deadlines, errors and End() calls interleave, a   *)
(* session does nothing to its peers, its registry entry or its own life   *)
(* that Tunnel does not allow: one close, no traffic before the relay or   *)
(* after the close, no byte taken before the last chunk is passed on, no   *)
(* use of the object after it was freed.                                   *)
(***************************************************************************)
ImplementsTunnel == T!Spec

(***************************************************************************)
(* The receivers do not stop reading for ever: a pending write goes on or  *)
(* fails.  The code sets no deadline on a relay, so this is an assumption  *)
(* about the peers.                                                        *)
(***************************************************************************)
PeersRead == \A d \in Directions : WF_vars(Transmit(d) \/ (mode[d] = "write" /\ Fail(d)))

(***************************************************************************)
(* With receivers that read and connects that end, Session implements the  *)
(* fairness of Tunnel too: all that was taken is passed on unless the      *)
(* session closes, and a closed session is erased and freed, so no handler *)
(* chain of the relay breaks off while the session is open.                *)
(***************************************************************************)
ImplementsTunnelFair == OSGivesUp /\ PeersRead => T!Fairness
=============================================================================
