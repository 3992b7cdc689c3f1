------------------------ MODULE SessionTunnelProofs ------------------------
(***************************************************************************)
(* Session implements Tunnel, for buffers, streams and endpoint lists of   *)
(* any size.                                                               *)
(***************************************************************************)
EXTENDS SessionTunnel, SessionProofs

\* The abstract state, by name.
Phase == IF shutdown_initiated THEN "closed"
         ELSE IF length["up"] # 0 THEN "relaying" ELSE "opening"
Taken == [d \in Directions |-> IF length["up"] # 0 THEN Received(d) ELSE 0]
Given == [d \in Directions |-> Len(delivered[d])]

USE SizesAssumption
USE DEF Sockets, Directions, Timers, Chains, Status, Waits, Labels, control, data,
        lifecycle, timing, CloseSockets, NotifyClosed, Restarted, Captured,
        MoreEndpoints, CancelDeadline, BytesAsked, WroteAll, T!Directions

\* The initial states of Session are initial states of Tunnel.
LEMMA InitRefines == Init => T!Init
BY DEF Init, T!Init, Alive

\* Only a session that somebody holds acts: no handler, completion or posted
\* call touches a freed one.
LEMMA OnlyAliveActs == TypeOK /\ Next => Alive
<1> SUFFICES ASSUME TypeOK, Next PROVE Alive
    OBVIOUS
<1> USE DEF Alive
<1>1. CASE Strand
    BY <1>1 DEF Strand, Start, AwaitThrows, ContinueHandshake, ContinueStatus,
       InterceptEnds,
                StartConnect, NextEndpoint, ConnectOver, ConnectAfterEnd, ConnectFails,
                ConnectSucceeded, StartRelay, RelayHandler, DeadlineHandler, RunPostedEnd
<1>2. CASE PostEnd \/ Erase
    BY <1>2 DEF PostEnd, Erase
<1>3. CASE System
    BY <1>3 DEF System, Expire, Fail, ReceiveByte, SendReply, Connected, Receive, Transmit
<1> QED
    BY <1>1, <1>2, <1>3 DEF Next

\* The session is closed by End() alone, which tells the server; the registry
\* changes only by that and by the erase.
LEMMA ClosingSteps ==
    [Next]_vars =>
        \/ UNCHANGED <<shutdown_initiated, registry>>
        \/ ~shutdown_initiated /\ shutdown_initiated' /\ registry' = "erasing"
        \/ Erase
<1> SUFFICES ASSUME [Next]_vars, ~Erase
             PROVE  \/ UNCHANGED <<shutdown_initiated, registry>>
                    \/ ~shutdown_initiated /\ shutdown_initiated' /\ registry' = "erasing"
    OBVIOUS
<1>1. CASE Start \/ ContinueHandshake \/ ContinueStatus \/ StartConnect
    BY <1>1 DEF Start, ContinueHandshake, ContinueStatus, Await, StartConnect
<1>2. CASE AwaitThrows \/ InterceptEnds
    BY <1>2 DEF AwaitThrows, InterceptEnds, CoroutineEnds, End
<1>3. CASE NextEndpoint \/ ConnectAfterEnd \/ ConnectFails \/ StartRelay
    BY <1>3 DEF NextEndpoint, ConnectAfterEnd, ConnectFails, StartRelay
<1>4. ASSUME NEW d \in Directions, RelayHandler(d)
      PROVE  \/ UNCHANGED <<shutdown_initiated, registry>>
             \/ ~shutdown_initiated /\ shutdown_initiated' /\ registry' = "erasing"
    BY <1>4 DEF RelayHandler, End
<1>5. ASSUME NEW t \in Timers, DeadlineHandler(t)
      PROVE  \/ UNCHANGED <<shutdown_initiated, registry>>
             \/ ~shutdown_initiated /\ shutdown_initiated' /\ registry' = "erasing"
    BY <1>5 DEF DeadlineHandler, End
<1>6. CASE RunPostedEnd
    BY <1>6 DEF RunPostedEnd, End
<1>7. CASE PostEnd \/ System \/ UNCHANGED vars
    BY <1>7 DEF PostEnd, System, Expire, Fail, ReceiveByte, SendReply, Connected, Receive,
                Transmit, vars
<1> QED
    BY <1>1, <1>2, <1>3, <1>4, <1>5, <1>6, <1>7 DEF Next, Strand

\* A relay read takes bytes over when everything before them was passed on.
LEMMA ReceiveRefines ==
    ASSUME IInv, NEW d \in Directions, Receive(d)
    PROVE  T!Take(d)
<1>1. PICK n \in 1..BufferSize :
           /\ length' = [length EXCEPT ![d] = n]
           /\ consumed' = [consumed EXCEPT ![d] = @ + n]
    BY DEF Receive
<1>2. /\ TypeOK /\ length["up"] # 0 /\ length'["up"] # 0
      /\ UNCHANGED <<shutdown_initiated, registry, intercepted, delivered>>
      /\ io[d] = "pending" /\ io'[d] = "ok"
    BY ReceiveContinues DEF Receive, IInv, TypeOK
<1>3. ~shutdown_initiated
    BY <1>2 DEF IInv, Quiet
<1>4. Len(delivered[d]) = Received(d)
    <2>1. offset[d] = length[d]
        BY DEF IInv, Alternation, Receive
    <2>2. Len(delivered[d]) + length[d] - offset[d] = Received(d)
        BY <1>2 DEF IInv, Buffers
    <2>3. PICK o \in Nat, g \in Nat : o = offset[d] /\ g = Len(delivered[d])
        BY DirectionFacts
    <2>4. Received(d) = g + o - o
        BY <2>1, <2>2, <2>3
    <2> QED
        BY <2>3, <2>4
<1>5. Received(d)' = Received(d) + n /\ \A e \in Directions \ {d} : Received(e)' = Received(e)
    <2>1. consumed \in [Directions -> 0..MaxBytes] /\ consumed[d] \in Nat
        BY <1>2, DirectionFacts DEF TypeOK
    <2>2. consumed'[d] = consumed[d] + n /\ \A e \in Directions \ {d} : consumed'[e] = consumed[e]
        BY <1>1, <2>1
    <2>3. consumed[d] \in Int /\ intercepted \in Int /\ RewrittenSize \in Int /\ n \in Int
        BY <2>1, DirectionFacts
    <2> QED
        BY <1>2, <2>2, <2>3 DEF Received
<1>6. Taken' = [Taken EXCEPT ![d] = @ + n] /\ Given[d] = Taken[d]
    BY <1>2, <1>4, <1>5 DEF Taken, Given
<1>7. Alive /\ Alive'
    BY <1>2 DEF Alive
<1>8. Phase = "relaying" /\ Phase' = "relaying" /\ Given' = Given
    BY <1>2, <1>3 DEF Phase, Given
<1> QED
    BY <1>2, <1>6, <1>7, <1>8 DEF T!Take, Taken, Given, Phase

\* A written byte is one that was taken over and not yet given.
LEMMA TransmitRefines ==
    ASSUME IInv, NEW d \in Directions, Transmit(d)
    PROVE  T!Give(d)
<1>1. /\ TypeOK /\ length["up"] # 0
      /\ UNCHANGED <<shutdown_initiated, registry, intercepted, length, consumed>>
      /\ io[d] = "pending" /\ io'[d] # "idle"
      /\ delivered' = [delivered EXCEPT ![d] = Append(@, buffer[d][offset[d] + 1])]
    BY DEF Transmit, IInv, TypeOK, Stages
<1>2. ~shutdown_initiated
    BY <1>1 DEF IInv, Quiet
<1>3. Len(delivered[d]) < Received(d)
    <2>1. offset[d] < length[d]
        BY DEF IInv, Alternation, Transmit
    <2>2. Len(delivered[d]) + length[d] - offset[d] = Received(d)
        BY <1>1 DEF IInv, Buffers
    <2>3. PICK o \in Nat, l \in Nat, g \in Nat :
              o = offset[d] /\ l = length[d] /\ g = Len(delivered[d])
        BY DirectionFacts
    <2>4. o < l /\ Received(d) = g + l - o
        BY <2>1, <2>2, <2>3
    <2>5. g < g + l - o
        BY <2>4
    <2> QED
        BY <2>3, <2>4, <2>5
<1>4. Given' = [Given EXCEPT ![d] = @ + 1]
    <2>1. delivered \in [Directions -> Seq(Int)]
        BY <1>1 DEF TypeOK
    <2>2. buffer[d][offset[d] + 1] \in Int
        <3>1. offset[d] < length[d]
            BY DEF IInv, Alternation, Transmit
        <3>2. /\ offset[d] \in 0..BufferSize /\ length[d] \in 0..BufferSize
              /\ buffer[d] \in [1..BufferSize -> Int]
            BY DirectionFacts
        <3>3. offset[d] + 1 \in 1..BufferSize
            BY <3>1, <3>2
        <3> QED
            BY <3>2, <3>3
    <2>3. Len(delivered'[d]) = Len(delivered[d]) + 1
        BY <1>1, <2>1, <2>2
    <2> QED
        BY <1>1, <2>1, <2>3 DEF Given
<1>5. Taken' = Taken /\ Given[d] < Taken[d]
    BY <1>1, <1>3 DEF Taken, Given, Received
<1>6. Alive /\ Alive'
    BY <1>1 DEF Alive
<1>7. Phase = "relaying" /\ Phase' = "relaying"
    BY <1>1, <1>2 DEF Phase
<1> QED
    BY <1>1, <1>4, <1>5, <1>6, <1>7 DEF T!Give, Taken, Given, Phase

\* The successful connect owes upstream the rewritten handshake and nothing
\* else: the reader took no byte beyond it off the socket.
LEMMA StartRelayRefines ==
    ASSUME IInv, StartRelay
    PROVE  T!Establish
<1>1. /\ TypeOK /\ length["up"] = 0 /\ ~shutdown_initiated
      /\ UNCHANGED <<shutdown_initiated, registry, intercepted, consumed, delivered>>
      /\ io["connect"] # "idle" /\ io'["up"] # "idle"
      /\ length'["up"] = RewrittenSize
    BY DEF StartRelay, ConnectSucceeded, Initiate, IInv, TypeOK, Stages
<1>2. consumed["up"] = intercepted /\ consumed["down"] = 0
    BY <1>1 DEF IInv, Reader, Stages
<1>3. Received("up")' = RewrittenSize /\ Received("down")' = 0
    BY <1>1, <1>2 DEF Received, TypeOK
<1>4. Taken' = [Taken EXCEPT !["up"] = RewrittenSize] /\ Given' = Given
    BY <1>1, <1>3 DEF Taken, Given
<1>5. Alive /\ Alive'
    BY <1>1 DEF Alive
<1>6. Phase = "opening" /\ Phase' = "relaying"
    BY <1>1 DEF Phase
<1> QED
    BY <1>1, <1>4, <1>5, <1>6 DEF T!Establish, Taken, Given, Phase

\* Every step of Session is a step of Tunnel or leaves its state unchanged.
LEMMA NextRefines == IInv /\ [Next]_vars => [T!Next]_(T!vars)
<1> SUFFICES ASSUME IInv, [Next]_vars PROVE [T!Next]_(T!vars)
    OBVIOUS
<1>1. ASSUME NEW d \in Directions, Receive(d) PROVE T!Next
    BY <1>1, ReceiveRefines DEF T!Next
<1>2. ASSUME NEW d \in Directions, Transmit(d) PROVE T!Next
    BY <1>2, TransmitRefines DEF T!Next
<1>3. CASE StartRelay
    BY <1>3, StartRelayRefines DEF T!Next
<1>4. CASE UNCHANGED vars
    BY <1>4 DEF vars, T!vars, Alive, Received
<1>5. CASE /\ Next /\ ~StartRelay
           /\ ~\E d \in Directions : Receive(d) \/ Transmit(d)
    <2>1. Alive
        BY <1>5, OnlyAliveActs DEF IInv
    <2>2. Taken' = Taken /\ Given' = Given /\ length'["up"] = length["up"]
        BY <1>5, StreamChanges DEF Taken, Given, Received, stream
    <2>3. CASE UNCHANGED <<shutdown_initiated, registry>>
        <3>1. Phase' = Phase
            BY <2>2, <2>3 DEF Phase
        <3>2. CASE Alive'
            BY <2>1, <2>2, <2>3, <3>1, <3>2 DEF T!vars, Taken, Given, Phase
        <3>3. CASE ~Alive'
            <4>1. registry = "gone"
                BY <2>3, <3>3 DEF Alive
            <4>2. T!Free
                BY <2>1, <2>2, <2>3, <3>1, <3>3, <4>1 DEF T!Free, Taken, Given, Phase
            <4> QED
                BY <4>2 DEF T!Next
        <3> QED
            BY <3>2, <3>3
    <2>4. CASE ~shutdown_initiated /\ shutdown_initiated' /\ registry' = "erasing"
        <3>1. Phase \in {"opening", "relaying"} /\ Phase' = "closed"
            BY <2>4 DEF Phase
        <3>2. Alive'
            BY <2>4 DEF Alive
        <3>3. T!Close
            BY <2>1, <2>2, <2>4, <3>1, <3>2 DEF T!Close, Taken, Given, Phase
        <3> QED
            BY <3>3 DEF T!Next
    <2>5. CASE Erase
        <3>1. registry = "erasing" /\ registry' = "gone" /\ Phase' = Phase
            BY <2>2, <2>5 DEF Erase, Phase
        <3>2. T!Erase
            BY <2>2, <3>1 DEF T!Erase, Taken, Given, Phase
        <3> QED
            BY <3>2 DEF T!Next
    <2> QED
        BY <2>3, <2>4, <2>5, ClosingSteps
<1> QED
    BY <1>1, <1>2, <1>3, <1>4, <1>5

\* A session does nothing that Tunnel does not allow, whatever completions,
\* deadlines, errors and End() calls interleave.
THEOREM Refinement == Spec => ImplementsTunnel
<1>1. IInv /\ [Next]_vars => [T!Next]_(T!vars)
    BY NextRefines
<1> QED
    BY InitRefines, <1>1, Invariance, PTL DEF Spec, ImplementsTunnel, T!Spec
=============================================================================
