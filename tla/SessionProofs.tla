--------------------------- MODULE SessionProofs ---------------------------
(***************************************************************************)
(* The safety properties of module Session, for buffers, streams and       *)
(* endpoint lists of any size.                                             *)
(***************************************************************************)
EXTENDS Session, TLAPS

\* The coroutine, the connect and the relay follow one another: at most one
\* of the three has operations outstanding, and the relay's state is untouched
\* until it starts (length["up"] tells).
Stages ==
    /\ io["co"] # "idle" => at \notin {"spawned", "returned"}
    /\ io["connect"] # "idle" \/ length["up"] # 0 => at = "returned"
    /\ length["up"] # 0 => io["connect"] = "idle"
    /\ length["up"] = 0 =>
           \A d \in Directions :
               io[d] = "idle" /\ length[d] = 0 /\ offset[d] = 0 /\ delivered[d] = << >>
    /\ length["up"] = 0 => consumed["down"] = 0

\* Which deadline counts in which stage.
Deadlines ==
    /\ \A t \in Timers : armed[t] <= deadline_generation
    /\ ~shutdown_initiated /\ at \notin {"spawned", "returned"} => Live("handshake")
    /\ ~shutdown_initiated /\ io["connect"] # "idle" => Live("connect")
    /\ length["up"] # 0 => \A t \in Timers : armed[t] < deadline_generation

\* A write has something left to write; a read starts with everything written.
Alternation ==
    \A d \in Directions :
        /\ mode[d] = "write" /\ io[d] = "pending" => offset[d] < length[d]
        /\ mode[d] = "write" /\ io[d] = "ok" => offset[d] = length[d]
        /\ mode[d] = "read" /\ io[d] = "ok" => offset[d] = 0 /\ 0 < length[d]
        /\ mode[d] = "read" /\ io[d] \in {"pending", "error"} => offset[d] = length[d]

\* The byte that the awaited read has delivered and the reader not yet taken.
InHand == IF io["co"] = "ok" /\ at \in {"handshake", "request", "ping"} THEN 1 ELSE 0

\* The reader is never ahead of the socket; when the connect starts it is
\* level with it.
Reader ==
    /\ at # "returned" => consumed["up"] = intercepted + InHand
    /\ io["connect"] # "idle" => consumed["up"] = intercepted
    /\ length["up"] # 0 => intercepted <= consumed["up"]
    /\ io["connect"] # "idle" =>
           \A i \in 1..RewrittenSize : buffer["up"][i] = -i

\* What is in the buffer and not yet written continues what was delivered.
Buffers ==
    length["up"] # 0 =>
        \A d \in Directions :
            /\ Len(delivered[d]) + length[d] - offset[d] = Received(d)
            /\ \A i \in 1..length[d] :
                   offset[d] < i =>
                       buffer[d][i] = StreamByte(d, Len(delivered[d]) - offset[d] + i)

\* After End() nothing but a connect is outstanding.
Quiet ==
    shutdown_initiated =>
        ~open["source"] /\ \A c \in {"co", "up", "down"} : io[c] # "pending"

IInv ==
    /\ TypeOK /\ Stages /\ Deadlines /\ Alternation
    /\ Reader /\ Buffers /\ Quiet /\ StreamIntact

USE SizesAssumption
USE DEF Sockets, Directions, Timers, Chains, Status, Waits, Labels, control, data,
        lifecycle, timing, CloseSockets, NotifyClosed, Restarted, Captured,
        MoreEndpoints, CancelDeadline, BytesAsked, WroteAll

\* Cancelling the timer keeps the waits' type and leaves none waiting.
LEMMA CancelledType ==
    ASSUME NEW ws \in [Timers -> Waits]
    PROVE  /\ Cancelled(ws) \in [Timers -> Waits]
           /\ \A t \in Timers : Cancelled(ws)[t] # "waiting"
BY DEF Cancelled

\* Closing the sockets keeps the operations' type and leaves none pending.
LEMMA AbortedType ==
    ASSUME NEW ops \in [Chains -> Status]
    PROVE  /\ Aborted(ops) \in [Chains -> Status]
           /\ \A c \in Chains : Aborted(ops)[c] = IF ops[c] = "pending" THEN "error" ELSE ops[c]
BY DEF Aborted

\* End() keeps the types of what it changes.
LEMMA EndType ==
    ASSUME TypeOK, NEW ops \in [Chains -> Status], NEW ws \in [Timers -> Waits],
           End(ops, ws)
    PROVE  /\ shutdown_initiated' = TRUE
           /\ open' \in [Sockets -> BOOLEAN]
           /\ deadline_generation' \in Nat
           /\ wait' \in [Timers -> Waits]
           /\ io' \in [Chains -> Status]
           /\ registry' \in {"listed", "erasing", "gone"}
<1>1. CASE shutdown_initiated
    BY <1>1 DEF End, TypeOK
<1>2. CASE ~shutdown_initiated
    <2>1. wait' = Cancelled(ws) /\ Cancelled(ws) \in [Timers -> Waits]
        BY <1>2, CancelledType DEF End
    <2>2. io' = Aborted(ops) /\ Aborted(ops) \in [Chains -> Status]
        BY <1>2, AbortedType DEF End
    <2>3. open' = [s \in Sockets |-> FALSE]
        BY <1>2 DEF End
    <2>4. shutdown_initiated' = TRUE /\ deadline_generation' \in Nat /\ registry' = "erasing"
        <3>1. /\ shutdown_initiated' = TRUE /\ registry' = "erasing"
              /\ deadline_generation' = deadline_generation + 1
            BY <1>2 DEF End
        <3>2. deadline_generation \in Nat
            BY DEF TypeOK
        <3> QED
            BY <3>1, <3>2
    <2> QED
        BY <2>1, <2>2, <2>3, <2>4
<1> QED
    BY <1>1, <1>2

\* What the invariant needs to know of End(ops, ws), whether it is the first
\* call or a later one.
Closing(ops) ==
    /\ shutdown_initiated' = TRUE
    /\ deadline_generation' \in Nat /\ deadline_generation <= deadline_generation'
    /\ io' \in [Chains -> Status]
    /\ \A c \in Chains : io'[c] = ops[c] \/ (ops[c] = "pending" /\ io'[c] = "error")
    /\ \/ shutdown_initiated /\ open' = open /\ io' = ops
       \/ ~open'["source"] /\ \A c \in Chains : io'[c] # "pending"

\* End() does so.
LEMMA EndCloses ==
    ASSUME TypeOK, NEW ops \in [Chains -> Status], NEW ws, End(ops, ws)
    PROVE  Closing(ops)
<1>1. CASE shutdown_initiated
    BY <1>1 DEF End, TypeOK, Closing
<1>2. CASE ~shutdown_initiated
    <2>1. /\ shutdown_initiated' = TRUE
          /\ deadline_generation' = deadline_generation + 1
          /\ open' = [s \in Sockets |-> FALSE]
          /\ io' = Aborted(ops)
        BY <1>2 DEF End
    <2>2. deadline_generation \in Nat
        BY DEF TypeOK
    <2> QED
        BY <2>1, <2>2, AbortedType DEF Closing
<1> QED
    BY <1>1, <1>2

\* The coroutine's failure, a status exchange or an exception, is an End().
LEMMA CoroutineCloses ==
    ASSUME TypeOK, CoroutineEnds
    PROVE  Closing([io EXCEPT !["co"] = "idle"])
BY EndCloses DEF CoroutineEnds, TypeOK

\* A failed read or write of the relay is an End().
LEMMA RelayCloses ==
    ASSUME TypeOK, NEW d \in Directions, RelayHandler(d), io[d] = "error"
    PROVE  Closing([io EXCEPT ![d] = "idle"]) /\ UNCHANGED <<armed, at, endpoint, data>>
<1>1. [io EXCEPT ![d] = "idle"] \in [Chains -> Status]
    BY DEF TypeOK
<1> QED
    BY <1>1, EndCloses DEF RelayHandler

\* The deadline's handler is an End() or drops a wait that is not live.
LEMMA DeadlineCloses ==
    ASSUME TypeOK, NEW t \in Timers, DeadlineHandler(t)
    PROVE  /\ \/ Closing(io)
              \/ /\ UNCHANGED <<io, shutdown_initiated, deadline_generation, open>>
                 /\ wait' = [wait EXCEPT ![t] = "none"] /\ ~Live(t)
           /\ UNCHANGED <<armed, at, data>>
<1>1. io \in [Chains -> Status]
    BY DEF TypeOK
<1>2. CASE wait[t] = "expired" /\ armed[t] = deadline_generation
    BY <1>1, <1>2, EndCloses DEF DeadlineHandler
<1>3. CASE ~(wait[t] = "expired" /\ armed[t] = deadline_generation)
    BY <1>3 DEF DeadlineHandler, Live
<1> QED
    BY <1>2, <1>3

\* The End() dispatched by Server::Stop.
LEMMA PostedEndCloses ==
    ASSUME TypeOK, RunPostedEnd
    PROVE  Closing(io) /\ UNCHANGED <<armed, at, data>>
BY EndCloses DEF RunPostedEnd, TypeOK

\* A read, which fills the front of the buffer, keeps the types.
LEMMA ReceiveType ==
    ASSUME TypeOK, NEW d \in Directions, Receive(d) PROVE TypeOK'
<1>1. PICK n \in 1..BufferSize :
           /\ consumed[d] + n <= MaxBytes
           /\ buffer' = [buffer EXCEPT ![d] = [i \in 1..BufferSize |->
                            IF i <= n THEN consumed[d] + i ELSE @[i]]]
           /\ length' = [length EXCEPT ![d] = n]
           /\ offset' = [offset EXCEPT ![d] = 0]
           /\ consumed' = [consumed EXCEPT ![d] = @ + n]
    BY DEF Receive
<1>2. buffer[d] \in [1..BufferSize -> Int] /\ consumed[d] \in 0..MaxBytes
    BY DEF TypeOK
<1>3. n \in 0..BufferSize /\ 0 \in 0..BufferSize /\ consumed[d] + n \in 0..MaxBytes
    BY <1>1, <1>2
<1> DEFINE b == [i \in 1..BufferSize |-> IF i <= n THEN consumed[d] + i ELSE buffer[d][i]]
<1>4. b \in [1..BufferSize -> Int]
    BY <1>2
<1>5. buffer' = [buffer EXCEPT ![d] = b]
    BY <1>1
<1> HIDE DEF b
<1>6. buffer' \in [Directions -> [1..BufferSize -> Int]]
    BY <1>4, <1>5 DEF TypeOK
<1>7. /\ length' \in [Directions -> 0..BufferSize]
      /\ offset' \in [Directions -> 0..BufferSize]
      /\ consumed' \in [Directions -> 0..MaxBytes]
    BY <1>1, <1>3 DEF TypeOK
<1> QED
    BY <1>6, <1>7 DEF Receive, TypeOK

\* Writing one more byte of the buffer keeps the types.
LEMMA TransmitType ==
    ASSUME TypeOK, NEW d \in Directions, Transmit(d), offset[d] < length[d]
    PROVE  TypeOK'
<1>1. /\ buffer[d] \in [1..BufferSize -> Int] /\ delivered[d] \in Seq(Int)
      /\ length[d] \in 0..BufferSize /\ offset[d] \in 0..BufferSize
    BY DEF TypeOK
<1>2. offset[d] + 1 \in 1..BufferSize /\ offset[d] + 1 \in 0..BufferSize
    BY <1>1
<1> DEFINE e == Append(delivered[d], buffer[d][offset[d] + 1])
<1>3. e \in Seq(Int)
    BY <1>1, <1>2
<1>4. delivered' = [delivered EXCEPT ![d] = e]
    BY DEF Transmit
<1> HIDE DEF e
<1>5. delivered' \in [Directions -> Seq(Int)]
    BY <1>3, <1>4 DEF TypeOK
<1>6. offset' \in [Directions -> 0..BufferSize]
    BY <1>2 DEF Transmit, TypeOK
<1>7. io' \in [Chains -> Status]
    BY DEF Transmit, TypeOK
<1> QED
    BY <1>5, <1>6, <1>7 DEF Transmit, TypeOK

\* Every step keeps the types; Transmit needs Alternation.
LEMMA TypeStep == IInv /\ [Next]_vars => TypeOK'
<1> SUFFICES ASSUME IInv, [Next]_vars PROVE TypeOK'
    OBVIOUS
<1>0. TypeOK
    BY DEF IInv
<1> USE <1>0 DEF TypeOK
<1>1. CASE Start
    <2>1. CASE shutdown_initiated
        BY <1>1, <2>1 DEF Start
    <2>2. CASE ~shutdown_initiated
        <3>1. Cancelled(wait) \in [Timers -> Waits]
            BY CancelledType
        <3>2. /\ wait' = [Cancelled(wait) EXCEPT !["handshake"] = "waiting"]
              /\ armed' = [armed EXCEPT !["handshake"] = deadline_generation + 1]
              /\ deadline_generation' = deadline_generation + 1
            BY <1>1, <2>2 DEF Start, ArmDeadline
        <3>3. io' \in [Chains -> Status]
            BY <1>1, <2>2 DEF Start, Initiate
        <3> QED
            BY <1>1, <2>2, <3>1, <3>2, <3>3, SMTT(20) DEF Start
    <2> QED
        BY <2>1, <2>2
<1>2. CASE AwaitThrows
    <2>1. [io EXCEPT !["co"] = "idle"] \in [Chains -> Status]
        OBVIOUS
    <2> QED
        BY <1>2, <2>1, EndType DEF AwaitThrows, CoroutineEnds
<1>3. CASE ContinueHandshake
    <2>1. PICK label \in {"handshake", "request"} : Await(label, 1)
        BY <1>3, Zenon DEF ContinueHandshake
    <2>2. io' \in [Chains -> Status]
        BY <2>1 DEF Await, Initiate
    <2>3. at' \in Labels /\ intercepted' \in Nat
        BY <2>1 DEF Await
    <2> QED
        BY <2>1, <2>2, <2>3 DEF Await
<1>4. CASE ContinueStatus
    <2>1. PICK label \in Labels, n \in {0, 1} : Await(label, n)
        <3>1. PICK step \in {<<"request", "request">>, <<"request", "response">>,
                             <<"response", "ping">>, <<"ping", "ping">>, <<"ping", "pong">>} :
                  Await(step[2], IF at = "response" THEN 0 ELSE 1)
            BY <1>4, Zenon DEF ContinueStatus
        <3>2. step[2] \in Labels /\ (IF at = "response" THEN 0 ELSE 1) \in {0, 1}
            BY SMTT(20)
        <3> QED
            BY <3>1, <3>2, Zenon
    <2>2. io' \in [Chains -> Status]
        BY <2>1 DEF Await, Initiate
    <2>3. at' \in Labels /\ intercepted' \in Nat
        BY <2>1 DEF Await
    <2> QED
        BY <2>1, <2>2, <2>3 DEF Await
<1>5. CASE InterceptEnds
    <2>1. [io EXCEPT !["co"] = "idle"] \in [Chains -> Status]
        OBVIOUS
    <2> QED
        BY <1>5, <2>1, EndType DEF InterceptEnds, CoroutineEnds
<1>6. CASE StartConnect
    <2>1. Cancelled(wait) \in [Timers -> Waits]
        BY CancelledType
    <2>2. wait' \in [Timers -> Waits] /\ armed' \in [Timers -> Nat]
        <3>1. /\ wait' = [Cancelled(wait) EXCEPT !["connect"] = "waiting"]
              /\ armed' = [armed EXCEPT !["connect"] = deadline_generation + 1]
            BY <1>6 DEF StartConnect, ArmDeadline
        <3>2. deadline_generation + 1 \in Nat
            OBVIOUS
        <3>3. wait' \in [Timers -> Waits]
            BY <2>1, <3>1
        <3>4. armed' \in [Timers -> Nat]
            BY <3>1, <3>2
        <3> QED
            BY <3>3, <3>4
    <2>3. buffer' \in [Directions -> [1..BufferSize -> Int]]
        <3> DEFINE b == [i \in 1..BufferSize |->
                            IF i <= RewrittenSize THEN -i ELSE buffer["up"][i]]
        <3>1. buffer["up"] \in [1..BufferSize -> Int]
            OBVIOUS
        <3>2. b \in [1..BufferSize -> Int]
            BY <3>1
        <3>3. buffer' = [buffer EXCEPT !["up"] = b]
            BY <1>6 DEF StartConnect
        <3> HIDE DEF b
        <3> QED
            BY <3>2, <3>3
    <2>4. /\ at' = "returned" /\ endpoint' = 1 /\ intercepted' = intercepted + 1
          /\ deadline_generation' = deadline_generation + 1
          /\ UNCHANGED <<shutdown_initiated, mode, length, offset, consumed,
                         delivered, end_post, registry>>
        BY <1>6 DEF StartConnect, ArmDeadline
    <2>5. open' \in [Sockets -> BOOLEAN] /\ io' \in [Chains -> Status]
        BY <1>6 DEF StartConnect
    <2>6. endpoint' \in 0..Endpoints /\ intercepted' \in Nat /\ deadline_generation' \in Nat
        BY <2>4
    <2>7. at' \in Labels
        BY <2>4
    <2> QED
        BY <2>2, <2>3, <2>4, <2>5, <2>6, <2>7
<1>7. CASE NextEndpoint
    BY <1>7, SMTT(20) DEF NextEndpoint
<1>8. CASE ConnectAfterEnd
    <2>1. wait' \in [Timers -> Waits] /\ deadline_generation' \in Nat
        BY <1>8, CancelledType, SMTT(20) DEF ConnectAfterEnd
    <2>2. io' \in [Chains -> Status]
        BY <1>8 DEF ConnectAfterEnd
    <2> QED
        BY <1>8, <2>1, <2>2 DEF ConnectAfterEnd
<1>9. CASE ConnectFails
    BY <1>9, SMTT(20) DEF ConnectFails, Cancelled, Aborted
<1>10. CASE StartRelay
    <2>1. io' \in [Chains -> Status]
        BY <1>10 DEF StartRelay, Initiate
    <2>2. /\ wait' = Cancelled(wait) /\ deadline_generation' = deadline_generation + 1
          /\ mode' = [up |-> "write", down |-> "read"]
          /\ length' = [length EXCEPT !["up"] = RewrittenSize]
          /\ offset' = [offset EXCEPT !["up"] = 0]
          /\ UNCHANGED <<lifecycle, armed, at, endpoint, end_post, buffer, consumed,
                         intercepted, delivered>>
        BY <1>10 DEF StartRelay
    <2>3. wait' \in [Timers -> Waits]
        BY <2>2, CancelledType
    <2>4. mode' \in [Directions -> {"read", "write"}] /\ deadline_generation' \in Nat
        BY <2>2
    <2>5. RewrittenSize \in 0..BufferSize /\ 0 \in 0..BufferSize
        OBVIOUS
    <2>6. length' \in [Directions -> 0..BufferSize] /\ offset' \in [Directions -> 0..BufferSize]
        BY <2>2, <2>5
    <2> QED
        BY <2>1, <2>2, <2>3, <2>4, <2>6
<1>11. ASSUME NEW d \in Directions, RelayHandler(d) PROVE TypeOK'
    <2>1. CASE io[d] = "ok"
        <3>1. Read(d) \/ Write(d)
            BY <1>11, <2>1 DEF RelayHandler
        <3>2. io' \in [Chains -> Status] /\ mode' \in [Directions -> {"read", "write"}]
            BY <3>1 DEF Read, Write, Initiate
        <3>3. UNCHANGED <<control, buffer, length, offset, consumed, intercepted, delivered>>
            BY <1>11, <2>1 DEF RelayHandler
        <3> QED
            BY <3>2, <3>3
    <2>2. CASE io[d] = "error"
        <3>1. [io EXCEPT ![d] = "idle"] \in [Chains -> Status]
            OBVIOUS
        <3> QED
            BY <1>11, <2>2, <3>1, EndType DEF RelayHandler
    <2> QED
        BY <1>11, <2>1, <2>2 DEF RelayHandler
<1>12. ASSUME NEW t \in Timers, DeadlineHandler(t) PROVE TypeOK'
    <2> DEFINE ws == [wait EXCEPT ![t] = "none"]
    <2>1. ws \in [Timers -> Waits] /\ io \in [Chains -> Status]
        BY <1>12 
    <2>2. CASE End(io, ws)
        <3> HIDE DEF ws
        <3> QED BY <1>12, <2>1, <2>2, EndType DEF DeadlineHandler
    <2>3. CASE wait' = ws /\ UNCHANGED <<io, shutdown_initiated, deadline_generation, open, registry>>
        BY <1>12, <2>3 DEF DeadlineHandler
    <2> QED
        BY <1>12, <2>2, <2>3 DEF DeadlineHandler
<1>13. CASE RunPostedEnd
    BY <1>13, EndType DEF RunPostedEnd
<1>14. CASE PostEnd
    BY <1>14 DEF PostEnd
<1>15. CASE Erase
    BY <1>15 DEF Erase
<1>16. ASSUME NEW t \in Timers, Expire(t) PROVE TypeOK'
    BY <1>16 DEF Expire
<1>17. ASSUME NEW c \in Chains, Fail(c) PROVE TypeOK'
    BY <1>17 DEF Fail
<1>18. CASE ReceiveByte
    <2>1. PICK n \in 1..BytesAsked :
              /\ consumed["up"] + n <= MaxBytes
              /\ consumed' = [consumed EXCEPT !["up"] = @ + n]
        BY <1>18 DEF ReceiveByte
    <2>2. consumed["up"] + n \in 0..MaxBytes
        <3>1. PICK k \in Nat : k = consumed["up"]
            OBVIOUS
        <3>2. k + n <= MaxBytes /\ n \in Nat
            BY <2>1, <3>1 DEF BytesAsked
        <3>3. k + n \in 0..MaxBytes
            BY <3>2, SizesAssumption
        <3> QED
            BY <3>1, <3>3
    <2>3. consumed' \in [Directions -> 0..MaxBytes]
        BY <2>1, <2>2
    <2>4. io' \in [Chains -> Status]
        BY <1>18 DEF ReceiveByte
    <2> QED
        BY <1>18, <2>3, <2>4 DEF ReceiveByte
<1>19. CASE SendReply
    BY <1>19 DEF SendReply
<1>20. CASE Connected
    BY <1>20 DEF Connected
<1>21. ASSUME NEW d \in Directions, Receive(d) PROVE TypeOK'
    BY <1>21, ReceiveType
<1>22. ASSUME NEW d \in Directions, Transmit(d) PROVE TypeOK'
    <2>1. offset[d] < length[d]
        BY <1>22 DEF Transmit, IInv, Alternation
    <2> HIDE DEF TypeOK
    <2> QED
        BY <1>22, <2>1, TransmitType
<1>23. CASE UNCHANGED vars
    BY <1>23 DEF vars
<1>24. QED
    BY <1>1, <1>2, <1>3, <1>4, <1>5, <1>6, <1>7, <1>8, <1>9, <1>10, <1>11, <1>12, <1>13,
       <1>14, <1>15, <1>16, <1>17, <1>18, <1>19, <1>20, <1>21, <1>22, <1>23 DEF Next,
       Strand, System

\* Every step keeps the order of the stages.
LEMMA StagesStep == IInv /\ [Next]_vars => Stages'
<1> SUFFICES ASSUME IInv, [Next]_vars PROVE Stages'
    OBVIOUS
<1> USE DEF Stages
<1>0. /\ TypeOK /\ Stages
      /\ io \in [Chains -> Status]
      /\ length \in [Directions -> 0..BufferSize] /\ offset \in [Directions -> 0..BufferSize]
      /\ consumed \in [Directions -> 0..MaxBytes]
    BY DEF IInv, TypeOK
<1>1. CASE Start
    BY <1>0, <1>1 DEF Start, ArmDeadline, Cancelled, Initiate
<1>2. CASE (AwaitThrows \/ InterceptEnds)
    BY <1>0, <1>2, CoroutineCloses DEF AwaitThrows, InterceptEnds, CoroutineEnds, Closing
<1>3. CASE ContinueHandshake \/ ContinueStatus
    BY <1>0, <1>3 DEF ContinueHandshake, ContinueStatus, Await, Initiate
<1>4. CASE StartConnect
    BY <1>0, <1>4 DEF StartConnect, ArmDeadline, Cancelled
<1>5. CASE NextEndpoint
    BY <1>0, <1>5 DEF NextEndpoint
<1>6. CASE ConnectAfterEnd
    BY <1>0, <1>6 DEF ConnectAfterEnd, Cancelled
<1>7. CASE ConnectFails
    BY <1>0, <1>7 DEF ConnectFails, Cancelled, Aborted
<1>8. CASE StartRelay
    BY <1>0, <1>8 DEF StartRelay, ConnectSucceeded, Cancelled, Initiate
<1>9. ASSUME NEW d \in Directions, RelayHandler(d) PROVE Stages'
    <2>1. CASE io[d] = "error"
        BY <1>0, <1>9, <2>1, RelayCloses DEF Closing
    <2>2. CASE io[d] = "ok"
        BY <1>0, <1>9, <2>2 DEF RelayHandler, Read, Write, Initiate
    <2> QED
        BY <1>9, <2>1, <2>2 DEF RelayHandler
<1>10. ASSUME NEW t \in Timers, DeadlineHandler(t) PROVE Stages'
    BY <1>0, <1>10, DeadlineCloses DEF Closing
<1>11. CASE RunPostedEnd
    BY <1>0, <1>11, PostedEndCloses DEF Closing
<1>12. CASE PostEnd \/ Erase \/ UNCHANGED vars
    BY <1>0, <1>12 DEF PostEnd, Erase, vars
<1>13. ASSUME NEW t \in Timers, Expire(t) PROVE Stages'
    BY <1>0, <1>13 DEF Expire
<1>14. ASSUME NEW c \in Chains, Fail(c) PROVE Stages'
    BY <1>0, <1>14 DEF Fail
<1>15. CASE ReceiveByte \/ SendReply \/ Connected
    BY <1>0, <1>15 DEF ReceiveByte, SendReply, Connected
<1>16. ASSUME NEW d \in Directions, Receive(d) PROVE Stages'
    BY <1>0, <1>16 DEF Receive
<1>17. ASSUME NEW d \in Directions, Transmit(d) PROVE Stages'
    BY <1>0, <1>17 DEF Transmit
<1> QED
    BY <1>1, <1>2, <1>3, <1>4, <1>5, <1>6, <1>7, <1>8, <1>9, <1>10, <1>11, <1>12, <1>13,
       <1>14, <1>15, <1>16, <1>17
       DEF Next, Strand, System

\* Every step keeps a closed session quiet: Await finds the client's socket closed,
\* Read and Write look at shutdown_initiated.
LEMMA QuietStep == IInv /\ [Next]_vars => Quiet'
<1> SUFFICES ASSUME IInv, [Next]_vars PROVE Quiet'
    OBVIOUS
<1> USE DEF Quiet
<1>0. /\ TypeOK /\ Quiet
      /\ io \in [Chains -> Status]
      /\ open \in [Sockets -> BOOLEAN]
    BY DEF IInv, TypeOK
<1>1. CASE Start
    BY <1>0, <1>1 DEF Start, ArmDeadline, Cancelled, Initiate
<1>2. CASE (AwaitThrows \/ InterceptEnds)
    BY <1>0, <1>2, CoroutineCloses DEF AwaitThrows, InterceptEnds, CoroutineEnds, Closing
<1>3. CASE ContinueHandshake \/ ContinueStatus
    BY <1>0, <1>3 DEF ContinueHandshake, ContinueStatus, Await, Initiate
<1>4. CASE StartConnect
    BY <1>0, <1>4 DEF StartConnect, ArmDeadline, Cancelled
<1>5. CASE NextEndpoint
    BY <1>0, <1>5 DEF NextEndpoint
<1>6. CASE ConnectAfterEnd
    BY <1>0, <1>6 DEF ConnectAfterEnd, Cancelled
<1>7. CASE ConnectFails
    BY <1>0, <1>7 DEF ConnectFails, Cancelled, Aborted
<1>8. CASE StartRelay
    BY <1>0, <1>8 DEF StartRelay, ConnectSucceeded, Cancelled, Initiate
<1>9. ASSUME NEW d \in Directions, RelayHandler(d) PROVE Quiet'
    <2>1. CASE io[d] = "error"
        BY <1>0, <1>9, <2>1, RelayCloses DEF Closing
    <2>2. CASE io[d] = "ok"
        BY <1>0, <1>9, <2>2 DEF RelayHandler, Read, Write, Initiate
    <2> QED
        BY <1>9, <2>1, <2>2 DEF RelayHandler
<1>10. ASSUME NEW t \in Timers, DeadlineHandler(t) PROVE Quiet'
    BY <1>0, <1>10, DeadlineCloses DEF Closing
<1>11. CASE RunPostedEnd
    BY <1>0, <1>11, PostedEndCloses DEF Closing
<1>12. CASE PostEnd \/ Erase \/ UNCHANGED vars
    BY <1>0, <1>12 DEF PostEnd, Erase, vars
<1>13. ASSUME NEW t \in Timers, Expire(t) PROVE Quiet'
    BY <1>0, <1>13 DEF Expire
<1>14. ASSUME NEW c \in Chains, Fail(c) PROVE Quiet'
    BY <1>0, <1>14 DEF Fail
<1>15. CASE ReceiveByte \/ SendReply \/ Connected
    BY <1>0, <1>15 DEF ReceiveByte, SendReply, Connected
<1>16. ASSUME NEW d \in Directions, Receive(d) PROVE Quiet'
    BY <1>0, <1>16 DEF Receive
<1>17. ASSUME NEW d \in Directions, Transmit(d) PROVE Quiet'
    BY <1>0, <1>17 DEF Transmit
<1> QED
    BY <1>1, <1>2, <1>3, <1>4, <1>5, <1>6, <1>7, <1>8, <1>9, <1>10, <1>11, <1>12, <1>13,
       <1>14, <1>15, <1>16, <1>17
       DEF Next, Strand, System

\* Every step keeps reads and writes of a direction alternating.
LEMMA AlternationStep == IInv /\ [Next]_vars => Alternation'
<1> SUFFICES ASSUME IInv, [Next]_vars PROVE Alternation'
    OBVIOUS
<1> USE DEF Stages, Alternation
<1>0. /\ TypeOK /\ Stages /\ Alternation
      /\ io \in [Chains -> Status]
      /\ length \in [Directions -> 0..BufferSize] /\ offset \in [Directions -> 0..BufferSize]
      /\ mode \in [Directions -> {"read", "write"}]
    BY DEF IInv, TypeOK
<1>1. CASE Start
    BY <1>0, <1>1 DEF Start, ArmDeadline, Cancelled, Initiate
<1>2. CASE (AwaitThrows \/ InterceptEnds)
    BY <1>0, <1>2, CoroutineCloses DEF AwaitThrows, InterceptEnds, CoroutineEnds, Closing
<1>3. CASE ContinueHandshake \/ ContinueStatus
    BY <1>0, <1>3 DEF ContinueHandshake, ContinueStatus, Await, Initiate
<1>4. CASE StartConnect
    BY <1>0, <1>4 DEF StartConnect, ArmDeadline, Cancelled
<1>5. CASE NextEndpoint
    BY <1>0, <1>5 DEF NextEndpoint
<1>6. CASE ConnectAfterEnd
    BY <1>0, <1>6 DEF ConnectAfterEnd, Cancelled
<1>7. CASE ConnectFails
    BY <1>0, <1>7 DEF ConnectFails, Cancelled, Aborted
<1>8. CASE StartRelay
    BY <1>0, <1>8 DEF StartRelay, ConnectSucceeded, Cancelled, Initiate
<1>9. ASSUME NEW d \in Directions, RelayHandler(d) PROVE Alternation'
    <2>1. CASE io[d] = "error"
        <3>1. /\ UNCHANGED <<mode, length, offset>>
              /\ \A c \in Chains : \/ io'[c] = IF c = d THEN "idle" ELSE io[c]
                                   \/ io[c] = "pending" /\ io'[c] = "error"
            BY <1>0, <1>9, <2>1, RelayCloses DEF Closing
        <3> QED
            BY <1>0, <2>1, <3>1
    <2>2. CASE io[d] = "ok"
        BY <1>0, <1>9, <2>2 DEF RelayHandler, Read, Write, Initiate
    <2> QED
        BY <1>9, <2>1, <2>2 DEF RelayHandler
<1>10. ASSUME NEW t \in Timers, DeadlineHandler(t) PROVE Alternation'
    <2>1. UNCHANGED data /\ (Closing(io) \/ io' = io)
        BY <1>0, <1>10, DeadlineCloses, Zenon
    <2>2. /\ UNCHANGED <<mode, length, offset>>
          /\ \A c \in Chains : io'[c] = io[c] \/ (io[c] = "pending" /\ io'[c] = "error")
        BY <2>1 DEF Closing
    <2> QED
        BY <1>0, <2>2
<1>11. CASE RunPostedEnd
    BY <1>0, <1>11, PostedEndCloses DEF Closing
<1>12. CASE PostEnd \/ Erase \/ UNCHANGED vars
    BY <1>0, <1>12 DEF PostEnd, Erase, vars
<1>13. ASSUME NEW t \in Timers, Expire(t) PROVE Alternation'
    BY <1>0, <1>13 DEF Expire
<1>14. ASSUME NEW c \in Chains, Fail(c) PROVE Alternation'
    BY <1>0, <1>14 DEF Fail
<1>15. CASE ReceiveByte \/ SendReply \/ Connected
    BY <1>0, <1>15 DEF ReceiveByte, SendReply, Connected
<1>16. ASSUME NEW d \in Directions, Receive(d) PROVE Alternation'
    BY <1>0, <1>16 DEF Receive
<1>17. ASSUME NEW d \in Directions, Transmit(d) PROVE Alternation'
    BY <1>0, <1>17 DEF Transmit
<1> QED
    BY <1>1, <1>2, <1>3, <1>4, <1>5, <1>6, <1>7, <1>8, <1>9, <1>10, <1>11, <1>12, <1>13,
       <1>14, <1>15, <1>16, <1>17
       DEF Next, Strand, System

\* Every step keeps the deadline of its stage running, and no other.
LEMMA DeadlinesStep == IInv /\ [Next]_vars => Deadlines'
<1> SUFFICES ASSUME IInv, [Next]_vars PROVE Deadlines'
    OBVIOUS
<1> USE DEF Stages, Deadlines, Live
<1>0. /\ TypeOK /\ Stages /\ Deadlines
      /\ io \in [Chains -> Status]
      /\ wait \in [Timers -> Waits] /\ armed \in [Timers -> Nat]
      /\ deadline_generation \in Nat
    BY DEF IInv, TypeOK
<1>1. CASE Start
    BY <1>0, <1>1 DEF Start, ArmDeadline, Cancelled, Initiate
<1>2. CASE (AwaitThrows \/ InterceptEnds)
    <2>1. Closing([io EXCEPT !["co"] = "idle"]) /\ UNCHANGED <<armed, length>>
        BY <1>0, <1>2, CoroutineCloses DEF AwaitThrows, InterceptEnds, CoroutineEnds
    <2> QED
        BY <1>0, <2>1 DEF Closing
<1>3. CASE ContinueHandshake \/ ContinueStatus
    BY <1>0, <1>3 DEF ContinueHandshake, ContinueStatus, Await, Initiate
<1>4. CASE StartConnect
    BY <1>0, <1>4 DEF StartConnect, ArmDeadline, Cancelled
<1>5. CASE NextEndpoint
    BY <1>0, <1>5 DEF NextEndpoint
<1>6. CASE ConnectAfterEnd
    BY <1>0, <1>6 DEF ConnectAfterEnd, Cancelled
<1>7. CASE ConnectFails
    BY <1>0, <1>7 DEF ConnectFails, Cancelled, Aborted
<1>8. CASE StartRelay
    BY <1>0, <1>8 DEF StartRelay, ConnectSucceeded, Cancelled, Initiate
<1>9. ASSUME NEW d \in Directions, RelayHandler(d) PROVE Deadlines'
    <2>1. CASE io[d] = "error"
        <3>1. Closing([io EXCEPT ![d] = "idle"]) /\ UNCHANGED <<armed, length>>
            BY <1>0, <1>9, <2>1, RelayCloses
        <3> QED
            BY <1>0, <3>1 DEF Closing
    <2>2. CASE io[d] = "ok"
        BY <1>0, <1>9, <2>2 DEF RelayHandler, Read, Write, Initiate
    <2> QED
        BY <1>9, <2>1, <2>2 DEF RelayHandler
<1>10. ASSUME NEW t \in Timers, DeadlineHandler(t) PROVE Deadlines'
    <2>1. UNCHANGED <<armed, at, length>>
        BY <1>0, <1>10, DeadlineCloses
    <2>2. CASE Closing(io)
        BY <1>0, <2>1, <2>2 DEF Closing
    <2>3. CASE /\ UNCHANGED <<io, shutdown_initiated, deadline_generation>>
               /\ wait' = [wait EXCEPT ![t] = "none"] /\ ~Live(t)
        BY <1>0, <2>1, <2>3
    <2> QED
        BY <1>0, <1>10, <2>2, <2>3, DeadlineCloses
<1>11. CASE RunPostedEnd
    BY <1>0, <1>11, PostedEndCloses DEF Closing
<1>12. CASE PostEnd \/ Erase \/ UNCHANGED vars
    BY <1>0, <1>12 DEF PostEnd, Erase, vars
<1>13. ASSUME NEW t \in Timers, Expire(t) PROVE Deadlines'
    BY <1>0, <1>13 DEF Expire
<1>14. ASSUME NEW c \in Chains, Fail(c) PROVE Deadlines'
    BY <1>0, <1>14 DEF Fail
<1>15. CASE ReceiveByte \/ SendReply \/ Connected
    BY <1>0, <1>15 DEF ReceiveByte, SendReply, Connected
<1>16. ASSUME NEW d \in Directions, Receive(d) PROVE Deadlines'
    BY <1>0, <1>16 DEF Receive
<1>17. ASSUME NEW d \in Directions, Transmit(d) PROVE Deadlines'
    BY <1>0, <1>17 DEF Transmit
<1> QED
    BY <1>1, <1>2, <1>3, <1>4, <1>5, <1>6, <1>7, <1>8, <1>9, <1>10, <1>11, <1>12, <1>13,
       <1>14, <1>15, <1>16, <1>17
       DEF Next, Strand, System

\* Every step keeps the reader level with the socket.
LEMMA ReaderStep == IInv /\ [Next]_vars => Reader'
<1> SUFFICES ASSUME IInv, [Next]_vars PROVE Reader'
    OBVIOUS
<1> USE DEF Stages, Reader, InHand
<1>0. /\ TypeOK /\ Stages /\ Reader
      /\ io \in [Chains -> Status]
      /\ consumed \in [Directions -> 0..MaxBytes]
      /\ intercepted \in Nat
      /\ length \in [Directions -> 0..BufferSize]
      /\ buffer \in [Directions -> [1..BufferSize -> Int]]
    BY DEF IInv, TypeOK
<1>1. CASE Start
    BY <1>0, <1>1 DEF Start, ArmDeadline, Cancelled, Initiate
<1>2. CASE (AwaitThrows \/ InterceptEnds)
    BY <1>0, <1>2, CoroutineCloses DEF AwaitThrows, InterceptEnds, CoroutineEnds, Closing
<1>3. CASE ContinueHandshake \/ ContinueStatus
    <2>1. CASE ContinueHandshake
        BY <1>0, <2>1 DEF ContinueHandshake, Await, Initiate
    <2>2. CASE ContinueStatus
        BY <1>0, <2>2 DEF ContinueStatus, Await, Initiate
    <2> QED
        BY <1>3, <2>1, <2>2
<1>4. CASE StartConnect
    BY <1>0, <1>4 DEF StartConnect, ArmDeadline, Cancelled
<1>5. CASE NextEndpoint
    BY <1>0, <1>5 DEF NextEndpoint
<1>6. CASE ConnectAfterEnd
    BY <1>0, <1>6 DEF ConnectAfterEnd, Cancelled
<1>7. CASE ConnectFails
    BY <1>0, <1>7 DEF ConnectFails, Cancelled, Aborted
<1>8. CASE StartRelay
    BY <1>0, <1>8 DEF StartRelay, ConnectSucceeded, Cancelled, Initiate
<1>9. ASSUME NEW d \in Directions, RelayHandler(d) PROVE Reader'
    <2>1. CASE io[d] = "error"
        BY <1>0, <1>9, <2>1, RelayCloses DEF Closing
    <2>2. CASE io[d] = "ok"
        BY <1>0, <1>9, <2>2 DEF RelayHandler, Read, Write, Initiate
    <2> QED
        BY <1>9, <2>1, <2>2 DEF RelayHandler
<1>10. ASSUME NEW t \in Timers, DeadlineHandler(t) PROVE Reader'
    BY <1>0, <1>10, DeadlineCloses DEF Closing
<1>11. CASE RunPostedEnd
    BY <1>0, <1>11, PostedEndCloses DEF Closing
<1>12. CASE PostEnd \/ Erase \/ UNCHANGED vars
    BY <1>0, <1>12 DEF PostEnd, Erase, vars
<1>13. ASSUME NEW t \in Timers, Expire(t) PROVE Reader'
    BY <1>0, <1>13 DEF Expire
<1>14. ASSUME NEW c \in Chains, Fail(c) PROVE Reader'
    BY <1>0, <1>14 DEF Fail
<1>15. CASE ReceiveByte \/ SendReply \/ Connected
    BY <1>0, <1>15 DEF ReceiveByte, SendReply, Connected
<1>16. ASSUME NEW d \in Directions, Receive(d) PROVE Reader'
    <2>1. length["up"] # 0 /\ at = "returned" /\ io["connect"] = "idle"
        BY <1>0, <1>16 DEF Receive
    <2>2. /\ consumed["up"] <= consumed'["up"] /\ consumed'["up"] \in Nat
          /\ UNCHANGED <<at, intercepted>>
        <3>1. PICK n \in 1..BufferSize : consumed' = [consumed EXCEPT ![d] = @ + n]
            BY <1>16, Zenon DEF Receive
        <3>2. PICK k \in Nat : k = consumed["up"]
            BY <1>0
        <3>3. consumed'["up"] \in {k, k + n}
            BY <1>0, <3>1, <3>2
        <3>4. UNCHANGED <<at, intercepted>>
            BY <1>16 DEF Receive
        <3> QED
            BY <3>2, <3>3, <3>4
    <2>3. io'["connect"] = "idle"
        BY <1>0, <1>16, <2>1 DEF Receive
    <2>4. intercepted <= consumed'["up"]
        BY <1>0, <2>1, <2>2
    <2> QED
        BY <2>1, <2>2, <2>3, <2>4
<1>17. ASSUME NEW d \in Directions, Transmit(d) PROVE Reader'
    BY <1>0, <1>17 DEF Transmit
<1> QED
    BY <1>1, <1>2, <1>3, <1>4, <1>5, <1>6, <1>7, <1>8, <1>9, <1>10, <1>11, <1>12, <1>13,
       <1>14, <1>15, <1>16, <1>17
       DEF Next, Strand, System

\* The variables the relayed streams depend on.
stream == <<buffer, length, offset, consumed, intercepted, delivered>>

\* Only the relay itself changes them once it has started.
LEMMA StreamChanges ==
    IInv /\ [Next]_vars =>
        \/ UNCHANGED stream
        \/ /\ length["up"] = 0 /\ UNCHANGED <<length, delivered>>
           /\ consumed' = consumed \/ ReceiveByte
        \/ StartRelay
        \/ \E d \in Directions : Receive(d) \/ Transmit(d)
<1> SUFFICES ASSUME IInv, [Next]_vars,
                    ~StartRelay, ~\E d \in Directions : Receive(d) \/ Transmit(d)
             PROVE  \/ UNCHANGED stream
                    \/ /\ length["up"] = 0 /\ UNCHANGED <<length, delivered>>
                       /\ consumed' = consumed \/ ReceiveByte
    OBVIOUS
<1> USE DEF stream
<1>0. TypeOK /\ Stages
    BY DEF IInv
<1>1. CASE Start \/ NextEndpoint \/ ConnectAfterEnd \/ ConnectFails
    BY <1>1 DEF Start, NextEndpoint, ConnectAfterEnd, ConnectFails
<1>2. CASE AwaitThrows \/ InterceptEnds
    BY <1>2 DEF AwaitThrows, InterceptEnds, CoroutineEnds
<1>3. CASE ContinueHandshake \/ ContinueStatus \/ StartConnect \/ ReceiveByte
    BY <1>0, <1>3 DEF ContinueHandshake, ContinueStatus, Await, StartConnect,
       ReceiveByte, Stages
<1>4. ASSUME NEW d \in Directions, RelayHandler(d) PROVE UNCHANGED stream
    BY <1>4 DEF RelayHandler
<1>5. ASSUME NEW t \in Timers, DeadlineHandler(t) \/ Expire(t) PROVE UNCHANGED stream
    BY <1>5 DEF DeadlineHandler, Expire
<1>6. CASE RunPostedEnd \/ PostEnd \/ Erase \/ SendReply \/ Connected \/ UNCHANGED vars
    BY <1>6 DEF RunPostedEnd, PostEnd, Erase, SendReply, Connected, vars
<1>7. ASSUME NEW c \in Chains, Fail(c) PROVE UNCHANGED stream
    BY <1>7 DEF Fail
<1> QED
    BY <1>1, <1>2, <1>3, <1>4, <1>5, <1>6, <1>7 DEF Next, Strand, System

\* What one direction's share of Buffers says.
Continues(d) ==
    /\ Len(delivered[d]) + length[d] - offset[d] = Received(d)
    /\ \A i \in 1..length[d] :
           offset[d] < i =>
               buffer[d][i] = StreamByte(d, Len(delivered[d]) - offset[d] + i)

\* The types and bounds the arithmetic of one direction rests on.
LEMMA DirectionFacts ==
    ASSUME IInv, NEW d \in Directions
    PROVE  /\ buffer[d] \in [1..BufferSize -> Int] /\ delivered[d] \in Seq(Int)
           /\ length[d] \in 0..BufferSize /\ offset[d] \in 0..BufferSize
           /\ consumed[d] \in Nat /\ intercepted \in Nat
           /\ Len(delivered[d]) \in Nat /\ RewrittenSize \in Nat /\ BufferSize \in Nat
<1>1. TypeOK
    BY DEF IInv
<1>2. buffer[d] \in [1..BufferSize -> Int] /\ delivered[d] \in Seq(Int)
    BY <1>1 DEF TypeOK
<1>3. length[d] \in 0..BufferSize /\ offset[d] \in 0..BufferSize /\ intercepted \in Nat
    BY <1>1 DEF TypeOK
<1>4. consumed[d] \in 0..MaxBytes
    BY <1>1 DEF TypeOK
<1> QED
    BY <1>2, <1>3, <1>4

\* A read continues the stream: everything before it was written.
LEMMA ReceiveContinues ==
    ASSUME IInv, NEW d \in Directions, Receive(d)
    PROVE  /\ length'["up"] # 0 /\ length["up"] # 0
           /\ Continues(d)'
           /\ \A e \in Directions \ {d} : Continues(e) => Continues(e)'
<1>0. /\ buffer[d] \in [1..BufferSize -> Int] /\ delivered[d] \in Seq(Int)
      /\ Len(delivered[d]) \in Nat /\ length[d] \in 0..BufferSize
      /\ offset[d] \in 0..BufferSize /\ consumed[d] \in Nat /\ intercepted \in Nat
      /\ RewrittenSize \in Nat /\ BufferSize \in Nat
    BY DirectionFacts
<1>1. PICK n \in 1..BufferSize :
           /\ buffer' = [buffer EXCEPT ![d] = [i \in 1..BufferSize |->
                            IF i <= n THEN consumed[d] + i ELSE @[i]]]
           /\ length' = [length EXCEPT ![d] = n]
           /\ offset' = [offset EXCEPT ![d] = 0]
           /\ consumed' = [consumed EXCEPT ![d] = @ + n]
    BY DEF Receive
<1>2. UNCHANGED <<intercepted, delivered>>
    BY DEF Receive
<1>3. /\ buffer \in [Directions -> [1..BufferSize -> Int]]
      /\ length \in [Directions -> 0..BufferSize] /\ offset \in [Directions -> 0..BufferSize]
      /\ consumed \in [Directions -> 0..MaxBytes]
    BY DEF IInv, TypeOK
<1>4. length["up"] # 0
    BY DEF IInv, Stages, Receive
<1>5. length'["up"] # 0
    BY <1>1, <1>3, <1>4
<1>6. Len(delivered[d]) = Received(d) /\ (d = "up" => intercepted <= consumed[d])
    <2>1. offset[d] = length[d]
        BY DEF IInv, Alternation, Receive
    <2>2. Len(delivered[d]) + length[d] - offset[d] = Received(d)
        BY <1>4 DEF IInv, Buffers
    <2>3. Len(delivered[d]) \in Int /\ length[d] \in Int
        BY <1>0
    <2>4. Len(delivered[d]) = Received(d)
        BY <2>1, <2>2, <2>3
    <2> QED
        BY <1>4, <2>4 DEF IInv, Reader
<1>7. /\ length'[d] = n /\ offset'[d] = 0 /\ consumed'[d] = consumed[d] + n
      /\ \A i \in 1..n : buffer'[d][i] = consumed[d] + i
    BY <1>1, <1>3
<1>8. Len(delivered'[d]) + length'[d] - offset'[d] = Received(d)'
    BY <1>2, <1>6, <1>7, <1>0 DEF Received
<1>9. \A i \in 1..n : buffer'[d][i] = StreamByte(d, Len(delivered[d]) + i)
    <2>1. CASE d = "down"
        BY <1>0, <1>6, <1>7, <2>1 DEF Received, StreamByte
    <2>2. CASE d = "up"
        <3>1. Len(delivered[d]) = RewrittenSize + consumed[d] - intercepted
            BY <1>6, <2>2 DEF Received
        <3>2. ASSUME NEW i \in 1..n
              PROVE  /\ ~(Len(delivered[d]) + i <= RewrittenSize)
                     /\ intercepted + (Len(delivered[d]) + i) - RewrittenSize = consumed[d] + i
            <4>1. /\ Len(delivered[d]) \in Int /\ consumed[d] \in Int /\ intercepted \in Int
                  /\ RewrittenSize \in Int /\ i \in Int /\ i >= 1
                BY <1>0
            <4>2. intercepted <= consumed[d]
                BY <1>6, <2>2
            <4> QED
                BY <3>1, <4>1, <4>2, SMTT(20)
        <3> QED
            BY <1>7, <2>2, <3>2 DEF StreamByte
    <2> QED
        BY <2>1, <2>2
<1>10. Continues(d)'
    <2>1. ASSUME NEW i \in 1..n PROVE StreamByte(d, Len(delivered[d]) - 0 + i)'
                                        = StreamByte(d, Len(delivered[d]) + i)
        BY <1>2, <1>0 DEF StreamByte
    <2>2. \A i \in 1..n : buffer'[d][i] = StreamByte(d, Len(delivered[d]) - 0 + i)'
        BY <1>9, <2>1
    <2> QED
        BY <1>7, <1>8, <2>2 DEF Continues
<1>11. ASSUME NEW e \in Directions \ {d}, Continues(e) PROVE Continues(e)'
    <2>1. /\ length'[e] = length[e] /\ offset'[e] = offset[e]
          /\ consumed'[e] = consumed[e] /\ buffer'[e] = buffer[e]
        BY <1>1, <1>3
    <2> QED
        BY <1>2, <1>11, <2>1 DEF Continues, Received, StreamByte
<1> QED
    BY <1>4, <1>5, <1>10, <1>11

\* A write delivers the next byte of the stream and leaves the rest in place.
LEMMA TransmitContinues ==
    ASSUME IInv, NEW d \in Directions, Transmit(d)
    PROVE  /\ length["up"] # 0 /\ UNCHANGED <<length, intercepted>>
           /\ \A e \in Directions : Continues(e)'
           /\ StreamIntact'
<1>0. /\ buffer[d] \in [1..BufferSize -> Int] /\ delivered[d] \in Seq(Int)
      /\ Len(delivered[d]) \in Nat /\ length[d] \in 0..BufferSize
      /\ offset[d] \in 0..BufferSize /\ consumed[d] \in Nat /\ intercepted \in Nat
      /\ RewrittenSize \in Nat /\ BufferSize \in Nat
    BY DirectionFacts
<1>1. /\ delivered' = [delivered EXCEPT ![d] = Append(@, buffer[d][offset[d] + 1])]
      /\ offset' = [offset EXCEPT ![d] = @ + 1]
      /\ UNCHANGED <<buffer, length, consumed, intercepted>>
    BY DEF Transmit
<1>2. /\ offset \in [Directions -> 0..BufferSize]
      /\ delivered \in [Directions -> Seq(Int)]
    BY DEF IInv, TypeOK
<1>3. length["up"] # 0 /\ offset[d] < length[d]
    BY DEF IInv, Stages, Alternation, Transmit
<1>4. \A e \in Directions : Continues(e)
    BY <1>3 DEF IInv, Buffers, Continues
<1>5. /\ offset'[d] = offset[d] + 1
      /\ delivered'[d] = Append(delivered[d], buffer[d][offset[d] + 1])
    BY <1>1, <1>2
<1>6. /\ Len(delivered'[d]) = Len(delivered[d]) + 1
      /\ \A i \in 1..Len(delivered[d]) : delivered'[d][i] = delivered[d][i]
      /\ delivered'[d][Len(delivered[d]) + 1] = buffer[d][offset[d] + 1]
    <2>1. buffer[d][offset[d] + 1] \in Int /\ delivered[d] \in Seq(Int)
        BY <1>3, <1>0
    <2> QED
        BY <1>5, <2>1
<1>7. Continues(d)'
    <2>1. /\ Len(delivered'[d]) - offset'[d] = Len(delivered[d]) - offset[d]
          /\ Len(delivered'[d]) + length[d] - offset'[d] = Len(delivered[d]) + length[d] - offset[d]
        <3> DEFINE l == Len(delivered[d])
                   o == offset[d]
                   n == length[d]
        <3>1. l \in Nat /\ o \in Nat /\ n \in Nat
            BY <1>0
        <3>2. offset'[d] = o + 1 /\ Len(delivered'[d]) = l + 1
            BY <1>5, <1>6
        <3> HIDE DEF l, o, n
        <3>3. (l + 1) - (o + 1) = l - o /\ (l + 1) + n - (o + 1) = l + n - o
            BY <3>1
        <3>4. /\ Len(delivered'[d]) - offset'[d] = l - o
              /\ Len(delivered'[d]) + n - offset'[d] = l + n - o
            BY <3>2, <3>3, Zenon
        <3> QED
            BY <3>4 DEF l, o, n
    <2>2. Received(d)' = Received(d) /\ \A i : StreamByte(d, i)' = StreamByte(d, i)
        BY <1>1 DEF Received, StreamByte
    <2>3. \A i \in 1..length[d] : offset'[d] < i => offset[d] < i
        BY <1>0, <1>5
    <2> QED
        BY <1>1, <1>4, <2>1, <2>2, <2>3 DEF Continues
<1>8. ASSUME NEW e \in Directions \ {d}
      PROVE  offset'[e] = offset[e] /\ delivered'[e] = delivered[e]
    BY <1>1, <1>2
<1>9. ASSUME NEW e \in Directions \ {d} PROVE Continues(e)'
    BY <1>1, <1>4, <1>8 DEF Continues, Received, StreamByte
<1>10. delivered'[d][Len(delivered[d]) + 1] = StreamByte(d, Len(delivered[d]) + 1)
    <2>1. offset[d] + 1 \in 1..length[d] /\ offset[d] < offset[d] + 1
        BY <1>0, <1>3
    <2>2. buffer[d][offset[d] + 1] = StreamByte(d, Len(delivered[d]) - offset[d] + (offset[d] + 1))
        BY <1>4, <2>1 DEF Continues
    <2>3. Len(delivered[d]) - offset[d] + (offset[d] + 1) = Len(delivered[d]) + 1
        BY <1>0
    <2> QED
        BY <1>6, <2>2, <2>3
<1>11. ASSUME NEW i \in 1..Len(delivered'[d]) PROVE delivered'[d][i] = StreamByte(d, i)
    <2>1. CASE i = Len(delivered[d]) + 1
        BY <1>10, <2>1
    <2>2. CASE i \in 1..Len(delivered[d])
        BY <1>6, <2>2 DEF IInv, StreamIntact
    <2> QED
        BY <1>6, <2>1, <2>2, <1>0
<1>12. StreamIntact'
    BY <1>1, <1>8, <1>11 DEF IInv, StreamIntact, StreamByte
<1> QED
    BY <1>1, <1>3, <1>7, <1>9, <1>12

\* Every step keeps the buffers and the delivered streams right.
LEMMA StreamStep == IInv /\ [Next]_vars => Buffers' /\ StreamIntact'
<1> SUFFICES ASSUME IInv, [Next]_vars PROVE Buffers' /\ StreamIntact'
    OBVIOUS
<1>0. Stages /\ Buffers /\ StreamIntact
    BY DEF IInv
<1>1. CASE UNCHANGED stream
    BY <1>0, <1>1 DEF stream, Buffers, StreamIntact, Received, StreamByte
<1>2. CASE length["up"] = 0 /\ UNCHANGED <<length, delivered>>
    BY <1>0, <1>2 DEF Stages, Buffers, StreamIntact
<1>3. CASE StartRelay
    <2>1. /\ length["up"] = 0 /\ intercepted = consumed["up"] /\ consumed["down"] = 0
          /\ \A i \in 1..RewrittenSize : buffer["up"][i] = -i
          /\ \A d \in Directions : length[d] = 0 /\ offset[d] = 0 /\ delivered[d] = << >>
        BY <1>3 DEF IInv, Stages, Reader, StartRelay, ConnectSucceeded
    <2>2. /\ length \in [Directions -> 0..BufferSize] /\ offset \in [Directions -> 0..BufferSize]
          /\ consumed \in [Directions -> 0..MaxBytes]
        BY DEF IInv, TypeOK
    <2>3. /\ length'["up"] = RewrittenSize /\ length'["down"] = 0
          /\ \A d \in Directions : offset'[d] = 0
          /\ UNCHANGED <<buffer, consumed, intercepted, delivered>>
        BY <1>3, <2>1, <2>2 DEF StartRelay
    <2>4. Continues("up")'
        BY <2>1, <2>2, <2>3 DEF Continues, Received, StreamByte
    <2>5. Continues("down")'
        BY <2>1, <2>2, <2>3 DEF Continues, Received, StreamByte
    <2> QED
        BY <2>1, <2>3, <2>4, <2>5 DEF Buffers, Continues, StreamIntact
<1>4. ASSUME NEW d \in Directions, Receive(d) PROVE Buffers' /\ StreamIntact'
    <2>1. Buffers'
        BY <1>0, <1>4, ReceiveContinues DEF Buffers, Continues
    <2>2. StreamIntact'
        BY <1>0, <1>4 DEF Receive, StreamIntact, StreamByte
    <2> QED
        BY <2>1, <2>2
<1>5. ASSUME NEW d \in Directions, Transmit(d) PROVE Buffers' /\ StreamIntact'
    BY <1>5, TransmitContinues DEF Buffers, Continues
<1> QED
    BY <1>1, <1>2, <1>3, <1>4, <1>5, StreamChanges

-----------------------------------------------------------------------------
\* IInv holds in every reachable state.
THEOREM Invariance == Spec => []IInv
<1>1. Init => IInv
    <2> SUFFICES ASSUME Init PROVE IInv
        OBVIOUS
    <2>1. TypeOK
        <3>1. [i \in 1..BufferSize |-> 0] \in [1..BufferSize -> Int] /\ << >> \in Seq(Int)
            OBVIOUS
        <3>2. /\ buffer \in [Directions -> [1..BufferSize -> Int]]
              /\ delivered \in [Directions -> Seq(Int)]
            BY <3>1 DEF Init
        <3>3. /\ length \in [Directions -> 0..BufferSize]
              /\ offset \in [Directions -> 0..BufferSize]
              /\ consumed \in [Directions -> 0..MaxBytes]
            BY DEF Init
        <3>4. /\ open \in [Sockets -> BOOLEAN] /\ wait \in [Timers -> Waits]
              /\ armed \in [Timers -> Nat] /\ io \in [Chains -> Status]
              /\ mode \in [Directions -> {"read", "write"}]
            BY DEF Init
        <3>5. shutdown_initiated \in BOOLEAN
            BY Zenon DEF Init
        <3>6. deadline_generation \in Nat /\ endpoint \in 0..Endpoints /\ intercepted \in Nat
            BY DEF Init
        <3>7. at \in Labels /\ end_post = "none" /\ registry = "listed"
            BY DEF Init
        <3> QED
            BY <3>2, <3>3, <3>4, <3>5, <3>6, <3>7 DEF TypeOK
    <2>2. Stages /\ Deadlines /\ Alternation /\ Quiet
        BY DEF Init, Stages, Deadlines, Alternation, Quiet
    <2>3. Reader /\ Buffers /\ StreamIntact
        BY DEF Init, Reader, InHand, Buffers, StreamIntact
    <2> QED
        BY <2>1, <2>2, <2>3 DEF IInv
<1>2. IInv /\ [Next]_vars => IInv'
    BY TypeStep, StagesStep, DeadlinesStep, AlternationStep, ReaderStep, QuietStep,
       StreamStep DEF IInv
<1> QED
    BY <1>1, <1>2, PTL DEF Spec

\* Every variable keeps its type: no endpoint index past the list, no buffer
\* position past the buffer.
THEOREM TypeCorrect == Spec => []TypeOK
<1>1. IInv => TypeOK
    BY DEF IInv
<1> QED
    BY <1>1, Invariance, PTL

\* A session that waits for its peers always has a deadline running.
THEOREM AlwaysTimed == Spec => []DeadlineArmed
<1>1. IInv => DeadlineArmed
    BY DEF IInv, Deadlines, DeadlineArmed, Negotiating
<1> QED
    BY <1>1, Invariance, PTL

\* No deadline ever closes an established relay.
THEOREM RelayNeverTimed == Spec => []RelayUntimed
<1>1. IInv => RelayUntimed
    <2> SUFFICES ASSUME IInv, Relaying, NEW t \in Timers PROVE ~Live(t)
        BY DEF RelayUntimed
    <2>1. armed[t] \in Nat /\ deadline_generation \in Nat
        BY DEF IInv, TypeOK
    <2>2. armed[t] < deadline_generation
        BY DEF IInv, Deadlines, Relaying
    <2> QED
        BY <2>1, <2>2 DEF Live
<1> QED
    BY <1>1, Invariance, PTL

\* Both peers receive exactly the stream they should.
THEOREM StreamsIntact == Spec => []StreamIntact
<1>1. IInv => StreamIntact
    BY DEF IInv
<1> QED
    BY <1>1, Invariance, PTL

\* The end of a stream comes after all its bytes were passed on.
THEOREM EofAfterData == Spec => []NothingLostAtEof
<1>1. IInv => NothingLostAtEof
    <2> SUFFICES ASSUME IInv, NEW d \in Directions, mode[d] = "read", io[d] = "error"
                 PROVE  Len(delivered[d]) = Received(d)
        BY DEF NothingLostAtEof
    <2>1. length["up"] # 0 /\ offset[d] = length[d]
        BY DEF IInv, Stages, Alternation
    <2>2. Len(delivered[d]) + length[d] - offset[d] = Received(d)
        BY <2>1 DEF IInv, Buffers
    <2>3. Len(delivered[d]) \in Int /\ length[d] \in Int
        BY DirectionFacts
    <2> QED
        BY <2>1, <2>2, <2>3
<1> QED
    BY <1>1, Invariance, PTL

\* After End() nothing is read from or written to a peer.
THEOREM QuietAfterEnd == Spec => NoTrafficAfterEnd
<1>1. IInv /\ [Next]_vars => [shutdown_initiated => UNCHANGED <<consumed, delivered>>]_vars
    <2> SUFFICES ASSUME IInv, [Next]_vars, shutdown_initiated
                 PROVE  UNCHANGED <<consumed, delivered>>
        OBVIOUS
    <2>1. \A c \in {"co", "up", "down"} : io[c] # "pending"
        BY DEF IInv, Quiet
    <2>2. ~ReceiveByte /\ ~StartRelay /\ \A d \in Directions : ~Receive(d) /\ ~Transmit(d)
        BY <2>1 DEF ReceiveByte, StartRelay, Receive, Transmit
    <2> QED
        BY <2>2, StreamChanges DEF stream
<1> QED
    BY <1>1, Invariance, PTL DEF Spec, NoTrafficAfterEnd
=============================================================================
