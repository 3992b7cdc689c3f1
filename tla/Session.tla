------------------------------ MODULE Session ------------------------------
(***************************************************************************)
(* One client session of the proxy (Session.cpp): the coroutine that reads *)
(* the handshake, the deadline timer, the upstream connect, the two relay  *)
(* directions and End().                                                   *)
(*                                                                         *)
(* Every handler of a session runs on its strand, so a handler is one      *)
(* atomic action.  What interleaves with the handlers are the completions  *)
(* of the operating system (bytes, errors, connects, timer expiry) and the *)
(* End() that Server::Stop dispatches to the strand.  A completed          *)
(* operation is a handler waiting for the strand; with several event-loop  *)
(* threads the waiting handlers reach the strand in any order.             *)
(*                                                                         *)
(* A definition whose comment begins with "Broken:" is no part of the      *)
(* specification.  It is a wrong variant of the definition after it, kept  *)
(* to show that a property would notice that mistake in the code.          *)
(***************************************************************************)
EXTENDS Integers, Sequences

CONSTANTS BufferSize,     \* Session::size, the bytes one relay buffer holds
          RewrittenSize,  \* bytes of the rewritten login handshake
          Endpoints,      \* number of resolved upstream endpoints
          MaxBytes        \* bound of the model: bytes read from one socket

ASSUME SizesAssumption ==
    /\ BufferSize \in Nat \ {0}
    /\ RewrittenSize \in 1..BufferSize
    /\ Endpoints \in Nat \ {0}
    /\ MaxBytes \in Nat

VARIABLES
    shutdown_initiated,
    open,                 \* is the socket's descriptor open
    deadline_generation,
    wait,                 \* the deadline_.async_wait of each ArmDeadline call
    armed,                \* the generation each of those waits captured
    at,                   \* where the Start coroutine is suspended
    io,                   \* the asynchronous operation of each chain
    endpoint,             \* index of the endpoint being connected
    mode,                 \* what a relay direction's operation is
    buffer,               \* outgoing_buffer ("up") and incoming_buffer ("down")
    length,               \* bytes of data in the buffer
    offset,               \* bytes of these that async_write has written
    consumed,             \* bytes read from each socket
    intercepted,          \* bytes the handshake reader has returned
    delivered,            \* bytes written to the other socket
    end_post,             \* the End() dispatched by Server::Stop
    registry              \* the server's reference to this session

vars == <<shutdown_initiated, open, deadline_generation, wait, armed, at, io,
          endpoint, mode, buffer, length, offset, consumed, intercepted,
          delivered, end_post, registry>>

lifecycle == <<shutdown_initiated, open, registry>>
timing == <<deadline_generation, wait, armed>>
control == <<lifecycle, timing, at, endpoint, end_post>>
data == <<mode, buffer, length, offset, consumed, intercepted, delivered>>

Sockets == {"source", "dest"}
Directions == {"up", "down"}            \* up: source to dest
Timers == {"handshake", "connect"}      \* the two calls of ArmDeadline
Chains == {"co", "connect"} \cup Directions

\* The operation a direction has outstanding is on this socket.
SocketOf(d, m) == IF (d = "up") = (m = "read") THEN "source" ELSE "dest"

(***************************************************************************)
(* Bytes are numbered, so that a lost, repeated or overwritten byte shows: *)
(* i is the i-th byte read from a socket, -i the i-th byte of the          *)
(* rewritten handshake.  StreamByte(d, i) is the byte the receiver of      *)
(* direction d must see at position i.                                     *)
(***************************************************************************)
StreamByte(d, i) ==
    IF d = "down" THEN i
    ELSE IF i <= RewrittenSize THEN -i
    ELSE intercepted + i - RewrittenSize

-----------------------------------------------------------------------------
(* Asio, as Session.cpp uses it.                                           *)

\* An operation started on a closed socket completes at once with an error.
Initiate(s) == IF open[s] THEN "pending" ELSE "error"

\* Closing a socket completes its pending operations with an error; one that
\* has already completed keeps its result.
Aborted(ops) == [c \in Chains |-> IF ops[c] = "pending" THEN "error" ELSE ops[c]]

\* Cancelling the timer (or moving its expiry) aborts the waits that have not
\* expired; an expired one stays in the strand's queue with no error.
Cancelled(ws) == [t \in Timers |-> IF ws[t] = "waiting" THEN "aborted" ELSE ws[t]]

-----------------------------------------------------------------------------
Init ==
    /\ shutdown_initiated = FALSE /\ end_post = "none" /\ registry = "listed"
    /\ open = [s \in Sockets |-> s = "source"]
    /\ deadline_generation = 0
    /\ wait = [t \in Timers |-> "none"] /\ armed = [t \in Timers |-> 0]
    /\ at = "spawned" /\ endpoint = 0 /\ intercepted = 0
    /\ io = [c \in Chains |-> "idle"]
    /\ mode = [d \in Directions |-> "read"]
    /\ buffer = [d \in Directions |-> [i \in 1..BufferSize |-> 0]]
    /\ length = [d \in Directions |-> 0] /\ offset = [d \in Directions |-> 0]
    /\ consumed = [d \in Directions |-> 0]
    /\ delivered = [d \in Directions |-> << >>]

\* Broken: the upstream socket is forgotten, its read goes on.
CloseSource(ops) ==
    /\ open' = [open EXCEPT !["source"] = FALSE]
    /\ io' = [c \in Chains |-> IF c = "down" /\ mode[c] = "read" THEN ops[c]
                              ELSE Aborted(ops)[c]]

\* ops is io with the handler that closes the sockets already taken off.
CloseSockets(ops) ==
    /\ open' = [s \in Sockets |-> FALSE]
    /\ io' = Aborted(ops)

\* Broken: on_closed_ is not called.
NotifyNobody == UNCHANGED registry

\* on_closed_ posts the erase of the session.
NotifyClosed == registry' = "erasing"

(***************************************************************************)
(* Session::End on the strand.  ops and ws are io and wait with the        *)
(* handler that calls it already taken off.                                *)
(***************************************************************************)
End(ops, ws) ==
    \/ /\ shutdown_initiated
       /\ io' = ops
       /\ wait' = ws
       /\ UNCHANGED <<shutdown_initiated, deadline_generation, open, registry>>
    \/ /\ ~shutdown_initiated
       /\ shutdown_initiated' = TRUE
       /\ deadline_generation' = deadline_generation + 1
       /\ wait' = Cancelled(ws)
       /\ CloseSockets(ops)
       /\ NotifyClosed

\* Broken: async_wait before expires_after, which then aborts it.
RestartedEarly(t) == Cancelled([wait EXCEPT ![t] = "waiting"])

\* The waits after expires_after and the new async_wait.
Restarted(t) == [Cancelled(wait) EXCEPT ![t] = "waiting"]

\* Broken: deadline_generation_++ captures the generation before.
CapturedBefore == deadline_generation

Captured == deadline_generation + 1

ArmDeadline(t) ==
    /\ deadline_generation' = deadline_generation + 1
    /\ wait' = Restarted(t)
    /\ armed' = [armed EXCEPT ![t] = Captured]

\* The wait's handler: only an expiry of the current generation ends.
DeadlineHandler(t) ==
    LET ws == [wait EXCEPT ![t] = "none"]
    IN  /\ wait[t] \in {"expired", "aborted"}
        /\ \/ /\ wait[t] = "expired" /\ armed[t] = deadline_generation
              /\ End(io, ws)
           \/ /\ ~(wait[t] = "expired" /\ armed[t] = deadline_generation)
              /\ wait' = ws
              /\ UNCHANGED <<io, lifecycle, deadline_generation>>
        /\ UNCHANGED <<armed, at, endpoint, end_post, data>>

-----------------------------------------------------------------------------
(* The Start coroutine.  It awaits one socket operation at a time, at      *)
(* "handshake": a byte of the handshake; "request", "ping": a byte of a    *)
(* status packet; "response", "pong": the write of a reply.                *)

Start ==
    /\ at = "spawned"
    /\ \/ /\ shutdown_initiated
          /\ at' = "returned"
          /\ UNCHANGED <<timing, io>>
       \/ /\ ~shutdown_initiated
          /\ ArmDeadline("handshake")
          /\ at' = "handshake"
          /\ io' = [io EXCEPT !["co"] = Initiate("source")]
    /\ UNCHANGED <<lifecycle, endpoint, end_post, data>>

\* The coroutine awaits its next operation, on the client's socket, after n
\* bytes were taken by CurrentByte.
Await(label, n) ==
    /\ at' = label
    /\ io' = [io EXCEPT !["co"] = Initiate("source")]
    /\ intercepted' = intercepted + n
    /\ UNCHANGED <<lifecycle, timing, endpoint, end_post, mode, buffer, length,
                   offset, consumed, delivered>>

\* The coroutine is over and the session closed: InterceptHandshake returned
\* false, or an exception reached the completion handler of co_spawn.
CoroutineEnds ==
    /\ at' = "returned"
    /\ End([io EXCEPT !["co"] = "idle"], wait)
    /\ UNCHANGED <<armed, endpoint, end_post, data>>

\* An awaited read or write failed: the exception ends the session.
AwaitThrows ==
    /\ io["co"] = "error"
    /\ CoroutineEnds

\* One more byte of the handshake, or it asks for the status: then the bytes
\* of the request.
ContinueHandshake ==
    /\ at = "handshake" /\ io["co"] = "ok"
    /\ \E next \in {"handshake", "request"} : Await(next, 1)

ContinueStatus ==
    /\ io["co"] = "ok"
    /\ \E step \in {<<"request", "request">>, <<"request", "response">>,
                    <<"response", "ping">>, <<"ping", "ping">>, <<"ping", "pong">>} :
           /\ at = step[1]
           /\ Await(step[2], IF at = "response" THEN 0 ELSE 1)

\* A malformed packet, or the pong is written: nothing more to do.
InterceptEnds ==
    /\ io["co"] = "ok"
    /\ at \in {"handshake", "request", "ping", "pong"}
    /\ CoroutineEnds

\* A login handshake is complete.  It is rewritten into outgoing_buffer, the
\* connect deadline is armed and the connect starts, which opens dest.
StartConnect ==
    /\ at = "handshake" /\ io["co"] = "ok"
    /\ at' = "returned"
    /\ intercepted' = intercepted + 1
    /\ buffer' = [buffer EXCEPT !["up"] = [i \in 1..BufferSize |->
                     IF i <= RewrittenSize THEN -i ELSE @[i]]]
    /\ ArmDeadline("connect")
    /\ open' = [open EXCEPT !["dest"] = TRUE]
    /\ io' = [io EXCEPT !["co"] = "idle", !["connect"] = "pending"]
    /\ endpoint' = 1
    /\ UNCHANGED <<shutdown_initiated, mode, length, offset, consumed,
                   delivered, end_post, registry>>

-----------------------------------------------------------------------------
(* Connecting and relaying.                                                *)

\* Broken: one endpoint too many.
MoreEndpointsPastEnd == endpoint <= Endpoints

MoreEndpoints == endpoint < Endpoints

\* asio::async_connect: after a failed attempt on a socket that is still
\* open, the next endpoint of the list.
NextEndpoint ==
    /\ io["connect"] = "error" /\ open["dest"] /\ MoreEndpoints
    /\ endpoint' = endpoint + 1
    /\ io' = [io EXCEPT !["connect"] = "pending"]
    /\ UNCHANGED <<lifecycle, timing, at, end_post, data>>

\* The connect is over: it succeeded, was aborted or ran out of endpoints.
ConnectOver ==
    \/ io["connect"] = "ok"
    \/ io["connect"] = "error" /\ (~open["dest"] \/ endpoint = Endpoints)

\* async_connect reports an abort when the socket was closed meanwhile.
ConnectSucceeded == io["connect"] = "ok" /\ open["dest"]

\* Broken: the handler cancels the timer but keeps the generation.
CancelTimerOnly == wait' = Cancelled(wait) /\ UNCHANGED deadline_generation

\* The connect handler begins by making the deadline stale.
CancelDeadline ==
    /\ deadline_generation' = deadline_generation + 1
    /\ wait' = Cancelled(wait)

\* The connect handler up to its test of shutdown_initiated: a session that
\* has ended does nothing more.
ConnectAfterEnd ==
    /\ ConnectOver /\ shutdown_initiated
    /\ CancelDeadline
    /\ io' = [io EXCEPT !["connect"] = "idle"]
    /\ UNCHANGED <<lifecycle, armed, at, endpoint, end_post, data>>

\* The connect failed, or an option could not be set: the handler cancels the
\* deadline (one generation) and calls End (another).
ConnectFails ==
    /\ ConnectOver /\ ~shutdown_initiated
    /\ shutdown_initiated' = TRUE
    /\ deadline_generation' = deadline_generation + 2
    /\ wait' = Cancelled(wait)
    /\ CloseSockets([io EXCEPT !["connect"] = "idle"])
    /\ NotifyClosed
    /\ UNCHANGED <<armed, at, endpoint, end_post, data>>

\* The connect succeeded: WriteDest(wrote) and ReadDest() start the relay.
StartRelay ==
    /\ ConnectSucceeded /\ ~shutdown_initiated
    /\ CancelDeadline
    /\ io' = [io EXCEPT !["connect"] = "idle", !["up"] = Initiate("dest"),
                        !["down"] = Initiate("dest")]
    /\ mode' = [up |-> "write", down |-> "read"]
    /\ length' = [length EXCEPT !["up"] = RewrittenSize]
    /\ offset' = [offset EXCEPT !["up"] = 0]
    /\ UNCHANGED <<lifecycle, armed, at, endpoint, end_post, buffer, consumed,
                   intercepted, delivered>>

\* ReadSource() and ReadDest().
Read(d) ==
    /\ io' = [io EXCEPT ![d] = IF shutdown_initiated THEN "idle"
                               ELSE Initiate(SocketOf(d, "read"))]
    /\ mode' = [mode EXCEPT ![d] = "read"]

\* Broken: the write of what was read is not started.
WriteForgotten(d) ==
    /\ io' = [io EXCEPT ![d] = "idle"]
    /\ mode' = [mode EXCEPT ![d] = "write"]

\* WriteDest(bytes_read) and WriteSource(bytes_read).
Write(d) ==
    /\ io' = [io EXCEPT ![d] = IF shutdown_initiated THEN "idle"
                               ELSE Initiate(SocketOf(d, "write"))]
    /\ mode' = [mode EXCEPT ![d] = "write"]

\* The handlers of the relay: a read is followed by the write of what was
\* read, a complete write by the next read, an error by End.
RelayHandler(d) ==
    \/ /\ io[d] = "ok"
       /\ IF mode[d] = "read" THEN Write(d) ELSE Read(d)
       /\ UNCHANGED <<control, buffer, length, offset, consumed, intercepted,
                      delivered>>
    \/ /\ io[d] = "error"
       /\ End([io EXCEPT ![d] = "idle"], wait)
       /\ UNCHANGED <<armed, at, endpoint, end_post, data>>

-----------------------------------------------------------------------------
(* Server::Stop dispatches End(); on_closed_ posts the erase.              *)

PostEnd ==
    /\ end_post = "none" /\ registry # "gone"
    /\ end_post' = "posted"
    /\ UNCHANGED <<lifecycle, timing, at, io, endpoint, data>>

RunPostedEnd ==
    /\ end_post = "posted"
    /\ end_post' = "done"
    /\ End(io, wait)
    /\ UNCHANGED <<armed, at, endpoint, data>>

Erase ==
    /\ registry = "erasing"
    /\ registry' = "gone"
    /\ UNCHANGED <<shutdown_initiated, open, timing, at, io, endpoint, end_post, data>>

-----------------------------------------------------------------------------
(* The operating system and the peers.                                     *)

\* A deadline expires.
Expire(t) ==
    /\ wait[t] = "waiting"
    /\ wait' = [wait EXCEPT ![t] = "expired"]
    /\ UNCHANGED <<lifecycle, deadline_generation, armed, at, io, endpoint, end_post,
                   data>>

\* A pending operation fails: end of stream, reset, refusal, abort.
Fail(c) ==
    /\ io[c] = "pending"
    /\ io' = [io EXCEPT ![c] = "error"]
    /\ UNCHANGED <<control, data>>

\* Broken: BlockRead takes what has arrived, beyond the byte asked for.
BytesAskedMore == 2

BytesAsked == 1

\* BlockRead asks for one byte, so the reader never takes a byte beyond the
\* handshake off the socket.
ReceiveByte ==
    /\ io["co"] = "pending" /\ at \in {"handshake", "request", "ping"}
    /\ \E n \in 1..BytesAsked :
           /\ consumed["up"] + n <= MaxBytes
           /\ consumed' = [consumed EXCEPT !["up"] = @ + n]
    /\ io' = [io EXCEPT !["co"] = "ok"]
    /\ UNCHANGED <<control, mode, buffer, length, offset, intercepted, delivered>>

\* The reply of a status exchange is written.
SendReply ==
    /\ io["co"] = "pending" /\ at \in {"response", "pong"}
    /\ io' = [io EXCEPT !["co"] = "ok"]
    /\ UNCHANGED <<control, data>>

Connected ==
    /\ io["connect"] = "pending"
    /\ io' = [io EXCEPT !["connect"] = "ok"]
    /\ UNCHANGED <<control, data>>

\* async_read_some: n bytes are copied to the front of the buffer.
Receive(d) ==
    /\ io[d] = "pending" /\ mode[d] = "read"
    /\ \E n \in 1..BufferSize :
           /\ consumed[d] + n <= MaxBytes
           /\ buffer' = [buffer EXCEPT ![d] = [i \in 1..BufferSize |->
                            IF i <= n THEN consumed[d] + i ELSE @[i]]]
           /\ length' = [length EXCEPT ![d] = n]
           /\ offset' = [offset EXCEPT ![d] = 0]
           /\ consumed' = [consumed EXCEPT ![d] = @ + n]
    /\ io' = [io EXCEPT ![d] = "ok"]
    /\ UNCHANGED <<control, mode, intercepted, delivered>>

\* Broken: async_write_some, which completes with the first piece.
WroteSome(d) == TRUE

\* async_write, the call the code makes, completes with the last byte.
WroteAll(d) == offset[d] + 1 = length[d]

\* The buffer is handed over in pieces.
Transmit(d) ==
    /\ io[d] = "pending" /\ mode[d] = "write"
    /\ delivered' = [delivered EXCEPT ![d] = Append(@, buffer[d][offset[d] + 1])]
    /\ offset' = [offset EXCEPT ![d] = @ + 1]
    /\ io' = [io EXCEPT ![d] = IF WroteAll(d) THEN "ok" ELSE "pending"]
    /\ UNCHANGED <<control, mode, buffer, length, consumed, intercepted>>

-----------------------------------------------------------------------------
Strand ==
    \/ Start \/ AwaitThrows \/ ContinueHandshake \/ ContinueStatus
    \/ InterceptEnds \/ StartConnect
    \/ NextEndpoint \/ ConnectAfterEnd \/ ConnectFails \/ StartRelay
    \/ \E d \in Directions : RelayHandler(d)
    \/ \E t \in Timers : DeadlineHandler(t)
    \/ RunPostedEnd

System ==
    \/ \E t \in Timers : Expire(t)
    \/ \E c \in Chains : Fail(c)
    \/ ReceiveByte \/ SendReply \/ Connected
    \/ \E d \in Directions : Receive(d) \/ Transmit(d)

Next == Strand \/ PostEnd \/ Erase \/ System

Spec == Init /\ [][Next]_vars

(***************************************************************************)
(* Fairness.  The event-loop threads run every handler that is ready, and  *)
(* a timer expires.  Nothing is assumed of the peers.  OSGivesUp is the    *)
(* operating system's own limit on a connect that nobody answers.          *)
(***************************************************************************)
LoopFairness ==
    /\ WF_vars(Start)
    /\ WF_vars(AwaitThrows)
    /\ WF_vars(ContinueHandshake \/ ContinueStatus \/ InterceptEnds \/ StartConnect)
    /\ WF_vars(NextEndpoint \/ ConnectAfterEnd \/ ConnectFails \/ StartRelay)
    /\ \A d \in Directions : WF_vars(RelayHandler(d))
    /\ \A t \in Timers : WF_vars(DeadlineHandler(t)) /\ WF_vars(Expire(t))
    /\ WF_vars(RunPostedEnd)
    /\ WF_vars(Erase)

OSGivesUp == WF_vars(Fail("connect") \/ Connected)

FairSpec == Spec /\ LoopFairness

-----------------------------------------------------------------------------
Status == {"idle", "pending", "ok", "error"}
Waits == {"none", "waiting", "expired", "aborted"}
Labels == {"spawned", "handshake", "request", "response", "ping", "pong", "returned"}

TypeOK ==
    /\ shutdown_initiated \in BOOLEAN
    /\ open \in [Sockets -> BOOLEAN]
    /\ deadline_generation \in Nat
    /\ wait \in [Timers -> Waits]
    /\ armed \in [Timers -> Nat]
    /\ at \in Labels
    /\ io \in [Chains -> Status]
    /\ endpoint \in 0..Endpoints
    /\ mode \in [Directions -> {"read", "write"}]
    /\ buffer \in [Directions -> [1..BufferSize -> Int]]
    /\ length \in [Directions -> 0..BufferSize]
    /\ offset \in [Directions -> 0..BufferSize]
    /\ consumed \in [Directions -> 0..MaxBytes]
    /\ intercepted \in Nat
    /\ delivered \in [Directions -> Seq(Int)]
    /\ end_post \in {"none", "posted", "done"}
    /\ registry \in {"listed", "erasing", "gone"}

\* The session waits for the client or for an upstream connect.
Negotiating ==
    /\ ~shutdown_initiated
    /\ at \notin {"spawned", "returned"} \/ io["connect"] # "idle"

Relaying == ~shutdown_initiated /\ length["up"] # 0

\* An expiry of this wait still closes the session.
Live(t) == wait[t] \in {"waiting", "expired"} /\ armed[t] = deadline_generation

(***************************************************************************)
(* While a session waits for the client's packets or for the upstream      *)
(* connect, a deadline of the current generation is running: replacing the *)
(* handshake deadline by the connect deadline (ArmDeadline) leaves no gap  *)
(* in which a silent peer could hold the session.                          *)
(***************************************************************************)
DeadlineArmed == Negotiating => \E t \in Timers : Live(t)

(***************************************************************************)
(* An established relay is never closed by a deadline, not even by one     *)
(* that had expired, unseen, before the connect handler cancelled it: the  *)
(* generation it captured is stale.                                        *)
(***************************************************************************)
RelayUntimed == Relaying => \A t \in Timers : ~Live(t)

(***************************************************************************)
(* What each peer receives is what it should receive: upstream sees the    *)
(* rewritten handshake and then the client's stream from the first byte    *)
(* after the handshake, the client sees upstream's stream; nothing is      *)
(* lost, repeated or overwritten in a buffer still being written.          *)
(***************************************************************************)
StreamIntact ==
    \A d \in Directions :
        \A i \in 1..Len(delivered[d]) : delivered[d][i] = StreamByte(d, i)

\* Bytes of direction d that the relay has taken over.
Received(d) ==
    IF d = "down" THEN consumed[d] ELSE RewrittenSize + consumed[d] - intercepted

(***************************************************************************)
(* When the sender closes its stream (a relay read fails on an open        *)
(* session), every byte it sent before has been delivered: ReadSource and  *)
(* ReadDest are only called when the write of the previous chunk is        *)
(* complete, so End() discards nothing of the stream that ended.           *)
(***************************************************************************)
NothingLostAtEof ==
    \A d \in Directions :
        ~shutdown_initiated /\ mode[d] = "read" /\ io[d] = "error"
            => Len(delivered[d]) = Received(d)

(***************************************************************************)
(* After End() no byte is taken from or passed to either peer, whatever    *)
(* completions were already waiting for the strand.                        *)
(***************************************************************************)
NoTrafficAfterEnd ==
    [][shutdown_initiated => UNCHANGED <<consumed, delivered>>]_vars

(***************************************************************************)
(* A session that waits for its peers comes to an end of it, a relay or a  *)
(* closed session, even if both peers stay silent for ever: the deadlines  *)
(* of Start cover the whole negotiation.                                   *)
(***************************************************************************)
NegotiationEnds == Negotiating ~> ~Negotiating

\* Some reference keeps the Session object, and so its sockets, in being: the
\* registry's, or that of a handler that has not run.
Alive ==
    \/ registry # "gone"
    \/ at # "returned"
    \/ end_post = "posted"
    \/ \E c \in Chains : io[c] # "idle"
    \/ \E t \in Timers : wait[t] # "none"

(***************************************************************************)
(* A closed session is freed: End() completes every operation whose        *)
(* handler holds the object, and the erase it posts drops the registry's   *)
(* reference.  A connect begun after End() keeps it for as long as the     *)
(* operating system tries, so this needs OSGivesUp.                        *)
(***************************************************************************)
ClosedIsFreed == OSGivesUp => (shutdown_initiated ~> ~Alive)

(***************************************************************************)
(* README.md: on shutdown "active sockets and timers are canceled".  After *)
(* End() both sockets are closed.  Not so: see StartConnect, which does    *)
(* not look at shutdown_initiated after the await.                         *)
(***************************************************************************)
EndClosesSockets == shutdown_initiated => ~open["source"] /\ ~open["dest"]

(***************************************************************************)
(* README.md: --connect-timeout-ms is the "Deadline for all upstream       *)
(* connection attempts combined".  An upstream connect comes to an end     *)
(* whether or not upstream answers.  Not so when the session ended before  *)
(* StartConnect: the deadline's End() then returns without closing dest.   *)
(***************************************************************************)
ConnectEnds == (io["connect"] # "idle") ~> (io["connect"] = "idle")
=============================================================================
