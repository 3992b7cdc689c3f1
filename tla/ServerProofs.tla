---------------------------- MODULE ServerProofs ----------------------------
(***************************************************************************)
(* The safety properties of module Server, for any number of sessions,     *)
(* threads, connections and exceptions.                                    *)
(*                                                                         *)
(* IInv is the inductive invariant, one conjunct per argument.  There is   *)
(* one lemma per conjunct, which goes through the actions, and one theorem *)
(* per property.                                                           *)
(***************************************************************************)
EXTENDS Server, FiniteSetTheorems, TLAPS

\* The registry holds every session that runs, and none that could be handed
\* out again or be admitted a second time; an erase is posted only for a
\* session that has ended.
Registry ==
    /\ remaining \subseteq sessions_
    /\ \A s \in sessions_ \cup end_post : life[s] # "free" /\ s # incoming
    /\ \A s \in erase_post : life[s] = "closed"
    /\ \A s \in Sessions : life[s] \in {"running", "leaked"} => s \in sessions_

\* The comparison with max_connections is made before every insertion.
Limited == Cardinality(sessions_) <= MaxConnections

\* accept_connections has one session at a time, and the accept or the retry.
Acceptor ==
    /\ (accept = "idle") = (incoming = NoSession)
    /\ incoming # NoSession => life[incoming] = "held"
    /\ retry # "none" => accept = "idle"

\* Only Stop() cancels; the signal wait ends only by it.
Cancelled ==
    /\ accept = "aborted" => stopping_
    /\ retry = "aborted" => stopping_
    /\ signal \in {"aborted", "done"} => stopping_

\* Before Start() has returned, only a signal has been noticed.
NotStarted ==
    start # "started" =>
        /\ accept = "idle" /\ retry = "none" /\ signal \in {"none", "queued"}
        /\ ~stopping_ /\ ~stop_post /\ ~context_stopped
        /\ sessions_ = {} /\ remaining = {} /\ erase_post = {} /\ end_post = {}
        /\ \A s \in Sessions : life[s] = "free"
        /\ \A t \in Threads : thread[t] = "absent"
        /\ throws = 0 /\ ~failed_ /\ ~spawn_failed

\* A session whose coroutine was never spawned is in somebody's hands: the
\* accept's, an End() on its way, or the loop of Stop(), now or later.
HeldVisited ==
    ~StopMayThrow =>
        \A s \in Sessions : life[s] = "held" =>
            \/ s = incoming \/ s \in end_post
            \/ s \in sessions_ /\ (stopping_ => s \in remaining)

\* context_.run() has returned somewhere only when nothing was left to do.
Drained ==
    /\ \A t \in Threads : thread[t] = "returned" => context_stopped
    /\ context_stopped =>
           /\ stopping_
           /\ accept = "idle" /\ retry = "none" /\ signal = "done"
           /\ remaining = {} /\ erase_post = {} /\ end_post = {}
           /\ \A s \in Sessions : life[s] \notin {"running", "closed"}

\* Every exception is being caught or has been recorded.
Failures == throws > 0 <=> failed_ \/ \E t \in Threads : thread[t] = "caught"

\* Where main() can be when its exit code is known.
Exits ==
    /\ start = "helped" => exit_code = "success"
    /\ start = "failed" => exit_code = "failure"
    /\ start \in {"main", "resolving", "resolved"} => exit_code = "none"
    /\ start = "started" /\ exit_code # "none" =>
           /\ thread[Main] = "returned" /\ WorkersJoined
           /\ exit_code = "failure" <=> failed_ \/ spawn_failed

IInv ==
    /\ TypeOK /\ Registry /\ Limited /\ Acceptor /\ Cancelled /\ NotStarted
    /\ HeldVisited /\ Drained /\ Failures /\ Exits /\ AcceptLoopAlive

USE ServerAssumption
USE DEF Threads, Lives, shutdown, acceptance, posted, population, threading, Calm,
        DispatchEnd, ArmRetry, NotifyClosed, Ended, RunAgain


\* Stop() keeps the types of what it changes.
LEMMA StopType ==
    ASSUME TypeOK, NEW sig \in {"none", "queued", "waiting", "raised", "aborted", "done"},
           Stop(sig)
    PROVE  /\ stopping_' = TRUE
           /\ remaining' \subseteq Sessions
           /\ signal' \in {"none", "queued", "waiting", "raised", "aborted", "done"}
           /\ retry' \in {"none", "waiting", "expired", "aborted"}
           /\ accept' \in {"idle", "pending", "ok", "error", "aborted"}
<1>1. CASE stopping_
    BY <1>1 DEF Stop, TypeOK
<1>2. CASE ~stopping_
    BY <1>2 DEF Stop, TypeOK
<1> QED
    BY <1>1, <1>2

\* Every step keeps the types.
LEMMA TypeStep == IInv /\ [Next]_vars => TypeOK'
<1> SUFFICES ASSUME IInv, [Next]_vars PROVE TypeOK'
    OBVIOUS
<1> USE DEF TypeOK
<1>0. TypeOK /\ Acceptor /\ Registry
    BY DEF IInv
<1>1. CASE Decline \/ Construct \/ StartFails \/ get_endpoints
    BY <1>0, <1>1 DEF Decline, Construct, StartFails, get_endpoints
<1>2. CASE Start
    BY <1>0, <1>2 DEF Start, accept_connections
<1>3. CASE AcceptFailed \/ AcceptThrows
    BY <1>0, <1>3 DEF AcceptFailed, AcceptThrows, accept_connections_throws, Throw, Acceptor
<1>4. CASE Reject
    BY <1>0, <1>4
       DEF Reject, AcceptNext, accept_connections, accept_connections_throws, Throw,
           Acceptor
<1>5. CASE Admit
    BY <1>0, <1>5
       DEF Admit, AcceptNext, accept_connections, accept_connections_throws, Throw,
           Acceptor
<1>6. CASE RetryHandler
    BY <1>0, <1>6
       DEF RetryHandler, AcceptNext, accept_connections, accept_connections_throws, Throw
<1>7. CASE SignalHandler
    <2>1. CASE signal = "raised" /\ Stop("done")
        BY <1>0, <1>7, <2>1, StopType DEF SignalHandler
    <2>2. CASE signal = "aborted"
        BY <1>0, <1>7, <2>2 DEF SignalHandler
    <2> QED
        BY <1>7, <2>1, <2>2 DEF SignalHandler
<1>8. CASE RunPostedStop
    BY <1>0, <1>8, StopType DEF RunPostedStop
<1>9. CASE StopVisit
    BY <1>0, <1>9 DEF StopVisit
<1>10. CASE StopThrows
    BY <1>0, <1>10 DEF StopThrows, Throw
<1>11. ASSUME NEW s \in Sessions, Erase(s) PROVE TypeOK'
    BY <1>0, <1>11 DEF Erase
<1>12. ASSUME NEW s \in Sessions, RunPostedEnd(s) PROVE TypeOK'
    BY <1>0, <1>12 DEF RunPostedEnd, Close, Throw
<1>13. ASSUME NEW s \in Sessions, SessionCloses(s) PROVE TypeOK'
    BY <1>0, <1>13 DEF SessionCloses, Close, Throw
<1>14. ASSUME NEW s \in Sessions, SessionThrows(s) PROVE TypeOK'
    BY <1>0, <1>14 DEF SessionThrows, Throw
<1>15. ASSUME NEW s \in Sessions, Free(s) PROVE TypeOK'
    BY <1>0, <1>15 DEF Free
<1>16. ASSUME NEW t \in Workers, StartWorker(t) PROVE TypeOK'
    BY <1>0, <1>16 DEF StartWorker
<1>17. CASE StartWorkerFails
    BY <1>0, <1>17 DEF StartWorkerFails
<1>18. CASE MainRuns
    BY <1>0, <1>18 DEF MainRuns
<1>19. CASE Join
    BY <1>0, <1>19 DEF Join
<1>20. ASSUME NEW t \in Threads, CatchHandler(t) PROVE TypeOK'
    BY <1>0, <1>20 DEF CatchHandler
<1>21. ASSUME NEW t \in Threads, RunReturns(t) PROVE TypeOK'
    BY <1>0, <1>21 DEF RunReturns
<1>22. CASE Environment \/ UNCHANGED vars
    BY <1>0, <1>22 DEF Environment, AcceptCompletes, RetryExpires, Signal, vars
<1> QED
    BY <1>1, <1>2, <1>3, <1>4, <1>5, <1>6, <1>7, <1>8, <1>9, <1>10, <1>11, <1>12, <1>13,
       <1>14, <1>15, <1>16, <1>17, <1>18, <1>19, <1>20, <1>21, <1>22
       DEF Next, StartUp, ServerStrand, SessionStrands, EventLoop

\* Every step keeps the registry and the posted handlers apart.
LEMMA RegistryStep == IInv /\ [Next]_vars => Registry'
<1> SUFFICES ASSUME IInv, [Next]_vars PROVE Registry'
    OBVIOUS
<1> USE DEF Registry, TypeOK, Acceptor
<1>0. TypeOK /\ Acceptor /\ Registry
    BY DEF IInv
<1>1. CASE StartUp
    BY <1>0, <1>1
       DEF StartUp, Decline, Construct, StartFails, get_endpoints, Start,
           accept_connections
<1>2. CASE AcceptFailed \/ AcceptThrows \/ Reject \/ RetryHandler
    BY <1>0, <1>2
       DEF AcceptFailed, AcceptThrows, Reject, RetryHandler, AcceptNext, accept_connections,
           accept_connections_throws, Throw
<1>3. CASE Admit
    BY <1>0, <1>3
       DEF Admit, AcceptNext, accept_connections, accept_connections_throws, Throw,
           StrandFree
<1>4. CASE SignalHandler \/ RunPostedStop \/ StopVisit \/ StopThrows
    BY <1>0, <1>4 DEF SignalHandler, RunPostedStop, Stop, StopVisit, StopThrows, Throw
<1>5. ASSUME NEW s \in Sessions, Erase(s) PROVE Registry'
    BY <1>0, <1>5 DEF Erase, StrandFree
<1>6. ASSUME NEW s \in Sessions, RunPostedEnd(s) PROVE Registry'
    BY <1>0, <1>6 DEF RunPostedEnd, Close, Throw
<1>7. ASSUME NEW s \in Sessions, SessionCloses(s) PROVE Registry'
    BY <1>0, <1>7 DEF SessionCloses, Close, Throw
<1>8. ASSUME NEW s \in Sessions, SessionThrows(s) PROVE Registry'
    BY <1>0, <1>8 DEF SessionThrows, Throw
<1>9. ASSUME NEW s \in Sessions, Free(s) PROVE Registry'
    BY <1>0, <1>9 DEF Free
<1>10. CASE EventLoop
    BY <1>0, <1>10
       DEF EventLoop, StartWorker, StartWorkerFails, MainRuns, Join, CatchHandler,
           RunReturns
<1>11. CASE Environment \/ UNCHANGED vars
    BY <1>0, <1>11 DEF Environment, AcceptCompletes, RetryExpires, Signal, vars
<1> QED
    BY <1>1, <1>2, <1>3, <1>4, <1>5, <1>6, <1>7, <1>8, <1>9, <1>10, <1>11
       DEF Next, ServerStrand, SessionStrands

\* Every step keeps the accept loop to one session.
LEMMA AcceptorStep == IInv /\ [Next]_vars => Acceptor'
<1> SUFFICES ASSUME IInv, [Next]_vars PROVE Acceptor'
    OBVIOUS
<1> USE DEF Registry, TypeOK, Acceptor
<1>0. TypeOK /\ Acceptor /\ Registry /\ NotStarted
    BY DEF IInv
<1>1. CASE StartUp
    BY <1>0, <1>1
       DEF StartUp, Decline, Construct, StartFails, get_endpoints, Start,
           accept_connections, NotStarted
<1>2. CASE AcceptFailed \/ AcceptThrows
    BY <1>0, <1>2 DEF AcceptFailed, AcceptThrows, accept_connections_throws, Throw
<1>3. CASE Reject
    BY <1>0, <1>3
       DEF Reject, AcceptNext, accept_connections, accept_connections_throws, Throw
<1>4. CASE Admit
    BY <1>0, <1>4
       DEF Admit, AcceptNext, accept_connections, accept_connections_throws, Throw
<1>5. CASE RetryHandler
    BY <1>0, <1>5
       DEF RetryHandler, AcceptNext, accept_connections, accept_connections_throws, Throw
<1>6. CASE SignalHandler \/ RunPostedStop \/ StopVisit \/ StopThrows
    BY <1>0, <1>6 DEF SignalHandler, RunPostedStop, Stop, StopVisit, StopThrows, Throw
<1>7. ASSUME NEW s \in Sessions, Erase(s) PROVE Acceptor'
    BY <1>0, <1>7 DEF Erase
<1>8. CASE SessionStrands
    BY <1>0, <1>8
       DEF SessionStrands, RunPostedEnd, SessionCloses, SessionThrows, Free, Close, Throw
<1>9. CASE EventLoop
    BY <1>0, <1>9
       DEF EventLoop, StartWorker, StartWorkerFails, MainRuns, Join, CatchHandler,
           RunReturns
<1>10. CASE Environment \/ UNCHANGED vars
    BY <1>0, <1>10 DEF Environment, AcceptCompletes, RetryExpires, Signal, vars
<1> QED
    BY <1>1, <1>2, <1>3, <1>4, <1>5, <1>6, <1>7, <1>8, <1>9, <1>10 DEF Next, ServerStrand

\* Every step leaves cancelling to Stop().
LEMMA CancelledStep == IInv /\ [Next]_vars => Cancelled'
<1> SUFFICES ASSUME IInv, [Next]_vars PROVE Cancelled'
    OBVIOUS
<1> USE DEF TypeOK, Cancelled
<1>0. TypeOK /\ Cancelled
    BY DEF IInv
<1>1. CASE StartUp
    BY <1>0, <1>1
       DEF StartUp, Decline, Construct, StartFails, get_endpoints, Start,
           accept_connections
<1>2. CASE AcceptFailed \/ AcceptThrows \/ Reject \/ Admit \/ RetryHandler
    BY <1>0, <1>2
       DEF AcceptFailed, AcceptThrows, Reject, Admit, RetryHandler, AcceptNext,
           accept_connections, accept_connections_throws, Throw
<1>3. CASE SignalHandler \/ RunPostedStop \/ StopVisit \/ StopThrows
    BY <1>0, <1>3 DEF SignalHandler, RunPostedStop, Stop, StopVisit, StopThrows, Throw
<1>4. ASSUME NEW s \in Sessions, Erase(s) PROVE Cancelled'
    BY <1>0, <1>4 DEF Erase
<1>5. CASE SessionStrands
    BY <1>0, <1>5
       DEF SessionStrands, RunPostedEnd, SessionCloses, SessionThrows, Free, Close, Throw
<1>6. CASE EventLoop
    BY <1>0, <1>6
       DEF EventLoop, StartWorker, StartWorkerFails, MainRuns, Join, CatchHandler,
           RunReturns
<1>7. CASE Environment \/ UNCHANGED vars
    BY <1>0, <1>7 DEF Environment, AcceptCompletes, RetryExpires, Signal, vars
<1> QED
    BY <1>1, <1>2, <1>3, <1>4, <1>5, <1>6, <1>7 DEF Next, ServerStrand

\* No step before Start() touches what the handlers use.
LEMMA NotStartedStep == IInv /\ [Next]_vars => NotStarted'
<1> SUFFICES ASSUME IInv, [Next]_vars PROVE NotStarted'
    OBVIOUS
<1> USE DEF TypeOK, NotStarted, LoopRuns, StrandFree
<1>0. TypeOK /\ NotStarted
    BY DEF IInv
<1>1. CASE StartUp
    BY <1>0, <1>1
       DEF StartUp, Decline, Construct, StartFails, get_endpoints, Start,
           accept_connections
<1>2. CASE ServerStrand
    BY <1>0, <1>2
       DEF ServerStrand, AcceptFailed, AcceptThrows, Reject, Admit, RetryHandler, AcceptNext,
           accept_connections, accept_connections_throws, Throw, SignalHandler,
           RunPostedStop, Stop, StopVisit, StopThrows, Erase
<1>3. CASE SessionStrands
    BY <1>0, <1>3
       DEF SessionStrands, RunPostedEnd, SessionCloses, SessionThrows, Free, Close, Throw
<1>4. CASE EventLoop
    BY <1>0, <1>4
       DEF EventLoop, StartWorker, StartWorkerFails, MainRuns, Join, CatchHandler,
           RunReturns
<1>5. CASE Environment \/ UNCHANGED vars
    BY <1>0, <1>5 DEF Environment, AcceptCompletes, RetryExpires, Signal, vars
<1> QED
    BY <1>1, <1>2, <1>3, <1>4, <1>5 DEF Next

\* No step loses a session whose coroutine was never spawned.
LEMMA HeldStep == IInv /\ [Next]_vars => HeldVisited'
<1> SUFFICES ASSUME IInv, [Next]_vars PROVE HeldVisited'
    OBVIOUS
<1> USE DEF TypeOK, HeldVisited, Acceptor, Registry, NotStarted
<1>0. TypeOK /\ HeldVisited /\ Acceptor /\ Registry /\ NotStarted
    BY DEF IInv
<1>1. CASE StartUp
    BY <1>0, <1>1
       DEF StartUp, Decline, Construct, StartFails, get_endpoints, Start,
           accept_connections
<1>2. CASE AcceptFailed \/ AcceptThrows \/ Reject \/ RetryHandler
    BY <1>0, <1>2
       DEF AcceptFailed, AcceptThrows, Reject, RetryHandler, AcceptNext, accept_connections,
           accept_connections_throws, Throw
<1>3. CASE Admit
    BY <1>0, <1>3
       DEF Admit, AcceptNext, accept_connections, accept_connections_throws, Throw,
           TurnedAway
<1>4. CASE SignalHandler \/ RunPostedStop
    BY <1>0, <1>4 DEF SignalHandler, RunPostedStop, Stop
<1>5. CASE StopVisit \/ StopThrows
    BY <1>0, <1>5 DEF StopVisit, StopThrows, Throw
<1>6. ASSUME NEW s \in Sessions, Erase(s) PROVE HeldVisited'
    BY <1>0, <1>6 DEF Erase
<1>7. ASSUME NEW s \in Sessions, RunPostedEnd(s) PROVE HeldVisited'
    BY <1>0, <1>7 DEF RunPostedEnd, Close, Throw
<1>8. ASSUME NEW s \in Sessions, SessionCloses(s) PROVE HeldVisited'
    BY <1>0, <1>8 DEF SessionCloses, Close, Throw
<1>9. ASSUME NEW s \in Sessions, SessionThrows(s) PROVE HeldVisited'
    BY <1>0, <1>9 DEF SessionThrows, Throw
<1>10. ASSUME NEW s \in Sessions, Free(s) PROVE HeldVisited'
    BY <1>0, <1>10 DEF Free
<1>11. CASE EventLoop
    BY <1>0, <1>11
       DEF EventLoop, StartWorker, StartWorkerFails, MainRuns, Join, CatchHandler,
           RunReturns
<1>12. CASE Environment \/ UNCHANGED vars
    BY <1>0, <1>12 DEF Environment, AcceptCompletes, RetryExpires, Signal, vars
<1> QED
    BY <1>1, <1>2, <1>3, <1>4, <1>5, <1>6, <1>7, <1>8, <1>9, <1>10, <1>11, <1>12
       DEF Next, ServerStrand, SessionStrands

\* No step after the event loop is empty gives it work again.
LEMMA DrainedStep == IInv /\ [Next]_vars => Drained'
<1> SUFFICES ASSUME IInv, [Next]_vars PROVE Drained'
    OBVIOUS
<1> USE DEF TypeOK, Drained, NotStarted, Cancelled, LoopRuns, StrandFree
<1>0. TypeOK /\ Drained /\ NotStarted /\ Cancelled
    BY DEF IInv
<1>1. CASE StartUp
    BY <1>0, <1>1
       DEF StartUp, Decline, Construct, StartFails, get_endpoints, Start,
           accept_connections
<1>2. CASE ServerStrand
    BY <1>0, <1>2
       DEF ServerStrand, AcceptFailed, AcceptThrows, Reject, Admit, RetryHandler, AcceptNext,
           accept_connections, accept_connections_throws, Throw, SignalHandler,
           RunPostedStop, Stop, StopVisit, StopThrows, Erase
<1>3. CASE SessionStrands
    BY <1>0, <1>3
       DEF SessionStrands, RunPostedEnd, SessionCloses, SessionThrows, Free, Close, Throw
<1>4. ASSUME NEW t \in Workers, StartWorker(t) PROVE Drained'
    BY <1>0, <1>4 DEF StartWorker
<1>5. CASE StartWorkerFails
    BY <1>0, <1>5 DEF StartWorkerFails
<1>6. CASE MainRuns
    BY <1>0, <1>6 DEF MainRuns
<1>7. CASE Join
    BY <1>0, <1>7 DEF Join
<1>8. ASSUME NEW t \in Threads, CatchHandler(t) PROVE Drained'
    BY <1>0, <1>8 DEF CatchHandler
<1>9. ASSUME NEW t \in Threads, RunReturns(t) PROVE Drained'
    BY <1>0, <1>9 DEF RunReturns, RunOver, Work
<1>10. CASE Environment \/ UNCHANGED vars
    BY <1>0, <1>10 DEF Environment, AcceptCompletes, RetryExpires, Signal, vars
<1> QED
    BY <1>1, <1>2, <1>3, <1>4, <1>5, <1>6, <1>7, <1>8, <1>9, <1>10 DEF Next, EventLoop

\* Every step accounts for the exceptions.
LEMMA FailuresStep == IInv /\ [Next]_vars => Failures'
<1> SUFFICES ASSUME IInv, [Next]_vars PROVE Failures'
    OBVIOUS
<1> USE DEF TypeOK, Failures
<1>0. TypeOK /\ Failures /\ NotStarted
    BY DEF IInv
<1>1. CASE StartUp
    BY <1>0, <1>1
       DEF StartUp, Decline, Construct, StartFails, get_endpoints, Start,
           accept_connections
<1>2. CASE AcceptFailed \/ AcceptThrows \/ Reject \/ Admit \/ RetryHandler
    BY <1>0, <1>2
       DEF AcceptFailed, AcceptThrows, Reject, Admit, RetryHandler, AcceptNext,
           accept_connections, accept_connections_throws, Throw
<1>3. CASE SignalHandler \/ RunPostedStop \/ StopVisit \/ StopThrows
    BY <1>0, <1>3 DEF SignalHandler, RunPostedStop, Stop, StopVisit, StopThrows, Throw
<1>4. ASSUME NEW s \in Sessions, Erase(s) PROVE Failures'
    BY <1>0, <1>4 DEF Erase
<1>5. CASE SessionStrands
    BY <1>0, <1>5
       DEF SessionStrands, RunPostedEnd, SessionCloses, SessionThrows, Free, Close, Throw
<1>6. ASSUME NEW t \in Workers, StartWorker(t) PROVE Failures'
    BY <1>0, <1>6 DEF StartWorker
<1>7. CASE StartWorkerFails
    BY <1>0, <1>7 DEF StartWorkerFails
<1>8. CASE MainRuns
    BY <1>0, <1>8 DEF MainRuns
<1>9. CASE Join
    BY <1>0, <1>9 DEF Join
<1>10. ASSUME NEW t \in Threads, CatchHandler(t) PROVE Failures'
    BY <1>0, <1>10 DEF CatchHandler
<1>11. ASSUME NEW t \in Threads, RunReturns(t) PROVE Failures'
    BY <1>0, <1>11 DEF RunReturns
<1>12. CASE Environment \/ UNCHANGED vars
    BY <1>0, <1>12 DEF Environment, AcceptCompletes, RetryExpires, Signal, vars
<1> QED
    BY <1>1, <1>2, <1>3, <1>4, <1>5, <1>6, <1>7, <1>8, <1>9, <1>10, <1>11, <1>12
       DEF Next, ServerStrand, EventLoop

\* No step changes what the exit code was computed from.
LEMMA ExitsStep == IInv /\ [Next]_vars => Exits'
<1> SUFFICES ASSUME IInv, [Next]_vars PROVE Exits'
    OBVIOUS
<1> USE DEF TypeOK, Exits, NotStarted, Drained, LoopRuns, StrandFree, WorkersJoined
<1>0. TypeOK /\ NotStarted /\ Exits /\ Drained
    BY DEF IInv
<1>1. CASE StartUp
    BY <1>0, <1>1
       DEF StartUp, Decline, Construct, StartFails, get_endpoints, Start,
           accept_connections
<1>2. CASE ServerStrand
    BY <1>0, <1>2
       DEF ServerStrand, AcceptFailed, AcceptThrows, Reject, Admit, RetryHandler, AcceptNext,
           accept_connections, accept_connections_throws, Throw, SignalHandler,
           RunPostedStop, Stop, StopVisit, StopThrows, Erase
<1>3. CASE SessionStrands
    BY <1>0, <1>3
       DEF SessionStrands, RunPostedEnd, SessionCloses, SessionThrows, Free, Close, Throw
<1>4. ASSUME NEW t \in Workers, StartWorker(t) PROVE Exits'
    BY <1>0, <1>4 DEF StartWorker
<1>5. CASE StartWorkerFails
    BY <1>0, <1>5 DEF StartWorkerFails
<1>6. CASE MainRuns
    BY <1>0, <1>6 DEF MainRuns
<1>7. CASE Join
    BY <1>0, <1>7 DEF Join
<1>8. ASSUME NEW t \in Threads, CatchHandler(t) PROVE Exits'
    BY <1>0, <1>8 DEF CatchHandler
<1>9. ASSUME NEW t \in Threads, RunReturns(t) PROVE Exits'
    BY <1>0, <1>9 DEF RunReturns
<1>10. CASE Environment \/ UNCHANGED vars
    BY <1>0, <1>10 DEF Environment, AcceptCompletes, RetryExpires, Signal, vars
<1> QED
    BY <1>1, <1>2, <1>3, <1>4, <1>5, <1>6, <1>7, <1>8, <1>9, <1>10 DEF Next, EventLoop

\* Every step keeps the accept loop going or Stop() coming.
LEMMA AcceptLoopStep == IInv /\ [Next]_vars => AcceptLoopAlive'
<1> SUFFICES ASSUME IInv, [Next]_vars PROVE AcceptLoopAlive'
    OBVIOUS
<1> USE DEF TypeOK, Acceptor, Cancelled, NotStarted, AcceptLoopAlive, Failing
<1>0. TypeOK /\ Acceptor /\ Cancelled /\ NotStarted /\ AcceptLoopAlive
    BY DEF IInv
<1>1. CASE StartUp
    BY <1>0, <1>1
       DEF StartUp, Decline, Construct, StartFails, get_endpoints, Start,
           accept_connections
<1>2. CASE AcceptFailed \/ AcceptThrows
    BY <1>0, <1>2 DEF AcceptFailed, AcceptThrows, accept_connections_throws, Throw
<1>3. CASE Reject
    BY <1>0, <1>3
       DEF Reject, AcceptNext, accept_connections, accept_connections_throws, Throw
<1>4. CASE Admit
    BY <1>0, <1>4
       DEF Admit, AcceptNext, accept_connections, accept_connections_throws, Throw
<1>5. CASE RetryHandler
    BY <1>0, <1>5
       DEF RetryHandler, AcceptNext, accept_connections, accept_connections_throws, Throw
<1>6. CASE SignalHandler
    BY <1>0, <1>6 DEF SignalHandler, Stop
<1>7. CASE RunPostedStop
    BY <1>0, <1>7 DEF RunPostedStop, Stop
<1>8. CASE StopVisit \/ StopThrows
    BY <1>0, <1>8 DEF StopVisit, StopThrows, Throw
<1>9. ASSUME NEW s \in Sessions, Erase(s) PROVE AcceptLoopAlive'
    BY <1>0, <1>9 DEF Erase
<1>10. CASE SessionStrands
    BY <1>0, <1>10
       DEF SessionStrands, RunPostedEnd, SessionCloses, SessionThrows, Free, Close, Throw
<1>11. ASSUME NEW t \in Workers, StartWorker(t) PROVE AcceptLoopAlive'
    BY <1>0, <1>11 DEF StartWorker
<1>12. CASE StartWorkerFails
    BY <1>0, <1>12 DEF StartWorkerFails
<1>13. CASE MainRuns
    BY <1>0, <1>13 DEF MainRuns
<1>14. CASE Join
    BY <1>0, <1>14 DEF Join
<1>15. ASSUME NEW t \in Threads, CatchHandler(t) PROVE AcceptLoopAlive'
    BY <1>0, <1>15 DEF CatchHandler
<1>16. ASSUME NEW t \in Threads, RunReturns(t) PROVE AcceptLoopAlive'
    BY <1>0, <1>16 DEF RunReturns
<1>17. CASE Environment \/ UNCHANGED vars
    BY <1>0, <1>17 DEF Environment, AcceptCompletes, RetryExpires, Signal, vars
<1> QED
    BY <1>1, <1>2, <1>3, <1>4, <1>5, <1>6, <1>7, <1>8, <1>9, <1>10, <1>11, <1>12, <1>13,
       <1>14, <1>15, <1>16, <1>17
       DEF Next, ServerStrand, EventLoop


\* Only two handlers of the server's strand change the registry.
LEMMA RegistryChanges ==
    [Next]_vars => sessions_' = sessions_ \/ Admit \/ \E s \in Sessions : Erase(s)
<1> SUFFICES ASSUME [Next]_vars, ~Admit, ~\E s \in Sessions : Erase(s)
             PROVE  sessions_' = sessions_
    OBVIOUS
<1>1. CASE StartUp
    BY <1>1 DEF StartUp, Decline, Construct, StartFails, get_endpoints, Start
<1>2. CASE ServerStrand
    BY <1>2 DEF ServerStrand, AcceptFailed, AcceptThrows, Reject, RetryHandler, SignalHandler,
                RunPostedStop, StopVisit, StopThrows
<1>3. CASE SessionStrands
    BY <1>3 DEF SessionStrands, RunPostedEnd, SessionCloses, SessionThrows, Free, Close
<1>4. CASE EventLoop
    BY <1>4 DEF EventLoop, StartWorker, StartWorkerFails, MainRuns, Join, CatchHandler,
                RunReturns
<1>5. CASE Environment \/ UNCHANGED vars
    BY <1>5 DEF Environment, AcceptCompletes, RetryExpires, Signal, vars
<1> QED
    BY <1>1, <1>2, <1>3, <1>4, <1>5 DEF Next

\* No step puts more sessions into the registry than max_connections.
LEMMA LimitedStep == IInv /\ [Next]_vars => Limited'
<1> SUFFICES ASSUME IInv, [Next]_vars PROVE Limited'
    OBVIOUS
<1> USE DEF Limited
<1>1. /\ IsFiniteSet(sessions_) /\ Cardinality(sessions_) \in Nat
      /\ Cardinality(sessions_) <= MaxConnections
    BY FS_Subset, FS_CardinalityType DEF IInv, TypeOK
<1>2. CASE Admit
    <2>1. sessions_' = sessions_ \cup {incoming} /\ ~(Cardinality(sessions_) >= MaxConnections)
        BY <1>2 DEF Admit, TurnedAway, Full
    <2>2. Cardinality(sessions_ \cup {incoming}) \in {Cardinality(sessions_), Cardinality(sessions_) + 1}
        BY <1>1, FS_AddElement
    <2>3. Cardinality(sessions_) + 1 <= MaxConnections
        BY <1>1, <2>1
    <2> QED
        BY <1>1, <2>1, <2>2, <2>3
<1>3. ASSUME NEW s \in Sessions, Erase(s) PROVE Limited'
    <2>1. sessions_' = sessions_ \ {s}
        BY <1>3 DEF Erase
    <2>2. Cardinality(sessions_ \ {s}) <= Cardinality(sessions_)
        BY <1>1, FS_Subset
    <2>3. Cardinality(sessions_ \ {s}) \in Nat
        BY <1>1, FS_RemoveElement, FS_CardinalityType
    <2> QED
        BY <1>1, <2>1, <2>2, <2>3
<1>4. CASE sessions_' = sessions_
    BY <1>1, <1>4
<1> QED
    BY <1>2, <1>3, <1>4, RegistryChanges

\* When the process starts nothing has happened yet.
LEMMA InitInv == Init => IInv
<1> SUFFICES ASSUME Init PROVE IInv
    OBVIOUS
<1> USE DEF Init
<1>1. TypeOK
    <2>1. throws \in 0..MaxThrows
        OBVIOUS
    <2>2. life \in [Sessions -> Lives]
        OBVIOUS
    <2>3. thread \in [Threads -> {"absent", "run", "caught", "returned"}]
        OBVIOUS
    <2> QED
        BY <2>1, <2>2, <2>3 DEF TypeOK
<1>2. Registry /\ Acceptor /\ Cancelled /\ NotStarted /\ HeldVisited
    BY DEF Registry, Acceptor, Cancelled, NotStarted, HeldVisited
<1>3. Limited
    BY FS_EmptySet DEF Limited
<1>4. Drained /\ Failures
    BY DEF Drained, Failures
<1>5. Exits /\ AcceptLoopAlive
    BY DEF Exits, AcceptLoopAlive
<1> QED
    BY <1>1, <1>2, <1>3, <1>4, <1>5 DEF IInv

\* The inductive invariant holds in every reachable state of the server.
THEOREM Invariance == Spec => []IInv
<1>1. IInv /\ [Next]_vars => IInv'
    BY TypeStep, RegistryStep, LimitedStep, AcceptorStep, CancelledStep, NotStartedStep,
       HeldStep, DrainedStep, FailuresStep, ExitsStep, AcceptLoopStep DEF IInv
<1> QED
    BY InitInv, <1>1, PTL DEF Spec

\* The server's variables keep their types: among others, End() and the erase
\* are only ever posted for sessions that exist (never for the moved-from or
\* empty pointer that accept_connections leaves behind).
THEOREM TypeCorrect == Spec => []TypeOK
<1>1. IInv => TypeOK
    BY DEF IInv
<1> QED
    BY <1>1, Invariance, PTL

\* At most max_connections sessions run at any moment, however admissions, ends,
\* posted erases and Stop() interleave: every running session is registered
\* (Registry), and the registry never outgrows the limit (Limited).
THEOREM ActiveIsBounded == Spec => []ActiveBounded
<1>1. IInv => ActiveBounded
    <2> SUFFICES ASSUME IInv PROVE ActiveBounded
        OBVIOUS
    <2> DEFINE R == {s \in Sessions : life[s] = "running"}
    <2>1. R \subseteq sessions_ /\ sessions_ \subseteq Sessions
        BY DEF IInv, TypeOK, Registry
    <2>2. IsFiniteSet(sessions_)
        BY <2>1, FS_Subset
    <2>3. /\ IsFiniteSet(R) /\ Cardinality(R) <= Cardinality(sessions_)
          /\ Cardinality(R) \in Nat /\ Cardinality(sessions_) \in Nat
        BY <2>1, <2>2, FS_Subset, FS_CardinalityType
    <2>4. Cardinality(sessions_) <= MaxConnections
        BY DEF IInv, Limited
    <2>5. Cardinality(R) <= MaxConnections
        <3> HIDE DEF R
        <3> QED
            BY <2>3, <2>4
    <2> QED
        BY <2>5 DEF ActiveBounded
<1> QED
    BY <1>1, Invariance, PTL

\* Until Stop() an accept or its retry is under way, never both, unless an
\* exception has broken the chain and Stop() is on its way (accept_connections,
\* RunContext).
THEOREM AcceptsUntilStop == Spec => []AcceptLoopAlive
<1>1. IInv => AcceptLoopAlive
    BY DEF IInv
<1> QED
    BY <1>1, Invariance, PTL

\* No thread leaves RunContext() before Stop(), whatever the handlers throw: the
\* signal wait is work that ends only with it.
THEOREM ThreadsStay == Spec => []NoThreadLost
<1>1. IInv => NoThreadLost
    BY DEF IInv, Drained, NoThreadLost
<1> QED
    BY <1>1, Invariance, PTL

\* main() reports failure exactly when starting failed or an exception was
\* caught on any thread, because Run() reads failed_ after the join: by then
\* nobody is left inside a catch clause (Exits, Failures).
THEOREM ExitIsHonest == Spec => []ExitHonest
<1>1. IInv => ExitHonest
    <2> SUFFICES ASSUME IInv, exit_code # "none"
                 PROVE  exit_code = "failure" <=> throws > 0 \/ spawn_failed \/ start = "failed"
        BY DEF ExitHonest
    <2>0. TypeOK /\ NotStarted /\ Failures /\ Exits
        BY DEF IInv
    <2>1. CASE start # "started"
        BY <2>0, <2>1 DEF TypeOK, NotStarted, Exits
    <2>2. CASE start = "started"
        <3>1. \A t \in Threads : thread[t] # "caught"
            BY <2>0, <2>2 DEF Exits, WorkersJoined
        <3> QED
            BY <2>0, <2>2, <3>1 DEF Exits, Failures
    <2> QED
        BY <2>1, <2>2
<1> QED
    BY <1>1, Invariance, PTL

\* When main() is over, and the loop of Stop() did not run out of memory, no
\* handler was dropped and no session is left behind except closed ones whose
\* erase could not be posted.  The event loop was empty when it stopped
\* (Drained); a session whose co_spawn threw was visited by Stop() (HeldVisited).
THEOREM ExitIsClean == ASSUME ~StopMayThrow PROVE Spec => []ExitClean
<1>1. IInv => ExitClean
    <2> SUFFICES ASSUME IInv, exit_code # "none"
                 PROVE  /\ erase_post = {} /\ end_post = {}
                        /\ \A s \in Sessions :
                               life[s] = IF s \in sessions_ THEN "leaked" ELSE "free"
        BY DEF ExitClean
    <2>0. TypeOK /\ NotStarted /\ Drained /\ Exits /\ Registry /\ Acceptor /\ HeldVisited
        BY DEF IInv
    <2>1. CASE start # "started"
        BY <2>0, <2>1 DEF NotStarted
    <2>2. CASE start = "started"
        <3>1. context_stopped
            BY <2>0, <2>2 DEF Exits, Drained
        <3>2. /\ stopping_ /\ incoming = NoSession
              /\ remaining = {} /\ erase_post = {} /\ end_post = {}
              /\ \A s \in Sessions : life[s] \in {"free", "held", "leaked"}
            BY <2>0, <3>1 DEF Drained, Acceptor, TypeOK
        <3>3. \A s \in Sessions : life[s] # "held"
            BY <2>0, <3>2 DEF HeldVisited
        <3> QED
            BY <2>0, <3>2, <3>3 DEF Registry, TypeOK
    <2> QED
        BY <2>1, <2>2
<1> QED
    BY <1>1, Invariance, PTL

\* The registry does not change while Stop() iterates over it: Admit and Erase
\* are handlers of the strand that Stop() occupies.
THEOREM IterationIsStable == Spec => IterationStable
<1>1. [Next]_vars => [remaining # {} => sessions_' = sessions_]_vars
    BY RegistryChanges DEF Admit, Erase, StrandFree
<1> QED
    BY <1>1, PTL DEF Spec, IterationStable

=============================================================================
