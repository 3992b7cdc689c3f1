------------------------------- MODULE Server -------------------------------
(***************************************************************************)
(* The server (Server.cpp) from main() to its exit code: start-up, the     *)
(* accept loop with its retry timer, the registry of active sessions,      *)
(* Stop(), and the event-loop threads of Run() and RunContext().           *)
(*                                                                         *)
(* The server's handlers run on its strand, one at a time.  A session is   *)
(* seen from outside: it runs, ends by itself or by the End() dispatched   *)
(* to its own strand, posts its erase, and is freed (module Tunnel is that *)
(* view, and module Session implements it).  The loop of Stop() is the one *)
(* handler whose steps are modelled one by one, because sessions end while *)
(* it runs.                                                                *)
(*                                                                         *)
(* A definition whose comment begins with "Broken:" is a wrong variant of  *)
(* the definition after it, kept to show that a property would notice it.  *)
(***************************************************************************)
EXTENDS Naturals, FiniteSets

CONSTANTS Sessions,       \* identities of Session objects; a freed one is reused
          Workers,        \* the threads Run() starts
          Main,           \* the calling thread
          NoSession,
          MaxConnections, \* config_.max_connections
          MaxThrows,      \* bound of the model: exceptions out of handlers
          StopMayThrow,   \* may the loop of Stop() run out of memory
          EndMayThrow     \* may on_closed_ run out of memory for its post

ASSUME ServerAssumption ==
    /\ IsFiniteSet(Sessions) /\ NoSession \notin Sessions
    /\ Main \notin Workers
    /\ MaxConnections \in Nat \ {0}
    /\ MaxThrows \in Nat
    /\ StopMayThrow \in BOOLEAN /\ EndMayThrow \in BOOLEAN

VARIABLES
    start,         \* how far main() has come before Run()
    stopping_,
    sessions_,     \* the registry
    accept,        \* acceptor_.async_accept: its operation
    incoming,      \* the session it accepts into
    retry,         \* accept_retry_.async_wait
    signal,        \* signals_.async_wait
    stop_post,     \* is a Stop() dispatched to the strand
    remaining,     \* sessions the loop of Stop() has still to visit
    erase_post,    \* sessions whose erase is posted to the strand
    end_post,      \* sessions whose End() is dispatched to their strand
    life,          \* state of each session object
    thread,        \* state of each event-loop thread
    context_stopped,
    failed_,
    throws,        \* exceptions so far
    spawn_failed,  \* starting a worker threw
    exit_code

shutdown == <<stopping_, signal, stop_post, remaining>>
acceptance == <<accept, incoming, retry>>
posted == <<erase_post, end_post>>
population == <<sessions_, posted, life>>
threading == <<thread, context_stopped, failed_, throws, spawn_failed, exit_code>>

vars == <<start, shutdown, acceptance, population, threading>>

Threads == Workers \cup {Main}

\* A handler needs a thread inside context_.run().
LoopRuns == ~context_stopped /\ \E t \in Threads : thread[t] = "run"

\* The server's strand is free: Stop() is not in its loop.
StrandFree == LoopRuns /\ remaining = {}

\* Work that keeps context_.run() from returning.
Work ==
    \/ accept # "idle" \/ retry # "none" \/ signal # "done"
    \/ stop_post \/ remaining # {} \/ erase_post # {} \/ end_post # {}
    \/ \E s \in Sessions : life[s] \in {"running", "closed"}

-----------------------------------------------------------------------------
\* The process has just started.
Init ==
    /\ start = "main" /\ exit_code = "none"
    /\ stopping_ = FALSE /\ stop_post = FALSE /\ signal = "none" /\ remaining = {}
    /\ accept = "idle" /\ incoming = NoSession /\ retry = "none"
    /\ sessions_ = {} /\ erase_post = {} /\ end_post = {}
    /\ life = [s \in Sessions |-> "free"]
    /\ thread = [t \in Threads |-> "absent"]
    /\ context_stopped = FALSE
    /\ failed_ = FALSE /\ throws = 0 /\ spawn_failed = FALSE

\* An exception leaves a handler and context_.run() on one of the threads.
Throw ==
    /\ throws < MaxThrows
    /\ throws' = throws + 1
    /\ \E t \in Threads :
           /\ thread[t] = "run"
           /\ thread' = [thread EXCEPT ![t] = "caught"]
    /\ UNCHANGED <<start, context_stopped, failed_, spawn_failed, exit_code>>

Calm == UNCHANGED <<start, threading>>

-----------------------------------------------------------------------------
(* The accept loop.                                                        *)

\* accept_connections, with l the sessions as the calling handler leaves them.
accept_connections(l) ==
    \/ /\ stopping_
       /\ accept' = "idle" /\ incoming' = NoSession /\ life' = l
    \/ /\ ~stopping_
       /\ \E s \in Sessions :
              /\ l[s] = "free"
              /\ accept' = "pending" /\ incoming' = s
              /\ life' = [l EXCEPT ![s] = "held"]

\* accept_connections, or its handler, ran out of memory: nothing is accepted
\* any more.
accept_connections_throws(l) ==
    /\ Throw
    /\ accept' = "idle" /\ incoming' = NoSession /\ life' = l

\* Broken: the next connection is not accepted.
AcceptNoMore(l) ==
    /\ accept' = "idle" /\ incoming' = NoSession /\ life' = l
    /\ Calm

AcceptNext(l) ==
    \/ accept_connections(l) /\ Calm
    \/ accept_connections_throws(l)

\* Broken: the session is moved away before its End().
DispatchEndMoved(s) == end_post' = end_post \cup {NoSession}

\* session->End() from outside the session's strand.
DispatchEnd(s) == end_post' = end_post \cup {s}

\* Broken: an error ends the accept loop, there is no retry.
NoRetry == UNCHANGED retry

ArmRetry == retry' = "waiting"

AcceptFailed ==
    /\ StrandFree /\ accept \in {"error", "aborted"}
    /\ DispatchEnd(incoming)
    /\ accept' = "idle" /\ incoming' = NoSession
    /\ \/ /\ stopping_ \/ accept = "aborted"
          /\ UNCHANGED retry /\ Calm
       \/ /\ ~stopping_ /\ accept = "error"
          /\ \/ ArmRetry /\ Calm
             \/ Throw /\ UNCHANGED retry          \* out of memory for the wait
    /\ UNCHANGED <<shutdown, sessions_, erase_post, life>>

\* Broken: one session over the limit.
FullLate == Cardinality(sessions_) > MaxConnections

Full == Cardinality(sessions_) >= MaxConnections

\* Broken: a connection whose accept completed before Stop() is admitted.
TurnedAwayIfFull == Full

TurnedAway == stopping_ \/ Full

\* Over the limit, or stopping: the connection is closed at once.
Reject ==
    /\ StrandFree /\ accept = "ok" /\ TurnedAway
    /\ DispatchEnd(incoming)
    /\ AcceptNext(life)
    /\ UNCHANGED <<shutdown, sessions_, retry, erase_post>>

\* The session is registered and its coroutine spawned.
Admit ==
    /\ StrandFree /\ accept = "ok" /\ ~TurnedAway
    /\ sessions_' = sessions_ \cup {incoming}
    /\ \/ AcceptNext([life EXCEPT ![incoming] = "running"])
       \/ accept_connections_throws(life)       \* co_spawn itself threw
    /\ UNCHANGED <<shutdown, retry, posted>>

\* The handler of the accept ran out of memory before that, for the dispatch in
\* session->End() or the entry in sessions_: the session is freed.
AcceptThrows ==
    /\ StrandFree /\ accept \in {"ok", "error", "aborted"}
    /\ accept_connections_throws([life EXCEPT ![incoming] = "free"])
    /\ UNCHANGED <<shutdown, sessions_, retry, posted>>

RetryHandler ==
    /\ StrandFree /\ retry \in {"expired", "aborted"}
    /\ retry' = "none"
    /\ \/ retry = "expired" /\ AcceptNext(life)
       \/ retry = "aborted" /\ Calm /\ UNCHANGED <<accept, incoming, life>>
    /\ UNCHANGED <<shutdown, sessions_, posted>>

-----------------------------------------------------------------------------
(* Stop().                                                                 *)

\* Up to the loop: cancel the signal wait and the retry timer, close the
\* acceptor.  sig is the signal wait as the calling handler leaves it.
Stop(sig) ==
    \/ /\ stopping_
       /\ signal' = sig
       /\ UNCHANGED <<stopping_, retry, accept, remaining>>
    \/ /\ ~stopping_
       /\ stopping_' = TRUE
       /\ signal' = IF sig = "waiting" THEN "aborted" ELSE sig
       /\ retry' = IF retry = "waiting" THEN "aborted" ELSE retry
       /\ accept' = IF accept = "pending" THEN "aborted" ELSE accept
       /\ remaining' = sessions_

SignalHandler ==
    /\ StrandFree /\ signal \in {"raised", "aborted"}
    /\ \/ signal = "raised" /\ Stop("done")
       \/ /\ signal = "aborted" /\ signal' = "done"
          /\ UNCHANGED <<stopping_, retry, accept, remaining>>
    /\ UNCHANGED <<start, incoming, stop_post, population, threading>>

RunPostedStop ==
    /\ StrandFree /\ stop_post
    /\ stop_post' = FALSE
    /\ Stop(signal)
    /\ UNCHANGED <<start, incoming, population, threading>>

\* One turn of the loop: session->End() is dispatched to the session's strand.
StopVisit ==
    /\ LoopRuns
    /\ \E s \in remaining :
           /\ remaining' = remaining \ {s}
           /\ DispatchEnd(s)
    /\ UNCHANGED <<start, stopping_, signal, stop_post, acceptance, sessions_,
                   erase_post, life, threading>>

\* The dispatch ran out of memory: the exception leaves the loop.
StopThrows ==
    /\ StopMayThrow /\ LoopRuns /\ remaining # {}
    /\ remaining' = {}
    /\ Throw
    /\ UNCHANGED <<stopping_, signal, stop_post, acceptance, population>>

\* The erase that on_closed_ posted.
Erase(s) ==
    /\ StrandFree /\ s \in erase_post
    /\ erase_post' = erase_post \ {s}
    /\ sessions_' = sessions_ \ {s}
    /\ UNCHANGED <<start, shutdown, acceptance, end_post, life, threading>>

-----------------------------------------------------------------------------
(* Sessions, on their own strands.                                         *)

\* Broken: on_closed_ erases at once instead of posting the erase.
NotifyErases(s) == sessions_' = sessions_ \ {s} /\ UNCHANGED erase_post

\* Broken: on_closed_ is not called.
NotifyNobody(s) == UNCHANGED <<sessions_, erase_post>>

\* on_closed_ posts the erase to the server's strand.
NotifyClosed(s) == erase_post' = erase_post \cup {s} /\ UNCHANGED sessions_

Ended(s) == life[s] \in {"closed", "leaked"}

(***************************************************************************)
(* Session::End as the server sees it: once, and on_closed_ posts the      *)
(* erase.  If that post runs out of memory, on_closed_ is already moved    *)
(* from and nobody posts the erase again.  The exception leaves the        *)
(* handler; if it is the coroutine that called End(), it reaches the       *)
(* completion handler of co_spawn instead, which logs it.                  *)
(***************************************************************************)
Close(s, inCoroutine) ==
    \/ Ended(s) /\ Calm /\ UNCHANGED <<life, erase_post, sessions_>>
    \/ /\ ~Ended(s)
       /\ life' = [life EXCEPT ![s] = "closed"]
       /\ \/ NotifyClosed(s) /\ Calm
          \/ /\ EndMayThrow
             /\ Throw \/ (inCoroutine /\ Calm)
             /\ UNCHANGED <<erase_post, sessions_>>

RunPostedEnd(s) ==
    /\ LoopRuns /\ s \in end_post
    /\ end_post' = end_post \ {s}
    /\ Close(s, FALSE)
    /\ UNCHANGED <<shutdown, acceptance>>

\* A session ends by itself: status answered, error, deadline, peer gone.
SessionCloses(s) ==
    /\ LoopRuns /\ life[s] = "running"
    /\ Close(s, TRUE)
    /\ UNCHANGED <<shutdown, acceptance, end_post>>

\* An exception leaves one of its handlers; the session does not end by it.
SessionThrows(s) ==
    /\ LoopRuns /\ life[s] = "running"
    /\ Throw
    /\ UNCHANGED <<shutdown, acceptance, population>>

\* All handlers of a closed session have run.  The last reference to it is
\* dropped, unless the registry keeps one that no posted erase will remove.
Free(s) ==
    /\ LoopRuns /\ life[s] = "closed" /\ s \notin end_post \cup erase_post
    /\ life' = [life EXCEPT ![s] = IF s \in sessions_ THEN "leaked" ELSE "free"]
    /\ UNCHANGED <<start, shutdown, acceptance, sessions_, posted, threading>>

-----------------------------------------------------------------------------
(* main() up to Run().                                                     *)

\* --help, or a configuration that parse_config refuses.
Decline ==
    /\ start = "main"
    /\ \/ start' = "helped" /\ exit_code' = "success"
       \/ start' = "failed" /\ exit_code' = "failure"
    /\ UNCHANGED <<shutdown, acceptance, population, thread, context_stopped,
                   failed_, throws, spawn_failed>>

\* parse_config accepts; the Server is constructed, its signal set with it.
Construct ==
    /\ start = "main"
    /\ start' = "resolving"
    /\ UNCHANGED <<shutdown, acceptance, population, threading>>

\* The blocking query of get_endpoints, the acceptor or the first accept
\* fails: the exception reaches main().
StartFails ==
    /\ start \in {"resolving", "resolved"}
    /\ start' = "failed" /\ exit_code' = "failure"
    /\ UNCHANGED <<shutdown, acceptance, population, thread, context_stopped,
                   failed_, throws, spawn_failed>>

get_endpoints ==
    /\ start = "resolving"
    /\ start' = "resolved"
    /\ UNCHANGED <<shutdown, acceptance, population, threading>>

\* The rest of Server::Start: listen, wait for a signal, which completes at
\* once for one that is queued, and accept.
Start ==
    /\ start = "resolved"
    /\ start' = "started"
    /\ signal' = IF signal = "queued" THEN "raised" ELSE "waiting"
    /\ accept_connections(life)
    /\ UNCHANGED <<stopping_, stop_post, remaining, retry, sessions_, posted, threading>>

-----------------------------------------------------------------------------
(* Run() and RunContext().                                                 *)

StartWorker(t) ==
    /\ start = "started"
    /\ thread[Main] = "absent" /\ thread[t] = "absent"
    /\ thread' = [thread EXCEPT ![t] = "run"]
    /\ UNCHANGED <<start, shutdown, acceptance, population, context_stopped, failed_,
                   throws, spawn_failed, exit_code>>

\* A worker cannot be started: Stop(), RunContext() and the exception goes on.
StartWorkerFails ==
    /\ start = "started"
    /\ thread[Main] = "absent" /\ \E t \in Workers : thread[t] = "absent"
    /\ spawn_failed' = TRUE
    /\ stop_post' = TRUE
    /\ thread' = [thread EXCEPT ![Main] = "run"]
    /\ UNCHANGED <<start, stopping_, signal, remaining, acceptance, population,
                   context_stopped, failed_, throws, exit_code>>

MainRuns ==
    /\ start = "started"
    /\ thread[Main] = "absent" /\ \A t \in Workers : thread[t] # "absent"
    /\ thread' = [thread EXCEPT ![Main] = "run"]
    /\ UNCHANGED <<start, shutdown, acceptance, population, context_stopped, failed_,
                   throws, spawn_failed, exit_code>>

\* Broken: the thread leaves RunContext() after an exception.
LeaveContext(t) == thread' = [thread EXCEPT ![t] = "returned"]

\* The loop of RunContext() goes round again.
RunAgain(t) == thread' = [thread EXCEPT ![t] = "run"]

\* The catch clauses: record the failure, Stop(), and run the loop again.
CatchHandler(t) ==
    /\ thread[t] = "caught"
    /\ failed_' = TRUE
    /\ stop_post' = TRUE
    /\ RunAgain(t)
    /\ UNCHANGED <<start, stopping_, signal, remaining, acceptance, population,
                   context_stopped, throws, spawn_failed, exit_code>>

\* Broken: Stop() stops the context instead of letting its handlers drain.
RunOverAtStop == context_stopped \/ stopping_

\* context_.run() returns when there is no work, and from then on always.
RunOver == context_stopped \/ ~Work

RunReturns(t) ==
    /\ thread[t] = "run" /\ RunOver
    /\ context_stopped' = TRUE
    /\ thread' = [thread EXCEPT ![t] = "returned"]
    /\ UNCHANGED <<start, shutdown, acceptance, population, failed_, throws,
                   spawn_failed, exit_code>>

\* Broken: failed_ is read before the workers are joined.
NotJoined == TRUE

WorkersJoined == \A t \in Workers : thread[t] \in {"absent", "returned"}

\* Run() joins the workers it started and returns failed_ (or rethrows).
Join ==
    /\ exit_code = "none"
    /\ thread[Main] = "returned" /\ WorkersJoined
    /\ exit_code' = IF failed_ \/ spawn_failed THEN "failure" ELSE "success"
    /\ UNCHANGED <<start, shutdown, acceptance, population, thread, context_stopped,
                   failed_, throws, spawn_failed>>

-----------------------------------------------------------------------------
(* The operating system and the clients.                                   *)

\* The model has a spare identity for the next session.
Spare == \E s \in Sessions : life[s] = "free"

\* A client connects, or accepting it fails.
AcceptCompletes ==
    /\ accept = "pending" /\ Spare
    /\ accept' \in {"ok", "error"}
    /\ UNCHANGED <<start, shutdown, incoming, retry, population, threading>>

RetryExpires ==
    /\ retry = "waiting" /\ Spare
    /\ retry' = "expired"
    /\ UNCHANGED <<start, shutdown, accept, incoming, population, threading>>

\* A signal before the wait is queued by the signal set.
Signal ==
    /\ \/ start \in {"resolving", "resolved"} /\ signal = "none" /\ signal' = "queued"
       \/ signal = "waiting" /\ signal' = "raised"
    /\ UNCHANGED <<start, stopping_, stop_post, remaining, acceptance, population,
                   threading>>

-----------------------------------------------------------------------------
ServerStrand ==
    \/ AcceptFailed \/ Reject \/ Admit \/ AcceptThrows \/ RetryHandler
    \/ SignalHandler \/ RunPostedStop \/ StopVisit \/ StopThrows
    \/ \E s \in Sessions : Erase(s)

SessionStrands ==
    \E s \in Sessions :
        RunPostedEnd(s) \/ SessionCloses(s) \/ SessionThrows(s) \/ Free(s)

StartUp == Decline \/ Construct \/ StartFails \/ get_endpoints \/ Start

EventLoop ==
    \/ \E t \in Workers : StartWorker(t)
    \/ StartWorkerFails \/ MainRuns \/ Join
    \/ \E t \in Threads : CatchHandler(t) \/ RunReturns(t)

Environment == AcceptCompletes \/ RetryExpires \/ Signal

Next == StartUp \/ ServerStrand \/ SessionStrands \/ EventLoop \/ Environment

Spec == Init /\ [][Next]_vars

(***************************************************************************)
(* Fairness: the threads run what is ready, a strand its handlers in the   *)
(* order they were posted, and the retry timer expires.                    *)
(* Clients, signals, exceptions and a session's own end are not assumed.   *)
(***************************************************************************)
Fairness ==
    /\ WF_vars(StartUp)
    /\ WF_vars(AcceptFailed) /\ WF_vars(Reject \/ Admit) /\ WF_vars(RetryHandler)
    /\ WF_vars(SignalHandler) /\ WF_vars(RunPostedStop) /\ WF_vars(StopVisit)
    /\ \A s \in Sessions :
           WF_vars(RunPostedEnd(s)) /\ WF_vars(Erase(s)) /\ WF_vars(Free(s))
    /\ \A t \in Threads : WF_vars(CatchHandler(t)) /\ WF_vars(RunReturns(t))
    /\ WF_vars(MainRuns \/ StartWorkerFails \/ \E t \in Workers : StartWorker(t))
    /\ WF_vars(Join)
    /\ WF_vars(RetryExpires)

FairSpec == Spec /\ Fairness
-----------------------------------------------------------------------------
Lives == {"free", "held", "running", "closed", "leaked"}

TypeOK ==
    /\ start \in {"main", "helped", "failed", "resolving", "resolved", "started"}
    /\ stopping_ \in BOOLEAN /\ stop_post \in BOOLEAN /\ context_stopped \in BOOLEAN
    /\ failed_ \in BOOLEAN /\ spawn_failed \in BOOLEAN
    /\ sessions_ \subseteq Sessions /\ remaining \subseteq Sessions
    /\ erase_post \subseteq Sessions /\ end_post \subseteq Sessions
    /\ accept \in {"idle", "pending", "ok", "error", "aborted"}
    /\ incoming \in Sessions \cup {NoSession}
    /\ retry \in {"none", "waiting", "expired", "aborted"}
    /\ signal \in {"none", "queued", "waiting", "raised", "aborted", "done"}
    /\ life \in [Sessions -> Lives]
    /\ thread \in [Threads -> {"absent", "run", "caught", "returned"}]
    /\ throws \in 0..MaxThrows
    /\ exit_code \in {"none", "success", "failure"}

(***************************************************************************)
(* At most max_connections sessions run at any moment: a session is in the *)
(* registry from before its coroutine is spawned until after it has ended, *)
(* so the size that accept_connections compares never falls short.         *)
(***************************************************************************)
ActiveBounded == Cardinality({s \in Sessions : life[s] = "running"}) <= MaxConnections

\* An exception has left a handler and Stop() has not run yet.
Failing == stop_post \/ \E t \in Threads : thread[t] = "caught"

(***************************************************************************)
(* Until Stop() the server accepts or is about to: an accept is under way  *)
(* or its completion is queued, or the retry timer is, and never both      *)
(* (accept_retry_ and acceptor_ have one operation between them).  Only an *)
(* exception breaks the chain, and then Stop() is on its way.              *)
(***************************************************************************)
AcceptLoopAlive ==
    start = "started" /\ ~stopping_ /\ ~Failing => (accept # "idle") # (retry # "none")

(***************************************************************************)
(* No event-loop thread leaves RunContext() before Stop(), whatever was    *)
(* thrown: the server never goes on with fewer threads, or none.           *)
(***************************************************************************)
NoThreadLost == (\E t \in Threads : thread[t] = "returned") => stopping_

(***************************************************************************)
(* When main() is over the shutdown was complete: no session is running or *)
(* waiting to be erased, no dispatched End() was dropped (README.md:       *)
(* "pending handlers finish"), and the registry holds at most closed       *)
(* sessions whose erase could not be posted.                               *)
(***************************************************************************)
ExitClean ==
    exit_code # "none" =>
        /\ erase_post = {} /\ end_post = {}
        /\ \A s \in Sessions : life[s] = IF s \in sessions_ THEN "leaked" ELSE "free"

(***************************************************************************)
(* The process reports failure if and only if it could not start, an       *)
(* exception was caught or a worker could not be started, even one that    *)
(* another thread caught after the calling thread's loop had returned:     *)
(* failed_ is read after the join.                                         *)
(***************************************************************************)
ExitHonest ==
    exit_code # "none" =>
        (exit_code = "failure" <=> throws > 0 \/ spawn_failed \/ start = "failed")

(***************************************************************************)
(* The registry does not change while Stop() iterates over it, although    *)
(* the End() it calls may run at once, on this or another thread: the      *)
(* erase is posted to the server's strand, never done inside End().        *)
(***************************************************************************)
IterationStable == [][remaining # {} => sessions_' = sessions_]_vars

\* Stop() has been asked for: a signal, be it during start-up, an exception
\* or a failed start of a worker.
StopWanted ==
    stopping_ \/ signal \in {"queued", "raised"} \/ throws > 0 \/ spawn_failed

(***************************************************************************)
(* README.md: on shutdown "acceptance stops, active sockets and timers are *)
(* canceled, pending handlers finish, and worker threads join".  Every     *)
(* reason to stop leads to the exit of the process, whichever sessions are *)
(* accepted, running or ending at that moment.                             *)
(***************************************************************************)
StopEnds == StopWanted ~> exit_code # "none"

(***************************************************************************)
(* The place of an ended session is given back: its entry leaves the       *)
(* registry, so the limit counts only sessions that are still there.       *)
(***************************************************************************)
SlotReclaimed ==
    \A s \in Sessions :
        (life[s] = "closed" /\ s \in sessions_) ~> s \notin sessions_

(***************************************************************************)
(* After every completion of the acceptor, a connection admitted, one      *)
(* turned away at the limit, a transient error, the server waits for the   *)
(* next connection again, unless it stops.                                 *)
(***************************************************************************)
AcceptResumes ==
    (start = "started" /\ accept # "pending") ~> (accept = "pending" \/ stopping_)
=============================================================================
