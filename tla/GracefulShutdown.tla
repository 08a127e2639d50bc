-------------------------- MODULE GracefulShutdown --------------------------
(***************************************************************************)
(* facilitator/src/shutdown.ts, as index.ts and app.ts use it: signals     *)
(* stop the server; the process leaves when the requests it counts as      *)
(* active have ended, or when it has waited long enough.                   *)
(*                                                                         *)
(* The HTTP server below is Node's, as the code relies on it: it emits     *)
(* "request" when the headers are in, "finish" when a response has been    *)
(* written out, and no "finish" for a connection that was lost before.     *)
(***************************************************************************)
EXTENDS Integers, FiniteSets

CONSTANTS
    Requests,    \* HTTP requests
    KeptAlive,   \* those that come on connections open before the shutdown
    Handlers,    \* number of registered cleanup handlers
    Timeout      \* timeoutMs, in check intervals

ASSUME ShutdownAssumption ==
    /\ IsFiniteSet(Requests)
    /\ KeptAlive \subseteq Requests
    /\ Handlers \in Nat
    /\ Timeout \in Nat

VARIABLES
    request,         \* request[r], see Progress
    activeRequests,  \* the counter
    isShuttingDown,
    pc,              \* "serving", "draining", "cleaning" or "exited"
    elapsed,         \* intervals waited for active requests
    handlersRun      \* cleanup handlers that have run

vars == <<request, activeRequests, isShuttingDown, pc, elapsed, handlersRun>>

\* "arrived": the body is being read; "admitted": its handler runs; "rejected": its 503 is
\* under way; "abandoned": the handler runs, the client is gone.
Progress == {"none", "arrived", "admitted", "rejected", "abandoned", "answered", "lost"}

TypeOK ==
    /\ request \in [Requests -> Progress]
    /\ activeRequests \in Nat
    /\ isShuttingDown \in BOOLEAN
    /\ pc \in {"serving", "draining", "cleaning", "exited"}
    /\ elapsed \in Nat
    /\ handlersRun \in 0 .. Handlers

Init ==
    /\ request = [r \in Requests |-> "none"]
    /\ activeRequests = 0
    /\ isShuttingDown = FALSE
    /\ pc = "serving"
    /\ elapsed = 0
    /\ handlersRun = 0

Alive == pc # "exited"

Move(r, from, to) ==
    /\ Alive
    /\ request[r] = from
    /\ request' = [request EXCEPT ![r] = to]

-----------------------------------------------------------------------------
(* The server *)

\* The "request" event.  A closed server takes none from new connections.
Arrive(r) ==
    /\ isShuttingDown => r \in KeptAlive
    /\ Move(r, "none", "arrived")
    /\ activeRequests' = activeRequests + 1
    /\ UNCHANGED <<isShuttingDown, pc, elapsed, handlersRun>>

\* Mutant: no middleware that rejects requests.
AdmitAlways(r) ==
    /\ Move(r, "arrived", "admitted")
    /\ UNCHANGED <<activeRequests, isShuttingDown, pc, elapsed, handlersRun>>

\* shutdownMiddleware, when the body has been parsed.
Admit(r) ==
    /\ IF isShuttingDown
       THEN Move(r, "arrived", "rejected")
       ELSE Move(r, "arrived", "admitted")
    /\ UNCHANGED <<activeRequests, isShuttingDown, pc, elapsed, handlersRun>>

\* The response is written out: the "finish" event.
Finish(r) ==
    /\ \E from \in {"admitted", "rejected"} : Move(r, from, "answered")
    /\ activeRequests' = activeRequests - 1
    /\ UNCHANGED <<isShuttingDown, pc, elapsed, handlersRun>>

\* The client goes away before the response: nothing counts it, and a handler that
\* already runs goes on.
LoseConnection(r) ==
    /\ \/ \E from \in {"arrived", "rejected"} : Move(r, from, "lost")
       \/ Move(r, "admitted", "abandoned")
    /\ UNCHANGED <<activeRequests, isShuttingDown, pc, elapsed, handlersRun>>

\* Its handler ends, and its response goes nowhere.
EndAbandoned(r) ==
    /\ Move(r, "abandoned", "lost")
    /\ UNCHANGED <<activeRequests, isShuttingDown, pc, elapsed, handlersRun>>

-----------------------------------------------------------------------------
(* shutdown *)

\* SIGTERM, SIGINT or an uncaught error.  Later ones join the shutdown under way.
Signal ==
    /\ Alive
    /\ isShuttingDown' = TRUE
    /\ IF isShuttingDown
       THEN UNCHANGED pc
       ELSE pc' = "draining"
    /\ UNCHANGED <<request, activeRequests, elapsed, handlersRun>>

\* Mutant: a loop without a limit.
CheckActiveForever ==
    /\ pc = "draining"
    /\ IF activeRequests > 0
       THEN pc' = pc /\ elapsed' = Timeout
       ELSE pc' = "cleaning" /\ UNCHANGED elapsed
    /\ UNCHANGED <<request, activeRequests, isShuttingDown, handlersRun>>

\* One turn of the wait loop, and the sleep after it.
CheckActive ==
    /\ pc = "draining"
    /\ IF activeRequests > 0 /\ elapsed < Timeout
       THEN pc' = pc /\ elapsed' = elapsed + 1
       ELSE pc' = "cleaning" /\ UNCHANGED elapsed
    /\ UNCHANGED <<request, activeRequests, isShuttingDown, handlersRun>>

\* The next cleanup handler; one that throws is only logged.
RunHandler ==
    /\ pc = "cleaning"
    /\ handlersRun < Handlers
    /\ handlersRun' = handlersRun + 1
    /\ UNCHANGED <<request, activeRequests, isShuttingDown, pc, elapsed>>

\* Telemetry is shut down, and the process exits with whatever is still open.
Exit ==
    /\ pc = "cleaning"
    /\ handlersRun = Handlers
    /\ pc' = "exited"
    /\ UNCHANGED <<request, activeRequests, isShuttingDown, elapsed, handlersRun>>

Next ==
    \/ \E r \in Requests : \/ Arrive(r)
                           \/ Admit(r)
                           \/ Finish(r)
                           \/ LoseConnection(r)
                           \/ EndAbandoned(r)
    \/ Signal
    \/ CheckActive
    \/ RunHandler
    \/ Exit

\* Timers fire, and the registered handlers, which stop timers, end.
ShutdownFairness == WF_vars(CheckActive) /\ WF_vars(RunHandler) /\ WF_vars(Exit)

Spec == Init /\ [][Next]_vars /\ ShutdownFairness

-----------------------------------------------------------------------------
(* Properties *)

\* Requests a handler works on.
Working == {r \in Requests : request[r] \in {"admitted", "abandoned"}}

\* Requests that have neither been answered nor dropped.
Open == {r \in Requests : request[r] \in {"arrived", "admitted", "rejected", "abandoned"}}

\* Cleanup and exit interrupt the handler of no request, unless the time was up: from
\* the last check on, none is admitted ("ensuring that in-flight requests are completed
\* before process termination"), whoever loses the connection and however slow a body is.
DrainedOrTimedOut ==
    pc \in {"cleaning", "exited"} /\ Working # {} => elapsed >= Timeout

\* The count never misses an open request, so the wait never ends too early.
CountCoversOpen == activeRequests >= Cardinality(Open)

\* A shutdown that has come to an end of its wait does not go back to it, and never
\* runs a cleanup handler again, however many signals and errors come in.
ShutdownOnce ==
    [][/\ pc \in {"cleaning", "exited"} => pc' \in {"cleaning", "exited"}
       /\ handlersRun' >= handlersRun]_vars

\* The process exits once it has been told to, whatever its clients and handlers do.
SignalledExits == isShuttingDown ~> pc = "exited"

=============================================================================
