------------------------------- MODULE DemoApi -------------------------------
(***************************************************************************)
(* One pod of the demo workload: the Node process of app/sre-demo-api, the *)
(* kubelet that probes it as its Deployment says, and its Service endpoint *)
(* (pods share nothing).  The event loop runs a handler without a break    *)
(* from one await to the next; a step is one such run.  A connection       *)
(* carries one request at a time; its client may leave before the answer,  *)
(* the handler goes on.                                                    *)
(***************************************************************************)
EXTENDS Integers, FiniteSets

CONSTANTS Clients,            \* connections of the Service's clients
          Readiness,          \* the kubelet's readiness probe
          MaxCrashes          \* bound on uncaught exceptions

Conns == Clients \cup {Readiness}

ASSUME ClientsAssumption == IsFiniteSet(Clients)
ASSUME ProbeAssumption == Readiness \notin Clients
ASSUME CrashesAssumption == MaxCrashes \in Nat

\* readinessProbe: failureThreshold.
ReadyThreshold == 2

VARIABLES proc,         \* the process: starting, up, draining, down
          ready,        \* state.js: the flag behind setReady
          inFlight,     \* the gauge of requests in flight
          conn,         \* what each connection's handler is doing
          gone,         \* connections whose client does not wait any more
          dependencyUp, \* whether the dependency answers in time
          terminating,  \* the pod is being deleted
          endpoint,     \* the Service routes to the pod
          readyFails,   \* the kubelet's consecutive failures
          lateReady,    \* observer: successful probes since ready was cleared
          crashes

process == <<proc, ready, inFlight, conn, gone>>
kubelet == <<endpoint, readyFails, lateReady>>
world == <<dependencyUp, terminating, crashes>>
vars == <<process, kubelet, world>>

Awaiting == {"await_ready", "await_work"}
Answered == {"ready_ok", "ready_failed", "work_done"}
Busy == Awaiting \cup Answered

TypeOK ==
    /\ proc \in {"starting", "up", "draining", "down"}
    /\ ready \in BOOLEAN /\ dependencyUp \in BOOLEAN /\ terminating \in BOOLEAN
    /\ endpoint \in BOOLEAN
    /\ inFlight \in Int
    /\ conn \in [Conns -> Busy \cup {"closed", "open", "unanswered"}]
    /\ gone \in SUBSET Conns
    /\ readyFails \in 0..ReadyThreshold
    /\ lateReady \in 0..2
    /\ crashes \in 0..MaxCrashes

Init ==
    /\ proc = "starting" /\ ready = TRUE /\ inFlight = 0
    /\ conn = [c \in Conns |-> "closed"] /\ gone = {}
    /\ dependencyUp = TRUE /\ terminating = FALSE /\ crashes = 0
    /\ endpoint = FALSE /\ readyFails = 0
    /\ lateReady = 0

Serving == proc \in {"up", "draining"}
BusyConns == {c \in Conns : conn[c] \in Busy}
-----------------------------------------------------------------------------
(* The process *)

\* A new process: its state and metrics start afresh.
listen ==
    /\ proc = "starting"
    /\ proc' = "up" /\ ready' = TRUE /\ inFlight' = 0
    /\ lateReady' = 0
    /\ UNCHANGED <<conn, gone, endpoint, readyFails, world>>

connect(c) ==
    /\ proc = "up" /\ c \in Clients /\ conn[c] = "closed"
    /\ conn' = [conn EXCEPT ![c] = "open"]
    /\ UNCHANGED <<proc, ready, inFlight, gone, kubelet, world>>

\* After the answer the connection is kept alive or closed; a client that left
\* has closed it already.
AfterAnswer(c, kept) == IF c \in Clients /\ c \notin gone /\ kept THEN "open" ELSE "closed"

\* Routes that do not await: live, work, fail, unauthorised, unknown.  The gauge
\* goes up and down in one run.
answer_now(c, kept) ==
    /\ Serving /\ conn[c] = "open"
    /\ inFlight' = (inFlight + 1) - 1
    /\ conn' = [conn EXCEPT ![c] = AfterAnswer(c, kept)]
    /\ UNCHANGED <<proc, ready, gone, kubelet, world>>

\* /internal/readiness with the configured token.
set_ready(c, value, kept) ==
    /\ Serving /\ conn[c] = "open"
    /\ ready' = value
    /\ lateReady' = IF value THEN 0 ELSE lateReady
    /\ conn' = [conn EXCEPT ![c] = AfterAnswer(c, kept)]
    /\ UNCHANGED <<proc, inFlight, gone, endpoint, readyFails, world>>

\* Routes that await: the dependency's work, or the metrics registry.
request(c) ==
    /\ Serving /\ conn[c] = "open"
    /\ conn' = [conn EXCEPT ![c] = "await_work"]
    /\ inFlight' = inFlight + 1
    /\ UNCHANGED <<proc, ready, gone, kubelet, world>>

\* A target that is no URL: the handler rejects before it counts the request,
\* unhandledRejection logs it, and nothing ever answers.
request_unparsed(c) ==
    /\ Serving /\ conn[c] = "open"
    /\ conn' = [conn EXCEPT ![c] = "unanswered"]
    /\ UNCHANGED <<proc, ready, inFlight, gone, kubelet, world>>

\* Mutant: readiness does not require the dependency.
dependency_health_optional(c) ==
    /\ Serving /\ conn[c] = "await_ready"
    /\ conn' = [conn EXCEPT ![c] = "ready_ok"]
    /\ UNCHANGED <<proc, ready, inFlight, gone, kubelet, world>>

\* Mutant: a failed answer is cached for the next probe.
dependency_health_cached(c) ==
    /\ Serving /\ conn[c] = "await_ready"
    /\ conn' = [conn EXCEPT ![c] = IF dependencyUp /\ readyFails = 0 THEN "ready_ok" ELSE "ready_failed"]
    /\ UNCHANGED <<proc, ready, inFlight, gone, kubelet, world>>

\* The dependency's health, or its refusal, silence or timeout.
dependency_health(c) ==
    /\ Serving /\ conn[c] = "await_ready"
    /\ conn' = [conn EXCEPT ![c] = IF dependencyUp THEN "ready_ok" ELSE "ready_failed"]
    /\ UNCHANGED <<proc, ready, inFlight, gone, kubelet, world>>

\* callDependency turns every outcome into a result; the registry answers.
await_done(c) ==
    /\ Serving /\ conn[c] = "await_work"
    /\ conn' = [conn EXCEPT ![c] = "work_done"]
    /\ UNCHANGED <<proc, ready, inFlight, gone, kubelet, world>>

\* Mutant: an exception is answered without done().
answer_undone(c, kept) ==
    /\ Serving /\ c \in Clients /\ conn[c] = "work_done"
    /\ conn' = [conn EXCEPT ![c] = AfterAnswer(c, kept)]
    /\ inFlight' = IF kept THEN inFlight - 1 ELSE inFlight
    /\ gone' = gone \ {c}
    /\ UNCHANGED <<proc, ready, kubelet, world>>

\* reply and done after the await: 200, 502, or 500 from the catch.
answer(c, kept) ==
    /\ Serving /\ c \in Clients /\ conn[c] = "work_done"
    /\ conn' = [conn EXCEPT ![c] = AfterAnswer(c, kept)]
    /\ inFlight' = inFlight - 1
    /\ gone' = gone \ {c}
    /\ UNCHANGED <<proc, ready, kubelet, world>>

\* A client gives up: its connection closes, a handler is left alone.
hang_up(c) ==
    /\ c \in Clients \ gone /\ conn[c] # "closed"
    /\ IF conn[c] \in {"open", "unanswered"}
       THEN conn' = [conn EXCEPT ![c] = "closed"] /\ UNCHANGED gone
       ELSE gone' = gone \cup {c} /\ UNCHANGED conn
    /\ UNCHANGED <<proc, ready, inFlight, kubelet, world>>
-----------------------------------------------------------------------------
(* Shutdown *)

\* server.close(): the listener, and the idle connections with what their clients
\* have sent and the process has not read yet.
sigterm ==
    /\ terminating /\ proc = "up"
    /\ proc' = "draining"
    /\ conn' = [c \in Conns |-> IF conn[c] = "open" THEN "closed" ELSE conn[c]]
    /\ UNCHANGED <<ready, inFlight, gone, kubelet, world>>

\* The process ends, and with it every connection.
End ==
    /\ proc' = "down"
    /\ conn' = [c \in Conns |-> "closed"] /\ gone' = {}
    /\ UNCHANGED <<ready, inFlight, kubelet, dependencyUp, terminating>>

\* The callback of server.close: no connection is left.
drained ==
    /\ proc = "draining"
    /\ \A c \in Conns : conn[c] = "closed" \/ c \in gone
    /\ End /\ UNCHANGED crashes

\* Mutant: the timer is cleared while a connection is open.
drain_limit_idle ==
    /\ proc = "draining"
    /\ \A c \in Conns : conn[c] = "closed" \/ c \in gone
    /\ End /\ UNCHANGED crashes

\* The unref'd timer: exit(1), ten seconds after the signal.
drain_limit ==
    /\ proc = "draining"
    /\ End /\ UNCHANGED crashes

\* uncaughtException: exit(1).
uncaught ==
    /\ Serving /\ crashes < MaxCrashes
    /\ End /\ crashes' = crashes + 1
-----------------------------------------------------------------------------
(* The kubelet and the Service *)

NotReady ==
    /\ readyFails' = IF readyFails < ReadyThreshold THEN readyFails + 1 ELSE readyFails
    /\ endpoint' = (endpoint /\ readyFails' < ReadyThreshold)
    /\ UNCHANGED lateReady

Ready ==
    /\ readyFails' = 0 /\ endpoint' = ~terminating
    /\ lateReady' = IF ready \/ lateReady = 2 THEN lateReady ELSE lateReady + 1

\* Mutant: the readiness answer is the dependency's only.
probe_ready_flagless ==
    /\ Serving /\ ~terminating /\ conn[Readiness] = "closed"
    /\ conn' = [conn EXCEPT ![Readiness] = "await_ready"]
    /\ inFlight' = inFlight + 1
    /\ UNCHANGED <<proc, ready, gone, kubelet, world>>

\* /health/ready: the flag is read, then the dependency is awaited.
probe_ready ==
    /\ Serving /\ ~terminating /\ conn[Readiness] = "closed"
    /\ IF ready
       THEN /\ conn' = [conn EXCEPT ![Readiness] = "await_ready"]
            /\ inFlight' = inFlight + 1
            /\ UNCHANGED kubelet
       ELSE NotReady /\ UNCHANGED <<conn, inFlight>>
    /\ UNCHANGED <<proc, ready, gone, world>>

\* The answer, for a kubelet that still waits.
ready_answer ==
    /\ Serving /\ conn[Readiness] \in {"ready_ok", "ready_failed"}
    /\ conn' = [conn EXCEPT ![Readiness] = "closed"]
    /\ inFlight' = inFlight - 1
    /\ gone' = gone \ {Readiness}
    /\ IF Readiness \in gone THEN UNCHANGED kubelet
       ELSE IF conn[Readiness] = "ready_ok" THEN Ready
       ELSE NotReady
    /\ UNCHANGED <<proc, ready, world>>

\* timeoutSeconds passes while the handler awaits a dependency that is silent.
probe_timeout ==
    /\ conn[Readiness] = "await_ready" /\ Readiness \notin gone /\ ~dependencyUp
    /\ gone' = gone \cup {Readiness}
    /\ NotReady
    /\ UNCHANGED <<proc, ready, inFlight, conn, world>>

\* The container of a pod that is not being deleted is started again.
restart ==
    /\ proc = "down" /\ ~terminating
    /\ proc' = "starting" /\ endpoint' = FALSE /\ readyFails' = 0
    /\ UNCHANGED <<ready, inFlight, conn, gone, lateReady, world>>

delete_pod ==
    /\ ~terminating /\ proc # "starting"
    /\ terminating' = TRUE
    /\ UNCHANGED <<process, kubelet, dependencyUp, crashes>>

\* The endpoint controller removes a deleted pod, before or after its SIGTERM.
remove_endpoint ==
    /\ terminating /\ endpoint
    /\ endpoint' = FALSE
    /\ UNCHANGED <<process, readyFails, lateReady, world>>

dependency_changes ==
    /\ dependencyUp' = ~dependencyUp
    /\ UNCHANGED <<process, kubelet, terminating, crashes>>
-----------------------------------------------------------------------------
Client(c) ==
    \/ connect(c) \/ hang_up(c) \/ request(c) \/ request_unparsed(c)
    \/ \E kept \in BOOLEAN : answer_now(c, kept)
    \/ \E value \in BOOLEAN, kept \in BOOLEAN : set_ready(c, value, kept)

\* What the event loop does with what it awaited.
Handle(c) ==
    \/ dependency_health(c) \/ await_done(c)
    \/ \E kept \in BOOLEAN : answer(c, kept)

Kubelet == probe_ready \/ ready_answer \/ probe_timeout \/ restart
Shutdown == sigterm \/ drained \/ drain_limit
Pod == \/ \E c \in Conns : Client(c) \/ Handle(c)
       \/ listen \/ uncaught \/ Kubelet \/ Shutdown \/ delete_pod \/ remove_endpoint

Next == Pod \/ dependency_changes
Spec == Init /\ [][Next]_vars

\* The event loop runs, awaited calls return (at the latest with their
\* timeouts), the kubelet probes and restarts, the drain timer fires.
PodFairness ==
    /\ WF_vars(listen) /\ WF_vars(restart) /\ WF_vars(remove_endpoint)
    /\ WF_vars(sigterm) /\ WF_vars(drained \/ drain_limit)
    /\ WF_vars(probe_ready) /\ WF_vars(ready_answer)
    /\ \A c \in Conns : WF_vars(Handle(c))
-----------------------------------------------------------------------------
(* Properties *)

\* The gauge counts the handlers that are running, also those whose client left,
\* through every branch, exception and shutdown.
InFlightExact == Serving => inFlight = Cardinality(BusyConns)

\* A probe that read the flag before setReady(false) may still report ready;
\* it is the only one.
StaleReadyOnce == lateReady <= 1

\* A dependency that stays away takes the pod out of the Service, and a flag
\* that stays cleared does too.
Unroutable == <>[](~dependencyUp) \/ <>[](~ready) => <>[](~endpoint)

\* A pod whose dependency answers and whose flag stays set comes back, whatever
\* failed before.
Routable == <>[](dependencyUp /\ ready /\ ~terminating) => <>[]endpoint

\* A process that was told to stop does, with or without its clients.
Stops == proc = "draining" ~> proc = "down"
==============================================================================
