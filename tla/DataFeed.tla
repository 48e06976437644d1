------------------------------ MODULE DataFeed ------------------------------
(***************************************************************************)
(* The console's poller, datafeed.js.  A timer starts a tick every poll    *)
(* interval; a tick fetches every endpoint that is not backing off, and is *)
(* finished when the last answer is there.  Nothing limits how long a      *)
(* fetch takes, so ticks overlap, and they share the endpoints' state.     *)
(***************************************************************************)
EXTENDS Integers

CONSTANTS Endpoints,           \* ENDPOINTS
          PollInterval,        \* POLL_INTERVAL_MS, in the model's unit of time
          InitialDelay, MaxDelay, \* INITIAL_DELAY_MS, MAX_DELAY_MS
          MaxFailures,         \* MAX_CONSECUTIVE_FAILURES
          MaxTicks             \* bound on unfinished ticks

ASSUME EndpointsAssumption == Endpoints # {}
ASSUME TimesAssumption ==
    /\ {PollInterval, InitialDelay, MaxDelay, MaxFailures, MaxTicks} \subseteq Nat \ {0}

VARIABLES pollIn,       \* time until the timer fires
          ticks,        \* per unfinished tick: what has become of its fetches
          failureCount, \* per endpoint, up to MaxFailures
          succeeded,    \* per endpoint: lastSuccessAt is not null
          retryIn,      \* per endpoint: time until nextRetryAt
          badge,        \* _badgeState
          feedLog,      \* the last connection entry in the event stream
          feedRepeat,   \* observer: two equal connection entries in a row
          stream,       \* the event stream is in the document
          healthy       \* the endpoints that answer well

feedVars == <<pollIn, ticks, failureCount, succeeded, retryIn, badge,
              feedLog, feedRepeat, stream, healthy>>
endpointState == <<failureCount, succeeded, retryIn>>
display == <<badge, feedLog, feedRepeat>>

Slots == 1..MaxTicks
Free == [e \in Endpoints |-> "none"]
Badges == {"LIVE", "STALE", "OFFLINE"}

FeedTypeOK ==
    /\ stream \in BOOLEAN
    /\ pollIn \in 0..PollInterval
    /\ ticks \in [Slots -> [Endpoints -> {"none", "pending", "data", "stale"}]]
    /\ failureCount \in [Endpoints -> 0..MaxFailures]
    /\ succeeded \in [Endpoints -> BOOLEAN]
    /\ retryIn \in [Endpoints -> 0..MaxDelay]
    /\ badge \in Badges \cup {"none"}
    /\ feedLog \in {"none", "lost", "reconnected"} /\ feedRepeat \in BOOLEAN
    /\ healthy \in SUBSET Endpoints

\* Started with the page, which never stops it.
FeedInit ==
    /\ pollIn = 0
    /\ ticks = [t \in Slots |-> Free]
    /\ failureCount = [e \in Endpoints |-> 0]
    /\ succeeded = [e \in Endpoints |-> FALSE]
    /\ retryIn = [e \in Endpoints |-> 0]
    /\ badge = "none" /\ feedLog = "none" /\ feedRepeat = FALSE
    /\ stream = FALSE
    /\ healthy \in SUBSET Endpoints
-----------------------------------------------------------------------------
\* Mutant: an endpoint that has been given up is not fetched again.
fetchJson_gives_up(e) ==
    IF retryIn[e] > 0 \/ failureCount[e] = MaxFailures THEN "stale" ELSE "pending"

\* Within its retry window an endpoint is not fetched.
fetchJson(e) == IF retryIn[e] > 0 THEN "stale" ELSE "pending"

\* The timer starts a tick, whether or not the last one is finished.
tick ==
    /\ pollIn = 0 /\ pollIn' = PollInterval
    /\ \E t \in Slots :
         /\ ticks[t] = Free
         /\ \A u \in Slots : u < t => ticks[u] # Free
         /\ ticks' = [ticks EXCEPT ![t] = [e \in Endpoints |-> fetchJson(e)]]
    /\ UNCHANGED <<endpointState, display, stream, healthy>>

onEndpointSuccess(t, e) ==
    /\ ticks[t][e] = "pending" /\ e \in healthy
    /\ ticks' = [ticks EXCEPT ![t][e] = "data"]
    /\ failureCount' = [failureCount EXCEPT ![e] = 0]
    /\ succeeded' = [succeeded EXCEPT ![e] = TRUE]
    /\ retryIn' = [retryIn EXCEPT ![e] = 0]
    /\ UNCHANGED <<pollIn, display, stream, healthy>>

\* Mutant: without a limit.
AtMost_unlimited(n, max) == n
AtMost(n, max) == IF n < max THEN n ELSE max

\* Mutant: the count starts again with every tick that is under way.
NextFailures_local(e) == 1
NextFailures(e) == AtMost(failureCount[e] + 1, MaxFailures)

\* A refusal, an error status, an unreadable body or a network error.
onEndpointFailure(t, e) ==
    /\ ticks[t][e] = "pending" /\ e \notin healthy
    /\ ticks' = [ticks EXCEPT ![t][e] = "stale"]
    /\ failureCount' = [failureCount EXCEPT ![e] = NextFailures(e)]
    /\ succeeded' = [succeeded EXCEPT ![e] = FALSE]
    /\ retryIn' = [retryIn EXCEPT ![e] = AtMost(InitialDelay * 2 ^ NextFailures(e), MaxDelay)]
    /\ UNCHANGED <<pollIn, display, stream, healthy>>

\* The freshness window compares the start of the tick with successes that came
\* later; only their absence fails it.
BadgeOf(results) ==
    IF \A e \in Endpoints : failureCount[e] = MaxFailures THEN "OFFLINE"
    ELSE IF /\ \A e \in Endpoints : results[e] = "data" /\ failureCount[e] < MaxFailures
            /\ \E e \in Endpoints : succeeded[e]
         THEN "LIVE" ELSE "STALE"

\* Mutant: every tick that does not end live reports a loss.
Entry_always(now) == IF now = "LIVE" THEN "reconnected" ELSE "lost"

\* The transitions that are logged; "none" is no entry.
Entry(now) ==
    IF badge \in {"STALE", "OFFLINE"} /\ now = "LIVE" THEN "reconnected"
    ELSE IF badge = "LIVE" /\ now # "LIVE" THEN "lost" ELSE "none"

\* The last answer of a tick ends it: badge, log and cells.
finish(t) ==
    /\ ticks[t] # Free /\ \A e \in Endpoints : ticks[t][e] # "pending"
    /\ LET now == BadgeOf(ticks[t])
           entry == IF stream THEN Entry(now) ELSE "none"
       IN /\ badge' = now
          /\ feedLog' = IF entry = "none" THEN feedLog ELSE entry
          /\ feedRepeat' = (feedRepeat \/ (entry # "none" /\ entry = feedLog))
    /\ ticks' = [ticks EXCEPT ![t] = Free]
    /\ UNCHANGED <<pollIn, endpointState, stream, healthy>>

\* Time passes; a timer that is due fires first.
pass_time ==
    /\ pollIn > 0 /\ pollIn' = pollIn - 1
    /\ retryIn' = [e \in Endpoints |-> IF retryIn[e] > 0 THEN retryIn[e] - 1 ELSE 0]
    /\ UNCHANGED <<ticks, failureCount, succeeded, display, stream, healthy>>

\* The tab that holds the stream is loaded: app.js.
stream_loads ==
    /\ ~stream /\ stream' = TRUE
    /\ UNCHANGED <<pollIn, ticks, endpointState, display, healthy>>

hub_changes(e) ==
    /\ healthy' = IF e \in healthy THEN healthy \ {e} ELSE healthy \cup {e}
    /\ UNCHANGED <<pollIn, ticks, endpointState, display, stream>>

Answers == \E t \in Slots, e \in Endpoints : onEndpointSuccess(t, e) \/ onEndpointFailure(t, e)

FeedNext ==
    \/ tick \/ pass_time \/ stream_loads \/ Answers
    \/ \E t \in Slots : finish(t)
    \/ \E e \in Endpoints : hub_changes(e)

FeedSpec == FeedInit /\ [][FeedNext]_feedVars

\* Time passes, the timer fires, and every fetch is answered in the end: the
\* browser's own timeout, as the code has none.
FeedFairness ==
    /\ WF_feedVars(tick) /\ WF_feedVars(pass_time)
    /\ \A t \in Slots :
         /\ WF_feedVars(finish(t))
         /\ \A e \in Endpoints :
              WF_feedVars(onEndpointSuccess(t, e) \/ onEndpointFailure(t, e))
-----------------------------------------------------------------------------
(* Properties *)

\* Losses and reconnections alternate in the event stream, and the last of them
\* agrees with the badge, in whatever order overlapping ticks end.
LogAlternates ==
    /\ ~feedRepeat
    /\ feedLog # "none" => (feedLog = "reconnected" <=> badge = "LIVE")

\* "recovers via per-endpoint exponential backoff": endpoints that answer again
\* bring the badge back, however long they were away.
Reconnects == <>[](healthy = Endpoints) => <>[](badge = "LIVE")

\* Endpoints that stay away, each on its own retry schedule, take the console
\* offline in the end.
GoesOffline == <>[](healthy = {}) => <>[](badge = "OFFLINE")
=============================================================================
