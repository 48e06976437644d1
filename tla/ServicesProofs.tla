--------------------------- MODULE ServicesProofs ---------------------------
(***************************************************************************)
(* What the console's poller keeps in its event log, for every number of   *)
(* endpoints, of ticks under way, of delays and of failures; what the page *)
(* keeps, whatever its tabs, scripts, timers and buttons do; what the edge *)
(* forwards for one actor, for every number of concurrent requests and set *)
(* of requests; and the types of all four services.                        *)
(***************************************************************************)
EXTENDS Services, ReconcilerProofs

(***************************************************************************)
(* The poller.                                                             *)
(***************************************************************************)

\* The log is behind the badge: it starts later, and not before there is a
\* stream, which stays.
LogInv ==
    /\ badge \in Badges \cup {"none"}
    /\ feedLog \in {"none", "lost", "reconnected"}
    /\ feedRepeat \in BOOLEAN
    /\ feedLog # "none" => badge # "none" /\ stream
    /\ LogAlternates

USE DEF Badges, display

LEMMA LogInvInit == FeedInit => LogInv
BY DEF FeedInit, LogInv, LogAlternates

\* Everything but the end of a tick leaves the display alone.
LEMMA LogInvDisplay == LogInv /\ UNCHANGED display /\ (stream => stream') => LogInv'
BY DEF LogInv, LogAlternates

LEMMA LogInvFinish ==
    ASSUME LogInv, NEW t \in Slots, finish(t)
    PROVE  LogInv'
<1>1. PICK now, entry :
         /\ now = BadgeOf(ticks[t]) /\ entry = (IF stream THEN Entry(now) ELSE "none")
         /\ badge' = now
         /\ feedLog' = (IF entry = "none" THEN feedLog ELSE entry)
         /\ feedRepeat' = (feedRepeat \/ (entry # "none" /\ entry = feedLog))
         /\ stream' = stream
    BY DEF finish
<1>2. now \in Badges
    BY <1>1 DEF BadgeOf
<1>3. CASE entry = "none"
  <2>1. stream /\ badge # "none" => (now = "LIVE" <=> badge = "LIVE")
        BY <1>1, <1>2, <1>3 DEF Entry, LogInv
  <2> QED
        BY <1>1, <1>2, <1>3, <2>1 DEF LogInv, LogAlternates
<1>4. CASE entry # "none"
  <2>1. stream
        BY <1>1, <1>4
  <2>2. \/ entry = "reconnected" /\ now = "LIVE" /\ badge \in {"STALE", "OFFLINE"}
        \/ entry = "lost" /\ now # "LIVE" /\ badge = "LIVE"
        BY <1>1, <1>4 DEF Entry
  <2>3. entry # feedLog
        BY <2>2 DEF LogInv, LogAlternates
  <2> QED
        BY <1>1, <1>2, <2>1, <2>2, <2>3 DEF LogInv, LogAlternates
<1> QED
    BY <1>3, <1>4

LEMMA LogInvStep == LogInv /\ [FeedNext]_feedVars => LogInv'
<1> SUFFICES ASSUME LogInv, [FeedNext]_feedVars PROVE LogInv'
    OBVIOUS
<1>1. CASE tick
    BY <1>1, LogInvDisplay DEF tick
<1>2. CASE pass_time
    BY <1>2, LogInvDisplay DEF pass_time
<1>3. CASE stream_loads
    BY <1>3, LogInvDisplay DEF stream_loads
<1>4. CASE Answers
    BY <1>4, LogInvDisplay DEF Answers, onEndpointSuccess, onEndpointFailure
<1>5. CASE \E t \in Slots : finish(t)
    BY <1>5, LogInvFinish
<1>6. CASE \E e \in Endpoints : hub_changes(e)
    BY <1>6, LogInvDisplay DEF hub_changes
<1>7. CASE UNCHANGED feedVars
    BY <1>7, LogInvDisplay DEF feedVars
<1> QED
    BY <1>1, <1>2, <1>3, <1>4, <1>5, <1>6, <1>7 DEF FeedNext

\* In whatever order overlapping ticks end, losses and reconnections alternate
\* in the event stream, and the last of them agrees with the badge.
THEOREM FeedLogAlternates == FeedSpec => []LogAlternates
<1>1. LogInv => LogAlternates
    BY DEF LogInv
<1> QED
    BY <1>1, LogInvInit, LogInvStep, PTL DEF FeedSpec

HIDE DEF Badges, display

(***************************************************************************)
(* The page.                                                               *)
(***************************************************************************)

\* Outside the type: an outage is one state, a sync reaches tabs that stay in the
\* document, and the stream, looked up by simulation.js, is needed for an alarm.
PageInv ==
    /\ PageTypeOK
    /\ \A t \in Tabs : fetching[t] + copies[t] <= MaxCopies
    /\ readiness = ~chaos
    /\ \A t \in synced : InPage(t)
    /\ ~Ran("simulation") => ~eventStream
    /\ ~eventStream => ~alarm
    /\ ControlsShowStore
    /\ AlarmsAreCurrent

USE CopiesAssumption, BurstsAssumption DEF Tabs, Ran, Order, Execute, document, contents, store, controls

\* A sync leaves the controls that it has ever reached with the store.
LEMMA SyncShowsStore ==
    ASSUME PageInv, syncAllUI, chaos' \in BOOLEAN, readiness' = ~chaos', copies' = copies
    PROVE  /\ {breaker', probe'} \subseteq BOOLEAN
           /\ consoleLog' \in {"ready", "not-ready", "work"}
           /\ synced' \in SUBSET Tabs
           /\ (\A t \in synced : InPage(t))'
           /\ ControlsShowStore'
BY DEF PageInv, PageTypeOK, syncAllUI, InPage, ControlsShowStore

\* An entry is an alarm of an outage that is on, if there is a stream at all.
LEMMA EntryIsCurrent ==
    ASSUME PageInv, NEW isError \in BOOLEAN, appendEvent(isError), isError => chaos',
           eventStream' = eventStream
    PROVE  alarm' \in BOOLEAN /\ (~eventStream => ~alarm)' /\ AlarmsAreCurrent'
BY DEF PageInv, PageTypeOK, appendEvent, AlarmsAreCurrent

LEMMA LoadKeepsContents ==
    ASSUME PageInv, NEW t \in Tabs, loadTabContent(t)
    PROVE  /\ fetching' \in [Tabs -> 0..MaxCopies]
           /\ copies' = copies /\ loadedTabs' = loadedTabs
           /\ \A u \in Tabs : fetching'[u] + copies'[u] <= MaxCopies
<1>1. CASE UNCHANGED contents
    BY <1>1 DEF PageInv, PageTypeOK
<1>2. CASE ~UNCHANGED contents
  <2>1. /\ fetching[t] + copies[t] # MaxCopies
        /\ fetching' = [fetching EXCEPT ![t] = @ + 1] /\ copies' = copies /\ loadedTabs' = loadedTabs
        BY <1>2 DEF loadTabContent
  <2>2. fetching[t] \in Nat /\ copies[t] \in Nat /\ fetching[t] + copies[t] < MaxCopies
        BY <2>1 DEF PageInv, PageTypeOK
  <2>3. fetching[t] + 1 \in 0..MaxCopies
        BY <2>2
  <2>4. fetching'[t] = fetching[t] + 1 /\ \A u \in Tabs \ {t} : fetching'[u] = fetching[u]
        BY <2>1 DEF PageInv, PageTypeOK
  <2> QED
        BY <2>1, <2>2, <2>3, <2>4 DEF PageInv, PageTypeOK
<1> QED
    BY <1>1, <1>2

LEMMA PageInvInit == PageInit => PageInv
<1> SUFFICES ASSUME PageInit PROVE PageInv
    OBVIOUS
<1>1. PICK n \in {0, 1} : copies = [t \in Tabs |-> n]
    BY DEF PageInit
<1>2. /\ copies \in [Tabs -> 0..MaxCopies] /\ fetching \in [Tabs -> 0..MaxCopies]
      /\ \A t \in Tabs : fetching[t] + copies[t] <= MaxCopies
    BY <1>1 DEF PageInit
<1>3. /\ eventStream = FALSE /\ alarm = FALSE
      /\ chaos = FALSE /\ readiness = TRUE /\ burst = FALSE /\ breaker = FALSE /\ probe = FALSE
    BY DEF PageInit
<1>4. PageTypeOK
  <2>1. /\ {eventStream, alarm} \subseteq BOOLEAN
        /\ {chaos, readiness, burst, breaker, probe} \subseteq BOOLEAN
        BY <1>3, Zenon
  <2>2. /\ executed \in 0..7 /\ active \in Tabs /\ bursts \in 0..MaxBursts
        /\ consoleLog \in {"ready", "not-ready", "work"}
        /\ loadedTabs \in SUBSET Tabs /\ synced \in SUBSET Tabs
        BY DEF PageInit
  <2> QED
        BY <1>2, <2>1, <2>2, Zenon DEF PageTypeOK
<1>5. /\ readiness = ~chaos /\ \A t \in synced : InPage(t)
      /\ ~eventStream /\ ~alarm /\ ControlsShowStore /\ AlarmsAreCurrent
    BY <1>3 DEF PageInit, ControlsShowStore, AlarmsAreCurrent
<1> QED
    BY <1>2, <1>4, <1>5 DEF PageInv

LEMMA LoadKeepsInv == PageInv /\ Load => PageInv'
<1> SUFFICES ASSUME PageInv, Load PROVE PageInv'
    OBVIOUS
<1>1. CASE app
    BY <1>1 DEF app, PageInv, PageTypeOK, InPage, ControlsShowStore, AlarmsAreCurrent
<1>2. CASE simulation
    BY <1>2 DEF simulation, PageInv, PageTypeOK, InPage, ControlsShowStore, AlarmsAreCurrent
<1>3. CASE defines
    BY <1>3 DEF defines, PageInv, PageTypeOK, InPage, ControlsShowStore, AlarmsAreCurrent
<1>4. CASE DOMContentLoaded
  <2>1. active \in Tabs /\ loadTabContent(active) /\ syncAllUI
        BY <1>4 DEF DOMContentLoaded, PageInv, PageTypeOK
  <2>2. /\ fetching' \in [Tabs -> 0..MaxCopies] /\ copies' = copies /\ loadedTabs' = loadedTabs
        /\ \A u \in Tabs : fetching'[u] + copies'[u] <= MaxCopies
        BY <2>1, LoadKeepsContents
  <2>3. chaos' \in BOOLEAN /\ readiness' = ~chaos'
        BY <1>4 DEF DOMContentLoaded, PageInv, PageTypeOK
  <2>4. /\ {breaker', probe'} \subseteq BOOLEAN /\ consoleLog' \in {"ready", "not-ready", "work"}
        /\ synced' \in SUBSET Tabs /\ (\A t \in synced : InPage(t))' /\ ControlsShowStore'
        BY <2>1, <2>2, <2>3, SyncShowsStore
  <2> QED
        BY <1>4, <2>2, <2>3, <2>4 DEF DOMContentLoaded, PageInv, PageTypeOK, AlarmsAreCurrent
<1> QED
    BY <1>1, <1>2, <1>3, <1>4 DEF Load

\* What the buttons that set the store have in common.
LEMMA SetStoreKeepsInv ==
    ASSUME PageInv, NEW isError \in BOOLEAN, syncAllUI, appendEvent(isError),
           chaos' = isError, readiness' = ~chaos', burst' \in BOOLEAN,
           UNCHANGED <<document, contents, bursts>>
    PROVE  PageInv'
<1>1. /\ {breaker', probe'} \subseteq BOOLEAN /\ consoleLog' \in {"ready", "not-ready", "work"}
      /\ synced' \in SUBSET Tabs /\ (\A t \in synced : InPage(t))' /\ ControlsShowStore'
      BY SyncShowsStore
<1>2. alarm' \in BOOLEAN /\ (~eventStream => ~alarm)' /\ AlarmsAreCurrent'
      BY EntryIsCurrent
<1> QED
      BY <1>1, <1>2 DEF PageInv, PageTypeOK

LEMMA ActKeepsInv == PageInv /\ Act => PageInv'
<1> SUFFICES ASSUME PageInv, Act PROVE PageInv'
    OBVIOUS
<1>1. CASE injectBurstTraffic
  <2>1. alarm' \in BOOLEAN /\ (~eventStream => ~alarm)' /\ AlarmsAreCurrent'
        BY <1>1, EntryIsCurrent DEF injectBurstTraffic
  <2> QED
        BY <1>1, <2>1 DEF injectBurstTraffic, PageInv, PageTypeOK, InPage, ControlsShowStore
<1>2. CASE toggleDependencyFailure
  <2>1. chaos' \in BOOLEAN /\ burst' \in BOOLEAN
        BY <1>2 DEF toggleDependencyFailure, PageInv, PageTypeOK
  <2> QED
        BY <1>2, <2>1, SetStoreKeepsInv DEF toggleDependencyFailure
<1>3. CASE resetSimulationBaseline
    BY <1>3, SetStoreKeepsInv DEF resetSimulationBaseline
<1>4. CASE triggerWorkload
  <2>1. alarm' \in BOOLEAN /\ (~eventStream => ~alarm)' /\ AlarmsAreCurrent'
        BY <1>4, EntryIsCurrent DEF triggerWorkload
  <2> QED
        BY <1>4, <2>1 DEF triggerWorkload, PageInv, PageTypeOK, InPage, ControlsShowStore
<1>5. CASE clearEventLog
  <2>1. alarm' \in BOOLEAN /\ (~eventStream => ~alarm)' /\ AlarmsAreCurrent'
        BY <1>5, EntryIsCurrent DEF clearEventLog
  <2> QED
        BY <1>5, <2>1 DEF clearEventLog, PageInv, PageTypeOK, InPage, ControlsShowStore
<1>6. ASSUME NEW isReady \in BOOLEAN, toggleReadiness(isReady) PROVE PageInv'
  <2>1. burst' \in BOOLEAN /\ readiness' = ~chaos'
        BY <1>6 DEF toggleReadiness, PageInv, PageTypeOK
  <2> QED
        BY <1>6, <2>1, SetStoreKeepsInv DEF toggleReadiness
<1> QED
    BY <1>1, <1>2, <1>3, <1>4, <1>5, <1>6 DEF Act

LEMMA TabsKeepInv ==
    ASSUME PageInv, NEW t \in Tabs, switchTab(t) \/ tab_loaded(t) \/ tab_fails(t)
    PROVE  PageInv'
<1>1. CASE switchTab(t)
    BY <1>1, LoadKeepsContents
       DEF switchTab, PageInv, PageTypeOK, InPage, ControlsShowStore, AlarmsAreCurrent
<1>2. CASE tab_loaded(t)
  <2>1. /\ fetching[t] \in Nat \ {0} /\ copies[t] \in Nat /\ fetching[t] + copies[t] <= MaxCopies
        BY <1>2 DEF tab_loaded, PageInv, PageTypeOK
  <2>2. fetching[t] - 1 \in 0..MaxCopies /\ copies[t] + 1 \in 0..MaxCopies
        BY <2>1
  <2>3. /\ fetching'[t] = fetching[t] - 1 /\ copies'[t] = copies[t] + 1
        /\ \A u \in Tabs \ {t} : fetching'[u] = fetching[u] /\ copies'[u] = copies[u]
        BY <1>2 DEF tab_loaded, PageInv, PageTypeOK
  <2>4. /\ copies' \in [Tabs -> 0..MaxCopies] /\ fetching' \in [Tabs -> 0..MaxCopies]
        /\ loadedTabs' \in SUBSET Tabs
        BY <1>2, <2>2 DEF tab_loaded, PageInv, PageTypeOK
  <2>5. (\A u \in Tabs : fetching[u] + copies[u] <= MaxCopies)' /\ (\A u \in synced : InPage(u))'
        BY <1>2, <2>1, <2>3 DEF tab_loaded, PageInv, PageTypeOK, InPage
  <2> QED
        BY <1>2, <2>4, <2>5 DEF tab_loaded, PageInv, PageTypeOK, ControlsShowStore, AlarmsAreCurrent
<1>3. CASE tab_fails(t)
    BY <1>3 DEF tab_fails, PageInv, PageTypeOK, InPage, ControlsShowStore, AlarmsAreCurrent
<1> QED
    BY <1>1, <1>2, <1>3

LEMMA PageInvStep == PageInv /\ [PageNext]_pageVars => PageInv'
<1> SUFFICES ASSUME PageInv, [PageNext]_pageVars PROVE PageInv'
    OBVIOUS
<1>1. CASE Load
    BY <1>1, LoadKeepsInv
<1>2. CASE Act
    BY <1>2, ActKeepsInv
<1>3. CASE event_timer
  <2>1. chaos \in BOOLEAN
        BY DEF PageInv, PageTypeOK
  <2>2. appendEvent(chaos) /\ chaos' = chaos /\ eventStream' = eventStream
        BY <1>3 DEF event_timer
  <2>3. alarm' \in BOOLEAN /\ (~eventStream => ~alarm)' /\ AlarmsAreCurrent'
        BY <2>1, <2>2, EntryIsCurrent
  <2> QED
        BY <1>3, <2>3 DEF event_timer, PageInv, PageTypeOK, InPage, ControlsShowStore
<1>4. CASE burst_completed
  <2>1. alarm' \in BOOLEAN /\ (~eventStream => ~alarm)' /\ AlarmsAreCurrent'
        BY <1>4, EntryIsCurrent DEF burst_completed
  <2>2. bursts' \in 0..MaxBursts
        BY <1>4 DEF burst_completed, PageInv, PageTypeOK
  <2> QED
        BY <1>4, <2>1, <2>2 DEF burst_completed, PageInv, PageTypeOK, InPage, ControlsShowStore
<1>5. CASE \E t \in Tabs : switchTab(t) \/ tab_loaded(t) \/ tab_fails(t)
    BY <1>5, TabsKeepInv
<1>6. CASE UNCHANGED pageVars
    BY <1>6 DEF pageVars, PageInv, PageTypeOK, InPage, ControlsShowStore, AlarmsAreCurrent
<1> QED
    BY <1>1, <1>2, <1>3, <1>4, <1>5, <1>6 DEF PageNext

\* Controls that a sync has reached show one state from then on, through
\* whichever tab it is changed, while tabs arrive and bursts end.
THEOREM PageControls == PageSpec => []ControlsShowStore
<1>1. PageInv => ControlsShowStore
    BY DEF PageInv
<1> QED
    BY <1>1, PageInvInit, PageInvStep, PTL DEF PageSpec

\* The stream's last line is an alarm only while the outage is simulated.
THEOREM PageAlarms == PageSpec => []AlarmsAreCurrent
<1>1. PageInv => AlarmsAreCurrent
    BY DEF PageInv
<1> QED
    BY <1>1, PageInvInit, PageInvStep, PTL DEF PageSpec

HIDE DEF Tabs, Ran, Order, Execute, document, contents, store, controls

(***************************************************************************)
(* The edge.                                                               *)
(***************************************************************************)

USE DEF Idle

\* Requests of the followed actor between their grant and the origin.
Granted == {s \in Requests : slot[s].at = "granted" /\ slot[s].counted}

\* The grants that no call of the origin has used belong to a request each.
EdgeInv ==
    /\ slot \in [Requests -> [at : {"idle", "limit", "granted", "origin"}, counted : BOOLEAN]]
    /\ unused = Cardinality(Granted)

LEMMA GrantedFinite == IsFiniteSet(Granted) /\ Cardinality(Granted) \in Nat
BY RequestsAssumption, FS_Subset, FS_CardinalityType DEF Granted

LEMMA EdgeInvInit == EdgeInit => EdgeInv
<1> SUFFICES ASSUME EdgeInit PROVE EdgeInv
    OBVIOUS
<1>1. Granted = {}
    BY DEF EdgeInit, Granted
<1>2. Cardinality(Granted) = 0
    BY <1>1, FS_EmptySet
<1> QED
    BY <1>2 DEF EdgeInit, EdgeInv

LEMMA EdgeInvFetch ==
    ASSUME EdgeInv, NEW s \in Requests, NEW r \in Shapes, fetch(s, r)
    PROVE  EdgeInv'
<1>1. slot' \in [Requests -> [at : {"idle", "limit", "granted", "origin"}, counted : BOOLEAN]]
    BY DEF fetch, EdgeInv
<1>2. Granted' = Granted /\ unused' = unused
    BY DEF fetch, EdgeInv, Granted
<1> QED
    BY <1>1, <1>2 DEF EdgeInv

LEMMA EdgeInvGrant ==
    ASSUME EdgeInv, NEW s \in Requests, limit_grants(s)
    PROVE  EdgeInv'
<1>1. slot' \in [Requests -> [at : {"idle", "limit", "granted", "origin"}, counted : BOOLEAN]]
    BY DEF limit_grants, EdgeInv
<1>2. CASE slot[s].counted
  <2>1. Granted' = Granted \cup {s} /\ s \notin Granted
        BY <1>2 DEF limit_grants, EdgeInv, Granted
  <2>2. Cardinality(Granted') = Cardinality(Granted) + 1
        BY <2>1, GrantedFinite, FS_AddElement
  <2> QED
        BY <1>1, <1>2, <2>2, GrantedFinite DEF limit_grants, EdgeInv
<1>3. CASE ~slot[s].counted
  <2>1. Granted' = Granted /\ unused' = unused
        BY <1>3 DEF limit_grants, EdgeInv, Granted
  <2> QED
        BY <1>1, <2>1 DEF EdgeInv
<1> QED
    BY <1>2, <1>3

LEMMA EdgeInvForward ==
    ASSUME EdgeInv, NEW s \in Requests, forward(s)
    PROVE  EdgeInv'
<1>1. slot' \in [Requests -> [at : {"idle", "limit", "granted", "origin"}, counted : BOOLEAN]]
    BY DEF forward, EdgeInv
<1>2. CASE slot[s].counted
  <2>1. Granted' = Granted \ {s} /\ s \in Granted
        BY <1>2 DEF forward, EdgeInv, Granted
  <2>2. Cardinality(Granted') = Cardinality(Granted) - 1
        BY <2>1, GrantedFinite, FS_RemoveElement
  <2> QED
        BY <1>1, <1>2, <2>2, GrantedFinite DEF forward, EdgeInv
<1>3. CASE ~slot[s].counted
  <2>1. Granted' = Granted /\ unused' = unused
        BY <1>3 DEF forward, EdgeInv, Granted
  <2> QED
        BY <1>1, <2>1 DEF EdgeInv
<1> QED
    BY <1>2, <1>3

\* A refused request had no grant yet, an answered one has used it.
LEMMA EdgeInvEnd ==
    ASSUME EdgeInv, NEW s \in Requests, limit_refuses(s) \/ reply(s)
    PROVE  EdgeInv'
<1>1. slot' = [slot EXCEPT ![s] = Idle] /\ unused' = unused /\ slot[s].at # "granted"
    BY DEF limit_refuses, reply
<1>2. slot' \in [Requests -> [at : {"idle", "limit", "granted", "origin"}, counted : BOOLEAN]]
    BY <1>1 DEF EdgeInv
<1>3. slot'[s].at = "idle" /\ \A q \in Requests \ {s} : slot'[q] = slot[q]
    BY <1>1 DEF EdgeInv
<1>4. Granted' = Granted
    BY <1>1, <1>3 DEF Granted
<1> QED
    BY <1>1, <1>2, <1>4 DEF EdgeInv

LEMMA EdgeInvStep == EdgeInv /\ [EdgeNext]_edgeVars => EdgeInv'
<1> SUFFICES ASSUME EdgeInv, [EdgeNext]_edgeVars PROVE EdgeInv'
    OBVIOUS
<1>1. CASE UNCHANGED edgeVars
    BY <1>1 DEF edgeVars, EdgeInv, Granted
<1> QED
    BY <1>1, EdgeInvFetch, EdgeInvGrant, EdgeInvForward, EdgeInvEnd DEF EdgeNext

\* However many requests of one actor overlap each other, whatever is not
\* configured, and whatever the limiter answers, each call of the origin has used
\* a grant that the limiter of its tier gave to its key.
THEOREM EdgeNeverUnthrottled == EdgeSpec => []NeverUnthrottled
<1>1. EdgeInv => NeverUnthrottled
    BY GrantedFinite DEF EdgeInv, NeverUnthrottled
<1> QED
    BY <1>1, EdgeInvInit, EdgeInvStep, PTL DEF EdgeSpec

HIDE DEF Idle

(***************************************************************************)
(* The tiers.                                                              *)
(***************************************************************************)

\* A write of an owner's route is never put to the general tier: the rule for
\* writes comes before the general one, and every rule before it has a tier.
THEOREM WriteTier ==
    ASSUME NEW r \in Shapes, r.owner \in Owners, r.method \in Writes
    PROVE  resolvePolicy(r) # "RATE_GENERAL"
<1> DEFINE rules == ROUTE_REGISTRY[r.owner] \o COMMON_POLICIES
           First(i) == Matches(rules[i], r) /\ \A j \in 1..i - 1 : ~Matches(rules[j], r)
<1>1. /\ DOMAIN rules = 1..5
      /\ \A i \in 1..4 : rules[i].binding # "RATE_GENERAL"
      /\ rules[4] = Rule(Anywhere, Writes, "RATE_STAFF")
  <2>1. PICK rule : ROUTE_REGISTRY[r.owner] = <<rule>> /\ rule.binding \in {"RATE_ORDER", "RATE_AI"}
        BY DEF ROUTE_REGISTRY, Owners, Rule
  <2>2. rules = <<rule>> \o COMMON_POLICIES
        BY <2>1
  <2>3. /\ DOMAIN rules = 1..5 /\ rules[1] = rule
        /\ rules[2] = COMMON_POLICIES[1] /\ rules[3] = COMMON_POLICIES[2] /\ rules[4] = COMMON_POLICIES[3]
        BY <2>2 DEF COMMON_POLICIES
  <2>4. /\ COMMON_POLICIES[1].binding = "RATE_AUTH" /\ COMMON_POLICIES[2].binding = "RATE_AI"
        /\ COMMON_POLICIES[3] = Rule(Anywhere, Writes, "RATE_STAFF")
        /\ COMMON_POLICIES[3].binding = "RATE_STAFF"
        BY DEF COMMON_POLICIES, Rule
  <2> HIDE DEF rules
  <2>5. \A i \in 1..4 : i = 1 \/ i = 2 \/ i = 3 \/ i = 4
        OBVIOUS
  <2> QED
        BY <2>1, <2>3, <2>4, <2>5
<1> HIDE DEF rules
<1>2. Matches(rules[4], r)
    BY <1>1 DEF Matches, Rule
<1>3. \E i \in DOMAIN rules : First(i)
  <2>1. 1..0 = {} /\ 1..1 = {1} /\ 1..2 = {1, 2} /\ 1..3 = {1, 2, 3}
        OBVIOUS
  <2>2. CASE Matches(rules[1], r)
        BY <2>1, <2>2, <1>1
  <2>3. CASE ~Matches(rules[1], r) /\ Matches(rules[2], r)
        BY <2>1, <2>3, <1>1
  <2>4. CASE ~Matches(rules[1], r) /\ ~Matches(rules[2], r) /\ Matches(rules[3], r)
        BY <2>1, <2>4, <1>1
  <2>5. CASE \A i \in {1, 2, 3} : ~Matches(rules[i], r)
        BY <2>1, <2>5, <1>1, <1>2
  <2> QED
        BY <2>2, <2>3, <2>4, <2>5
<1>4. PICK first \in DOMAIN rules : First(first) /\ resolvePolicy(r) = rules[first].binding
    BY <1>3 DEF resolvePolicy, rules
<1>5. first # 5
    BY <1>1, <1>2, <1>4
<1> QED
    BY <1>1, <1>4, <1>5

(***************************************************************************)
(* The types.                                                              *)
(***************************************************************************)

\* A power of two counts the subsets of a finite set.
LEMMA PowerIsNat == \A n \in Nat : 2 ^ n \in Nat
<1> TAKE n \in Nat
<1>1. IsFiniteSet(1..n) /\ Cardinality(1..n) = n
    BY FS_Interval
<1>2. IsFiniteSet(SUBSET (1..n)) /\ Cardinality(SUBSET (1..n)) = 2 ^ n
    BY <1>1, FS_SUBSET
<1> QED
    BY <1>2, FS_CardinalityType

\* Counts and delays stay within their limits.
LEMMA BackOffBounded ==
    ASSUME FeedTypeOK, NEW e \in Endpoints
    PROVE  /\ NextFailures(e) \in 0..MaxFailures
           /\ AtMost(InitialDelay * 2 ^ NextFailures(e), MaxDelay) \in 0..MaxDelay
<1>1. {PollInterval, InitialDelay, MaxDelay, MaxFailures, MaxTicks} \subseteq Nat
    BY TimesAssumption
<1>2. NextFailures(e) \in 0..MaxFailures
    BY <1>1 DEF FeedTypeOK, NextFailures, AtMost
<1>3. PICK power : power = 2 ^ NextFailures(e)
    OBVIOUS
<1>4. power \in Nat
  <2>1. NextFailures(e) \in Nat
        BY <1>1, <1>2
  <2> QED
        BY <1>3, <2>1, PowerIsNat
<1>5. InitialDelay * power \in Nat
    BY <1>1, <1>4
<1>6. AtMost(InitialDelay * power, MaxDelay) \in 0..MaxDelay
    BY <1>1, <1>5 DEF AtMost
<1> QED
    BY <1>2, <1>3, <1>6

LEMMA FeedTypeInit == FeedInit => FeedTypeOK
<1> SUFFICES ASSUME FeedInit PROVE FeedTypeOK
    OBVIOUS
<1>1. {PollInterval, InitialDelay, MaxDelay, MaxFailures, MaxTicks} \subseteq Nat
    BY TimesAssumption
<1>2. pollIn \in 0..PollInterval /\ 0 \in 0..MaxFailures /\ 0 \in 0..MaxDelay
    BY <1>1 DEF FeedInit
<1>3. /\ ticks \in [Slots -> [Endpoints -> {"none", "pending", "data", "stale"}]]
      /\ failureCount \in [Endpoints -> 0..MaxFailures] /\ succeeded \in [Endpoints -> BOOLEAN]
      /\ retryIn \in [Endpoints -> 0..MaxDelay]
    BY <1>2 DEF FeedInit, Free
<1>4. /\ stream \in BOOLEAN /\ feedRepeat \in BOOLEAN /\ healthy \in SUBSET Endpoints
      /\ badge \in Badges \cup {"none"} /\ feedLog \in {"none", "lost", "reconnected"}
    BY DEF FeedInit
<1> QED
    BY <1>2, <1>3, <1>4 DEF FeedTypeOK

LEMMA FeedTypeStep == FeedTypeOK /\ [FeedNext]_feedVars => FeedTypeOK'
<1> SUFFICES ASSUME FeedTypeOK, [FeedNext]_feedVars PROVE FeedTypeOK'
    OBVIOUS
<1>1. {PollInterval, InitialDelay, MaxDelay, MaxFailures, MaxTicks} \subseteq Nat
    BY TimesAssumption
<1>2. CASE tick
    BY <1>1, <1>2 DEF tick, fetchJson, endpointState, display, FeedTypeOK
<1>3. CASE pass_time
    BY <1>1, <1>3 DEF pass_time, display, FeedTypeOK
<1>4. CASE stream_loads
    BY <1>4 DEF stream_loads, endpointState, display, FeedTypeOK
<1>5. ASSUME NEW t \in Slots, NEW e \in Endpoints, onEndpointSuccess(t, e) PROVE FeedTypeOK'
    BY <1>1, <1>5 DEF onEndpointSuccess, display, FeedTypeOK
<1>6. ASSUME NEW t \in Slots, NEW e \in Endpoints, onEndpointFailure(t, e) PROVE FeedTypeOK'
  <2>1. PICK n, d : /\ n = NextFailures(e) /\ d = AtMost(InitialDelay * 2 ^ NextFailures(e), MaxDelay)
                    /\ n \in 0..MaxFailures /\ d \in 0..MaxDelay
        BY BackOffBounded
  <2>2. failureCount' = [failureCount EXCEPT ![e] = n] /\ retryIn' = [retryIn EXCEPT ![e] = d]
        BY <1>6, <2>1 DEF onEndpointFailure
  <2> QED
        BY <1>6, <2>1, <2>2 DEF onEndpointFailure, display, FeedTypeOK
<1>7. ASSUME NEW t \in Slots, finish(t) PROVE FeedTypeOK'
  <2>1. badge' \in Badges
        BY <1>7 DEF finish, BadgeOf, Badges
  <2>2. feedLog' \in {"none", "lost", "reconnected"} /\ feedRepeat' \in BOOLEAN
        BY <1>7 DEF finish, Entry, FeedTypeOK
  <2> QED
        BY <1>7, <2>1, <2>2 DEF finish, Free, endpointState, FeedTypeOK
<1>8. ASSUME NEW e \in Endpoints, hub_changes(e) PROVE FeedTypeOK'
    BY <1>8 DEF hub_changes, endpointState, display, FeedTypeOK
<1>9. CASE UNCHANGED feedVars
    BY <1>9 DEF feedVars, FeedTypeOK
<1> QED
    BY <1>2, <1>3, <1>4, <1>5, <1>6, <1>7, <1>8, <1>9 DEF FeedNext, Answers

LEMMA EdgeTypeInit == EdgeInit => EdgeTypeOK
BY DEF EdgeInit, EdgeTypeOK, Idle

LEMMA EdgeTypeStep == EdgeTypeOK /\ [EdgeNext]_edgeVars => EdgeTypeOK'
<1> SUFFICES ASSUME EdgeTypeOK, [EdgeNext]_edgeVars PROVE EdgeTypeOK'
    OBVIOUS
<1>1. ASSUME NEW s \in Requests, NEW r \in Shapes, fetch(s, r) PROVE EdgeTypeOK'
    BY <1>1 DEF fetch, EdgeTypeOK
<1>2. ASSUME NEW s \in Requests, limit_grants(s) PROVE EdgeTypeOK'
    BY <1>2 DEF limit_grants, EdgeTypeOK
<1>3. ASSUME NEW s \in Requests, limit_refuses(s) \/ reply(s) PROVE EdgeTypeOK'
  <2>1. slot' = [slot EXCEPT ![s] = Idle] /\ UNCHANGED <<env, followed, unused>>
        BY <1>3 DEF limit_refuses, reply
  <2> QED
        BY <2>1 DEF Idle, EdgeTypeOK
<1>4. ASSUME NEW s \in Requests, forward(s) PROVE EdgeTypeOK'
    BY <1>4 DEF forward, EdgeTypeOK
<1>5. CASE UNCHANGED edgeVars
    BY <1>5 DEF edgeVars, EdgeTypeOK
<1> QED
    BY <1>1, <1>2, <1>3, <1>4, <1>5 DEF EdgeNext

\* A page that is asked for is one of those allowed.
SettledTypeInv ==
    /\ SettledTypeOK
    /\ FeedInv
    /\ pulling = "paging" => page < MaxPages

LEMMA SettledTypeInit == SettledInit => SettledTypeInv
<1> SUFFICES ASSUME SettledInit PROVE SettledTypeInv
    OBVIOUS
<1>1. FeedInv
    BY FeedInvInit
<1>2. page \in 0..MaxPages /\ pulling = "idle" /\ disturbed \in BOOLEAN
  <2>1. MaxPages \in Nat \ {0}
        BY PagesAssumption
  <2>2. page = 0 /\ pulling = "idle" /\ disturbed = FALSE
        BY DEF SettledInit
  <2>3. page \in 0..MaxPages
        BY <2>1, <2>2
  <2> QED
        BY <2>2, <2>3
<1>3. statement \in Statements \cup {<< >>}
    BY DEF SettledInit
<1> QED
    BY <1>1, <1>2, <1>3 DEF FeedInv, SettledTypeOK, SettledTypeInv

LEMMA SettledTypeStep == SettledTypeInv /\ [SettledNext]_settledVars => SettledTypeInv'
<1> SUFFICES ASSUME SettledTypeInv, [SettledNext]_settledVars PROVE SettledTypeInv'
    OBVIOUS
<1>1. FeedInv'
    BY FeedInvStep DEF SettledTypeInv
<1>2. rows' \in SUBSET (1..MaxRows) /\ atStart' \in SUBSET (1..MaxRows) /\ pulled' \in Seq(rows')
    BY <1>1 DEF FeedInv
<1>3. /\ page' \in 0..MaxPages /\ (pulling = "paging" => page < MaxPages)'
      /\ pulling' \in {"idle", "paging", "done", "refused", "reported"}
      /\ statement' \in Statements \cup {<< >>} /\ disturbed' \in BOOLEAN
  <2>1. MaxPages \in Nat \ {0}
        BY PagesAssumption
  <2>2. ASSUME NEW row \in 1..MaxRows, commit(row) PROVE <1>3!:
        BY <2>2 DEF commit, verdict, SettledTypeInv, SettledTypeOK
  <2>3. CASE fetch_settled
    <3>1. /\ page' = 0 /\ pulling' = "paging" /\ disturbed' = FALSE /\ statement' = statement
          BY <2>3 DEF fetch_settled, verdict
    <3>2. page' \in 0..MaxPages /\ page' < MaxPages
          BY <2>1, <3>1
    <3>3. disturbed' \in BOOLEAN
          BY <3>1
    <3> QED
          BY <3>1, <3>2, <3>3 DEF SettledTypeInv, SettledTypeOK
  <2>4. CASE next_page
        BY <2>1, <2>4 DEF next_page, verdict, SettledTypeInv, SettledTypeOK
  <2>5. CASE page_fails
        BY <2>5 DEF page_fails, verdict, SettledTypeInv, SettledTypeOK
  <2>6. CASE answered
    <3>1. page' = 0 /\ pulling' = "idle" /\ disturbed' = FALSE /\ statement' = << >>
          BY <2>6 DEF answered
    <3>2. page' \in 0..MaxPages
          BY <2>1, <3>1
    <3>3. disturbed' \in BOOLEAN /\ statement' \in Statements \cup {<< >>}
          BY <3>1, Zenon
    <3> QED
          BY <3>1, <3>2, <3>3
  <2>7. ASSUME NEW given \in Statements, run_reconciliation(given) PROVE <1>3!:
        BY <2>7 DEF run_reconciliation, SettledTypeInv, SettledTypeOK
  <2>8. CASE UNCHANGED settledVars
        BY <2>8 DEF settledVars, verdict, SettledTypeInv, SettledTypeOK
  <2> QED
        BY <2>2, <2>3, <2>4, <2>5, <2>6, <2>7, <2>8 DEF SettledNext
<1> QED
    BY <1>1, <1>2, <1>3 DEF SettledTypeInv, SettledTypeOK

\* Side by side, each of the services behaves as it does alone.
THEOREM ServicesApart == ServicesSpec => FeedSpec /\ PageSpec /\ EdgeSpec /\ SettledSpec
<1>1. ServicesInit => FeedInit /\ PageInit /\ EdgeInit /\ SettledInit
    BY DEF ServicesInit
<1>2. ASSUME [ServicesNext]_servicesVars
      PROVE  /\ [FeedNext]_feedVars /\ [PageNext]_pageVars
             /\ [EdgeNext]_edgeVars /\ [SettledNext]_settledVars
    BY <1>2 DEF ServicesNext, servicesVars
<1> QED
    BY <1>1, <1>2, PTL DEF ServicesSpec, FeedSpec, PageSpec, EdgeSpec, SettledSpec

\* Whatever the four services do, in any numbers of endpoints, tabs' copies,
\* requests, rows and pages, their variables keep to their types.
THEOREM ServicesTypes == ServicesSpec => []ServicesTypeOK
<1>1. FeedSpec => []FeedTypeOK
    BY FeedTypeInit, FeedTypeStep, PTL DEF FeedSpec
<1>2. PageSpec => []PageTypeOK
  <2>1. PageInv => PageTypeOK
        BY DEF PageInv
  <2> QED
        BY <2>1, PageInvInit, PageInvStep, PTL DEF PageSpec
<1>3. EdgeSpec => []EdgeTypeOK
    BY EdgeTypeInit, EdgeTypeStep, PTL DEF EdgeSpec
<1>4. SettledSpec => []SettledTypeOK
  <2>1. SettledTypeInv => SettledTypeOK
        BY DEF SettledTypeInv
  <2> QED
        BY <2>1, SettledTypeInit, SettledTypeStep, PTL DEF SettledSpec
<1>5. FeedTypeOK /\ PageTypeOK /\ EdgeTypeOK /\ SettledTypeOK => ServicesTypeOK
    BY DEF ServicesTypeOK
<1> QED
    BY <1>1, <1>2, <1>3, <1>4, <1>5, ServicesApart, PTL
=============================================================================
