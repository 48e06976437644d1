----------------------------- MODULE ConsolePage -----------------------------
(***************************************************************************)
(* The console's page: scripts that run in document order, tabs that are   *)
(* part of the published page or fetched when they are first shown, and    *)
(* the simulation behind the buttons of two of them.  The store belongs to *)
(* the page, the controls to a tab: a tab comes with its default text, and *)
(* shows the store from the next syncAllUI on.  The tabs without controls  *)
(* behave like cluster.                                                    *)
(***************************************************************************)
EXTENDS Naturals

CONSTANTS MaxCopies, \* bound on the copies of a tab's content
          MaxBursts  \* bound on the bursts under way

ASSUME CopiesAssumption == MaxCopies \in Nat \ {0}
ASSUME BurstsAssumption == MaxBursts \in Nat

Tabs == {"realtime", "cluster", "workload"}
\* The scripts and the event after them, in the order of the document.
Order == [app |-> 1, charts |-> 2, simulation |-> 3, actions |-> 4, runbook |-> 5,
          datafeed |-> 6, DOMContentLoaded |-> 7]

VARIABLES executed,    \* how many of them have run
          active,      \* the tab that is shown
          copies,      \* per tab: copies of its content in the document
          fetching,    \* per tab: fetches under way
          loadedTabs,
          eventStream, \* simulation.js found the event stream
          alarm,       \* the stream's last line, from the simulation, is an error
          chaos, readiness, burst, \* SimulationStore
          bursts,      \* timers that will end a burst
          breaker,     \* the label of the first tab reads tripped
          probe,       \* the badge of the third tab reads not ready
          consoleLog,  \* the line of the third tab: "ready", "not-ready" or "work"
          synced       \* observer: the tabs that syncAllUI has reached

contents == <<copies, fetching, loadedTabs>>
store == <<chaos, readiness, burst, bursts>>
controls == <<breaker, probe, consoleLog, synced>>
document == <<executed, active, eventStream>>
pageVars == <<document, contents, store, controls, alarm>>

PageTypeOK ==
    /\ executed \in 0..7 /\ active \in Tabs
    /\ copies \in [Tabs -> 0..MaxCopies] /\ fetching \in [Tabs -> 0..MaxCopies]
    /\ loadedTabs \in SUBSET Tabs /\ synced \in SUBSET Tabs
    /\ {eventStream, alarm} \subseteq BOOLEAN
    /\ {chaos, readiness, burst, breaker, probe} \subseteq BOOLEAN
    /\ bursts \in 0..MaxBursts
    /\ consoleLog \in {"ready", "not-ready", "work"}

\* The published page holds every tab, the source tree's none.
PageInit ==
    /\ executed = 0 /\ active = "realtime"
    /\ \E n \in {0, 1} : copies = [t \in Tabs |-> n]
    /\ fetching = [t \in Tabs |-> 0] /\ loadedTabs = {}
    /\ eventStream = FALSE /\ alarm = FALSE
    /\ chaos = FALSE /\ readiness = TRUE /\ burst = FALSE /\ bursts = 0
    /\ breaker = FALSE /\ probe = FALSE /\ consoleLog = "ready" /\ synced = {}

Ran(script) == executed >= Order[script]
InPage(t) == copies[t] > 0
-----------------------------------------------------------------------------
(* simulation.js *)

\* Every control that is in the document shows the store as it is now.
syncAllUI ==
    /\ breaker' = IF InPage("realtime") THEN chaos' ELSE breaker
    /\ probe' = IF InPage("workload") THEN ~readiness' ELSE probe
    /\ consoleLog' = IF ~InPage("workload") THEN consoleLog
                     ELSE IF readiness' THEN "ready" ELSE "not-ready"
    /\ synced' = synced \cup {t \in Tabs : InPage(t)}

\* Without a stream when simulation.js ran, nothing is ever logged.
appendEvent(isError) == alarm' = IF eventStream THEN isError ELSE alarm

\* Every 2.8 seconds.
event_timer ==
    /\ Ran("simulation")
    /\ appendEvent(chaos)
    /\ UNCHANGED <<document, contents, store, controls>>
-----------------------------------------------------------------------------
(* app.js *)

\* A tab that is not loaded is fetched, again if it is shown again meanwhile.
loadTabContent(t) ==
    IF t \in loadedTabs \/ fetching[t] + copies[t] = MaxCopies
    THEN UNCHANGED contents
    ELSE fetching' = [fetching EXCEPT ![t] = @ + 1] /\ UNCHANGED <<copies, loadedTabs>>

\* By mouse or keyboard.
switchTab(t) ==
    /\ Ran("app") /\ t # active
    /\ active' = t
    /\ loadTabContent(t)
    /\ UNCHANGED <<executed, eventStream, store, controls, alarm>>

\* The content is appended as it was written, after what is there.
tab_loaded(t) ==
    /\ fetching[t] > 0
    /\ fetching' = [fetching EXCEPT ![t] = @ - 1]
    /\ copies' = [copies EXCEPT ![t] = @ + 1]
    /\ loadedTabs' = loadedTabs \cup {t}
    /\ UNCHANGED <<executed, active, eventStream, store, controls, alarm>>

tab_fails(t) ==
    /\ fetching[t] > 0
    /\ fetching' = [fetching EXCEPT ![t] = @ - 1]
    /\ UNCHANGED <<document, copies, loadedTabs, store, controls, alarm>>
-----------------------------------------------------------------------------
(* The scripts run *)

Execute(script) == executed + 1 = Order[script] /\ executed' = executed + 1

app ==
    /\ Execute("app")
    /\ loadedTabs' = {t \in Tabs : InPage(t)}
    /\ UNCHANGED <<active, eventStream, copies, fetching, store, controls, alarm>>

\* The stream is looked up once; the seed has no errors.
simulation ==
    /\ Execute("simulation")
    /\ eventStream' = InPage("realtime")
    /\ UNCHANGED <<active, contents, store, controls, alarm>>

\* charts.js draws; actions.js, runbook.js and datafeed.js define functions.
defines ==
    /\ \E script \in {"charts", "actions", "runbook", "datafeed"} : Execute(script)
    /\ UNCHANGED <<active, eventStream, contents, store, controls, alarm>>

\* The data feed starts here: see DataFeed.
DOMContentLoaded ==
    /\ Execute("DOMContentLoaded")
    /\ UNCHANGED store
    /\ syncAllUI
    /\ loadTabContent(active)
    /\ UNCHANGED <<active, eventStream, alarm>>
-----------------------------------------------------------------------------
(* actions.js: the buttons of a tab that is shown *)

Click(t) == Ran("actions") /\ active = t /\ InPage(t)

injectBurstTraffic ==
    /\ Click("realtime") /\ bursts < MaxBursts
    /\ burst' = TRUE /\ bursts' = bursts + 1
    /\ appendEvent(FALSE)
    /\ UNCHANGED <<document, contents, chaos, readiness, controls>>

\* Its timer, five seconds later, whatever happened since.
burst_completed ==
    /\ bursts > 0
    /\ burst' = FALSE /\ bursts' = bursts - 1
    /\ appendEvent(FALSE)
    /\ UNCHANGED <<document, contents, chaos, readiness, controls>>

toggleDependencyFailure ==
    /\ Click("realtime")
    /\ chaos' = ~chaos /\ readiness' = ~chaos'
    /\ syncAllUI
    /\ appendEvent(chaos')
    /\ UNCHANGED <<document, contents, burst, bursts>>

\* Mutant: the baseline is set without an entry in the stream.
resetSimulationBaseline_silent ==
    /\ Click("realtime") \/ Click("workload")
    /\ chaos' = FALSE /\ readiness' = TRUE /\ burst' = FALSE
    /\ syncAllUI
    /\ UNCHANGED <<document, contents, bursts, alarm>>

\* Both tabs have the button; the timers of a burst go on.
resetSimulationBaseline ==
    /\ Click("realtime") \/ Click("workload")
    /\ chaos' = FALSE /\ readiness' = TRUE /\ burst' = FALSE
    /\ syncAllUI
    /\ appendEvent(FALSE)
    /\ UNCHANGED <<document, contents, bursts>>

\* Mutant: the dependency's state is left as it was.
toggleReadiness_only(isReady) ==
    /\ Click("workload")
    /\ readiness' = isReady
    /\ UNCHANGED chaos
    /\ syncAllUI
    /\ appendEvent(~isReady)
    /\ UNCHANGED <<document, contents, burst, bursts>>

toggleReadiness(isReady) ==
    /\ Click("workload")
    /\ readiness' = isReady /\ chaos' = ~isReady
    /\ syncAllUI
    /\ appendEvent(~isReady)
    /\ UNCHANGED <<document, contents, burst, bursts>>

triggerWorkload ==
    /\ Click("workload")
    /\ consoleLog' = "work"
    /\ appendEvent(FALSE)
    /\ UNCHANGED <<document, contents, store, breaker, probe, synced>>

clearEventLog ==
    /\ Ran("simulation") /\ active = "realtime" /\ InPage("realtime")
    /\ appendEvent(FALSE)
    /\ UNCHANGED <<document, contents, store, controls>>
-----------------------------------------------------------------------------
Load == app \/ simulation \/ defines \/ DOMContentLoaded

Act == \/ injectBurstTraffic \/ toggleDependencyFailure \/ resetSimulationBaseline
       \/ triggerWorkload \/ clearEventLog
       \/ \E isReady \in BOOLEAN : toggleReadiness(isReady)

PageNext ==
    \/ Load \/ Act \/ event_timer \/ burst_completed
    \/ \E t \in Tabs : switchTab(t) \/ tab_loaded(t) \/ tab_fails(t)

PageSpec == PageInit /\ [][PageNext]_pageVars
-----------------------------------------------------------------------------
(* Properties *)

\* "Synchronize UI between Tab 1 and Tab 3": controls that were in the document
\* at some sync show one state, whichever tab it was changed in: tripped exactly
\* when not ready.  The last action's own line may stand in the console.
ControlsShowStore ==
    /\ "realtime" \in synced => breaker = chaos
    /\ "workload" \in synced =>
         /\ probe = chaos
         /\ consoleLog # "work" => consoleLog = IF chaos THEN "not-ready" ELSE "ready"

\* An error that is the stream's last line is about an outage that is still
\* simulated: whatever ends it, in either tab, says so in the stream.
AlarmsAreCurrent == alarm => chaos
=============================================================================
