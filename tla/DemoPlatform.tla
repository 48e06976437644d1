---------------------------- MODULE DemoPlatform ----------------------------
(***************************************************************************)
(* The demo workload under an alert drill: the drill scales the pod's      *)
(* dependency, so an alert on the workload's errors fires.  The dependency *)
(* also fails on its own, a bounded number of times.                       *)
(***************************************************************************)
EXTENDS DemoApi, AlertDrill

CONSTANT MaxOutages        \* bound on the dependency's own outages
ASSUME OutagesAssumption == MaxOutages \in Nat

VARIABLE outages
platformVars == <<vars, drillVars, outages>>

PlatformInit == Init /\ DrillInit /\ outages = 0

pod == Pod /\ UNCHANGED <<drillVars, outages>>
drill == DrillStep(dependencyUp) /\ UNCHANGED <<vars, outages>>

\* The dependency's own pods: gone with the replicas, back with them.  Without
\* a drill they fail and recover as often as they like.
dependency_stops ==
    /\ dependencyUp /\ dependency_changes
    /\ IF replicas = 0 \/ outcome = "refused" THEN UNCHANGED outages
       ELSE outages < MaxOutages /\ outages' = outages + 1
    /\ UNCHANGED drillVars

dependency_starts ==
    /\ ~dependencyUp /\ replicas > 0 /\ dependency_changes
    /\ UNCHANGED <<drillVars, outages>>

PlatformNext == pod \/ drill \/ dependency_stops \/ dependency_starts

PlatformFairness ==
    /\ PodFairness /\ DrillFairness
    /\ WF_platformVars(dependency_starts) /\ WF_platformVars(replicas = 0 /\ dependency_stops)

PlatformSpec == PlatformInit /\ [][PlatformNext]_platformVars /\ PlatformFairness
-----------------------------------------------------------------------------
(* Properties *)

PlatformTypeOK == TypeOK /\ DrillTypeOK /\ outages \in 0..MaxOutages

\* Exit code 0 promises a finished drill: the deployment that the script scales
\* has its replicas, or the script has warned that it could not restore them.
\* Injection and restore are ordered through an alert that others may raise and
\* resolve too.
CompleteRestores == outcome = "complete" /\ ~manual => replicas > 0 \/ warned

\* After such a drill the workload is in the Service again for good, unless it
\* is deleted or told not to be ready.
Recovers ==
    <>(outcome = "complete" /\ ~warned /\ ~manual) /\ <>[](ready /\ ~terminating) => <>[]endpoint
==============================================================================
