----------------------------- MODULE AlertDrill -----------------------------
(***************************************************************************)
(* The alert drill: a script that scales a deployment to zero, waits until *)
(* its alert fires and reaches Alertmanager, scales back, and waits until  *)
(* the alert is resolved.  Every kubectl call is a step, as it takes time  *)
(* in which the cluster moves on.  What the alert rule measures is the     *)
(* parameter sourceUp of the actions: see DemoPlatform.                    *)
(***************************************************************************)
EXTENDS Naturals

CONSTANT TargetReplicas    \* --target-replicas
ASSUME ReplicasAssumption == TargetReplicas \in Nat \ {0}

VARIABLES phase,      \* run_drill's phase; "baseline" until it has begun
          outcome,    \* how the script ended, "running" until it does
          at,         \* where one iteration stands
          state,      \* the alert's state this iteration has read
          receivers,  \* whether this iteration has seen a receiver
          injected,   \* fault_injected
          replicas,   \* of the target deployment
          alert,      \* the rule's state in Prometheus
          warned,     \* observer: the restore command has failed
          manual      \* --inject-method: an operator injects, not the script

script == <<phase, outcome, at, state, receivers, injected>>
drillVars == <<script, replicas, alert, warned, manual>>

Phases == {"baseline", "await_firing", "await_alertmanager", "await_resolve", "complete"}
AlertStates == {"inactive", "firing"}

DrillTypeOK ==
    /\ phase \in Phases
    /\ outcome \in {"running", "complete", "failed", "refused"}
    /\ at \in {"loop", "receivers", "notice", "finish"}
    /\ state \in AlertStates \cup {"error"}
    /\ receivers \in BOOLEAN /\ injected \in BOOLEAN
    /\ warned \in BOOLEAN /\ manual \in BOOLEAN
    /\ replicas \in {0, TargetReplicas}
    /\ alert \in AlertStates

DrillInit ==
    /\ phase = "baseline" /\ outcome = "running" /\ at = "loop"
    /\ warned = FALSE /\ manual \in BOOLEAN
    /\ state = "inactive" /\ receivers = FALSE /\ injected = FALSE
    /\ replicas = TargetReplicas /\ alert = "inactive"
-----------------------------------------------------------------------------
(* The script *)

Running == outcome = "running"
cluster == <<replicas, alert, warned>>

Forget == at' = "loop" /\ state' = "inactive" /\ receivers' = FALSE

\* The baseline must be readable, and not firing already.
baseline(read) ==
    /\ Running /\ phase = "baseline"
    /\ IF read \in {"error", "firing"}
       THEN outcome' = "refused" /\ UNCHANGED phase
       ELSE phase' = "await_firing" /\ UNCHANGED outcome
    /\ UNCHANGED <<at, state, receivers, injected, cluster>>

\* get_alert_state: the rule's state now; "error" stands for pending too, as the
\* script reacts to neither.
get_alert_state(read) ==
    /\ Running /\ phase # "baseline" /\ at = "loop"
    /\ state' = read /\ receivers' = FALSE
    /\ at' = IF read = "firing" THEN "receivers" ELSE "notice"
    /\ UNCHANGED <<phase, outcome, injected, cluster>>

\* get_alertmanager_receivers: none while Alertmanager has not heard of the alert,
\* or when the call fails.
get_alertmanager_receivers(some) ==
    /\ Running /\ at = "receivers"
    /\ receivers' = some
    /\ at' = "notice"
    /\ UNCHANGED <<phase, outcome, state, injected, cluster>>

\* Mutant: scaled by n replicas.
Scale_by(n, scaled) == replicas' = IF scaled THEN replicas + n ELSE replicas

\* kubectl scale: it may fail, and is not tried again.
Scale(n, scaled) == replicas' = IF scaled THEN n ELSE replicas

Fired == IF phase = "await_firing" /\ state = "firing" THEN "await_alertmanager" ELSE phase

\* The first two transitions, which one iteration may take both; the second
\* restores the metric source, if it was the script that took it away.
notice(scaled) ==
    /\ Running /\ at = "notice" /\ at' = "finish"
    /\ IF Fired = "await_alertmanager" /\ receivers
       THEN /\ phase' = "await_resolve"
            /\ Scale(TargetReplicas, scaled /\ ~manual)
            /\ warned' = (~scaled /\ ~manual)
       ELSE phase' = Fired /\ UNCHANGED <<replicas, warned>>
    /\ UNCHANGED <<outcome, state, receivers, injected, alert>>

Resolved == phase = "await_resolve" /\ state = "inactive"

\* The third transition leaves the loop with exit code 0.
complete ==
    /\ Running /\ at = "finish" /\ Resolved
    /\ phase' = "complete" /\ outcome' = "complete" /\ Forget
    /\ UNCHANGED <<injected, cluster>>

\* Mutant: nothing limits the injection to one.
MayInject_again == TRUE

MayInject == phase = "await_firing" /\ ~injected

\* Ten seconds after the start, once, by the script or by asking for it; then the
\* iteration sleeps.
inject_metric_failure(late, scaled) ==
    /\ Running /\ at = "finish" /\ ~Resolved
    /\ Forget
    /\ IF late /\ MayInject
       THEN injected' = TRUE /\ Scale(0, scaled /\ ~manual)
       ELSE UNCHANGED <<injected, replicas>>
    /\ UNCHANGED <<phase, outcome, alert, warned>>

\* The deadline is looked at before an iteration: the result is its phase, the
\* exit code 1, and nothing scales back.
deadline ==
    /\ Running /\ phase # "baseline" /\ at = "loop"
    /\ outcome' = "failed"
    /\ UNCHANGED <<phase, at, state, receivers, injected, cluster>>

\* KeyboardInterrupt (exit code 130), or an exception run_drill does not catch:
\* kubectl's timeout outside get_alert_state.
interrupt ==
    /\ Running /\ outcome' = "failed" /\ Forget
    /\ UNCHANGED <<phase, injected, cluster>>
-----------------------------------------------------------------------------
(* The cluster; the alert matters while the script runs. *)

\* The rule fires some time after its source went down, and is resolved some
\* time after it came back.
evaluate_rule(sourceUp) ==
    /\ Running /\ (alert = "firing") # ~sourceUp
    /\ alert' = IF sourceUp THEN "inactive" ELSE "firing"
    /\ UNCHANGED <<script, replicas, warned>>

\* An operator does what the script has asked for.
inject_by_hand ==
    /\ Running /\ manual /\ injected /\ replicas # 0
    /\ replicas' = 0
    /\ UNCHANGED <<script, alert, warned>>

\* An operator, or GitOps, scales the deployment back.
heal ==
    /\ replicas = 0 /\ replicas' = TargetReplicas
    /\ UNCHANGED <<script, alert, warned>>
-----------------------------------------------------------------------------
Iterate ==
    \/ \E read \in {alert, "error"} : baseline(read) \/ get_alert_state(read)
    \/ \E some \in BOOLEAN : get_alertmanager_receivers(some)
    \/ \E scaled \in BOOLEAN : notice(scaled)
    \/ complete
    \/ \E late \in BOOLEAN, scaled \in BOOLEAN : inject_metric_failure(late, scaled)

DrillStep(sourceUp) ==
    /\ \/ Iterate \/ deadline \/ interrupt
       \/ evaluate_rule(sourceUp) \/ inject_by_hand \/ heal
    /\ UNCHANGED manual

\* The script runs, and its iterations reach the deadline: each sleeps.
DrillFairness == WF_script(Iterate) /\ SF_script(deadline)
==============================================================================
