-------------------------- MODULE DemoPlatformProofs --------------------------
(***************************************************************************)
(* The pod's and the drill's invariants for any number of clients, crashes *)
(* and outages.  The pod inside the platform is a pod of DemoApi.          *)
(***************************************************************************)
EXTENDS DemoPlatform, FiniteSetTheorems, TLAPS

\* What the events of a pod leave of it: a process that is not running has no
\* connections, and once a probe has reported ready for a cleared flag none that
\* may do so is under way.
Rest == proc \in {"starting", "down"} => conn = [c \in Conns |-> "closed"] /\ gone = {}
LateProbe ==
    /\ ready => lateReady = 0
    /\ lateReady # 0 => lateReady = 1 /\ conn[Readiness] = "closed"
PodInv == TypeOK /\ Rest /\ InFlightExact /\ LateProbe

USE DEF ReadyThreshold, Busy, Awaiting, Answered

LEMMA ConnsFinite == IsFiniteSet(Conns)
<1>1. IsFiniteSet(Clients \cup {Readiness})
  BY ClientsAssumption, FS_AddElement
<1> QED
  BY <1>1 DEF Conns

LEMMA ReadinessConn == Readiness \in Conns /\ \A c \in Clients : c \in Conns /\ c # Readiness
BY ProbeAssumption DEF Conns

LEMMA BusyFinite == IsFiniteSet(BusyConns) /\ Cardinality(BusyConns) \in Nat
<1>1. BusyConns \subseteq Conns
  BY DEF BusyConns
<1> QED
  BY <1>1, ConnsFinite, FS_Subset, FS_CardinalityType

\* A connection's step changes the number of busy connections by what it does to
\* that connection.
LEMMA BusyStep ==
  ASSUME TypeOK, NEW c \in Conns, NEW v, conn' = [conn EXCEPT ![c] = v]
  PROVE  /\ conn[c] \notin Busy /\ v \in Busy =>
              Cardinality(BusyConns)' = Cardinality(BusyConns) + 1
         /\ conn[c] \in Busy /\ v \notin Busy =>
              Cardinality(BusyConns)' = Cardinality(BusyConns) - 1
         /\ (conn[c] \in Busy <=> v \in Busy) =>
              Cardinality(BusyConns)' = Cardinality(BusyConns)
<1>0. IsFiniteSet(BusyConns) /\ Cardinality(BusyConns) \in Nat
  BY BusyFinite
<1>1. \A d \in Conns : conn'[d] = IF d = c THEN v ELSE conn[d]
  BY DEF TypeOK
<1>2. CASE conn[c] \notin Busy /\ v \in Busy
  <2>1. c \notin BusyConns /\ BusyConns' = BusyConns \cup {c}
    BY <1>1, <1>2 DEF BusyConns
  <2> QED
    BY <1>0, <1>2, <2>1, FS_AddElement
<1>3. CASE conn[c] \in Busy /\ v \notin Busy
  <2>1. c \in BusyConns /\ BusyConns' = BusyConns \ {c}
    BY <1>1, <1>3 DEF BusyConns
  <2> QED
    BY <1>0, <1>3, <2>1, FS_RemoveElement
<1>4. CASE conn[c] \in Busy <=> v \in Busy
  <2>1. BusyConns' = BusyConns
    BY <1>1, <1>4 DEF BusyConns
  <2> QED
    BY <1>4, <2>1
<1> QED
  BY <1>2, <1>3, <1>4

LEMMA BusySame == conn' = conn => Cardinality(BusyConns)' = Cardinality(BusyConns)
BY DEF BusyConns

LEMMA PodInit == Init => PodInv
<1> SUFFICES ASSUME Init PROVE PodInv
  OBVIOUS
<1> USE DEF Init
<1>1. TypeOK
  <2>1. conn \in [Conns -> Busy \cup {"closed", "open", "unanswered"}]
    OBVIOUS
  <2>2. crashes \in 0..MaxCrashes /\ readyFails \in 0..ReadyThreshold
    BY CrashesAssumption
  <2>3. lateReady \in 0..2 /\ inFlight \in Int
    OBVIOUS
  <2> QED
    BY <2>1, <2>2, <2>3 DEF TypeOK
<1>2. Rest /\ InFlightExact /\ LateProbe
  BY DEF Rest, InFlightExact, Serving, LateProbe
<1> QED
  BY <1>1, <1>2 DEF PodInv
-----------------------------------------------------------------------------
(* The pod's steps *)

LEMMA TypeStep == TypeOK /\ [Next]_vars => TypeOK'
<1> SUFFICES ASSUME TypeOK, [Next]_vars PROVE TypeOK'
  OBVIOUS
<1> USE DEF TypeOK, process, kubelet, world
<1>1. CASE listen
  BY <1>1 DEF listen
<1>2. ASSUME NEW c \in Conns, connect(c) PROVE TypeOK'
  BY <1>2 DEF connect
<1>3. ASSUME NEW c \in Conns, hang_up(c) PROVE TypeOK'
  BY <1>3 DEF hang_up
<1>4. ASSUME NEW c \in Conns, request(c) PROVE TypeOK'
  BY <1>4 DEF request
<1>5. ASSUME NEW c \in Conns, request_unparsed(c) PROVE TypeOK'
  BY <1>5 DEF request_unparsed
<1>6. ASSUME NEW c \in Conns, NEW kept \in BOOLEAN, answer_now(c, kept) PROVE TypeOK'
  BY <1>6 DEF answer_now, AfterAnswer
<1>7. ASSUME NEW c \in Conns, NEW value \in BOOLEAN, NEW kept \in BOOLEAN, set_ready(c, value, kept) PROVE TypeOK'
  BY <1>7 DEF set_ready, AfterAnswer
<1>8. ASSUME NEW c \in Conns, dependency_health(c) PROVE TypeOK'
  BY <1>8 DEF dependency_health
<1>9. ASSUME NEW c \in Conns, await_done(c) PROVE TypeOK'
  BY <1>9 DEF await_done
<1>10. ASSUME NEW c \in Conns, NEW kept \in BOOLEAN, answer(c, kept) PROVE TypeOK'
  BY <1>10 DEF answer, AfterAnswer
<1>11. CASE sigterm
  BY <1>11 DEF sigterm
<1>12. CASE drained
  BY <1>12 DEF drained, End
<1>13. CASE drain_limit
  BY <1>13 DEF drain_limit, End
<1>14. CASE uncaught
  <2>1. crashes' \in 0..MaxCrashes
    BY <1>14, CrashesAssumption DEF uncaught
  <2> QED
    BY <1>14, <2>1 DEF uncaught, End
<1>15. CASE probe_ready
  BY <1>15 DEF probe_ready, NotReady
<1>16. CASE ready_answer
  <2>1. readyFails' \in 0..ReadyThreshold /\ lateReady' \in 0..2
    BY <1>16 DEF ready_answer, NotReady, Ready
  <2>2. endpoint' \in BOOLEAN
    BY <1>16, Zenon DEF ready_answer, NotReady, Ready
  <2>3. conn' \in [Conns -> Busy \cup {"closed", "open", "unanswered"}] /\ gone' \in SUBSET Conns /\ inFlight' \in Int
    BY <1>16, ReadinessConn DEF ready_answer
  <2> QED
    BY <1>16, <2>1, <2>2, <2>3 DEF ready_answer
<1>17. CASE probe_timeout
  <2>1. readyFails' \in 0..ReadyThreshold /\ lateReady' \in 0..2
    BY <1>17 DEF probe_timeout, NotReady
  <2>2. endpoint' \in BOOLEAN
    BY <1>17, Zenon DEF probe_timeout, NotReady
  <2>3. conn' \in [Conns -> Busy \cup {"closed", "open", "unanswered"}] /\ gone' \in SUBSET Conns /\ inFlight' \in Int
    BY <1>17, ReadinessConn DEF probe_timeout
  <2> QED
    BY <1>17, <2>1, <2>2, <2>3 DEF probe_timeout
<1>18. CASE restart
  <2>1. readyFails' \in 0..ReadyThreshold
    BY <1>18 DEF restart
  <2> QED
    BY <1>18, <2>1 DEF restart
<1>19. CASE delete_pod
  BY <1>19 DEF delete_pod
<1>20. CASE remove_endpoint
  BY <1>20 DEF remove_endpoint
<1>21. CASE dependency_changes
  BY <1>21 DEF dependency_changes
<1>22. CASE UNCHANGED vars
  BY <1>22 DEF vars, process, kubelet, world
<1> QED
  BY <1>1, <1>2, <1>3, <1>4, <1>5, <1>6, <1>7, <1>8, <1>9, <1>10, <1>11, <1>12, <1>13, <1>14, <1>15, <1>16, <1>17, <1>18, <1>19, <1>20, <1>21, <1>22 DEF Next, Pod, Client, Handle, Kubelet, Shutdown

LEMMA RestStep == TypeOK /\ Rest /\ [Next]_vars => Rest'
<1> SUFFICES ASSUME TypeOK /\ Rest, [Next]_vars PROVE Rest'
  OBVIOUS
<1> USE DEF Rest, TypeOK, Serving, process, kubelet, world
<1>1. CASE listen
  BY <1>1 DEF listen
<1>2. ASSUME NEW c \in Conns, connect(c) PROVE Rest'
  BY <1>2 DEF connect
<1>3. ASSUME NEW c \in Conns, hang_up(c) PROVE Rest'
  BY <1>3 DEF hang_up
<1>4. ASSUME NEW c \in Conns, request(c) PROVE Rest'
  BY <1>4 DEF request
<1>5. ASSUME NEW c \in Conns, request_unparsed(c) PROVE Rest'
  BY <1>5 DEF request_unparsed
<1>6. ASSUME NEW c \in Conns, NEW kept \in BOOLEAN, answer_now(c, kept) PROVE Rest'
  BY <1>6 DEF answer_now, AfterAnswer
<1>7. ASSUME NEW c \in Conns, NEW value \in BOOLEAN, NEW kept \in BOOLEAN, set_ready(c, value, kept) PROVE Rest'
  BY <1>7 DEF set_ready, AfterAnswer
<1>8. ASSUME NEW c \in Conns, dependency_health(c) PROVE Rest'
  BY <1>8 DEF dependency_health
<1>9. ASSUME NEW c \in Conns, await_done(c) PROVE Rest'
  BY <1>9 DEF await_done
<1>10. ASSUME NEW c \in Conns, NEW kept \in BOOLEAN, answer(c, kept) PROVE Rest'
  BY <1>10 DEF answer, AfterAnswer
<1>11. CASE sigterm
  BY <1>11 DEF sigterm
<1>12. CASE drained
  BY <1>12 DEF drained, End
<1>13. CASE drain_limit
  BY <1>13 DEF drain_limit, End
<1>14. CASE uncaught
  BY <1>14 DEF uncaught, End
<1>15. CASE probe_ready
  BY <1>15 DEF probe_ready, NotReady
<1>16. CASE ready_answer
  BY <1>16 DEF ready_answer, NotReady, Ready
<1>17. CASE probe_timeout
  BY <1>17, ReadinessConn DEF probe_timeout, NotReady
<1>18. CASE restart
  BY <1>18 DEF restart
<1>19. CASE delete_pod
  BY <1>19 DEF delete_pod
<1>20. CASE remove_endpoint
  BY <1>20 DEF remove_endpoint
<1>21. CASE dependency_changes
  BY <1>21 DEF dependency_changes
<1>22. CASE UNCHANGED vars
  BY <1>22 DEF vars, process, kubelet, world
<1> QED
  BY <1>1, <1>2, <1>3, <1>4, <1>5, <1>6, <1>7, <1>8, <1>9, <1>10, <1>11, <1>12, <1>13, <1>14, <1>15, <1>16, <1>17, <1>18, <1>19, <1>20, <1>21, <1>22 DEF Next, Pod, Client, Handle, Kubelet, Shutdown

LEMMA LateStep == TypeOK /\ Rest /\ LateProbe /\ [Next]_vars => LateProbe'
<1> SUFFICES ASSUME TypeOK /\ Rest /\ LateProbe, [Next]_vars PROVE LateProbe'
  OBVIOUS
<1> USE DEF LateProbe, TypeOK, Rest, Serving, process, kubelet, world
<1>1. CASE listen
  BY <1>1 DEF listen
<1>2. ASSUME NEW c \in Conns, connect(c) PROVE LateProbe'
  BY <1>2, ReadinessConn DEF connect
<1>3. ASSUME NEW c \in Conns, hang_up(c) PROVE LateProbe'
  BY <1>3, ReadinessConn DEF hang_up
<1>4. ASSUME NEW c \in Conns, request(c) PROVE LateProbe'
  BY <1>4 DEF request
<1>5. ASSUME NEW c \in Conns, request_unparsed(c) PROVE LateProbe'
  BY <1>5 DEF request_unparsed
<1>6. ASSUME NEW c \in Conns, NEW kept \in BOOLEAN, answer_now(c, kept) PROVE LateProbe'
  BY <1>6 DEF answer_now, AfterAnswer
<1>7. ASSUME NEW c \in Conns, NEW value \in BOOLEAN, NEW kept \in BOOLEAN, set_ready(c, value, kept) PROVE LateProbe'
  BY <1>7 DEF set_ready, AfterAnswer
<1>8. ASSUME NEW c \in Conns, dependency_health(c) PROVE LateProbe'
  BY <1>8 DEF dependency_health
<1>9. ASSUME NEW c \in Conns, await_done(c) PROVE LateProbe'
  BY <1>9 DEF await_done
<1>10. ASSUME NEW c \in Conns, NEW kept \in BOOLEAN, answer(c, kept) PROVE LateProbe'
  BY <1>10 DEF answer, AfterAnswer
<1>11. CASE sigterm
  BY <1>11, ReadinessConn DEF sigterm
<1>12. CASE drained
  BY <1>12, ReadinessConn DEF drained, End
<1>13. CASE drain_limit
  BY <1>13, ReadinessConn DEF drain_limit, End
<1>14. CASE uncaught
  BY <1>14, ReadinessConn DEF uncaught, End
<1>15. CASE probe_ready
  BY <1>15 DEF probe_ready, NotReady
<1>16. CASE ready_answer
  BY <1>16, ReadinessConn DEF ready_answer, NotReady, Ready
<1>17. CASE probe_timeout
  BY <1>17 DEF probe_timeout, NotReady
<1>18. CASE restart
  BY <1>18 DEF restart
<1>19. CASE delete_pod
  BY <1>19 DEF delete_pod
<1>20. CASE remove_endpoint
  BY <1>20 DEF remove_endpoint
<1>21. CASE dependency_changes
  BY <1>21 DEF dependency_changes
<1>22. CASE UNCHANGED vars
  BY <1>22 DEF vars, process, kubelet, world
<1> QED
  BY <1>1, <1>2, <1>3, <1>4, <1>5, <1>6, <1>7, <1>8, <1>9, <1>10, <1>11, <1>12, <1>13, <1>14, <1>15, <1>16, <1>17, <1>18, <1>19, <1>20, <1>21, <1>22 DEF Next, Pod, Client, Handle, Kubelet, Shutdown

LEMMA GaugeStep == TypeOK /\ Rest /\ InFlightExact /\ [Next]_vars => InFlightExact'
<1> SUFFICES ASSUME TypeOK /\ Rest /\ InFlightExact, [Next]_vars PROVE InFlightExact'
  OBVIOUS
<1> USE DEF TypeOK, InFlightExact, Serving, process, kubelet, world
<1>1. CASE listen
  <2>1. BusyConns' = {}
    BY <1>1 DEF listen, Rest, BusyConns
  <2> QED
    BY <1>1, <2>1, FS_EmptySet DEF listen
<1>2. ASSUME NEW c \in Conns, connect(c) PROVE InFlightExact'
  <2>1. conn[c] \notin Busy /\ "open" \notin Busy /\ conn' = [conn EXCEPT ![c] = "open"] /\ c \in Conns
    BY <1>2, ReadinessConn DEF connect
  <2>2. Cardinality(BusyConns)' = Cardinality(BusyConns)
    BY <2>1, BusyStep, Zenon
  <2> QED
    BY <1>2, <2>2, BusyFinite DEF connect
<1>3. ASSUME NEW c \in Conns, hang_up(c) PROVE InFlightExact'
  <2>1. Cardinality(BusyConns)' = Cardinality(BusyConns)
    BY <1>3, BusyStep, BusySame DEF hang_up
  <2> QED
    BY <1>3, <2>1 DEF hang_up
<1>4. ASSUME NEW c \in Conns, request(c) PROVE InFlightExact'
  <2>1. Cardinality(BusyConns)' = Cardinality(BusyConns) + 1
    BY <1>4, BusyStep, ReadinessConn DEF request
  <2> QED
    BY <1>4, <2>1, BusyFinite DEF request
<1>5. ASSUME NEW c \in Conns, request_unparsed(c) PROVE InFlightExact'
  <2>1. Cardinality(BusyConns)' = Cardinality(BusyConns)
    BY <1>5, BusyStep, ReadinessConn DEF request_unparsed
  <2> QED
    BY <1>5, <2>1, BusyFinite DEF request_unparsed
<1>6. ASSUME NEW c \in Conns, NEW kept \in BOOLEAN, answer_now(c, kept) PROVE InFlightExact'
  <2>1. conn[c] \notin Busy /\ AfterAnswer(c, kept) \notin Busy /\ conn' = [conn EXCEPT ![c] = AfterAnswer(c, kept)] /\ c \in Conns
    BY <1>6, ReadinessConn DEF answer_now, AfterAnswer
  <2>2. Cardinality(BusyConns)' = Cardinality(BusyConns)
    BY <2>1, BusyStep, Zenon
  <2> QED
    BY <1>6, <2>2, BusyFinite DEF answer_now
<1>7. ASSUME NEW c \in Conns, NEW value \in BOOLEAN, NEW kept \in BOOLEAN, set_ready(c, value, kept) PROVE InFlightExact'
  <2>1. conn[c] \notin Busy /\ AfterAnswer(c, kept) \notin Busy /\ conn' = [conn EXCEPT ![c] = AfterAnswer(c, kept)] /\ c \in Conns
    BY <1>7, ReadinessConn DEF set_ready, AfterAnswer
  <2>2. Cardinality(BusyConns)' = Cardinality(BusyConns)
    BY <2>1, BusyStep, Zenon
  <2> QED
    BY <1>7, <2>2, BusyFinite DEF set_ready
<1>8. ASSUME NEW c \in Conns, dependency_health(c) PROVE InFlightExact'
  <2>1. Cardinality(BusyConns)' = Cardinality(BusyConns)
    BY <1>8, BusyStep, ReadinessConn DEF dependency_health
  <2> QED
    BY <1>8, <2>1, BusyFinite DEF dependency_health
<1>9. ASSUME NEW c \in Conns, await_done(c) PROVE InFlightExact'
  <2>1. Cardinality(BusyConns)' = Cardinality(BusyConns)
    BY <1>9, BusyStep, ReadinessConn DEF await_done
  <2> QED
    BY <1>9, <2>1, BusyFinite DEF await_done
<1>10. ASSUME NEW c \in Conns, NEW kept \in BOOLEAN, answer(c, kept) PROVE InFlightExact'
  <2>1. conn[c] \in Busy /\ AfterAnswer(c, kept) \notin Busy /\ conn' = [conn EXCEPT ![c] = AfterAnswer(c, kept)] /\ c \in Conns
    BY <1>10, ReadinessConn DEF answer, AfterAnswer
  <2>2. Cardinality(BusyConns)' = Cardinality(BusyConns) - 1
    BY <2>1, BusyStep, Zenon
  <2> QED
    BY <1>10, <2>2, BusyFinite DEF answer
<1>11. CASE sigterm
  <2>1. BusyConns' = BusyConns
    BY <1>11 DEF sigterm, BusyConns
  <2> QED
    BY <1>11, <2>1 DEF sigterm
<1>12. CASE drained
  BY <1>12 DEF drained, End
<1>13. CASE drain_limit
  BY <1>13 DEF drain_limit, End
<1>14. CASE uncaught
  BY <1>14 DEF uncaught, End
<1>15. CASE probe_ready
  <2>1. CASE ready
    <3>1. Cardinality(BusyConns)' = Cardinality(BusyConns) + 1
      BY <1>15, <2>1, BusyStep, ReadinessConn DEF probe_ready
    <3> QED
      BY <1>15, <2>1, <3>1 DEF probe_ready
  <2>2. CASE ~ready
    BY <1>15, <2>2, BusySame DEF probe_ready
  <2> QED
    BY <2>1, <2>2
<1>16. CASE ready_answer
  <2>1. conn[Readiness] \in Busy /\ "closed" \notin Busy /\ conn' = [conn EXCEPT ![Readiness] = "closed"] /\ Readiness \in Conns
    BY <1>16, ReadinessConn DEF ready_answer
  <2>2. Cardinality(BusyConns)' = Cardinality(BusyConns) - 1
    BY <2>1, BusyStep, Zenon
  <2> QED
    BY <1>16, <2>2, BusyFinite DEF ready_answer
<1>17. CASE probe_timeout
  BY <1>17, BusySame DEF probe_timeout, NotReady
<1>18. CASE restart
  BY <1>18, BusySame DEF restart
<1>19. CASE delete_pod
  BY <1>19, BusySame DEF delete_pod
<1>20. CASE remove_endpoint
  BY <1>20, BusySame DEF remove_endpoint
<1>21. CASE dependency_changes
  BY <1>21, BusySame DEF dependency_changes
<1>22. CASE UNCHANGED vars
  BY <1>22, BusySame DEF vars, process, kubelet, world
<1> QED
  BY <1>1, <1>2, <1>3, <1>4, <1>5, <1>6, <1>7, <1>8, <1>9, <1>10, <1>11, <1>12, <1>13, <1>14, <1>15, <1>16, <1>17, <1>18, <1>19, <1>20, <1>21, <1>22 DEF Next, Pod, Client, Handle, Kubelet, Shutdown

LEMMA PodStep == PodInv /\ [Next]_vars => PodInv'
BY TypeStep, RestStep, LateStep, GaugeStep DEF PodInv

\* The gauge is exact, in every interleaving of handlers, probes, crashes and
\* shutdowns.
THEOREM GaugeIsExact == Spec => []InFlightExact
<1>1. PodInv => InFlightExact
  BY DEF PodInv
<1> QED
  BY PodInit, PodStep, <1>1, PTL DEF Spec

\* The pod reports ready at most once after its flag was cleared.
THEOREM OneStaleAnswer == Spec => []StaleReadyOnce
<1>1. PodInv => StaleReadyOnce
  BY DEF PodInv, LateProbe, StaleReadyOnce
<1> QED
  BY PodInit, PodStep, <1>1, PTL DEF Spec
-----------------------------------------------------------------------------
(* The platform *)

LEMMA PlatformIsPod == PlatformNext => [Next]_vars
BY DEF PlatformNext, pod, drill, dependency_stops, dependency_starts, Next

\* The platform's pod is a pod: composing it with the drill and the dependency's
\* replicas only restricts when the dependency fails.
THEOREM PlatformImplementsPod == PlatformSpec => Spec
<1>1. [PlatformNext]_platformVars => [Next]_vars
  BY PlatformIsPod DEF platformVars
<1> QED
  BY <1>1, PTL DEF PlatformSpec, PlatformInit, Spec

DrillInv ==
    /\ DrillTypeOK
    /\ outages \in 0..MaxOutages
    /\ outcome = "complete" => phase = "complete"
    /\ phase \in {"await_resolve", "complete"} /\ ~manual => replicas > 0 \/ warned

LEMMA DrillInvInit == PlatformInit => DrillInv
<1>1. 0 \in 0..MaxOutages
  BY OutagesAssumption
<1>2. PlatformInit => DrillTypeOK /\ outages = 0 /\ phase = "baseline" /\ outcome = "running"
  BY DEF PlatformInit, DrillInit, DrillTypeOK, Phases, AlertStates
<1> QED
  BY <1>1, <1>2 DEF DrillInv

LEMMA DrillInvStep == DrillInv /\ [PlatformNext]_platformVars => DrillInv'
<1> SUFFICES ASSUME DrillInv, [PlatformNext]_platformVars PROVE DrillInv'
  OBVIOUS
<1> USE ReplicasAssumption, OutagesAssumption
        DEF DrillInv, DrillTypeOK, Phases, AlertStates, Running, cluster, Forget, Scale, script
<1>1. CASE pod
  BY <1>1 DEF pod, drillVars
<1>2. CASE drill
  <2>0. outages' = outages /\ manual' = manual
    BY <1>2 DEF drill, DrillStep
  <2>1. ASSUME NEW read \in {alert, "error"}, baseline(read) PROVE DrillInv'
    BY <2>0, <2>1 DEF baseline
  <2>2. ASSUME NEW read \in {alert, "error"}, get_alert_state(read) PROVE DrillInv'
    BY <2>0, <2>2 DEF get_alert_state
  <2>3. ASSUME NEW some \in BOOLEAN, get_alertmanager_receivers(some) PROVE DrillInv'
    BY <2>0, <2>3 DEF get_alertmanager_receivers
  <2>4. ASSUME NEW scaled \in BOOLEAN, notice(scaled) PROVE DrillInv'
    <3>1. CASE Fired = "await_alertmanager" /\ receivers
      <4>1. warned' \in BOOLEAN
        BY <2>4, <3>1 DEF notice
      <4>2. replicas' \in {0, TargetReplicas} /\ (manual \/ replicas' > 0 \/ warned')
        <5>1. CASE scaled /\ ~manual
          BY <2>4, <3>1, <5>1 DEF notice
        <5>2. CASE ~(scaled /\ ~manual)
          <6>1. replicas' = replicas /\ (manual \/ warned')
            BY <2>4, <3>1, <5>2, Zenon DEF notice
          <6> QED
            BY <6>1
        <5> QED
          BY <5>1, <5>2
      <4> QED
        BY <2>0, <2>4, <3>1, <4>1, <4>2 DEF notice
    <3>2. CASE ~(Fired = "await_alertmanager" /\ receivers)
      BY <2>0, <2>4, <3>2 DEF notice, Fired
    <3> QED
      BY <3>1, <3>2
  <2>5. CASE complete
    BY <2>0, <2>5 DEF complete, Resolved
  <2>6. ASSUME NEW late \in BOOLEAN, NEW scaled \in BOOLEAN, inject_metric_failure(late, scaled)
        PROVE  DrillInv'
    BY <2>0, <2>6 DEF inject_metric_failure, MayInject
  <2>7. CASE deadline \/ interrupt
    BY <2>0, <2>7 DEF deadline, interrupt
  <2>8. CASE evaluate_rule(dependencyUp)
    BY <2>0, <2>8 DEF evaluate_rule
  <2>9. CASE heal
    BY <2>0, <2>9 DEF heal
  <2>10. CASE inject_by_hand
    BY <2>0, <2>10 DEF inject_by_hand
  <2> QED
    BY <1>2, <2>1, <2>2, <2>3, <2>4, <2>5, <2>6, <2>7, <2>8, <2>9, <2>10 DEF drill, DrillStep, Iterate
<1>3. CASE dependency_stops
  BY <1>3 DEF dependency_stops, drillVars
<1>4. CASE dependency_starts
  BY <1>4 DEF dependency_starts, drillVars
<1>5. CASE UNCHANGED platformVars
  BY <1>5 DEF platformVars, drillVars
<1> QED
  BY <1>1, <1>2, <1>3, <1>4, <1>5 DEF PlatformNext

\* The states of pod, drill and dependency have their types.
THEOREM PlatformType == PlatformSpec => []PlatformTypeOK
<1>1. PodInv /\ DrillInv => PlatformTypeOK
  BY DEF PodInv, DrillInv, PlatformTypeOK
<1>2. [PlatformNext]_platformVars => [Next]_vars
  BY PlatformIsPod DEF platformVars
<1>3. PlatformInit => PodInv
  BY PodInit DEF PlatformInit
<1> QED
  BY <1>1, <1>2, <1>3, PodStep, DrillInvInit, DrillInvStep, PTL DEF PlatformSpec

\* A drill that scales its target and ends complete leaves it with replicas, or has warned
\* that it could not, whatever the alert, the dependency and other operators do.
THEOREM DrillRestores == PlatformSpec => []CompleteRestores
<1>1. DrillInv => CompleteRestores
  BY DEF DrillInv, CompleteRestores
<1> QED
  BY <1>1, DrillInvInit, DrillInvStep, PTL DEF PlatformSpec
=============================================================================
