-------------------------- MODULE ApprovedRecovery --------------------------
(***************************************************************************)
(* What the Agent Hub promises about a recovery command, with no threads,  *)
(* no tables and no network: a command is proposed for one dead-lettered   *)
(* version of one outbox event, an independent human decides on it once,   *)
(* an approved command takes effect in the owner system at most once and   *)
(* never for a version another command recovered, and a receipt is given   *)
(* only for an effect that happened.                                       *)
(***************************************************************************)
CONSTANTS Intents,     \* identities of proposed commands
          Targets,     \* <<event, version>> pairs a command can name
          Users,
          Approvers,   \* users whose role lets them decide
          None         \* "no value yet"

VARIABLES proposal,    \* proposal[i]: None or [by, target]
          verdict,     \* verdict[i]: None or [by, decision]
          applied,     \* commands that took effect in the owner system
          confirmed    \* commands with a receipt

absVars == <<proposal, verdict, applied, confirmed>>

AbsInit == /\ proposal = [i \in Intents |-> None]
           /\ verdict = [i \in Intents |-> None]
           /\ applied = {}
           /\ confirmed = {}

Propose(i, u, tgt) ==
    /\ proposal[i] = None
    /\ proposal' = [proposal EXCEPT ![i] = [by |-> u, target |-> tgt]]
    /\ UNCHANGED <<verdict, applied, confirmed>>

Decide(i, u, d) ==
    /\ proposal[i] # None
    /\ verdict[i] = None
    /\ u # proposal[i].by
    /\ verdict' = [verdict EXCEPT ![i] = [by |-> u, decision |-> d]]
    /\ UNCHANGED <<proposal, applied, confirmed>>

Apply(i) ==
    /\ verdict[i] # None
    /\ verdict[i].decision = "APPROVED"
    /\ i \notin applied
    /\ \A j \in applied : proposal[j].target # proposal[i].target
    /\ applied' = applied \cup {i}
    /\ UNCHANGED <<proposal, verdict, confirmed>>

Confirm(i) ==
    /\ i \in applied
    /\ i \notin confirmed
    /\ confirmed' = confirmed \cup {i}
    /\ UNCHANGED <<proposal, verdict, applied>>

AbsNext == \E i \in Intents :
    \/ \E u \in Users, tgt \in Targets : Propose(i, u, tgt)
    \/ \E u \in Approvers, d \in {"APPROVED", "REJECTED"} : Decide(i, u, d)
    \/ Apply(i)
    \/ Confirm(i)

AbsSpec == AbsInit /\ [][AbsNext]_absVars
=============================================================================
