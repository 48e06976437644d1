----------------------------- MODULE OutboxOwner -----------------------------
(***************************************************************************)
(* The OpsBridge owner service, which is not part of this repository: its  *)
(* outbox events and the OutboxRecoveryCommands table, as the Agent Hub's  *)
(* executor uses them.  A requeue is one owner transaction: a compare and  *)
(* swap on the event's dead-letter timestamp together with the insertion   *)
(* of a row under a unique idempotency key.                                *)
(***************************************************************************)
EXTENDS Naturals

CONSTANTS Messages,    \* outbox message ids
          Keys,        \* idempotency keys
          MaxVersion,  \* bound: how often one event is dead-lettered
          None         \* "no value"

ASSUME MaxVersionAssumption == MaxVersion \in Nat \ {0}

VARIABLES deadLetteredAt,  \* deadLetteredAt[m]: 0 when not dead-lettered, else its version
          lastVersion,     \* the last version given to m
          commands         \* commands[k]: None or the recovery command stored under key k

ownerVars == <<deadLetteredAt, lastVersion, commands>>

Versions == 1 .. MaxVersion

OwnerInit == /\ deadLetteredAt = [m \in Messages |-> 0]
             /\ lastVersion = [m \in Messages |-> 0]
             /\ commands = [k \in Keys |-> None]

\* Delivery of event m fails for good (again): a new dead-letter timestamp.
DeadLetter(m) ==
    /\ deadLetteredAt[m] = 0
    /\ lastVersion[m] < MaxVersion
    /\ lastVersion' = [lastVersion EXCEPT ![m] = @ + 1]
    /\ deadLetteredAt' = [deadLetteredAt EXCEPT ![m] = lastVersion[m] + 1]
    /\ UNCHANGED commands

\* The answer to POST /internal/agent/outbox/{m}/requeue with body cmd.
RequeueStatus(k, cmd) ==
    IF commands[k] # None
    THEN IF commands[k] = cmd THEN "already_applied" ELSE "conflict"
    ELSE IF deadLetteredAt[cmd.message] = cmd.version THEN "requeued" ELSE "conflict"

\* The owner transaction behind that answer.
Requeue(k, cmd) ==
    /\ IF RequeueStatus(k, cmd) = "requeued"
       THEN /\ commands' = [commands EXCEPT ![k] = cmd]
            /\ deadLetteredAt' = [deadLetteredAt EXCEPT ![cmd.message] = 0]
       ELSE UNCHANGED <<commands, deadLetteredAt>>
    /\ UNCHANGED lastVersion
=============================================================================
