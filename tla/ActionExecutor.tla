--------------------------- MODULE ActionExecutor ---------------------------
(***************************************************************************)
(* The Agent Hub's approval-gated recovery (core/action_executor.py over   *)
(* core/storage.py).  Requests are served by a pool of threads; every      *)
(* StorageManager method opens its own SQLite connection, so it is one     *)
(* atomic step, and between two of them any other thread may run.  A step  *)
(* below is the code from one such call (or owner HTTP call) to the next.  *)
(* A request that is refused before it writes anything changes no state    *)
(* and is the absence of a step.  Time enters as the two deadlines the     *)
(* code compares with the clock: an intent's and an evidence record's      *)
(* expiry, each of which passes once.                                      *)
(***************************************************************************)
EXTENDS OutboxOwner, FiniteSets

CONSTANTS Threads,     \* the server's worker threads
          Users,
          Approvers,   \* users with a role of APPROVER_ROLES and the scope
          Executors,   \* users with a role of EXECUTOR_ROLES and the scope
          Runs,        \* order_failure investigations in the allowlisted scope
          RunUser,     \* RunUser[r]: the user who started run r
          Intents      \* intent ids (uuid4, never repeated)

ASSUME UserAssumption == /\ Approvers \subseteq Users
                         /\ Executors \subseteq Users
                         /\ RunUser \in [Runs -> Users]

VARIABLES evidence,    \* evidence[r]: the dead-lettered events run r recorded
          fresh,       \* fresh[r]: that evidence has not expired
          intents,     \* action_intents rows, without the state column
          state,       \* the state column ("ABSENT": no row)
          expired,     \* expired[i]: the intent's expires_at has passed
          approvals,   \* action_approvals rows
          receipts,    \* execution_receipts rows
          late,        \* intents whose POST may still reach the owner unanswered
          thread       \* what each worker thread is doing

hubVars == <<evidence, fresh, intents, state, expired, approvals, receipts>>
vars == <<ownerVars, hubVars, late, thread>>

IntentRow == [run : Runs, message : Messages, version : Versions, key : Keys]
ApprovalRow == [decision : {"APPROVED", "REJECTED"}, approver : Users]
ReceiptRow == [executedBy : Users, approvedBy : Users]
Command == [intent : Intents, message : Messages, version : Versions, approver : Users]

\* None is none of the rows stored in its place, nor what they refine.
ASSUME NoneAssumption ==
    /\ None \notin IntentRow \cup ApprovalRow \cup ReceiptRow \cup Command
    /\ None \notin [by : Users, target : Messages \X Versions]
    /\ None \notin [by : Users, decision : {"APPROVED", "REJECTED"}]

IntentState == {"ABSENT", "AWAITING_APPROVAL", "APPROVED", "REJECTED", "EXECUTING",
                "SUCCEEDED", "FAILED", "UNKNOWN", "EXPIRED"}

\* The steps between claim and the final write of the state column.
ExecutingSteps == {"before", "post", "after", "save", "settle"}
Steps == {"idle", "insert", "record", "decide", "expire", "claim"} \cup ExecutingSteps

\* A thread's locals: the step it is at, the intent and the caller, was_unknown,
\* the state it is about to write, and the row create_intent is about to insert.
Locals == [at : Steps, intent : Intents \cup {None}, user : Users \cup {None},
           wasUnknown : BOOLEAN, outcome : IntentState, draft : IntentRow \cup {None}]
Idle == [at |-> "idle", intent |-> None, user |-> None, wasUnknown |-> FALSE,
         outcome |-> "ABSENT", draft |-> None]

Init == /\ OwnerInit
        /\ evidence = [r \in Runs |-> {}]
        /\ fresh = [r \in Runs |-> FALSE]
        /\ intents = [i \in Intents |-> None]
        /\ state = [i \in Intents |-> "ABSENT"]
        /\ expired = [i \in Intents |-> FALSE]
        /\ approvals = [i \in Intents |-> None]
        /\ receipts = [i \in Intents |-> None]
        /\ late = {}
        /\ thread = [t \in Threads |-> Idle]

requested_by(i) == RunUser[intents[i].run]
Exists(i) == state[i] # "ABSENT"
Approved(i) == approvals[i] # None /\ approvals[i].decision = "APPROVED"

\* The body of the signed POST: intent and its hash, event version, approver.
RequeueBody(i) == [intent |-> i, message |-> intents[i].message,
                   version |-> intents[i].version, approver |-> approvals[i].approver]

Goto(t, step) == thread' = [thread EXCEPT ![t].at = step]
Return(t) == thread' = [thread EXCEPT ![t] = Idle]
update_intent_state(i, s) == state' = [state EXCEPT ![i] = s]
-----------------------------------------------------------------------------
(* Investigations and the clock *)

\* A run stores what GET /internal/agent/outbox/stuck returned.
save_evidence(r) ==
    LET stuck == {m \in Messages : deadLetteredAt[m] # 0}
    IN  /\ evidence[r] = {}
        /\ stuck # {}
        /\ evidence' = [evidence EXCEPT ![r] = {<<m, deadLetteredAt[m]>> : m \in stuck}]
        /\ fresh' = [fresh EXCEPT ![r] = TRUE]
        /\ UNCHANGED <<ownerVars, intents, state, expired, approvals, receipts, late, thread>>

EvidenceExpires(r) ==
    /\ fresh[r]
    /\ fresh' = [fresh EXCEPT ![r] = FALSE]
    /\ UNCHANGED <<ownerVars, evidence, intents, state, expired, approvals, receipts, late, thread>>

IntentExpires(i) ==
    /\ Exists(i)
    /\ ~expired[i]
    /\ expired' = [expired EXCEPT ![i] = TRUE]
    /\ UNCHANGED <<ownerVars, evidence, fresh, intents, state, approvals, receipts, late, thread>>
-----------------------------------------------------------------------------
(* create_intent: the checks, then the insert *)

KeyTaken(k) == \E i \in Intents : intents[i] # None /\ intents[i].key = k

\* Run r's owner proposes to requeue event m at version v.  A key that is
\* already stored returns the stored intent, or 409: no write either way.
create_intent(t, r, m, v, k) ==
    /\ thread[t].at = "idle"
    /\ fresh[r]
    /\ <<m, v>> \in evidence[r]
    /\ ~KeyTaken(k)
    /\ thread' = [thread EXCEPT ![t] = [Idle EXCEPT !.at = "insert",
                     !.draft = [run |-> r, message |-> m, version |-> v, key |-> k]]]
    /\ UNCHANGED <<ownerVars, hubVars, late>>

\* Mutant: no UNIQUE constraint, the row is inserted whatever is stored.
save_intent_any(t, i) ==
    /\ thread[t].at = "insert"
    /\ ~Exists(i)
    /\ intents' = [intents EXCEPT ![i] = thread[t].draft]
    /\ update_intent_state(i, "AWAITING_APPROVAL")
    /\ Return(t)
    /\ UNCHANGED <<ownerVars, evidence, fresh, expired, approvals, receipts, late>>

save_intent(t, i) ==
    /\ thread[t].at = "insert"
    /\ ~Exists(i)
    /\ ~KeyTaken(thread[t].draft.key)
    /\ intents' = [intents EXCEPT ![i] = thread[t].draft]
    /\ update_intent_state(i, "AWAITING_APPROVAL")
    /\ Return(t)
    /\ UNCHANGED <<ownerVars, evidence, fresh, expired, approvals, receipts, late>>

\* The UNIQUE constraint on idempotency_key: the second insert answers 500.
save_intent_conflict(t) ==
    /\ thread[t].at = "insert"
    /\ KeyTaken(thread[t].draft.key)
    /\ Return(t)
    /\ UNCHANGED <<ownerVars, hubVars, late>>
-----------------------------------------------------------------------------
(* approve_intent: the checks, the approval row, the state column *)

\* Mutant: the requester may approve their own command.
MayApprove_self(i, u) == Exists(i)

MayApprove(i, u) == Exists(i) /\ u # requested_by(i)

approve_intent(t, i, u, d) ==
    /\ thread[t].at = "idle"
    /\ MayApprove(i, u)
    /\ ~expired[i]
    /\ state[i] = "AWAITING_APPROVAL"
    /\ thread' = [thread EXCEPT ![t] = [Idle EXCEPT !.at = "record", !.intent = i,
                                                    !.user = u, !.outcome = d]]
    /\ UNCHANGED <<ownerVars, hubVars, late>>

\* The expiry check comes before the state check, and writes EXPIRED over any
\* state.  Nothing read earlier in the call can have changed: one step.
approve_intent_expired(i, u) ==
    /\ MayApprove(i, u)
    /\ expired[i]
    /\ update_intent_state(i, "EXPIRED")
    /\ UNCHANGED <<ownerVars, evidence, fresh, intents, expired, approvals, receipts, late, thread>>

\* Mutant: a later approval replaces the stored one.
record_action_approval_upsert(t) ==
    /\ thread[t].at = "record"
    /\ approvals' = [approvals EXCEPT ![thread[t].intent] =
           [decision |-> thread[t].outcome, approver |-> thread[t].user]]
    /\ Goto(t, "decide")
    /\ UNCHANGED <<ownerVars, evidence, fresh, intents, state, expired, receipts, late>>

record_action_approval(t) ==
    LET i == thread[t].intent
    IN  /\ thread[t].at = "record"
        /\ IF approvals[i] = None
           THEN /\ approvals' = [approvals EXCEPT ![i] =
                       [decision |-> thread[t].outcome, approver |-> thread[t].user]]
                /\ Goto(t, "decide")
           ELSE /\ Return(t)   \* UNIQUE(intent_id): 500
                /\ UNCHANGED approvals
        /\ UNCHANGED <<ownerVars, evidence, fresh, intents, state, expired, receipts, late>>

approve_intent_decided(t) ==
    /\ thread[t].at = "decide"
    /\ update_intent_state(thread[t].intent, thread[t].outcome)
    /\ Return(t)
    /\ UNCHANGED <<ownerVars, evidence, fresh, intents, expired, approvals, receipts, late>>
-----------------------------------------------------------------------------
(* execute_intent: the checks, the claim, the owner calls, the receipt *)

\* get_intent, get_execution_receipt, the expiry check and get_action_approval.
\* A stored receipt is returned as it is, before the expiry check.
execute_intent(t, i, u) ==
    /\ thread[t].at = "idle"
    /\ Exists(i)
    /\ receipts[i] = None
    /\ expired[i] \/ Approved(i)
    /\ thread' = [thread EXCEPT ![t] =
           [Idle EXCEPT !.at = IF expired[i] THEN "expire" ELSE "claim",
                        !.intent = i, !.user = u,
                        !.wasUnknown = ~expired[i] /\ state[i] = "UNKNOWN"]]
    /\ UNCHANGED <<ownerVars, hubVars, late>>

execute_intent_expired(t) ==
    /\ thread[t].at = "expire"
    /\ update_intent_state(thread[t].intent, "EXPIRED")
    /\ Return(t)
    /\ UNCHANGED <<ownerVars, evidence, fresh, intents, expired, approvals, receipts, late>>

\* Mutant: the claim does not exclude an intent that is being executed.
claim_intent_execution_again(t) ==
    LET i == thread[t].intent
    IN  /\ thread[t].at = "claim"
        /\ state[i] \in {"APPROVED", "UNKNOWN", "EXECUTING"}
        /\ update_intent_state(i, "EXECUTING")
        /\ Goto(t, "before")
        /\ UNCHANGED <<ownerVars, evidence, fresh, intents, expired, approvals, receipts, late>>

\* UPDATE ... SET state = 'EXECUTING' WHERE state IN ('APPROVED', 'UNKNOWN')
claim_intent_execution(t) ==
    LET i == thread[t].intent
    IN  /\ thread[t].at = "claim"
        /\ IF state[i] \in {"APPROVED", "UNKNOWN"}
           THEN update_intent_state(i, "EXECUTING") /\ Goto(t, "before")
           ELSE Return(t) /\ UNCHANGED state
        /\ UNCHANGED <<ownerVars, evidence, fresh, intents, expired, approvals, receipts, late>>

\* Leave the owner calls with the given final state still to be written.
Settle(t, s) == thread' = [thread EXCEPT ![t].at = "settle", ![t].outcome = s]

\* The first _owner_get: the event must still be dead-lettered at the approved
\* version, or be clear when the intent was read as UNKNOWN.
owner_get_before(t) ==
    LET i == thread[t].intent
        observed == deadLetteredAt[intents[i].message]
    IN  /\ thread[t].at = "before"
        /\ IF \/ observed = 0 /\ thread[t].wasUnknown
              \/ observed = intents[i].version
           THEN Goto(t, "post")
           ELSE Settle(t, "FAILED")
        /\ UNCHANGED <<ownerVars, hubVars, late>>

\* Mutant: the 409 answer is not treated as an error.
requeue_post_no409(t) ==
    LET i == thread[t].intent
    IN  /\ thread[t].at = "post"
        /\ Goto(t, "after")
        /\ Requeue(intents[i].key, RequeueBody(i))
        /\ UNCHANGED <<hubVars, late>>

\* The POST is received, answered, and the answer arrives.
requeue_post(t) ==
    LET i == thread[t].intent
    IN  /\ thread[t].at = "post"
        /\ IF RequeueStatus(intents[i].key, RequeueBody(i)) = "conflict"
           THEN Settle(t, "FAILED")
           ELSE Goto(t, "after")
        /\ Requeue(intents[i].key, RequeueBody(i))
        /\ UNCHANGED <<hubVars, late>>

owner_get_after(t) ==
    /\ thread[t].at = "after"
    /\ IF deadLetteredAt[intents[thread[t].intent].message] = 0
       THEN Goto(t, "save")
       ELSE Settle(t, "UNKNOWN")
    /\ UNCHANGED <<ownerVars, hubVars, late>>

\* A second receipt for the intent breaks UNIQUE(intent_id), which the last
\* except clause turns into UNKNOWN.
save_execution_receipt(t) ==
    LET i == thread[t].intent
    IN  /\ thread[t].at = "save"
        /\ receipts' = IF receipts[i] = None
                       THEN [receipts EXCEPT ![i] = [executedBy |-> thread[t].user,
                                                     approvedBy |-> approvals[i].approver]]
                       ELSE receipts
        /\ Settle(t, IF receipts[i] = None THEN "SUCCEEDED" ELSE "UNKNOWN")
        /\ UNCHANGED <<ownerVars, evidence, fresh, intents, state, expired, approvals, late>>

\* Mutant: an error leaves the handler without writing the state column.
execute_error_unrecorded(t) ==
    /\ thread[t].at \in {"before", "post", "after", "save"}
    /\ Return(t)
    /\ late' = IF thread[t].at = "post" THEN late \cup {thread[t].intent} ELSE late
    /\ UNCHANGED <<ownerVars, hubVars>>

\* A timeout, a transport error, a status other than 2xx and 409, a malformed or
\* unconfirmed answer, or a storage error inside the try block, which ends with
\* the write of SUCCEEDED.  A POST that was sent may still arrive.
execute_error(t) ==
    /\ \/ thread[t].at \in {"before", "post", "after", "save"}
       \/ thread[t].at = "settle" /\ thread[t].outcome = "SUCCEEDED"
    /\ Settle(t, "UNKNOWN")
    /\ late' = IF thread[t].at = "post" THEN late \cup {thread[t].intent} ELSE late
    /\ UNCHANGED <<ownerVars, hubVars>>

execute_intent_settled(t) ==
    /\ thread[t].at = "settle"
    /\ update_intent_state(thread[t].intent, thread[t].outcome)
    /\ Return(t)
    /\ UNCHANGED <<ownerVars, evidence, fresh, intents, expired, approvals, receipts, late>>

\* A storage error outside the try block, or of the UNKNOWN or FAILED write in its
\* except clauses: nothing is written, the request ends in a 500, the process
\* stays up.  What earlier steps of the request wrote stays as it is.
unhandled_error(t) ==
    /\ \/ thread[t].at \in {"insert", "record", "decide", "expire", "claim"}
       \/ thread[t].at = "settle" /\ thread[t].outcome # "SUCCEEDED"
    /\ Return(t)
    /\ UNCHANGED <<ownerVars, hubVars, late>>
-----------------------------------------------------------------------------
(* The network and the process *)

\* A POST nobody waits for any more reaches the owner.
LatePost(i) ==
    /\ i \in late
    /\ late' = late \ {i}
    /\ Requeue(intents[i].key, RequeueBody(i))
    /\ UNCHANGED <<hubVars, thread>>

\* The process dies and is restarted: lifespan recovers investigation runs only,
\* so the action tables stay as they were.
Crash ==
    /\ \E t \in Threads : thread[t].at # "idle"
    /\ thread' = [t \in Threads |-> Idle]
    /\ late' = late \cup {thread[t].intent : t \in {x \in Threads : thread[x].at = "post"}}
    /\ UNCHANGED <<ownerVars, hubVars>>
-----------------------------------------------------------------------------
OwnerDeadLetters(m) == DeadLetter(m) /\ UNCHANGED <<hubVars, late, thread>>

\* Mutant: approve_intent does not check which decision the request carries.
Request_unchecked(t) ==
    \/ \E r \in Runs, m \in Messages, v \in Versions, k \in Keys : create_intent(t, r, m, v, k)
    \/ \E i \in Intents, u \in Approvers, d \in {"APPROVED", "REJECTED", "ESCALATED"} :
          approve_intent(t, i, u, d)
    \/ \E i \in Intents, u \in Executors : execute_intent(t, i, u)

\* A client's request arrives and passes the checks made before the first write.
Request(t) ==
    \/ \E r \in Runs, m \in Messages, v \in Versions, k \in Keys : create_intent(t, r, m, v, k)
    \/ \E i \in Intents, u \in Approvers, d \in {"APPROVED", "REJECTED"} : approve_intent(t, i, u, d)
    \/ \E i \in Intents, u \in Executors : execute_intent(t, i, u)

\* A request in progress takes its next step.
Serve(t) ==
    \/ \E i \in Intents : save_intent(t, i)
    \/ save_intent_conflict(t)
    \/ record_action_approval(t)
    \/ approve_intent_decided(t)
    \/ execute_intent_expired(t)
    \/ claim_intent_execution(t)
    \/ owner_get_before(t)
    \/ requeue_post(t)
    \/ owner_get_after(t)
    \/ save_execution_receipt(t)
    \/ execute_error(t)
    \/ execute_intent_settled(t)
    \/ unhandled_error(t)

Environment ==
    \/ \E m \in Messages : OwnerDeadLetters(m)
    \/ \E r \in Runs : save_evidence(r) \/ EvidenceExpires(r)
    \/ \E i \in Intents : IntentExpires(i) \/ LatePost(i)
    \/ \E i \in Intents, u \in Approvers : approve_intent_expired(i, u)

NextNoCrash == (\E t \in Threads : Request(t) \/ Serve(t)) \/ Environment
Next == NextNoCrash \/ Crash

Spec == Init /\ [][Next]_vars

\* A started request is not left waiting: worker threads are scheduled and every
\* owner call ends, at the latest with the HTTP client's timeout.
FairServe == \A t \in Threads : WF_vars(Serve(t))
\* A process that does not die.
SpecNoCrash == Init /\ [][NextNoCrash]_vars
-----------------------------------------------------------------------------
(* Properties *)

\* Every table row and every thread local holds a value its code can put there.
TypeOK ==
    /\ deadLetteredAt \in [Messages -> 0 .. MaxVersion]
    /\ lastVersion \in [Messages -> 0 .. MaxVersion]
    /\ commands \in [Keys -> Command \cup {None}]
    /\ evidence \in [Runs -> SUBSET (Messages \X Versions)]
    /\ fresh \in [Runs -> BOOLEAN]
    /\ intents \in [Intents -> IntentRow \cup {None}]
    /\ state \in [Intents -> IntentState]
    /\ expired \in [Intents -> BOOLEAN]
    /\ approvals \in [Intents -> ApprovalRow \cup {None}]
    /\ receipts \in [Intents -> ReceiptRow \cup {None}]
    /\ late \subseteq Intents
    /\ thread \in [Threads -> Locals]

Executes(t, i) == thread[t].at \in ExecutingSteps /\ thread[t].intent = i

\* An intent is between claim and final state in at most one thread, although
\* approve_intent and execute_intent may write EXPIRED over EXECUTING meanwhile.
SingleExecutor == \A i \in Intents : \A t, x \in Threads :
    Executes(t, i) /\ Executes(x, i) => t = x

\* The owner only ever stores a command that the hub holds an intent for: it
\* names the event version the requester's own investigation recorded, and
\* someone with an approver role other than the requester approved it.
CommandsAuthorised == \A k \in Keys : commands[k] # None =>
    LET i == commands[k].intent
    IN  /\ intents[i] # None
        /\ intents[i].key = k
        /\ <<commands[k].message, commands[k].version>> \in evidence[intents[i].run]
        /\ commands[k].message = intents[i].message
        /\ commands[k].version = intents[i].version
        /\ Approved(i)
        /\ approvals[i].approver \in Approvers \ {requested_by(i)}
        /\ commands[k].approver = approvals[i].approver

\* What the owner stored under an intent's idempotency key is that intent's own
\* command: no two intents, created together by two threads, share a key, so a
\* retry is never answered with the result of another action.
KeyNamesOneCommand == \A i \in Intents :
    intents[i] # None /\ commands[intents[i].key] # None
        => commands[intents[i].key].intent = i

\* A receipt, and the state SUCCEEDED, is only given for a command the owner
\* stored; the receipt names the human who approved it.
ReceiptsHonest == \A i \in Intents :
    /\ receipts[i] # None => /\ commands[intents[i].key] = RequeueBody(i)
                             /\ receipts[i].approvedBy = approvals[i].approver
    /\ state[i] = "SUCCEEDED" => receipts[i] # None

\* A decided outcome is never taken back: REJECTED, SUCCEEDED and FAILED can only
\* be overwritten by EXPIRED, whatever approvals and executions are in flight.
OutcomeKept == [][\A i \in Intents :
    state[i] \in {"REJECTED", "SUCCEEDED", "FAILED"} => state'[i] \in {state[i], "EXPIRED"}]_vars

\* "UNKNOWN is mandatory when the owner may have committed": an intent recorded
\* as FAILED is one whose command the owner did not apply.
UnknownIsMandatory == \A i \in Intents :
    state[i] = "FAILED" => commands[intents[i].key] = None

\* "If the owner response was lost, the intent becomes UNKNOWN": a command the
\* owner applied does not stay EXECUTING with nobody executing it.
LostExecutionIsUnknown == \A i \in Intents :
    state[i] = "EXECUTING" /\ commands[intents[i].key] # None
        => \E t \in Threads : Executes(t, i)
-----------------------------------------------------------------------------
(* The inductive invariant behind the properties, in named parts. *)

\* A thread at step "decide": it inserted the approval row, the state column
\* does not show the decision yet.
Decides(t, i) == thread[t].at = "decide" /\ thread[t].intent = i

RowsInv == \A i \in Intents :
    /\ intents[i] = None <=> state[i] = "ABSENT"
    /\ intents[i] = None => approvals[i] = None
    /\ intents[i] # None =>
          /\ <<intents[i].message, intents[i].version>> \in evidence[intents[i].run]
          /\ \A j \in Intents : intents[j] # None /\ intents[j].key = intents[i].key => j = i
    /\ approvals[i] # None => approvals[i].approver \in Approvers \ {requested_by(i)}
    /\ receipts[i] # None => Approved(i)

\* What the state column says about the approval row.
StateInv == \A i \in Intents :
    /\ state[i] \in {"APPROVED", "EXECUTING", "UNKNOWN", "SUCCEEDED", "FAILED"} =>
          Approved(i) /\ \A t \in Threads : ~Decides(t, i)
    /\ state[i] = "REJECTED" => approvals[i] # None /\ \A t \in Threads : ~Decides(t, i)

\* What a thread may rely on between its own storage calls.
LocalInv(t) ==
    /\ thread[t].at # "idle" => thread[t].at = "insert" \/ thread[t].intent \in Intents
    /\ thread[t].at = "insert" =>
          /\ thread[t].draft # None
          /\ <<thread[t].draft.message, thread[t].draft.version>>
                \in evidence[thread[t].draft.run]
    /\ thread[t].at \notin {"idle", "insert"} =>
          intents[thread[t].intent] # None /\ thread[t].user \in Users
    /\ thread[t].at \in {"record", "decide"} => thread[t].outcome \in {"APPROVED", "REJECTED"}
    /\ thread[t].at = "record" =>
          thread[t].user \in Approvers \ {requested_by(thread[t].intent)}
    /\ thread[t].at = "decide" =>
          /\ approvals[thread[t].intent] # None
          /\ approvals[thread[t].intent].decision = thread[t].outcome
          /\ state[thread[t].intent] \in {"AWAITING_APPROVAL", "EXPIRED"}
    /\ thread[t].at \in {"claim"} \cup ExecutingSteps => Approved(thread[t].intent)
    /\ thread[t].at \in ExecutingSteps => state[thread[t].intent] \in {"EXECUTING", "EXPIRED"}
    /\ thread[t].at \in {"after", "save"} =>
          commands[intents[thread[t].intent].key] = RequeueBody(thread[t].intent)
    /\ thread[t].at = "settle" =>
          /\ thread[t].outcome \in {"SUCCEEDED", "FAILED", "UNKNOWN"}
          /\ thread[t].outcome = "SUCCEEDED" => receipts[thread[t].intent] # None

LocalsInv == \A t \in Threads : LocalInv(t)

\* Claim and decision exclude each other and themselves.
ExclusionInv == \A i \in Intents : \A t, x \in Threads :
    /\ Executes(t, i) /\ Executes(x, i) => t = x
    /\ Decides(t, i) /\ Decides(x, i) => t = x
    /\ ~(Executes(t, i) /\ Decides(x, i))

\* The owner's side: late POSTs are approved, a stored command is the intent's,
\* and the version it recovered does not come back.
OwnerInv ==
    /\ \A i \in late : intents[i] # None /\ Approved(i)
    /\ \A m \in Messages : deadLetteredAt[m] <= lastVersion[m]
    /\ \A k \in Keys : commands[k] # None =>
          /\ commands[k].version <= lastVersion[commands[k].message]
          /\ commands[k].version # deadLetteredAt[commands[k].message]

IInv == /\ TypeOK
        /\ RowsInv
        /\ StateInv
        /\ LocalsInv
        /\ ExclusionInv
        /\ OwnerInv
        /\ CommandsAuthorised
        /\ ReceiptsHonest
-----------------------------------------------------------------------------
(* Refinement: approvals are decisions, stored owner commands are effects. *)

AbsProposal == [i \in Intents |-> IF intents[i] = None THEN None
    ELSE [by |-> requested_by(i), target |-> <<intents[i].message, intents[i].version>>]]
AbsVerdict == [i \in Intents |-> IF approvals[i] = None THEN None
    ELSE [by |-> approvals[i].approver, decision |-> approvals[i].decision]]
AbsApplied == {i \in Intents : \E k \in Keys : commands[k] # None /\ commands[k].intent = i}
AbsConfirmed == {i \in Intents : receipts[i] # None}

Abs == INSTANCE ApprovedRecovery WITH Targets <- Messages \X Versions,
    proposal <- AbsProposal, verdict <- AbsVerdict,
    applied <- AbsApplied, confirmed <- AbsConfirmed

\* The executor implements the abstract promise: one decision per intent by
\* someone else, one effect per approved intent and event version, receipts
\* after effects only.
ImplementsApprovedRecovery == Abs!AbsSpec
=============================================================================
