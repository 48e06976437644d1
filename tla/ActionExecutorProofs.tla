------------------------ MODULE ActionExecutorProofs ------------------------
(***************************************************************************)
(* Proofs, for every set of threads, users, intents, events and keys, that *)
(* the executor keeps its inductive invariant, and what follows from it.   *)
(***************************************************************************)
EXTENDS ActionExecutor, TLAPS

(* What the thread and state updates do, so that no proof below unfolds an *)
(* EXCEPT on a thread's locals.                                            *)

\* Every thread other than t keeps its locals.
Others(t) == \A x \in Threads : x # t => thread'[x] = thread[x]

LEMMA IdleType == Idle \in Locals
BY DEF Idle, Locals, Steps, IntentState

\* Goto(t, s) moves thread t to step s and keeps its other locals.
LEMMA GotoEffect ==
    ASSUME thread \in [Threads -> Locals], NEW t \in Threads, NEW s \in Steps, Goto(t, s)
    PROVE  /\ thread' \in [Threads -> Locals]
           /\ Others(t)
           /\ thread'[t].at = s
           /\ thread'[t].intent = thread[t].intent
           /\ thread'[t].user = thread[t].user
           /\ thread'[t].outcome = thread[t].outcome
           /\ thread'[t].draft = thread[t].draft
<1>1. thread[t] \in Locals
  OBVIOUS
<1>2. thread' = [thread EXCEPT ![t] = [thread[t] EXCEPT !.at = s]]
  BY DEF Goto
<1>3. [thread[t] EXCEPT !.at = s] \in Locals
  BY <1>1 DEF Locals
<1>4. QED
  BY <1>1, <1>2, <1>3 DEF Others, Locals

\* Return(t) makes thread t idle.
LEMMA ReturnEffect ==
    ASSUME thread \in [Threads -> Locals], NEW t \in Threads, Return(t)
    PROVE  /\ thread' \in [Threads -> Locals]
           /\ Others(t)
           /\ thread'[t].at = "idle"
<1>1. thread' \in [Threads -> Locals] /\ Others(t) /\ thread'[t] = Idle
  BY IdleType DEF Return, Others
<1>2. QED
  BY <1>1 DEF Idle

\* Settle(t, s) moves thread t to step "settle" with outcome s.
LEMMA SettleEffect ==
    ASSUME thread \in [Threads -> Locals], NEW t \in Threads, NEW s \in IntentState, Settle(t, s)
    PROVE  /\ thread' \in [Threads -> Locals]
           /\ Others(t)
           /\ thread'[t].at = "settle"
           /\ thread'[t].intent = thread[t].intent
           /\ thread'[t].user = thread[t].user
           /\ thread'[t].outcome = s
<1>1. thread[t] \in Locals
  OBVIOUS
<1>2. thread' = [thread EXCEPT ![t] = [thread[t] EXCEPT !.at = "settle", !.outcome = s]]
  BY <1>1 DEF Settle
<1>3. [thread[t] EXCEPT !.at = "settle", !.outcome = s] \in Locals
  BY <1>1 DEF Locals, Steps, ExecutingSteps
<1>4. QED
  BY <1>1, <1>2, <1>3 DEF Others, Locals

\* update_intent_state(i, s) writes one row's state column.
LEMMA StateEffect ==
    ASSUME state \in [Intents -> IntentState], NEW i \in Intents, NEW s \in IntentState,
           update_intent_state(i, s)
    PROVE  /\ state' \in [Intents -> IntentState]
           /\ state'[i] = s
           /\ \A j \in Intents : j # i => state'[j] = state[j]
BY DEF update_intent_state

LEMMA InitIInv == Init => IInv
<1> SUFFICES ASSUME Init PROVE IInv
  OBVIOUS
<1> USE MaxVersionAssumption DEF Init, OwnerInit
<1>1. TypeOK
  BY IdleType DEF TypeOK, IntentState
<1>2. RowsInv /\ StateInv /\ OwnerInv /\ CommandsAuthorised /\ ReceiptsHonest
  BY DEF RowsInv, StateInv, OwnerInv, CommandsAuthorised, ReceiptsHonest, Idle, Decides
<1>3. LocalsInv /\ ExclusionInv
  BY DEF LocalsInv, LocalInv, ExclusionInv, Idle, Executes, Decides, ExecutingSteps
<1>4. QED
  BY <1>1, <1>2, <1>3 DEF IInv

(* Steps that write no row. *)

\* No row is changed once it is written, and evidence is only added.
Grows ==
    /\ \A r \in Runs : evidence[r] \subseteq evidence'[r]
    /\ \A i \in Intents : /\ intents[i] # None => intents'[i] = intents[i]
                          /\ approvals[i] # None => approvals'[i] = approvals[i]
                          /\ receipts[i] # None => receipts'[i] = receipts[i]
    /\ \A k \in Keys : commands[k] # None => commands'[k] = commands[k]

\* A thread that does not move keeps its local invariant when rows only grow and
\* the state column still allows its pending write.
LEMMA WaitingKeepsLocalInv ==
    ASSUME IInv, Grows, NEW x \in Threads, thread'[x] = thread[x],
           thread[x].at = "decide" =>
               state'[thread[x].intent] \in {"AWAITING_APPROVAL", "EXPIRED"},
           thread[x].at \in ExecutingSteps =>
               state'[thread[x].intent] \in {"EXECUTING", "EXPIRED"}
    PROVE  LocalInv(x)'
<1> DEFINE i == thread[x].intent
<1>0. /\ LocalInv(x) /\ thread[x] \in Locals
      /\ intents \in [Intents -> IntentRow \cup {None}]
      /\ approvals \in [Intents -> ApprovalRow \cup {None}]
  BY DEF IInv, LocalsInv, TypeOK
<1>1. CASE thread[x].at = "idle"
  BY <1>1 DEF LocalInv, ExecutingSteps
<1>2. CASE thread[x].at = "insert"
  <2>1. thread[x].draft \in IntentRow
    BY <1>0, <1>2 DEF LocalInv, Locals
  <2>2. QED
    BY <1>0, <1>2, <2>1 DEF LocalInv, Grows, ExecutingSteps, IntentRow
<1>3. CASE thread[x].at \notin {"idle", "insert"}
  <2>1. i \in Intents /\ intents[i] # None /\ intents'[i] = intents[i]
    BY <1>0, <1>3 DEF LocalInv, Grows
  <2>2. intents[i].key \in Keys
    BY <1>0, <2>1 DEF IntentRow
  <2>3. approvals[i] # None => approvals'[i] = approvals[i]
    BY <2>1 DEF Grows
  <2>4. receipts[i] # None => receipts'[i] # None
    BY <2>1 DEF Grows
  <2>5. Approved(i) => Approved(i)' /\ RequeueBody(i)' = RequeueBody(i)
    BY <2>1, <2>3 DEF Approved, RequeueBody
  <2>6. Approved(i) => RequeueBody(i) # None
    BY <1>0, <2>1, NoneAssumption DEF Approved, RequeueBody, Command, IntentRow, ApprovalRow
  <2>7. Approved(i) /\ commands[intents[i].key] = RequeueBody(i) =>
            commands'[intents'[i].key] = RequeueBody(i)'
    BY <2>1, <2>2, <2>5, <2>6 DEF Grows
  <2>8. requested_by(i)' = requested_by(i)
    BY <2>1 DEF requested_by
  <2>9. QED
    BY <1>0, <1>3, <2>1, <2>3, <2>4, <2>5, <2>7, <2>8 DEF LocalInv, ExecutingSteps
<1>4. QED
  BY <1>1, <1>2, <1>3

\* The parts about tables outlive a step that writes no row of them: it may touch
\* the state column, but not create or delete it, nor claim success without a
\* receipt, and it may leave approved POSTs on their way.
LEMMA RowsStay ==
    ASSUME IInv, UNCHANGED <<ownerVars, evidence, intents, approvals, receipts>>,
           \A i \in Intents : state'[i] = "ABSENT" <=> state[i] = "ABSENT",
           \A i \in Intents : state'[i] = "SUCCEEDED" => receipts[i] # None,
           \A i \in late' : intents[i] # None /\ Approved(i)
    PROVE  RowsInv' /\ OwnerInv' /\ CommandsAuthorised' /\ ReceiptsHonest'
<1> USE DEF ownerVars
<1>1. RowsInv'
  BY DEF IInv, RowsInv, requested_by, Approved
<1>2. OwnerInv'
  BY DEF IInv, OwnerInv, Approved
<1>3. CommandsAuthorised'
  BY DEF IInv, CommandsAuthorised, requested_by, Approved
<1>4. ReceiptsHonest'
  BY DEF IInv, ReceiptsHonest, RequeueBody
<1>5. QED
  BY <1>1, <1>2, <1>3, <1>4

\* A step that changes only thread t's locals (and may leave a POST on its way)
\* keeps the invariant when it keeps t's part of it and enters neither the
\* executing section nor the decision.
LEMMA MoveKeepsIInv ==
    ASSUME IInv, NEW t \in Threads, UNCHANGED <<ownerVars, hubVars>>,
           late' \subseteq Intents,
           \A i \in late' : intents[i] # None /\ Approved(i),
           thread' \in [Threads -> Locals], Others(t), LocalInv(t)',
           \A i \in Intents : /\ Executes(t, i)' => Executes(t, i)
                              /\ Decides(t, i)' => Decides(t, i)
    PROVE  IInv'
<1> USE DEF IInv, ownerVars, hubVars
<1>1. TypeOK'
  BY DEF TypeOK
<1>2. RowsInv' /\ CommandsAuthorised' /\ ReceiptsHonest' /\ OwnerInv'
  BY RowsStay DEF ReceiptsHonest
<1>3. \A x \in Threads, i \in Intents : /\ Executes(x, i)' => Executes(x, i)
                                        /\ Decides(x, i)' => Decides(x, i)
  BY DEF Others, Executes, Decides
<1>4. StateInv'
  BY <1>3 DEF StateInv, Approved
<1>5. ExclusionInv'
  BY <1>3 DEF ExclusionInv
<1>6. LocalsInv'
  <2>1. ASSUME NEW x \in Threads, x # t PROVE LocalInv(x)'
    <3>1. thread'[x] = thread[x] /\ LocalInv(x)
      BY <2>1 DEF Others, LocalsInv
    <3>2. Grows
      BY DEF Grows
    <3>3. QED
      BY <3>1, <3>2, WaitingKeepsLocalInv DEF LocalInv
  <2>2. QED
    BY <2>1 DEF LocalsInv
<1>7. QED
  BY <1>1, <1>2, <1>4, <1>5, <1>6

LEMMA ClaimKeepsIInv ==
    ASSUME IInv, NEW t \in Threads, claim_intent_execution(t) PROVE IInv'
<1> DEFINE i == thread[t].intent
<1> USE DEF ownerVars, Others
<1>0. /\ i \in Intents /\ thread[t].at = "claim" /\ intents[i] # None
      /\ thread \in [Threads -> Locals] /\ state \in [Intents -> IntentState]
      /\ UNCHANGED <<ownerVars, evidence, fresh, intents, expired, approvals, receipts, late>>
  BY DEF claim_intent_execution, IInv, LocalsInv, LocalInv, TypeOK
<1>1. CASE /\ state[i] \in {"APPROVED", "UNKNOWN"} /\ update_intent_state(i, "EXECUTING")
           /\ Goto(t, "before")
  <2> HIDE DEF i
  <2>0. /\ thread' \in [Threads -> Locals] /\ Others(t) /\ thread'[t].at = "before"
        /\ thread'[t].intent = i /\ thread'[t].user = thread[t].user
    BY <1>0, <1>1, GotoEffect DEF Steps, ExecutingSteps, i
  <2>1. /\ state' \in [Intents -> IntentState] /\ state'[i] = "EXECUTING"
        /\ \A j \in Intents : j # i => state'[j] = state[j]
    BY <1>0, <1>1, StateEffect DEF IntentState
  <2>2. TypeOK'
    BY <1>0, <2>0, <2>1 DEF TypeOK, IInv
  <2>3. RowsInv'
    BY <1>0, <2>1 DEF RowsInv, IInv, requested_by, Approved
  <2>4. StateInv'
    BY <1>0, <1>1, <2>0, <2>1 DEF StateInv, IInv, Approved, Decides
  <2>5. \A x \in Threads : ~Executes(x, i) /\ ~Decides(x, i)
    BY <1>0, <1>1 DEF IInv, StateInv, LocalsInv, LocalInv, Executes
  <2>6. LocalsInv'
    <3>1. LocalInv(t)'
      BY <1>0, <2>0, <2>1 DEF IInv, LocalsInv, LocalInv, Approved, ExecutingSteps, i
    <3>2. ASSUME NEW x \in Threads, x # t PROVE LocalInv(x)'
      <4>1. thread'[x] = thread[x] /\ LocalInv(x)
        BY <2>0, <3>2 DEF IInv, LocalsInv
      <4>2. thread[x].at \in {"decide"} \cup ExecutingSteps =>
                thread[x].intent \in Intents /\ thread[x].intent # i
        BY <2>5, <4>1 DEF LocalInv, Decides, Executes, ExecutingSteps
      <4>3. QED
        BY <1>0, <2>1, <4>1, <4>2 DEF LocalInv, Approved, requested_by, RequeueBody
    <3>3. QED
      BY <3>1, <3>2 DEF LocalsInv
  <2>10. ExclusionInv'
    BY <1>0, <2>0, <2>5 DEF ExclusionInv, IInv, Executes, Decides, ExecutingSteps
  <2>7. OwnerInv' /\ CommandsAuthorised'
    BY <1>0 DEF OwnerInv, CommandsAuthorised, Approved, requested_by, IInv
  <2>8. ReceiptsHonest'
    BY <1>0, <2>1 DEF ReceiptsHonest, RequeueBody, IInv
  <2>9. QED
    BY <2>2, <2>3, <2>4, <2>10, <2>6, <2>7, <2>8 DEF IInv
<1>2. CASE Return(t) /\ UNCHANGED state
  <2>0. thread' \in [Threads -> Locals] /\ Others(t) /\ thread'[t].at = "idle"
    BY <1>0, <1>2, ReturnEffect
  <2>1. TypeOK'
    BY <1>0, <1>2, <2>0 DEF TypeOK, IInv
  <2>2. RowsInv' /\ OwnerInv' /\ CommandsAuthorised' /\ ReceiptsHonest'
    BY <1>0, <1>2, RowsStay DEF IInv, ReceiptsHonest, OwnerInv
  <2>4. StateInv'
    BY <1>0, <1>2, <2>0 DEF StateInv, IInv, Approved, Decides
  <2>5. LocalsInv'
    BY <1>0, <1>2, <2>0 DEF LocalsInv, LocalInv, IInv, Approved, requested_by, RequeueBody, ExecutingSteps
  <2>6. ExclusionInv'
    BY <1>0, <1>2, <2>0 DEF ExclusionInv, IInv, Executes, Decides, ExecutingSteps
  <2>9. QED
    BY <2>1, <2>2, <2>4, <2>5, <2>6 DEF IInv
<1>3. QED
  BY <1>1, <1>2 DEF claim_intent_execution

(* A client's request passes its checks. *)

LEMMA CreateKeepsIInv ==
    ASSUME IInv, NEW t \in Threads, NEW r \in Runs, NEW m \in Messages, NEW v \in Versions,
           NEW k \in Keys, create_intent(t, r, m, v, k)
    PROVE  IInv'
<1> DEFINE d == [run |-> r, message |-> m, version |-> v, key |-> k]
           L == [Idle EXCEPT !.at = "insert", !.draft = d]
<1>1. L \in Locals /\ L.at = "insert" /\ L.draft = d /\ d \in IntentRow
  BY DEF Idle, Locals, Steps, IntentState, IntentRow
<1>2. thread' \in [Threads -> Locals] /\ Others(t) /\ thread'[t] = L
  BY <1>1 DEF create_intent, IInv, TypeOK, Others
<1>3. LocalInv(t)'
  BY <1>1, <1>2, NoneAssumption DEF LocalInv, create_intent, hubVars, ExecutingSteps, IntentRow
<1>4. QED
  BY <1>1, <1>2, <1>3, MoveKeepsIInv
     DEF create_intent, Executes, Decides, ExecutingSteps, IInv, TypeOK, OwnerInv

LEMMA ApproveKeepsIInv ==
    ASSUME IInv, NEW t \in Threads, NEW i \in Intents, NEW u \in Approvers,
           NEW d \in {"APPROVED", "REJECTED"}, approve_intent(t, i, u, d)
    PROVE  IInv'
<1> DEFINE L == [Idle EXCEPT !.at = "record", !.intent = i, !.user = u, !.outcome = d]
<1>1. /\ L \in Locals /\ L.at = "record" /\ L.intent = i /\ L.user = u /\ L.outcome = d
      /\ u \in Users
  BY UserAssumption DEF Idle, Locals, Steps, IntentState
<1>2. thread' \in [Threads -> Locals] /\ Others(t) /\ thread'[t] = L
  BY <1>1 DEF approve_intent, IInv, TypeOK, Others
<1>3. intents[i] # None /\ u # requested_by(i)
  BY DEF approve_intent, MayApprove, Exists, IInv, RowsInv
<1> HIDE DEF L
<1>4. LocalInv(t)'
  BY <1>1, <1>2, <1>3 DEF LocalInv, approve_intent, hubVars, ExecutingSteps, requested_by
<1>5. QED
  BY <1>1, <1>2, <1>4, MoveKeepsIInv
     DEF approve_intent, Executes, Decides, ExecutingSteps, IInv, TypeOK, OwnerInv

LEMMA ExecuteKeepsIInv ==
    ASSUME IInv, NEW t \in Threads, NEW i \in Intents, NEW u \in Executors,
           execute_intent(t, i, u)
    PROVE  IInv'
<1> DEFINE L == [Idle EXCEPT !.at = IF expired[i] THEN "expire" ELSE "claim",
                     !.intent = i, !.user = u,
                     !.wasUnknown = ~expired[i] /\ state[i] = "UNKNOWN"]
<1>1. /\ L \in Locals /\ L.intent = i /\ L.user = u /\ u \in Users
      /\ L.at = IF expired[i] THEN "expire" ELSE "claim"
  BY UserAssumption DEF Idle, Locals, Steps, IntentState
<1>2. thread' \in [Threads -> Locals] /\ Others(t) /\ thread'[t] = L
  BY <1>1 DEF execute_intent, IInv, TypeOK, Others
<1>3. intents[i] # None /\ (~expired[i] => Approved(i))
  BY DEF execute_intent, Exists, IInv, RowsInv
<1> HIDE DEF L
<1>4. LocalInv(t)'
  BY <1>1, <1>2, <1>3 DEF LocalInv, execute_intent, hubVars, ExecutingSteps, Approved
<1>5. QED
  BY <1>1, <1>2, <1>4, MoveKeepsIInv
     DEF execute_intent, Executes, Decides, ExecutingSteps, IInv, TypeOK, OwnerInv

(* A request in progress moves on without writing a row. *)

\* A request ends without writing: the key is taken, or a storage call fails.
LEMMA EndsKeepIInv ==
    ASSUME IInv, NEW t \in Threads, save_intent_conflict(t) \/ unhandled_error(t) PROVE IInv'
<1>0. thread[t].at # "idle" /\ Return(t) /\ UNCHANGED <<ownerVars, hubVars, late>>
  BY DEF save_intent_conflict, unhandled_error
<1>1. thread' \in [Threads -> Locals] /\ Others(t) /\ thread'[t].at = "idle"
  BY <1>0, ReturnEffect DEF IInv, TypeOK
<1>2. LocalInv(t)'
  BY <1>1 DEF LocalInv, ExecutingSteps
<1>3. QED
  BY <1>0, <1>1, <1>2, MoveKeepsIInv DEF Executes, Decides, ExecutingSteps, IInv, TypeOK, OwnerInv

\* The owner calls either go on to the next one or settle.
LEMMA OwnerCallKeepsIInv ==
    ASSUME IInv, NEW t \in Threads,
           thread[t].at \in ExecutingSteps,
           \/ thread[t].at = "before" /\ Goto(t, "post")
           \/ thread[t].at = "after" /\ Goto(t, "save")
           \/ \E s \in {"FAILED", "UNKNOWN"} : Settle(t, s),
           UNCHANGED <<ownerVars, hubVars>>,
           late' \subseteq late \cup {thread[t].intent}
    PROVE  IInv'
<1> DEFINE i == thread[t].intent
<1>0. /\ LocalInv(t) /\ i \in Intents /\ thread \in [Threads -> Locals]
      /\ intents[i] # None /\ Approved(i) /\ Executes(t, i)
  BY DEF IInv, LocalsInv, LocalInv, TypeOK, ExecutingSteps, Executes
<1>1. late' \subseteq Intents /\ \A j \in late' : intents[j] # None /\ Approved(j)
  BY <1>0 DEF IInv, TypeOK, OwnerInv
<1>2. ASSUME NEW s \in {"post", "save"}, Goto(t, s),
             s = "save" => thread[t].at = "after"
      PROVE  IInv'
  <2>1. /\ thread' \in [Threads -> Locals] /\ Others(t) /\ thread'[t].at = s
        /\ thread'[t].intent = i /\ thread'[t].user = thread[t].user
    BY <1>0, <1>2, GotoEffect DEF Steps, ExecutingSteps
  <2>2. LocalInv(t)'
    BY <1>0, <1>2, <2>1 DEF LocalInv, ownerVars, hubVars, ExecutingSteps, Approved, RequeueBody
  <2>3. QED
    BY <1>0, <1>1, <2>1, <2>2, MoveKeepsIInv DEF Executes, Decides, ExecutingSteps
<1>3. ASSUME NEW s \in {"FAILED", "UNKNOWN"}, Settle(t, s) PROVE IInv'
  <2>1. /\ thread' \in [Threads -> Locals] /\ Others(t) /\ thread'[t].at = "settle"
        /\ thread'[t].intent = i /\ thread'[t].user = thread[t].user /\ thread'[t].outcome = s
    BY <1>0, <1>3, SettleEffect DEF IntentState
  <2>2. LocalInv(t)'
    BY <1>0, <2>1 DEF LocalInv, ownerVars, hubVars, ExecutingSteps, Approved, RequeueBody
  <2>3. QED
    BY <1>0, <1>1, <2>1, <2>2, MoveKeepsIInv DEF Executes, Decides, ExecutingSteps
<1>4. QED
  BY <1>2, <1>3

LEMMA OwnerGetsKeepIInv ==
    ASSUME IInv, NEW t \in Threads,
           owner_get_before(t) \/ owner_get_after(t) \/ execute_error(t)
    PROVE  IInv'
<1>1. late' \subseteq late \cup {thread[t].intent} /\ UNCHANGED <<ownerVars, hubVars>>
  BY DEF owner_get_before, owner_get_after, execute_error
<1>2. CASE owner_get_before(t)
  BY <1>1, <1>2, OwnerCallKeepsIInv DEF owner_get_before, ExecutingSteps
<1>3. CASE owner_get_after(t)
  BY <1>1, <1>3, OwnerCallKeepsIInv DEF owner_get_after, ExecutingSteps
<1>4. CASE execute_error(t)
  BY <1>1, <1>4, OwnerCallKeepsIInv DEF execute_error, ExecutingSteps
<1>5. QED
  BY <1>2, <1>3, <1>4

(* Steps that write the state column. *)

\* Writing state s for intent i keeps the invariant when the approval row backs s
\* and, unless s is EXPIRED, no thread is left deciding on or executing i.
LEMMA StateWriteKeepsIInv ==
    ASSUME IInv, NEW i \in Intents, intents[i] # None,
           NEW s \in IntentState \ {"ABSENT"}, update_intent_state(i, s),
           UNCHANGED <<ownerVars, evidence, fresh, intents, expired, approvals, receipts, late>>,
           thread' \in [Threads -> Locals],
           \A x \in Threads : thread'[x] = thread[x] \/ thread'[x].at = "idle",
           s \in {"APPROVED", "EXECUTING", "UNKNOWN", "SUCCEEDED", "FAILED"} => Approved(i),
           s = "REJECTED" => approvals[i] # None,
           s = "SUCCEEDED" => receipts[i] # None,
           s # "EXPIRED" => \A x \in Threads :
               thread'[x].at \in {"decide"} \cup ExecutingSteps => thread'[x].intent # i
    PROVE  IInv'
<1> USE DEF ownerVars
<1>1. /\ state' \in [Intents -> IntentState] /\ state'[i] = s
      /\ \A j \in Intents : j # i => state'[j] = state[j]
  BY StateEffect DEF IInv, TypeOK
<1>2. TypeOK'
  BY <1>1 DEF TypeOK, IInv
<1>3. RowsInv' /\ OwnerInv' /\ CommandsAuthorised' /\ ReceiptsHonest'
  <2>1. \A j \in Intents : state'[j] = "ABSENT" <=> state[j] = "ABSENT"
    BY <1>1 DEF IInv, RowsInv
  <2>2. \A j \in Intents : state'[j] = "SUCCEEDED" => receipts[j] # None
    BY <1>1 DEF IInv, ReceiptsHonest
  <2>3. \A j \in late' : intents[j] # None /\ Approved(j)
    BY DEF IInv, OwnerInv
  <2>4. QED
    BY <2>1, <2>2, <2>3, RowsStay
<1>4. \A x \in Threads, j \in Intents : /\ Executes(x, j)' => Executes(x, j)
                                        /\ Decides(x, j)' => Decides(x, j)
  BY DEF Executes, Decides, ExecutingSteps
<1>5. s # "EXPIRED" => \A x \in Threads : ~Decides(x, i)' /\ ~Executes(x, i)'
  BY DEF Executes, Decides
<1>6. StateInv'
  BY <1>1, <1>4, <1>5 DEF IInv, StateInv, Approved
<1>7. ExclusionInv'
  BY <1>4 DEF IInv, ExclusionInv
<1>8. LocalsInv'
  <2> SUFFICES ASSUME NEW x \in Threads PROVE LocalInv(x)'
    BY DEF LocalsInv
  <2>1. CASE thread'[x].at = "idle"
    BY <2>1 DEF LocalInv, ExecutingSteps
  <2>2. CASE thread'[x].at # "idle"
    <3>1. thread'[x] = thread[x] /\ LocalInv(x) /\ Grows
      BY <2>2 DEF Grows, IInv, LocalsInv
    <3>2. thread[x].at \in {"decide"} \cup ExecutingSteps => thread[x].intent \in Intents
      BY <3>1 DEF LocalInv, ExecutingSteps
    <3>3. QED
      BY <1>1, <3>1, <3>2, WaitingKeepsLocalInv DEF LocalInv
  <2>3. QED
    BY <2>1, <2>2
<1>9. QED
  BY <1>2, <1>3, <1>6, <1>7, <1>8 DEF IInv

LEMMA DecidedKeepsIInv ==
    ASSUME IInv, NEW t \in Threads, approve_intent_decided(t) PROVE IInv'
<1> DEFINE i == thread[t].intent
<1>1. /\ LocalInv(t) /\ thread[t].at = "decide" /\ i \in Intents /\ intents[i] # None
      /\ thread \in [Threads -> Locals] /\ Decides(t, i)
  BY DEF approve_intent_decided, IInv, LocalsInv, LocalInv, TypeOK, Decides
<1>2. thread' \in [Threads -> Locals] /\ Others(t) /\ thread'[t].at = "idle"
  BY <1>1, ReturnEffect DEF approve_intent_decided
<1>3. \A x \in Threads : x # t => ~Decides(x, i) /\ ~Executes(x, i)
  BY <1>1 DEF IInv, ExclusionInv
<1>4. \A x \in Threads : thread'[x].at \in {"decide"} \cup ExecutingSteps => thread'[x].intent # i
  BY <1>2, <1>3 DEF Others, Executes, Decides, ExecutingSteps
<1>5. /\ approvals[i] # None /\ thread[t].outcome \in {"APPROVED", "REJECTED"}
      /\ thread[t].outcome = "APPROVED" => Approved(i)
  BY <1>1 DEF LocalInv, Approved
<1>6. QED
  BY <1>1, <1>2, <1>4, <1>5, StateWriteKeepsIInv DEF approve_intent_decided, Others, IntentState

LEMMA ExpiredKeepsIInv ==
    ASSUME IInv, \/ \E i \in Intents, u \in Approvers : approve_intent_expired(i, u)
                 \/ \E t \in Threads : execute_intent_expired(t)
    PROVE  IInv'
<1>1. ASSUME NEW i \in Intents, NEW u \in Approvers, approve_intent_expired(i, u) PROVE IInv'
  <2>1. intents[i] # None /\ thread' \in [Threads -> Locals]
    BY <1>1 DEF approve_intent_expired, MayApprove, Exists, IInv, RowsInv, TypeOK
  <2>2. QED
    BY <1>1, <2>1, StateWriteKeepsIInv DEF approve_intent_expired, IntentState
<1>2. ASSUME NEW t \in Threads, execute_intent_expired(t) PROVE IInv'
  <2>1. /\ thread[t].intent \in Intents /\ intents[thread[t].intent] # None
        /\ thread \in [Threads -> Locals]
    BY <1>2 DEF execute_intent_expired, IInv, LocalsInv, LocalInv, TypeOK
  <2>2. thread' \in [Threads -> Locals] /\ Others(t) /\ thread'[t].at = "idle"
    BY <1>2, <2>1, ReturnEffect DEF execute_intent_expired
  <2>3. QED
    BY <1>2, <2>1, <2>2, StateWriteKeepsIInv DEF execute_intent_expired, Others, IntentState
<1>3. QED
  BY <1>1, <1>2

LEMMA SettledKeepsIInv ==
    ASSUME IInv, NEW t \in Threads, execute_intent_settled(t) PROVE IInv'
<1> DEFINE i == thread[t].intent
<1>1. /\ LocalInv(t) /\ thread[t].at = "settle" /\ i \in Intents /\ intents[i] # None
      /\ thread \in [Threads -> Locals] /\ Executes(t, i)
  BY DEF execute_intent_settled, IInv, LocalsInv, LocalInv, TypeOK, Executes, ExecutingSteps
<1>2. thread' \in [Threads -> Locals] /\ Others(t) /\ thread'[t].at = "idle"
  BY <1>1, ReturnEffect DEF execute_intent_settled
<1>3. \A x \in Threads : x # t => ~Decides(x, i) /\ ~Executes(x, i)
  BY <1>1 DEF IInv, ExclusionInv
<1>4. \A x \in Threads : thread'[x].at \in {"decide"} \cup ExecutingSteps => thread'[x].intent # i
  BY <1>2, <1>3 DEF Others, Executes, Decides, ExecutingSteps
<1>5. /\ thread[t].outcome \in {"SUCCEEDED", "FAILED", "UNKNOWN"} /\ Approved(i)
      /\ thread[t].outcome = "SUCCEEDED" => receipts[i] # None
  BY <1>1 DEF LocalInv, ExecutingSteps
<1>6. QED
  BY <1>1, <1>2, <1>4, <1>5, StateWriteKeepsIInv DEF execute_intent_settled, Others, IntentState

(* Steps that insert a row. *)

\* All threads but t are where they were, rows grow, the state column is safe
\* for them: their local invariants hold again.
LEMMA OthersKeepLocalInv ==
    ASSUME IInv, Grows, NEW t \in Threads, Others(t),
           \A x \in Threads : x # t =>
               /\ thread[x].at = "decide" =>
                     state'[thread[x].intent] \in {"AWAITING_APPROVAL", "EXPIRED"}
               /\ thread[x].at \in ExecutingSteps =>
                     state'[thread[x].intent] \in {"EXECUTING", "EXPIRED"},
           LocalInv(t)'
    PROVE  LocalsInv'
<1>1. ASSUME NEW x \in Threads, x # t PROVE LocalInv(x)'
  BY <1>1, WaitingKeepsLocalInv DEF Others
<1>2. QED
  BY <1>1 DEF LocalsInv

LEMMA StoredCommand ==
    ASSUME IInv, NEW k \in Keys, commands[k] # None
    PROVE  /\ commands[k] \in Command /\ commands[k].intent \in Intents
           /\ commands[k].message \in Messages /\ commands[k].version \in Versions
           /\ intents[commands[k].intent] # None /\ approvals[commands[k].intent] # None
<1>1. commands[k] \in Command
  BY DEF IInv, TypeOK
<1>2. QED
  BY <1>1 DEF IInv, CommandsAuthorised, Command, Approved

LEMMA SaveIntentKeepsIInv ==
    ASSUME IInv, NEW t \in Threads, NEW i \in Intents, save_intent(t, i) PROVE IInv'
<1> DEFINE d == thread[t].draft
<1> USE DEF ownerVars
<1>0. /\ thread[t].at = "insert" /\ d \in IntentRow /\ d # None
      /\ <<d.message, d.version>> \in evidence[d.run]
      /\ intents[i] = None /\ approvals[i] = None /\ receipts[i] = None /\ state[i] = "ABSENT"
      /\ thread \in [Threads -> Locals] /\ intents \in [Intents -> IntentRow \cup {None}]
  <2>1. thread \in [Threads -> Locals] /\ intents \in [Intents -> IntentRow \cup {None}]
    BY DEF IInv, TypeOK
  <2>2. /\ thread[t].at = "insert" /\ d # None
        /\ <<d.message, d.version>> \in evidence[d.run]
    BY DEF save_intent, IInv, LocalsInv, LocalInv
  <2>3. d \in IntentRow
    BY <2>1, <2>2 DEF Locals
  <2>4. intents[i] = None /\ approvals[i] = None /\ receipts[i] = None /\ state[i] = "ABSENT"
    BY DEF save_intent, Exists, IInv, RowsInv, Approved
  <2>5. QED
    BY <2>1, <2>2, <2>3, <2>4
<1>1. thread' \in [Threads -> Locals] /\ Others(t) /\ thread'[t].at = "idle"
  BY <1>0, ReturnEffect DEF save_intent
<1>2. /\ state' \in [Intents -> IntentState] /\ state'[i] = "AWAITING_APPROVAL"
      /\ \A j \in Intents : j # i => state'[j] = state[j]
  BY StateEffect DEF save_intent, IInv, TypeOK, IntentState
<1>3. /\ intents' \in [Intents -> IntentRow \cup {None}] /\ intents'[i] = d
      /\ \A j \in Intents : j # i => intents'[j] = intents[j]
      /\ UNCHANGED <<ownerVars, evidence, fresh, expired, approvals, receipts, late>>
  BY <1>0 DEF save_intent
<1>4. \A j \in Intents : intents[j] # None => intents[j].key # d.key
  BY DEF save_intent, KeyTaken
<1> HIDE DEF d
<1>5. TypeOK'
  BY <1>1, <1>2, <1>3 DEF TypeOK, IInv
<1>6. RowsInv'
  BY <1>0, <1>2, <1>3, <1>4 DEF IInv, RowsInv, requested_by, Approved
<1>7. Grows
  BY <1>0, <1>3 DEF Grows
<1>8. \A x \in Threads : thread[x].at \in {"decide"} \cup ExecutingSteps =>
          thread[x].intent \in Intents /\ thread[x].intent # i
  BY <1>0 DEF IInv, LocalsInv, LocalInv, ExecutingSteps
<1>9. LocalInv(t)'
  BY <1>1 DEF LocalInv, ExecutingSteps
<1>10. LocalsInv'
  <2>1. \A x \in Threads : thread[x].at = "decide" \/ thread[x].at \in ExecutingSteps =>
            state'[thread[x].intent] = state[thread[x].intent]
    BY <1>2, <1>8
  <2>2. QED
    BY <1>1, <1>7, <1>9, <2>1, OthersKeepLocalInv DEF IInv, LocalsInv, LocalInv
<1>11. \A x \in Threads, j \in Intents : /\ Executes(x, j)' => Executes(x, j)
                                         /\ Decides(x, j)' => Decides(x, j)
  BY <1>1 DEF Others, Executes, Decides, ExecutingSteps
<1>12. StateInv' /\ ExclusionInv'
  BY <1>2, <1>3, <1>11 DEF IInv, StateInv, ExclusionInv, Approved
<1>13. \A j \in Intents : j # i => /\ requested_by(j)' = requested_by(j)
                                   /\ RequeueBody(j)' = RequeueBody(j)
  BY <1>3 DEF requested_by, RequeueBody
<1>14. OwnerInv' /\ ReceiptsHonest'
  <2>1. i \notin late /\ late \subseteq Intents
    BY <1>0 DEF IInv, OwnerInv, TypeOK
  <2>2. OwnerInv'
    BY <1>3, <2>1 DEF IInv, OwnerInv, Approved
  <2>3. ReceiptsHonest'
    BY <1>0, <1>2, <1>3, <1>13 DEF IInv, ReceiptsHonest
  <2>4. QED
    BY <2>2, <2>3
<1>15. CommandsAuthorised'
  <2>1. \A k \in Keys : commands[k] # None =>
            commands[k].intent \in Intents /\ commands[k].intent # i
    BY <1>0, StoredCommand
  <2>2. QED
    BY <1>3, <1>13, <2>1 DEF IInv, CommandsAuthorised, Approved
<1>16. QED
  BY <1>5, <1>6, <1>10, <1>12, <1>14, <1>15 DEF IInv

LEMMA RecordApprovalKeepsIInv ==
    ASSUME IInv, NEW t \in Threads, record_action_approval(t) PROVE IInv'
<1> DEFINE i == thread[t].intent
           row == [decision |-> thread[t].outcome, approver |-> thread[t].user]
<1> USE DEF ownerVars
<1>0. /\ thread[t].at = "record" /\ i \in Intents /\ intents[i] # None
      /\ thread[t].outcome \in {"APPROVED", "REJECTED"}
      /\ thread[t].user \in Approvers \ {requested_by(i)} /\ thread[t].user \in Users
      /\ thread \in [Threads -> Locals]
      /\ approvals \in [Intents -> ApprovalRow \cup {None}]
      /\ UNCHANGED <<ownerVars, evidence, fresh, intents, state, expired, receipts, late>>
  BY DEF record_action_approval, IInv, LocalsInv, LocalInv, TypeOK
<1>1. CASE approvals[i] # None
  <2>1. Return(t) /\ UNCHANGED approvals
    BY <1>1 DEF record_action_approval
  <2>2. thread' \in [Threads -> Locals] /\ Others(t) /\ thread'[t].at = "idle"
    BY <1>0, <2>1, ReturnEffect
  <2>3. LocalInv(t)'
    BY <2>2 DEF LocalInv, ExecutingSteps
  <2>4. QED
    BY <1>0, <2>1, <2>2, <2>3, MoveKeepsIInv
       DEF hubVars, Executes, Decides, ExecutingSteps, IInv, TypeOK, OwnerInv
<1>2. CASE approvals[i] = None
  <2>1. Goto(t, "decide") /\ approvals' = [approvals EXCEPT ![i] = row]
    BY <1>2 DEF record_action_approval
  <2>2. /\ thread' \in [Threads -> Locals] /\ Others(t) /\ thread'[t].at = "decide"
        /\ thread'[t].intent = i /\ thread'[t].user = thread[t].user
        /\ thread'[t].outcome = thread[t].outcome
    BY <1>0, <2>1, GotoEffect DEF Steps
  <2>3. /\ row \in ApprovalRow /\ row # None
        /\ approvals' \in [Intents -> ApprovalRow \cup {None}] /\ approvals'[i] = row
        /\ \A j \in Intents : j # i => approvals'[j] = approvals[j]
    BY <1>0, <2>1, NoneAssumption DEF ApprovalRow
  <2>4. row.decision = thread[t].outcome /\ row.approver = thread[t].user
    OBVIOUS
  <2>5. /\ state[i] \in {"AWAITING_APPROVAL", "EXPIRED"} /\ receipts[i] = None /\ i \notin late
        /\ \A x \in Threads : ~Executes(x, i) /\ ~Decides(x, i)
    BY <1>0, <1>2 DEF IInv, StateInv, RowsInv, LocalsInv, LocalInv, OwnerInv, Approved, Executes,
                      Decides, TypeOK, IntentState
  <2> HIDE DEF i, row
  <2>6. TypeOK'
    BY <1>0, <2>2, <2>3 DEF TypeOK, IInv
  <2>7. RowsInv'
    BY <1>0, <1>2, <2>3, <2>4, <2>5 DEF IInv, RowsInv, requested_by, Approved
  <2>8. StateInv'
    <3>1. \A x \in Threads, j \in Intents : j # i => (Decides(x, j)' => Decides(x, j))
      BY <2>2 DEF Others, Decides
    <3>2. QED
      BY <1>0, <2>3, <2>5, <3>1 DEF IInv, StateInv, Approved
  <2>9. ExclusionInv'
    BY <2>2, <2>5 DEF IInv, ExclusionInv, Others, Executes, Decides, ExecutingSteps
  <2>10. Grows
    BY <1>0, <1>2, <2>3 DEF Grows
  <2>11. LocalInv(t)'
    BY <1>0, <2>2, <2>3, <2>4, <2>5 DEF LocalInv, ExecutingSteps
  <2>12. LocalsInv'
    BY <1>0, <2>2, <2>10, <2>11, OthersKeepLocalInv DEF IInv, LocalsInv, LocalInv
  <2>13. \A j \in Intents : j # i => RequeueBody(j)' = RequeueBody(j) /\ Approved(j)' = Approved(j)
    BY <1>0, <2>3 DEF RequeueBody, Approved
  <2>14. OwnerInv' /\ ReceiptsHonest'
    <3>1. late \subseteq Intents
      BY DEF IInv, TypeOK
    <3>2. OwnerInv'
      BY <1>0, <2>5, <2>13, <3>1 DEF IInv, OwnerInv
    <3>3. ReceiptsHonest'
      BY <1>0, <2>3, <2>5, <2>13 DEF IInv, ReceiptsHonest
    <3>4. QED
      BY <3>2, <3>3
  <2>15. CommandsAuthorised'
    <3>1. \A k \in Keys : commands[k] # None => commands[k].intent \in Intents /\ commands[k].intent # i
      BY <1>2, StoredCommand
    <3>2. \A j \in Intents : j # i => /\ intents'[j] = intents[j]
                                     /\ approvals'[j] = approvals[j]
                                     /\ requested_by(j)' = requested_by(j)
      BY <1>0, <2>3, <2>5 DEF requested_by
    <3>3. UNCHANGED <<commands, evidence>>
      BY <1>0
    <3>4. QED
      BY <2>13, <3>1, <3>2, <3>3 DEF IInv, CommandsAuthorised
  <2>16. QED
    BY <2>6, <2>7, <2>8, <2>9, <2>12, <2>14, <2>15 DEF IInv
<1>3. QED
  BY <1>1, <1>2

LEMMA SaveReceiptKeepsIInv ==
    ASSUME IInv, NEW t \in Threads, save_execution_receipt(t) PROVE IInv'
<1> DEFINE i == thread[t].intent
           row == [executedBy |-> thread[t].user, approvedBy |-> approvals[i].approver]
           s == IF receipts[i] = None THEN "SUCCEEDED" ELSE "UNKNOWN"
<1> USE DEF ownerVars
<1>0. /\ thread[t].at = "save" /\ i \in Intents /\ intents[i] # None /\ Approved(i)
      /\ thread[t].user \in Users /\ Executes(t, i)
      /\ commands[intents[i].key] = RequeueBody(i)
      /\ state[i] \in {"EXECUTING", "EXPIRED"}
      /\ thread \in [Threads -> Locals]
      /\ receipts \in [Intents -> ReceiptRow \cup {None}]
      /\ approvals \in [Intents -> ApprovalRow \cup {None}]
      /\ UNCHANGED <<ownerVars, evidence, fresh, intents, state, expired, approvals, late>>
  BY DEF save_execution_receipt, IInv, LocalsInv, LocalInv, TypeOK, ExecutingSteps, Executes
<1>1. /\ thread' \in [Threads -> Locals] /\ Others(t) /\ thread'[t].at = "settle"
      /\ thread'[t].intent = i /\ thread'[t].user = thread[t].user /\ thread'[t].outcome = s
  BY <1>0, SettleEffect DEF save_execution_receipt, IntentState
<1>2. row \in ReceiptRow /\ row # None /\ row.approvedBy = approvals[i].approver
  BY <1>0, NoneAssumption DEF ReceiptRow, ApprovalRow, Approved
<1>3. /\ receipts' \in [Intents -> ReceiptRow \cup {None}]
      /\ receipts[i] = None => receipts'[i] = row
      /\ receipts[i] # None => receipts'[i] = receipts[i]
      /\ \A j \in Intents : j # i => receipts'[j] = receipts[j]
  BY <1>0, <1>2 DEF save_execution_receipt
<1>4. receipts'[i] # None /\ s \in {"SUCCEEDED", "UNKNOWN"}
  BY <1>2, <1>3
<1> HIDE DEF i, row, s
<1>5. TypeOK'
  BY <1>0, <1>1, <1>3 DEF TypeOK, IInv
<1>6. RowsInv'
  BY <1>0, <1>3 DEF IInv, RowsInv, requested_by, Approved
<1>7. \A x \in Threads, j \in Intents : /\ Executes(x, j)' => Executes(x, j)
                                        /\ Decides(x, j)' => Decides(x, j)
  BY <1>0, <1>1 DEF Others, Executes, Decides, ExecutingSteps
<1>8. StateInv' /\ ExclusionInv'
  BY <1>0, <1>7 DEF IInv, StateInv, ExclusionInv, Approved
<1>9. Grows
  BY <1>0, <1>3 DEF Grows
<1>10. LocalInv(t)'
  BY <1>0, <1>1, <1>4 DEF LocalInv, ExecutingSteps, Approved
<1>11. LocalsInv'
  BY <1>0, <1>1, <1>9, <1>10, OthersKeepLocalInv DEF IInv, LocalsInv, LocalInv
<1>12. OwnerInv' /\ CommandsAuthorised'
  BY <1>0 DEF IInv, OwnerInv, CommandsAuthorised, Approved, requested_by
<1>13. ReceiptsHonest'
  BY <1>0, <1>2, <1>3, <1>4 DEF IInv, ReceiptsHonest, RequeueBody
<1>14. QED
  BY <1>5, <1>6, <1>8, <1>11, <1>12, <1>13 DEF IInv

(* Steps of the owner, the network and the clock. *)

LEMMA BodyType ==
    ASSUME IInv, NEW i \in Intents, intents[i] # None, Approved(i)
    PROVE  /\ RequeueBody(i) \in Command /\ RequeueBody(i) # None
           /\ RequeueBody(i).intent = i /\ RequeueBody(i).message = intents[i].message
           /\ RequeueBody(i).version = intents[i].version
           /\ RequeueBody(i).approver = approvals[i].approver
           /\ intents[i].message \in Messages /\ intents[i].version \in Versions
           /\ intents[i].key \in Keys
<1>1. intents[i] \in IntentRow /\ approvals[i] \in ApprovalRow
  BY DEF IInv, TypeOK, Approved
<1>2. QED
  BY <1>1, NoneAssumption DEF RequeueBody, Command, IntentRow, ApprovalRow

\* The owner's transaction for the POST of an approved intent keeps every part of
\* the invariant that does not speak of the threads' own steps.
LEMMA RequeueKeepsTables ==
    ASSUME IInv, NEW i \in Intents, intents[i] # None, Approved(i),
           Requeue(intents[i].key, RequeueBody(i)), UNCHANGED hubVars,
           late' \subseteq late, thread' \in [Threads -> Locals]
    PROVE  /\ TypeOK' /\ RowsInv' /\ OwnerInv' /\ CommandsAuthorised' /\ ReceiptsHonest' /\ Grows
           /\ RequeueStatus(intents[i].key, RequeueBody(i)) # "conflict" =>
                  commands'[intents[i].key] = RequeueBody(i)
<1> DEFINE k == intents[i].key
           c == RequeueBody(i)
           m == intents[i].message
<1> USE DEF hubVars
<1>0. /\ k \in Keys /\ m \in Messages /\ c \in Command /\ c # None /\ c.message = m
      /\ c.version = intents[i].version /\ c.intent = i /\ c.approver = approvals[i].approver
      /\ intents[i].version \in Versions
  BY BodyType
<1>1. /\ commands \in [Keys -> Command \cup {None}]
      /\ deadLetteredAt \in [Messages -> 0 .. MaxVersion]
      /\ lastVersion \in [Messages -> 0 .. MaxVersion]
  BY DEF IInv, TypeOK
<1>2. CASE RequeueStatus(k, c) = "requeued"
  <2>1. commands[k] = None /\ deadLetteredAt[m] = intents[i].version
    BY <1>0, <1>2 DEF RequeueStatus
  <2>2. /\ commands' = [commands EXCEPT ![k] = c]
        /\ deadLetteredAt' = [deadLetteredAt EXCEPT ![m] = 0] /\ lastVersion' = lastVersion
    BY <1>0, <1>2 DEF Requeue
  <2>3. /\ commands' \in [Keys -> Command \cup {None}] /\ commands'[k] = c
        /\ \A x \in Keys : x # k => commands'[x] = commands[x]
        /\ deadLetteredAt' \in [Messages -> 0 .. MaxVersion] /\ deadLetteredAt'[m] = 0
        /\ \A x \in Messages : x # m => deadLetteredAt'[x] = deadLetteredAt[x]
    BY <1>0, <1>1, <2>2, MaxVersionAssumption
  <2> HIDE DEF k, c, m
  <2>4. TypeOK'
    BY <2>2, <2>3 DEF IInv, TypeOK
  <2>5. RowsInv'
    BY DEF IInv, RowsInv, requested_by, Approved
  <2>6. Grows
    BY <2>1, <2>3 DEF Grows
  <2>7. OwnerInv'
    <3>1. \A j \in late' : intents'[j] # None /\ Approved(j)'
      BY DEF IInv, OwnerInv, Approved
    <3>2. \A x \in Messages : deadLetteredAt'[x] <= lastVersion'[x]
      <4>1. lastVersion[m] >= 0
        BY <1>0, <1>1
      <4>2. QED
        BY <2>2, <2>3, <4>1 DEF IInv, OwnerInv
    <3>3. ASSUME NEW x \in Keys, commands'[x] # None
          PROVE  /\ commands'[x].version <= lastVersion'[commands'[x].message]
                 /\ commands'[x].version # deadLetteredAt'[commands'[x].message]
      <4>1. CASE x = k
        <5>1. intents[i].version <= lastVersion[m]
          BY <1>0, <2>1 DEF IInv, OwnerInv
        <5>2. intents[i].version # 0
          BY <1>0, MaxVersionAssumption DEF Versions
        <5>3. QED
          BY <1>0, <2>2, <2>3, <4>1, <5>1, <5>2
      <4>2. CASE x # k
        <5>1. commands'[x] = commands[x] /\ commands[x].message \in Messages
              /\ commands[x].version \in Versions
          BY <2>3, <3>3, <4>2, StoredCommand
        <5>2. commands[x].version # 0
          BY <5>1, MaxVersionAssumption DEF Versions
        <5>3. QED
          BY <2>2, <2>3, <3>3, <5>1, <5>2 DEF IInv, OwnerInv
      <4>3. QED
        BY <4>1, <4>2
    <3>4. QED
      BY <3>1, <3>2, <3>3 DEF OwnerInv
  <2>8. CommandsAuthorised'
    <3> SUFFICES ASSUME NEW x \in Keys, commands'[x] # None
                 PROVE  LET j == commands'[x].intent
                        IN  /\ intents[j] # None
                            /\ intents[j].key = x
                            /\ <<commands'[x].message, commands'[x].version>>
                                  \in evidence[intents[j].run]
                            /\ commands'[x].message = intents[j].message
                            /\ commands'[x].version = intents[j].version
                            /\ Approved(j)
                            /\ approvals[j].approver \in Approvers \ {requested_by(j)}
                            /\ commands'[x].approver = approvals[j].approver
      BY DEF CommandsAuthorised, Approved, requested_by
    <3>1. CASE x = k
      <4>1. /\ <<m, intents[i].version>> \in evidence[intents[i].run]
            /\ approvals[i].approver \in Approvers \ {requested_by(i)}
        BY DEF IInv, RowsInv, Approved, m
      <4>2. QED
        BY <1>0, <2>3, <3>1, <4>1 DEF k, m
    <3>2. CASE x # k
      BY <2>3, <3>2 DEF IInv, CommandsAuthorised
    <3>3. QED
      BY <3>1, <3>2
  <2>9. ReceiptsHonest'
    <3>1. \A j \in Intents : RequeueBody(j)' = RequeueBody(j)
      BY DEF RequeueBody
    <3>2. ASSUME NEW j \in Intents, receipts[j] # None
          PROVE  commands'[intents[j].key] = RequeueBody(j)
      <4>1. intents[j] # None /\ Approved(j) /\ commands[intents[j].key] = RequeueBody(j)
        BY <3>2 DEF IInv, RowsInv, ReceiptsHonest, Approved
      <4>2. intents[j].key \in Keys /\ commands[intents[j].key] # None
        BY <4>1, BodyType
      <4>3. QED
        BY <2>1, <2>3, <4>1, <4>2
    <3>3. QED
      BY <3>1, <3>2 DEF IInv, ReceiptsHonest
  <2>10. QED
    BY <2>3, <2>4, <2>5, <2>6, <2>7, <2>8, <2>9 DEF k, c
<1>3. CASE RequeueStatus(k, c) # "requeued"
  <2>1. UNCHANGED ownerVars
    BY <1>3 DEF Requeue, ownerVars
  <2>2. RequeueStatus(k, c) # "conflict" => commands[k] = c
    BY <1>3 DEF RequeueStatus
  <2> HIDE DEF k, c, m
  <2> USE DEF ownerVars
  <2>3. TypeOK'
    BY <2>1 DEF IInv, TypeOK
  <2>4. RowsInv' /\ CommandsAuthorised' /\ ReceiptsHonest' /\ Grows
    <3>1. RowsInv'
      BY <2>1 DEF IInv, RowsInv, requested_by, Approved
    <3>2. CommandsAuthorised'
      BY <2>1 DEF IInv, CommandsAuthorised, requested_by, Approved
    <3>3. ReceiptsHonest'
      BY <2>1 DEF IInv, ReceiptsHonest, RequeueBody
    <3>4. QED
      BY <2>1, <3>1, <3>2, <3>3 DEF Grows
  <2>5. OwnerInv'
    BY <2>1 DEF IInv, OwnerInv, Approved
  <2>6. QED
    BY <2>1, <2>2, <2>3, <2>4, <2>5 DEF k, c
<1>4. QED
  BY <1>2, <1>3

LEMMA PostKeepsIInv ==
    ASSUME IInv, NEW t \in Threads, requeue_post(t) PROVE IInv'
<1> DEFINE i == thread[t].intent
<1>0. /\ thread[t].at = "post" /\ LocalInv(t) /\ i \in Intents /\ intents[i] # None
      /\ Approved(i) /\ Executes(t, i) /\ thread \in [Threads -> Locals]
      /\ Requeue(intents[i].key, RequeueBody(i)) /\ UNCHANGED <<hubVars, late>>
  BY DEF requeue_post, IInv, LocalsInv, LocalInv, TypeOK, ExecutingSteps, Executes
<1>1. /\ thread' \in [Threads -> Locals] /\ Others(t)
      /\ thread'[t].intent = i /\ thread'[t].user = thread[t].user
      /\ \/ thread'[t].at = "settle" /\ thread'[t].outcome = "FAILED"
         \/ thread'[t].at = "after" /\ RequeueStatus(intents[i].key, RequeueBody(i)) # "conflict"
  BY <1>0, GotoEffect, SettleEffect DEF requeue_post, Steps, ExecutingSteps, IntentState
<1>2. /\ TypeOK' /\ RowsInv' /\ OwnerInv' /\ CommandsAuthorised' /\ ReceiptsHonest' /\ Grows
      /\ thread'[t].at = "after" => commands'[intents[i].key] = RequeueBody(i)
  BY <1>0, <1>1, RequeueKeepsTables
<1>3. LocalInv(t)'
  BY <1>0, <1>1, <1>2 DEF LocalInv, ExecutingSteps, hubVars, Approved, RequeueBody
<1>4. LocalsInv'
  BY <1>0, <1>1, <1>2, <1>3, OthersKeepLocalInv DEF IInv, LocalsInv, LocalInv, hubVars
<1>5. \A x \in Threads, j \in Intents : /\ Executes(x, j)' => Executes(x, j)
                                        /\ Decides(x, j)' => Decides(x, j)
  BY <1>0, <1>1 DEF Others, Executes, Decides, ExecutingSteps
<1>6. StateInv' /\ ExclusionInv'
  BY <1>0, <1>5 DEF IInv, StateInv, ExclusionInv, Approved, hubVars
<1>7. QED
  BY <1>2, <1>4, <1>6 DEF IInv

\* When no thread moves and the state column stays, the threads' parts of the
\* invariant are kept.
LEMMA QuietThreads ==
    ASSUME IInv, Grows, UNCHANGED <<thread, state, intents, approvals>>
    PROVE  LocalsInv' /\ StateInv' /\ ExclusionInv'
<1>1. LocalsInv'
  <2> SUFFICES ASSUME NEW x \in Threads PROVE LocalInv(x)'
    BY DEF LocalsInv
  <2>1. LocalInv(x)
    BY DEF IInv, LocalsInv
  <2>2. QED
    BY <2>1, WaitingKeepsLocalInv DEF LocalInv
<1>2. StateInv' /\ ExclusionInv'
  BY DEF IInv, StateInv, ExclusionInv, Approved, Executes, Decides
<1>3. QED
  BY <1>1, <1>2

LEMMA LatePostKeepsIInv ==
    ASSUME IInv, NEW i \in Intents, LatePost(i) PROVE IInv'
<1>1. /\ intents[i] # None /\ Approved(i) /\ late' \subseteq late
      /\ Requeue(intents[i].key, RequeueBody(i)) /\ UNCHANGED hubVars
      /\ thread' \in [Threads -> Locals] /\ UNCHANGED thread
  BY DEF LatePost, IInv, OwnerInv, TypeOK
<1>2. TypeOK' /\ RowsInv' /\ OwnerInv' /\ CommandsAuthorised' /\ ReceiptsHonest' /\ Grows
  BY <1>1, RequeueKeepsTables
<1>3. QED
  BY <1>1, <1>2, QuietThreads DEF IInv, hubVars

LEMMA DeadLetterKeepsIInv ==
    ASSUME IInv, NEW m \in Messages, OwnerDeadLetters(m) PROVE IInv'
<1> DEFINE v == lastVersion[m] + 1
<1> USE DEF hubVars
<1>1. /\ deadLetteredAt \in [Messages -> 0 .. MaxVersion]
      /\ lastVersion \in [Messages -> 0 .. MaxVersion] /\ lastVersion[m] < MaxVersion
      /\ UNCHANGED <<commands, hubVars, late, thread>>
  BY DEF OwnerDeadLetters, DeadLetter, IInv, TypeOK
<1>2. /\ lastVersion' = [lastVersion EXCEPT ![m] = v]
      /\ deadLetteredAt' = [deadLetteredAt EXCEPT ![m] = v]
  BY DEF OwnerDeadLetters, DeadLetter
<1>3. v \in 0 .. MaxVersion
  BY <1>1, MaxVersionAssumption
<1>4. TypeOK'
  BY <1>1, <1>2, <1>3 DEF IInv, TypeOK
<1>5. RowsInv' /\ CommandsAuthorised' /\ ReceiptsHonest' /\ Grows
  <2>1. RowsInv'
    BY <1>1 DEF IInv, RowsInv, requested_by, Approved
  <2>2. CommandsAuthorised'
    BY <1>1 DEF IInv, CommandsAuthorised, requested_by, Approved
  <2>3. ReceiptsHonest'
    BY <1>1 DEF IInv, ReceiptsHonest, RequeueBody
  <2>4. QED
    BY <1>1, <2>1, <2>2, <2>3 DEF Grows
<1>6. OwnerInv'
  <2>1. \A k \in Keys : commands[k] # None =>
            commands[k].message \in Messages /\ commands[k].version \in Nat
    BY StoredCommand, MaxVersionAssumption DEF Versions
  <2>2. \A x \in Messages : lastVersion[x] \in Nat /\ deadLetteredAt[x] \in Nat
    BY <1>1, MaxVersionAssumption
  <2>3. \A i \in late' : intents'[i] # None /\ Approved(i)'
    BY <1>1 DEF IInv, OwnerInv, Approved
  <2>4. \A x \in Messages : deadLetteredAt'[x] <= lastVersion'[x]
    BY <1>1, <1>2, <2>2 DEF IInv, OwnerInv
  <2>5. ASSUME NEW k \in Keys, commands[k] # None
        PROVE  /\ commands[k].version <= lastVersion'[commands[k].message]
               /\ commands[k].version # deadLetteredAt'[commands[k].message]
    <3>1. commands[k].message \in Messages /\ commands[k].version \in Nat
          /\ commands[k].version <= lastVersion[commands[k].message]
          /\ commands[k].version # deadLetteredAt[commands[k].message]
      BY <2>1, <2>5 DEF IInv, OwnerInv
    <3>2. CASE commands[k].message = m
      BY <1>1, <1>2, <2>2, <3>1, <3>2
    <3>3. CASE commands[k].message # m
      BY <1>1, <1>2, <3>1, <3>3
    <3>4. QED
      BY <3>2, <3>3
  <2>6. QED
    BY <1>1, <2>3, <2>4, <2>5 DEF OwnerInv
<1>7. QED
  BY <1>1, <1>4, <1>5, <1>6, QuietThreads DEF IInv

LEMMA ClockKeepsIInv ==
    ASSUME IInv, \/ \E r \in Runs : save_evidence(r) \/ EvidenceExpires(r)
                 \/ \E i \in Intents : IntentExpires(i)
    PROVE  IInv'
<1> USE DEF ownerVars
<1>1. /\ UNCHANGED <<ownerVars, intents, state, approvals, receipts, late, thread>>
      /\ \A r \in Runs : evidence[r] \subseteq evidence'[r]
      /\ evidence' \in [Runs -> SUBSET (Messages \X Versions)]
      /\ fresh' \in [Runs -> BOOLEAN] /\ expired' \in [Intents -> BOOLEAN]
  <2>1. ASSUME NEW r \in Runs, save_evidence(r) PROVE <1>1!:
    <3>1. \A m \in Messages : deadLetteredAt[m] # 0 => deadLetteredAt[m] \in Versions
      BY MaxVersionAssumption DEF IInv, TypeOK, Versions
    <3>2. {<<m, deadLetteredAt[m]>> : m \in {n \in Messages : deadLetteredAt[n] # 0}}
              \subseteq Messages \X Versions
      BY <3>1
    <3>3. QED
      BY <2>1, <3>2 DEF save_evidence, IInv, TypeOK
  <2>2. ASSUME NEW r \in Runs, EvidenceExpires(r) PROVE <1>1!:
    BY <2>2 DEF EvidenceExpires, IInv, TypeOK
  <2>3. ASSUME NEW i \in Intents, IntentExpires(i) PROVE <1>1!:
    BY <2>3 DEF IntentExpires, IInv, TypeOK
  <2>4. QED
    BY <2>1, <2>2, <2>3
<1>2. TypeOK'
  BY <1>1 DEF IInv, TypeOK
<1>3. Grows
  BY <1>1 DEF Grows
<1>4. ReceiptsHonest' /\ OwnerInv'
  BY <1>1 DEF IInv, ReceiptsHonest, OwnerInv, Approved, RequeueBody
<1>5. RowsInv'
  <2>1. \A i \in Intents : intents[i] # None => intents[i].run \in Runs
    BY DEF IInv, TypeOK, IntentRow
  <2>2. QED
    BY <1>1, <2>1 DEF IInv, RowsInv, requested_by, Approved
<1>6. CommandsAuthorised'
  <2>1. \A k \in Keys : commands[k] # None => intents[commands[k].intent].run \in Runs
    <3>1. \A i \in Intents : intents[i] # None => intents[i].run \in Runs
      BY DEF IInv, TypeOK, IntentRow
    <3>2. QED
      BY <3>1, StoredCommand
  <2>2. QED
    BY <1>1, <2>1 DEF IInv, CommandsAuthorised, requested_by, Approved
<1>7. QED
  BY <1>1, <1>2, <1>3, <1>4, <1>5, <1>6, QuietThreads DEF IInv

LEMMA CrashKeepsIInv == ASSUME IInv, Crash PROVE IInv'
<1> USE DEF ownerVars, hubVars
<1>1. \A t \in Threads : thread'[t] = Idle /\ thread'[t].at = "idle"
  BY DEF Crash, Idle
<1>2. \A t \in Threads : thread[t].at = "post" =>
          /\ thread[t].intent \in Intents /\ intents[thread[t].intent] # None
          /\ Approved(thread[t].intent)
  BY DEF IInv, LocalsInv, LocalInv, ExecutingSteps
<1>3. late' \subseteq Intents /\ \A i \in late' : intents[i] # None /\ Approved(i)
  BY <1>2 DEF Crash, IInv, OwnerInv, TypeOK
<1>4. thread' \in [Threads -> Locals] /\ UNCHANGED <<ownerVars, hubVars>>
  BY IdleType DEF Crash
<1>5. TypeOK'
  BY <1>3, <1>4 DEF IInv, TypeOK
<1>6. RowsInv' /\ CommandsAuthorised' /\ ReceiptsHonest' /\ OwnerInv'
  BY <1>3, <1>4, RowsStay DEF IInv, ReceiptsHonest, hubVars
<1>7. StateInv' /\ ExclusionInv'
  BY <1>1, <1>4 DEF IInv, StateInv, ExclusionInv, Approved, Executes, Decides, ExecutingSteps
<1>8. LocalsInv'
  BY <1>1 DEF LocalsInv, LocalInv, ExecutingSteps
<1>9. QED
  BY <1>5, <1>6, <1>7, <1>8 DEF IInv

(* The theorems. *)

LEMMA StepIInv == IInv /\ [Next]_vars => IInv'
<1> SUFFICES ASSUME IInv, [Next]_vars PROVE IInv'
  OBVIOUS
<1>1. ASSUME NEW t \in Threads, Request(t) PROVE IInv'
  BY <1>1, CreateKeepsIInv, ApproveKeepsIInv, ExecuteKeepsIInv DEF Request
<1>2. ASSUME NEW t \in Threads, Serve(t) PROVE IInv'
  BY <1>2, SaveIntentKeepsIInv, EndsKeepIInv, RecordApprovalKeepsIInv, DecidedKeepsIInv,
     ExpiredKeepsIInv, ClaimKeepsIInv, OwnerGetsKeepIInv, PostKeepsIInv, SaveReceiptKeepsIInv,
     SettledKeepsIInv DEF Serve
<1>3. CASE Environment
  BY <1>3, DeadLetterKeepsIInv, ClockKeepsIInv, LatePostKeepsIInv, ExpiredKeepsIInv DEF Environment
<1>4. CASE Crash
  BY <1>4, CrashKeepsIInv
<1>5. CASE UNCHANGED vars
  <2>1. /\ UNCHANGED <<ownerVars, hubVars, thread, late>> /\ Grows
    BY <1>5 DEF vars, ownerVars, hubVars, Grows
  <2>2. LocalsInv' /\ StateInv' /\ ExclusionInv'
    BY <2>1, QuietThreads DEF hubVars
  <2>3. TypeOK'
    BY <2>1 DEF IInv, TypeOK, ownerVars, hubVars
  <2>4. RowsInv' /\ OwnerInv' /\ CommandsAuthorised' /\ ReceiptsHonest'
    BY <2>1, RowsStay DEF IInv, ReceiptsHonest, OwnerInv, hubVars
  <2>5. QED
    BY <2>2, <2>3, <2>4 DEF IInv
<1>6. QED
  BY <1>1, <1>2, <1>3, <1>4, <1>5 DEF Next, NextNoCrash

\* The inductive invariant holds in every reachable state.
THEOREM Invariant == Spec => []IInv
<1>1. QED
  BY InitIInv, StepIInv, PTL DEF Spec

\* Every variable keeps its type: rows are of their table's form, a state column
\* only holds one of the state names, a thread's locals are well formed.
THEOREM TypeCorrect == Spec => []TypeOK
<1>1. IInv => TypeOK
  BY DEF IInv
<1>2. QED
  BY <1>1, Invariant, PTL

\* claim_intent_execution admits one executor per intent, whatever approvals,
\* expiries, retries and crashes happen around it.
THEOREM OneExecutor == Spec => []SingleExecutor
<1>1. IInv => SingleExecutor
  BY DEF IInv, ExclusionInv, SingleExecutor
<1>2. QED
  BY <1>1, Invariant, PTL

\* Every command stored by the owner was approved by an authorised human other
\* than its requester, for the event version the run recorded.
THEOREM OnlyApprovedCommands == Spec => []CommandsAuthorised
<1>1. IInv => CommandsAuthorised
  BY DEF IInv
<1>2. QED
  BY <1>1, Invariant, PTL

\* An idempotency key belongs to one intent, and the command stored under it is
\* that intent's: the UNIQUE column decides between creations that passed the
\* lookup of create_intent together.
THEOREM OneCommandPerKey == Spec => []KeyNamesOneCommand
<1>1. ASSUME IInv PROVE KeyNamesOneCommand
  <2> SUFFICES ASSUME NEW i \in Intents, intents[i] # None, commands[intents[i].key] # None
               PROVE  commands[intents[i].key].intent = i
    BY DEF KeyNamesOneCommand
  <2> DEFINE k == intents[i].key
             j == commands[k].intent
  <2>1. k \in Keys
    BY <1>1 DEF IInv, TypeOK, IntentRow
  <2>2. commands[k] \in Command
    <3>1. commands \in [Keys -> Command \cup {None}]
      BY <1>1 DEF IInv, TypeOK
    <3>2. QED
      BY <2>1, <3>1
  <2>3. j \in Intents
    BY <2>2 DEF Command
  <2>4. intents[j] # None /\ intents[j].key = k
    BY <1>1, <2>1, Zenon DEF IInv, CommandsAuthorised
  <2>5. QED
    BY <1>1, <2>3, <2>4 DEF IInv, RowsInv
<1>2. QED
  BY <1>1, Invariant, PTL

\* A receipt or a SUCCEEDED intent always has its command in the owner's table.
THEOREM ReceiptsAreHonest == Spec => []ReceiptsHonest
<1>1. IInv => ReceiptsHonest
  BY DEF IInv
<1>2. QED
  BY <1>1, Invariant, PTL

\* A final outcome is only ever replaced by EXPIRED.
THEOREM OutcomesAreKept == Spec => OutcomeKept
<1> DEFINE Kept(i) == state[i] \in {"REJECTED", "SUCCEEDED", "FAILED"} =>
                          state'[i] \in {state[i], "EXPIRED"}
<1>1. ASSUME IInv, Next PROVE \A i \in Intents : Kept(i)
  <2> SUFFICES ASSUME NEW i \in Intents, state[i] \in {"REJECTED", "SUCCEEDED", "FAILED"},
                      state' # state
               PROVE  state'[i] \in {state[i], "EXPIRED"}
    OBVIOUS
  <2>0. state \in [Intents -> IntentState] /\ LocalsInv
    BY <1>1 DEF IInv, TypeOK
  <2>1. ASSUME NEW t \in Threads, Serve(t) PROVE state'[i] \in {state[i], "EXPIRED"}
    <3>1. CASE \E j \in Intents : save_intent(t, j)
      BY <2>0, <3>1 DEF save_intent, Exists, update_intent_state
    <3>2. CASE approve_intent_decided(t)
      BY <2>0, <3>2 DEF approve_intent_decided, update_intent_state, LocalsInv, LocalInv
    <3>3. CASE execute_intent_expired(t)
      BY <2>0, <3>3 DEF execute_intent_expired, update_intent_state
    <3>4. CASE claim_intent_execution(t)
      BY <2>0, <3>4 DEF claim_intent_execution, update_intent_state
    <3>5. CASE execute_intent_settled(t)
      BY <2>0, <3>5 DEF execute_intent_settled, update_intent_state, LocalsInv, LocalInv, ExecutingSteps
    <3>6. CASE \/ save_intent_conflict(t) \/ record_action_approval(t) \/ owner_get_before(t)
               \/ requeue_post(t) \/ owner_get_after(t) \/ save_execution_receipt(t)
               \/ execute_error(t) \/ unhandled_error(t)
      BY <3>6 DEF save_intent_conflict, record_action_approval, owner_get_before, requeue_post,
                  owner_get_after, save_execution_receipt, execute_error, unhandled_error, hubVars
    <3>7. QED
      BY <2>1, <3>1, <3>2, <3>3, <3>4, <3>5, <3>6 DEF Serve
  <2>2. ASSUME NEW t \in Threads, Request(t) PROVE FALSE
    BY <2>2 DEF Request, create_intent, approve_intent, execute_intent, hubVars
  <2>3. CASE Environment
    BY <2>0, <2>3 DEF Environment, OwnerDeadLetters, save_evidence, EvidenceExpires, IntentExpires,
                      LatePost, approve_intent_expired, update_intent_state, hubVars
  <2>4. CASE Crash
    BY <2>4 DEF Crash, hubVars
  <2>5. QED
    BY <1>1, <2>1, <2>2, <2>3, <2>4 DEF Next, NextNoCrash
<1>2. IInv /\ [Next]_vars => [\A i \in Intents : Kept(i)]_vars
  BY <1>1
<1>3. QED
  BY <1>2, Invariant, PTL DEF Spec, OutcomeKept
=============================================================================
