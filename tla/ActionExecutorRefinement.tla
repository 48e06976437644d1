---------------------- MODULE ActionExecutorRefinement ----------------------
(***************************************************************************)
(* Proof that the executor implements ApprovedRecovery: approval rows are  *)
(* the decisions, the owner's stored commands the effects, receipts the    *)
(* confirmations.  Every step maps to one abstract step or to none.        *)
(***************************************************************************)
EXTENDS ActionExecutorProofs

\* A stored intent is an abstract proposal, an approval row an abstract verdict.
LEMMA RowsMapToValues ==
    ASSUME IInv, NEW i \in Intents
    PROVE  /\ intents[i] # None =>
                 /\ AbsProposal[i] # None /\ AbsProposal[i].by = requested_by(i)
                 /\ AbsProposal[i].target = <<intents[i].message, intents[i].version>>
           /\ approvals[i] # None =>
                 /\ AbsVerdict[i] # None /\ AbsVerdict[i].decision = approvals[i].decision
<1>1. intents[i] # None => /\ requested_by(i) \in Users
                          /\ <<intents[i].message, intents[i].version>> \in Messages \X Versions
  BY UserAssumption DEF IInv, TypeOK, IntentRow, requested_by
<1>2. approvals[i] # None => approvals[i] \in ApprovalRow
  BY DEF IInv, TypeOK
<1>3. intents[i] # None =>
          [by |-> requested_by(i), target |-> <<intents[i].message, intents[i].version>>] # None
  BY <1>1, NoneAssumption
<1>4. approvals[i] # None =>
          [by |-> approvals[i].approver, decision |-> approvals[i].decision] # None
  BY <1>2, NoneAssumption DEF ApprovalRow
<1>5. QED
  BY <1>3, <1>4 DEF AbsProposal, AbsVerdict

LEMMA InitRefines == Init => Abs!AbsInit
BY DEF Init, OwnerInit, Abs!AbsInit, AbsProposal, AbsVerdict, AbsApplied, AbsConfirmed

\* A step that keeps intents, approvals, receipts and commands is a stutter.
LEMMA StutterRefines ==
    ASSUME UNCHANGED <<intents, approvals, receipts, commands>>
    PROVE  UNCHANGED Abs!absVars
BY DEF Abs!absVars, AbsProposal, AbsVerdict, AbsApplied, AbsConfirmed, requested_by

\* The insert of an intent row is the proposal.
LEMMA SaveIntentRefines ==
    ASSUME IInv, NEW t \in Threads, NEW i \in Intents, save_intent(t, i)
    PROVE  Abs!AbsNext
<1> DEFINE d == thread[t].draft
           tgt == <<d.message, d.version>>
<1>1. /\ d \in IntentRow /\ d # None /\ intents[i] = None
      /\ intents' = [intents EXCEPT ![i] = d]
      /\ intents \in [Intents -> IntentRow \cup {None}]
      /\ UNCHANGED <<approvals, receipts, commands>>
  <2>1. thread \in [Threads -> Locals] /\ intents \in [Intents -> IntentRow \cup {None}]
    BY DEF IInv, TypeOK
  <2>2. d # None /\ d \in IntentRow
    BY <2>1 DEF save_intent, IInv, LocalsInv, LocalInv, Locals
  <2>3. intents[i] = None
    BY DEF save_intent, Exists, IInv, RowsInv
  <2>4. QED
    BY <2>1, <2>2, <2>3 DEF save_intent, ownerVars
<1>2. tgt \in Messages \X Versions /\ RunUser[d.run] \in Users
  BY <1>1, UserAssumption DEF IntentRow
<1> HIDE DEF d
<1>3. Abs!Propose(i, RunUser[d.run], tgt)
  <2>1. AbsProposal[i] = None
    BY <1>1 DEF AbsProposal
  <2>2. AbsProposal' = [AbsProposal EXCEPT ![i] = [by |-> RunUser[d.run], target |-> tgt]]
    <3>1. \A j \in Intents : AbsProposal'[j] =
              IF j = i THEN [by |-> RunUser[d.run], target |-> tgt] ELSE AbsProposal[j]
      BY <1>1 DEF AbsProposal, requested_by
    <3>2. QED
      BY <3>1 DEF AbsProposal
  <2>3. UNCHANGED <<AbsVerdict, AbsApplied, AbsConfirmed>>
    BY <1>1 DEF AbsVerdict, AbsApplied, AbsConfirmed
  <2>4. QED
    BY <2>1, <2>2, <2>3 DEF Abs!Propose
<1>4. QED
  BY <1>2, <1>3 DEF Abs!AbsNext

\* The insert of an approval row is the decision.
LEMMA RecordApprovalRefines ==
    ASSUME IInv, NEW t \in Threads, record_action_approval(t)
    PROVE  Abs!AbsNext \/ UNCHANGED Abs!absVars
<1> DEFINE i == thread[t].intent
           u == thread[t].user
           o == thread[t].outcome
<1>1. /\ i \in Intents /\ intents[i] # None /\ o \in {"APPROVED", "REJECTED"}
      /\ u \in Approvers /\ u # requested_by(i)
      /\ approvals \in [Intents -> ApprovalRow \cup {None}]
      /\ UNCHANGED <<intents, receipts, commands>>
  BY DEF record_action_approval, IInv, LocalsInv, LocalInv, TypeOK, ownerVars
<1>2. CASE approvals[i] # None
  BY <1>1, <1>2, StutterRefines DEF record_action_approval
<1>3. CASE approvals[i] = None
  <2>1. approvals' = [approvals EXCEPT ![i] = [decision |-> o, approver |-> u]]
    BY <1>3 DEF record_action_approval
  <2>2. [decision |-> o, approver |-> u] # None
    BY <1>1, NoneAssumption, UserAssumption DEF ApprovalRow
  <2> HIDE DEF i, u, o
  <2>3. Abs!Decide(i, u, o)
    <3>1. AbsVerdict' = [AbsVerdict EXCEPT ![i] = [by |-> u, decision |-> o]]
      <4>1. \A j \in Intents : AbsVerdict'[j] =
                IF j = i THEN [by |-> u, decision |-> o] ELSE AbsVerdict[j]
        BY <1>1, <2>1, <2>2 DEF AbsVerdict
      <4>2. QED
        BY <4>1 DEF AbsVerdict
    <3>2. UNCHANGED <<AbsProposal, AbsApplied, AbsConfirmed>>
      BY <1>1 DEF AbsProposal, AbsApplied, AbsConfirmed, requested_by
    <3>3. AbsProposal[i] # None /\ AbsProposal[i].by = requested_by(i)
      BY <1>1, RowsMapToValues
    <3>4. AbsVerdict[i] = None
      BY <1>1, <1>3 DEF AbsVerdict
    <3>5. QED
      BY <1>1, <3>1, <3>2, <3>3, <3>4 DEF Abs!Decide
  <2>4. QED
    BY <1>1, <2>3 DEF Abs!AbsNext
<1>4. QED
  BY <1>2, <1>3

\* The owner's commit of a requeue is the effect; a replay or a conflict is none.
LEMMA RequeueRefines ==
    ASSUME IInv, NEW i \in Intents, intents[i] # None, Approved(i),
           Requeue(intents[i].key, RequeueBody(i)), UNCHANGED <<intents, approvals, receipts>>
    PROVE  Abs!AbsNext \/ UNCHANGED Abs!absVars
<1> DEFINE k == intents[i].key
           c == RequeueBody(i)
<1>0. /\ k \in Keys /\ c # None /\ c.intent = i /\ c.message = intents[i].message
      /\ c.version = intents[i].version
      /\ commands \in [Keys -> Command \cup {None}]
  BY BodyType DEF IInv, TypeOK
<1>1. CASE RequeueStatus(k, c) # "requeued"
  BY <1>1, StutterRefines DEF Requeue
<1>2. CASE RequeueStatus(k, c) = "requeued"
  <2>1. /\ commands[k] = None /\ deadLetteredAt[intents[i].message] = intents[i].version
        /\ commands' = [commands EXCEPT ![k] = c]
    BY <1>0, <1>2 DEF Requeue, RequeueStatus
  <2> HIDE DEF k, c
  <2>2. \A j \in Intents : j \in AbsApplied' <=> j \in AbsApplied \/ j = i
    BY <1>0, <2>1 DEF AbsApplied
  <2>3. AbsApplied' = AbsApplied \cup {i}
    BY <2>2 DEF AbsApplied
  <2>4. UNCHANGED <<AbsProposal, AbsVerdict, AbsConfirmed>>
    BY DEF AbsProposal, AbsVerdict, AbsConfirmed, requested_by
  <2>5. i \notin AbsApplied
    <3>1. \A x \in Keys : commands[x] # None => intents[commands[x].intent].key = x
      BY DEF IInv, CommandsAuthorised
    <3>2. QED
      BY <2>1, <3>1 DEF AbsApplied, k
  <2>6. ASSUME NEW j \in AbsApplied PROVE AbsProposal[j].target # AbsProposal[i].target
    <3>1. PICK x \in Keys : commands[x] # None /\ commands[x].intent = j
      BY DEF AbsApplied
    <3>2. /\ j \in Intents /\ intents[j] # None
          /\ commands[x].message = intents[j].message /\ commands[x].version = intents[j].version
          /\ intents[j].version # deadLetteredAt[intents[j].message]
      BY <3>1 DEF IInv, CommandsAuthorised, OwnerInv, AbsApplied
    <3>3. <<intents[j].message, intents[j].version>> # <<intents[i].message, intents[i].version>>
      BY <2>1, <3>2
    <3>4. QED
      BY <3>2, <3>3, RowsMapToValues
  <2>7. AbsVerdict[i] # None /\ AbsVerdict[i].decision = "APPROVED"
    BY RowsMapToValues DEF Approved
  <2>8. Abs!Apply(i)
    BY <2>3, <2>4, <2>5, <2>6, <2>7 DEF Abs!Apply
  <2>9. QED
    BY <2>8 DEF Abs!AbsNext
<1>3. QED
  BY <1>1, <1>2

\* The insert of a receipt is the confirmation.
LEMMA SaveReceiptRefines ==
    ASSUME IInv, NEW t \in Threads, save_execution_receipt(t)
    PROVE  Abs!AbsNext \/ UNCHANGED Abs!absVars
<1> DEFINE i == thread[t].intent
           row == [executedBy |-> thread[t].user, approvedBy |-> approvals[i].approver]
<1>1. /\ i \in Intents /\ intents[i] # None /\ Approved(i) /\ thread[t].user \in Users
      /\ commands[intents[i].key] = RequeueBody(i)
      /\ receipts \in [Intents -> ReceiptRow \cup {None}]
      /\ approvals \in [Intents -> ApprovalRow \cup {None}]
      /\ UNCHANGED <<intents, approvals, commands>>
      /\ receipts' = IF receipts[i] = None THEN [receipts EXCEPT ![i] = row] ELSE receipts
  BY DEF save_execution_receipt, IInv, LocalsInv, LocalInv, TypeOK, ExecutingSteps, ownerVars
<1>2. CASE receipts[i] # None
  BY <1>1, <1>2, StutterRefines
<1>3. CASE receipts[i] = None
  <2>1. row # None
    BY <1>1, NoneAssumption DEF ReceiptRow, ApprovalRow, Approved
  <2> HIDE DEF row, i
  <2>2. AbsConfirmed' = AbsConfirmed \cup {i}
    <3>1. \A j \in Intents : receipts'[j] # None <=> receipts[j] # None \/ j = i
      BY <1>1, <1>3, <2>1
    <3>2. QED
      BY <1>1, <3>1 DEF AbsConfirmed
  <2>3. UNCHANGED <<AbsProposal, AbsVerdict, AbsApplied>>
    BY <1>1 DEF AbsProposal, AbsVerdict, AbsApplied, requested_by
  <2>4. i \in AbsApplied /\ i \notin AbsConfirmed
    BY <1>1, <1>3, BodyType DEF AbsApplied, AbsConfirmed
  <2>5. Abs!Confirm(i)
    BY <2>2, <2>3, <2>4 DEF Abs!Confirm
  <2>6. QED
    BY <1>1, <2>5 DEF Abs!AbsNext
<1>4. QED
  BY <1>2, <1>3

\* The executor implements the abstract recovery: one verdict per intent by someone
\* else than its requester, one effect per approved intent and per event version,
\* and receipts for effects that happened.
THEOREM Refinement == Spec => ImplementsApprovedRecovery
<1>1. ASSUME IInv, [Next]_vars PROVE [Abs!AbsNext]_(Abs!absVars)
  <2>1. ASSUME NEW t \in Threads, Serve(t) PROVE Abs!AbsNext \/ UNCHANGED Abs!absVars
    <3>1. CASE \E i \in Intents : save_intent(t, i)
      BY <1>1, <3>1, SaveIntentRefines
    <3>2. CASE record_action_approval(t)
      BY <1>1, <3>2, RecordApprovalRefines
    <3>3. CASE requeue_post(t)
      <4>1. /\ thread[t].intent \in Intents /\ intents[thread[t].intent] # None
            /\ Approved(thread[t].intent)
        BY <1>1, <3>3 DEF requeue_post, IInv, LocalsInv, LocalInv, ExecutingSteps
      <4>2. QED
        BY <1>1, <3>3, <4>1, RequeueRefines DEF requeue_post, hubVars
    <3>4. CASE save_execution_receipt(t)
      BY <1>1, <3>4, SaveReceiptRefines
    <3>5. CASE \/ save_intent_conflict(t) \/ approve_intent_decided(t) \/ execute_intent_expired(t)
               \/ claim_intent_execution(t) \/ owner_get_before(t) \/ owner_get_after(t)
               \/ execute_error(t) \/ execute_intent_settled(t) \/ unhandled_error(t)
      <4>1. UNCHANGED <<intents, approvals, receipts, commands>>
        BY <3>5 DEF save_intent_conflict, approve_intent_decided, execute_intent_expired,
                    claim_intent_execution, owner_get_before, owner_get_after, execute_error,
                    execute_intent_settled, unhandled_error, hubVars, ownerVars
      <4>2. QED
        BY <4>1, StutterRefines
    <3>6. QED
      BY <2>1, <3>1, <3>2, <3>3, <3>4, <3>5 DEF Serve
  <2>2. ASSUME NEW t \in Threads, Request(t) PROVE UNCHANGED Abs!absVars
    <3>1. UNCHANGED <<intents, approvals, receipts, commands>>
      BY <2>2 DEF Request, create_intent, approve_intent, execute_intent, hubVars, ownerVars
    <3>2. QED
      BY <3>1, StutterRefines
  <2>3. ASSUME NEW i \in Intents, LatePost(i) PROVE Abs!AbsNext \/ UNCHANGED Abs!absVars
    <3>1. intents[i] # None /\ Approved(i)
      BY <1>1, <2>3 DEF LatePost, IInv, OwnerInv
    <3>2. QED
      BY <1>1, <2>3, <3>1, RequeueRefines DEF LatePost, hubVars
  <2>4. CASE Environment
    <3>1. CASE \E i \in Intents : LatePost(i)
      BY <2>3, <3>1
    <3>2. CASE ~ \E i \in Intents : LatePost(i)
      <4>1. UNCHANGED <<intents, approvals, receipts, commands>>
        BY <2>4, <3>2 DEF Environment, OwnerDeadLetters, DeadLetter, save_evidence, EvidenceExpires,
                          IntentExpires, approve_intent_expired, hubVars, ownerVars
      <4>2. QED
        BY <4>1, StutterRefines
    <3>3. QED
      BY <3>1, <3>2
  <2>5. CASE Crash \/ UNCHANGED vars
    <3>1. UNCHANGED <<intents, approvals, receipts, commands>>
      BY <2>5 DEF Crash, vars, hubVars, ownerVars
    <3>2. QED
      BY <3>1, StutterRefines
  <2>6. QED
    BY <1>1, <2>1, <2>2, <2>4, <2>5 DEF Next, NextNoCrash
<1>2. QED
  BY <1>1, InitRefines, Invariant, PTL DEF Spec, ImplementsApprovedRecovery, Abs!AbsSpec
=============================================================================
