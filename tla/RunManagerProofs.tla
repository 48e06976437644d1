-------------------------- MODULE RunManagerProofs --------------------------
(***************************************************************************)
(* Proofs, for every set of threads, runs, keys, users and facts, that the *)
(* run manager keeps its inductive invariant, and what follows from it.    *)
(***************************************************************************)
EXTENDS RunManager, TLAPS

\* Every thread other than t keeps its locals.
Others(t) == \A x \in Threads : x # t => thread'[x] = thread[x]

\* Only run r's row and associations change; no association is ever removed.
OnlyRun(r) ==
    /\ \A s \in RunIds : s # r => /\ runs'[s] = runs[s]
                                  /\ state'[s] = state[s]
                                  /\ proposal'[s] = proposal[s]
    /\ \A s \in RunIds : evidence[s] \subseteq evidence'[s]

LEMMA IdleType == Idle \in Locals
BY DEF Idle, Locals, Steps

\* Goto(t, s) moves thread t to step s and keeps its other locals.
LEMMA GotoEffect ==
    ASSUME thread \in [Threads -> Locals], NEW t \in Threads, NEW s \in Steps, Goto(t, s)
    PROVE  /\ thread' \in [Threads -> Locals]
           /\ Others(t)
           /\ thread'[t].at = s
           /\ thread'[t].key = thread[t].key
           /\ thread'[t].request = thread[t].request
           /\ thread'[t].run = thread[t].run
           /\ thread'[t].facts = thread[t].facts
<1>1. thread[t] \in Locals
  OBVIOUS
<1>2. thread' = [thread EXCEPT ![t] = [thread[t] EXCEPT !.at = s]]
  BY DEF Goto
<1>3. [thread[t] EXCEPT !.at = s] \in Locals
  BY <1>1 DEF Locals
<1>4. QED
  BY <1>1, <1>2, <1>3 DEF Others, Locals

\* Return(t) makes thread t idle.
LEMMA ReturnEffect ==
    ASSUME thread \in [Threads -> Locals], NEW t \in Threads, Return(t)
    PROVE  thread' \in [Threads -> Locals] /\ Others(t) /\ thread'[t].at = "idle"
<1>1. thread' \in [Threads -> Locals] /\ Others(t) /\ thread'[t] = Idle
  BY IdleType DEF Return, Others
<1>2. QED
  BY <1>1 DEF Idle

LEMMA InitIInv == Init => IInv
<1> SUFFICES ASSUME Init PROVE IInv
  OBVIOUS
<1>1. \A t \in Threads : thread[t] = Idle
  BY DEF Init
<1>2. TypeOK
  BY IdleType DEF Init, TypeOK, RunState
<1>3. RowsInv /\ AnswersInv /\ ProposalsGrounded /\ ClosedIsDecided
  BY DEF Init, RowsInv, AnswersInv, ProposalsGrounded, ClosedIsDecided
<1>4. ExclusionInv /\ LocalsInv
  BY <1>1 DEF ExclusionInv, LocalsInv, LocalInv, Serves, Idle
<1>5. QED
  BY <1>2, <1>3, <1>4 DEF IInv

\* A thread that is not involved in a step on run r keeps its part of the
\* invariant, as long as it does not serve r and r keeps its proposal.
LEMMA OthersKeepLocalInv ==
    ASSUME IInv, NEW t \in Threads, NEW r \in RunIds, Others(t), OnlyRun(r),
           \A x \in Threads : x # t /\ Serves(x) => thread[x].run # r,
           proposal[r] # None => proposal'[r] # None,
           LocalInv(t)'
    PROVE  LocalsInv'
<1>1. ASSUME NEW x \in Threads, x # t PROVE LocalInv(x)'
  <2>1. thread'[x] = thread[x] /\ LocalInv(x)
    BY <1>1 DEF Others, IInv, LocalsInv
  <2>2. CASE Serves(x)
    <3>1. thread[x].run # r /\ thread[x].run \in RunIds
      BY <1>1, <2>1, <2>2 DEF LocalInv
    <3>2. /\ runs'[thread[x].run] = runs[thread[x].run]
          /\ state'[thread[x].run] = state[thread[x].run]
          /\ evidence[thread[x].run] \subseteq evidence'[thread[x].run]
      BY <3>1 DEF OnlyRun
    <3>3. QED
      BY <2>1, <2>2, <3>2 DEF LocalInv, Serves
  <2>3. CASE thread[x].at = "review"
    <3>1. thread[x].run \in RunIds /\ proposal'[thread[x].run] # None
      BY <2>1, <2>3 DEF LocalInv, OnlyRun
    <3>2. QED
      BY <2>1, <2>3, <3>1 DEF LocalInv, Serves
  <2>4. CASE thread[x].at \in {"idle", "insert"}
    BY <2>1, <2>4 DEF LocalInv, Serves
  <2>5. QED
    BY <2>2, <2>3, <2>4 DEF Serves
<1>2. QED
  BY <1>1 DEF LocalsInv

\* The same when no row of a run changes.
LEMMA OthersKeepLocalInvQuiet ==
    ASSUME IInv, NEW t \in Threads, Others(t),
           UNCHANGED <<runs, state, proposal>>,
           \A s \in RunIds : evidence[s] \subseteq evidence'[s],
           LocalInv(t)'
    PROVE  LocalsInv'
<1>1. ASSUME NEW x \in Threads, x # t PROVE LocalInv(x)'
  <2>1. thread'[x] = thread[x] /\ LocalInv(x)
    BY <1>1 DEF Others, IInv, LocalsInv
  <2>2. QED
    BY <2>1 DEF LocalInv, Serves
<1>2. QED
  BY <1>1 DEF LocalsInv

\* A step that keeps or ends what thread t serves keeps runs apart.
LEMMA ExclusionStays ==
    ASSUME IInv, NEW t \in Threads, Others(t),
           Serves(t)' => Serves(t) /\ thread'[t].run = thread[t].run
    PROVE  ExclusionInv'
BY DEF IInv, ExclusionInv, Others, Serves

\* A step that changes only thread t's locals.
LEMMA MoveKeepsIInv ==
    ASSUME IInv, NEW t \in Threads, UNCHANGED <<tables, answers>>,
           thread' \in [Threads -> Locals], Others(t), LocalInv(t)',
           Serves(t)' => Serves(t) /\ thread'[t].run = thread[t].run
    PROVE  IInv'
<1> USE DEF tables
<1>1. TypeOK'
  BY DEF IInv, TypeOK
<1>2. RowsInv' /\ AnswersInv'
  BY DEF IInv, RowsInv, AnswersInv, Holds
<1>3. ProposalsGrounded' /\ ClosedIsDecided'
  BY DEF IInv, ProposalsGrounded, ClosedIsDecided
<1>4. ExclusionInv'
  BY ExclusionStays
<1>5. LocalsInv'
  BY OthersKeepLocalInvQuiet
<1>6. QED
  BY <1>1, <1>2, <1>3, <1>4, <1>5 DEF IInv

\* What a serving thread knows about its run.
LEMMA ServedRun ==
    ASSUME IInv, NEW t \in Threads, Serves(t)
    PROVE  /\ thread[t].run \in RunIds
           /\ thread[t].key \in Keys /\ thread[t].request \in Requests
           /\ runs[thread[t].run] = [key |-> thread[t].key, request |-> thread[t].request]
           /\ runs[thread[t].run] # None
           /\ state[thread[t].run] \in {"received", "authorized", "evidence_collected", "policy_checked"}
           /\ \A x \in Threads : x # t /\ Serves(x) => thread[x].run # thread[t].run
<1>1. thread[t] \in Locals /\ LocalInv(t)
  BY DEF IInv, TypeOK, LocalsInv
<1>2. /\ thread[t].run \in RunIds
      /\ thread[t].key \in Keys /\ thread[t].request \in Requests
      /\ runs[thread[t].run] = [key |-> thread[t].key, request |-> thread[t].request]
  BY <1>1 DEF LocalInv, Serves, Locals
<1>3. runs[thread[t].run] # None
  BY <1>2, NoneAssumption DEF RunRow
<1>4. state[thread[t].run] \in {"received", "authorized", "evidence_collected", "policy_checked"}
  BY <1>1 DEF LocalInv, Serves, Locals, Steps
<1>5. QED
  BY <1>2, <1>3, <1>4 DEF IInv, ExclusionInv

\* An intermediate state is written and the thread goes on to the next step.
LEMMA StateStepKeepsIInv ==
    ASSUME IInv, NEW t \in Threads, Serves(t), NEW s \in RunState, NEW step \in Steps,
           update_run_state(thread[t].run, s), Goto(t, step),
           UNCHANGED <<runs, old, records, current, evidence, decisions, answers>>,
           \/ s = "authorized" /\ step = "fetch" /\ thread[t].at = "guard"
           \/ s = "evidence_collected" /\ step = "check" /\ thread[t].at = "collect"
           \/ s = "policy_checked" /\ step = "propose" /\ thread[t].at = "check"
    PROVE  IInv'
<1> DEFINE r == thread[t].run
<1>0. /\ r \in RunIds /\ runs[r] # None
      /\ state[r] \in {"received", "authorized", "evidence_collected", "policy_checked"}
      /\ runs[r] = [key |-> thread[t].key, request |-> thread[t].request]
      /\ \A x \in Threads : x # t /\ Serves(x) => thread[x].run # r
  BY ServedRun
<1>1. /\ thread' \in [Threads -> Locals] /\ Others(t) /\ thread'[t].at = step
      /\ thread'[t].key = thread[t].key /\ thread'[t].request = thread[t].request
      /\ thread'[t].run = r /\ thread'[t].facts = thread[t].facts
  BY GotoEffect DEF IInv, TypeOK
<1>2. /\ state' \in [RunIds -> RunState] /\ state'[r] = s
      /\ \A x \in RunIds : x # r => state'[x] = state[x]
      /\ UNCHANGED proposal
  BY <1>0 DEF update_run_state, IInv, TypeOK
<1>3. LocalInv(t) /\ (thread[t].at # "idle" /\ thread[t].at # "review")
  BY DEF IInv, LocalsInv, Serves
<1> HIDE DEF r
<1>4. TypeOK'
  BY <1>1, <1>2 DEF IInv, TypeOK
<1>5. RowsInv'
  BY <1>0, <1>2 DEF IInv, RowsInv, Holds
<1>6. AnswersInv' /\ ProposalsGrounded'
  BY <1>2 DEF IInv, AnswersInv, ProposalsGrounded
<1>7. ClosedIsDecided'
  BY <1>0, <1>2 DEF IInv, ClosedIsDecided
<1>8. ExclusionInv'
  BY <1>1, ExclusionStays DEF r
<1>9. LocalInv(t)'
  <2>1. runs'[r] = [key |-> thread'[t].key, request |-> thread'[t].request]
    BY <1>0, <1>1
  <2>2. /\ thread'[t].key # None /\ thread'[t].request # None
        /\ thread'[t].facts = thread[t].facts /\ evidence' = evidence
    BY <1>1, <1>3 DEF LocalInv
  <2>3. thread[t].run = r
    BY DEF r
  <2>4. QED
    BY <1>0, <1>1, <1>2, <1>3, <2>1, <2>2, <2>3 DEF LocalInv, Serves
<1>10. LocalsInv'
  BY <1>0, <1>2, <1>9, <1>1, OthersKeepLocalInv DEF OnlyRun
<1>11. QED
  BY <1>4, <1>5, <1>6, <1>7, <1>8, <1>10 DEF IInv

\* A proposal for the thread's own run that cites evidence of that run.
LEMMA ProposeKeepsIInv ==
    ASSUME IInv, NEW t \in Threads, Serves(t), NEW p \in Proposal,
           p.cites \subseteq evidence[thread[t].run], Propose(t, p)
    PROVE  IInv'
<1> DEFINE r == thread[t].run
           a == [key |-> thread[t].key, user |-> thread[t].request.user, run |-> r, proposal |-> p]
<1>0. /\ r \in RunIds /\ runs[r] # None /\ thread[t].key \in Keys /\ thread[t].request \in Requests
      /\ state[r] \in {"received", "authorized", "evidence_collected", "policy_checked"}
      /\ runs[r] = [key |-> thread[t].key, request |-> thread[t].request]
      /\ \A x \in Threads : x # t /\ Serves(x) => thread[x].run # r
  BY ServedRun
<1>1. thread' \in [Threads -> Locals] /\ Others(t) /\ thread'[t].at = "idle"
  BY ReturnEffect DEF Propose, IInv, TypeOK
<1>2. /\ state' \in [RunIds -> RunState] /\ state'[r] = "proposed"
      /\ \A x \in RunIds : x # r => state'[x] = state[x]
      /\ proposal' \in [RunIds -> Proposal \cup {None}] /\ proposal'[r] = p
      /\ \A x \in RunIds : x # r => proposal'[x] = proposal[x]
      /\ UNCHANGED <<runs, old, records, current, evidence, decisions>>
  BY <1>0 DEF Propose, update_run_proposal, IInv, TypeOK, RunState
<1>3. answers' = answers \cup {a}
  BY DEF Propose, Reply
<1>4. a \in Answer /\ a.run = r /\ a.key = runs[r].key /\ a.user = runs[r].request.user /\ a.proposal = p
  BY <1>0 DEF Answer, Requests
<1>5. proposal[r] = None /\ p # None
  BY <1>0, NoneAssumption DEF IInv, RowsInv
<1>6. p.cites \subseteq evidence[r]
  OBVIOUS
<1> HIDE DEF r, a
<1>7. TypeOK'
  BY <1>1, <1>2, <1>3, <1>4 DEF IInv, TypeOK
<1>8. RowsInv'
  BY <1>0, <1>2, <1>5 DEF IInv, RowsInv, Holds
<1>9. AnswersInv'
  <2>1. ASSUME NEW b \in answers PROVE proposal'[b.run] = b.proposal /\ b.run \in RunIds
    BY <1>2, <1>5, NoneAssumption DEF IInv, TypeOK, AnswersInv, Answer
  <2>2. QED
    BY <1>0, <1>2, <1>3, <1>4, <2>1 DEF IInv, AnswersInv
<1>10. ProposalsGrounded'
  BY <1>2, <1>6 DEF IInv, ProposalsGrounded, RowsInv
<1>11. ClosedIsDecided'
  BY <1>0, <1>2 DEF IInv, ClosedIsDecided
<1>12. ExclusionInv'
  BY <1>1, ExclusionStays DEF Serves
<1>13. LocalInv(t)'
  BY <1>1 DEF LocalInv, Serves
<1>14. LocalsInv'
  BY <1>0, <1>1, <1>2, <1>5, <1>13, OthersKeepLocalInv DEF OnlyRun
<1>15. QED
  BY <1>7, <1>8, <1>9, <1>10, <1>11, <1>12, <1>14 DEF IInv

(* The actions. *)

\* A thread that was idle takes up a request: its locals are set from scratch.
LEMMA TakeUpKeepsIInv ==
    ASSUME IInv, NEW t \in Threads, NEW new \in Locals, thread' = [thread EXCEPT ![t] = new],
           UNCHANGED <<tables, answers>>,
           \/ new.at = "insert" /\ new.key # None /\ new.request # None /\ new.facts = None
           \/ new.at = "review" /\ new.user # None /\ new.run \in RunIds /\ proposal[new.run] # None
    PROVE  IInv'
<1>1. thread' \in [Threads -> Locals] /\ Others(t) /\ thread'[t] = new
  BY DEF IInv, TypeOK, Others
<1>2. LocalInv(t)'
  BY <1>1 DEF LocalInv, Serves, tables
<1>3. QED
  BY <1>1, <1>2, MoveKeepsIInv DEF Serves

LEMMA StartKeepsIInv ==
    ASSUME IInv, NEW t \in Threads, NEW q \in Requests, NEW k \in Keys, start_investigation(t, q, k)
    PROVE  IInv'
<1> DEFINE new == [Idle EXCEPT !.at = "insert", !.key = k, !.request = q]
<1>1. /\ new \in Locals /\ new.at = "insert" /\ new.key = k /\ new.request = q
      /\ new.facts = None
  BY DEF Idle, Locals, Steps
<1>2. thread' = [thread EXCEPT ![t] = new] /\ UNCHANGED <<tables, answers>>
  BY DEF start_investigation
<1> HIDE DEF new
<1>3. k # None /\ q # None
  BY NoneAssumption
<1>4. QED
  BY <1>1, <1>2, <1>3, TakeUpKeepsIInv

LEMMA RecordDecisionKeepsIInv ==
    ASSUME IInv, NEW t \in Threads, NEW r \in RunIds, NEW u \in Users, record_decision(t, r, u)
    PROVE  IInv'
<1> DEFINE new == [Idle EXCEPT !.at = "review", !.run = r, !.user = u]
<1>1. new \in Locals /\ new.at = "review" /\ new.run = r /\ new.user = u
  BY DEF Idle, Locals, Steps
<1>2. thread' = [thread EXCEPT ![t] = new] /\ UNCHANGED <<tables, answers>>
  BY DEF record_decision
<1> HIDE DEF new
<1>3. PICK a \in answers : a.run = r
  BY DEF record_decision, Disclosed
<1>4. proposal[r] # None /\ u # None
  BY <1>3, NoneAssumption DEF IInv, AnswersInv, TypeOK, Answer
<1>5. QED
  BY <1>1, <1>2, <1>4, TakeUpKeepsIInv

\* A thread returns without writing anything.
LEMMA QuietReturnKeepsIInv ==
    ASSUME IInv, NEW t \in Threads, save_run_conflict(t) \/ unhandled_error(t)
    PROVE  IInv'
<1>1. Return(t) /\ UNCHANGED <<tables, answers>>
  BY DEF save_run_conflict, unhandled_error
<1>2. thread' \in [Threads -> Locals] /\ Others(t) /\ thread'[t].at = "idle"
  BY <1>1, ReturnEffect DEF IInv, TypeOK
<1>3. LocalInv(t)'
  BY <1>2 DEF LocalInv, Serves
<1>4. QED
  BY <1>1, <1>2, <1>3, MoveKeepsIInv DEF Serves

LEMMA FetchKeepsIInv ==
    ASSUME IInv, NEW t \in Threads, fetch(t) PROVE IInv'
<1>0. /\ thread[t].at = "fetch" /\ thread \in [Threads -> Locals] /\ thread[t] \in Locals /\ LocalInv(t)
      /\ UNCHANGED <<tables, answers>> /\ Serves(t)
  BY DEF fetch, IInv, TypeOK, LocalsInv, Serves
<1>1. ASSUME NEW f \in Facts, thread' = [thread EXCEPT ![t].at = "save", ![t].facts = f]
      PROVE  IInv'
  <2> DEFINE new == [thread[t] EXCEPT !.at = "save", !.facts = f]
  <2>1. /\ new \in Locals /\ new.at = "save" /\ new.facts = f /\ new.run = thread[t].run
        /\ new.key = thread[t].key /\ new.request = thread[t].request
    BY <1>0 DEF Locals, Steps
  <2>2. thread' = [thread EXCEPT ![t] = new]
    BY <1>1
  <2> HIDE DEF new
  <2>3. thread' \in [Threads -> Locals] /\ Others(t) /\ thread'[t] = new
    BY <1>0, <2>1, <2>2 DEF Others
  <2>4. f # None
    BY NoneAssumption
  <2>5. LocalInv(t)'
    BY <1>0, <2>1, <2>3, <2>4 DEF LocalInv, Serves, tables
  <2>6. QED
    BY <1>0, <2>1, <2>3, <2>5, MoveKeepsIInv
<1>2. ASSUME NEW s \in {"collect", "deny"}, Goto(t, s), s = "collect" => thread[t].facts = None
      PROVE  IInv'
  <2>1. /\ thread' \in [Threads -> Locals] /\ Others(t) /\ thread'[t].at = s
        /\ thread'[t].key = thread[t].key /\ thread'[t].request = thread[t].request
        /\ thread'[t].run = thread[t].run /\ thread'[t].facts = thread[t].facts
    BY <1>0, <1>2, GotoEffect DEF Steps
  <2>2. LocalInv(t)'
    BY <1>0, <1>2, <2>1 DEF LocalInv, Serves, tables
  <2>3. QED
    BY <1>0, <2>1, <2>2, MoveKeepsIInv
<1>3. QED
  <2>1. thread[t].facts = None
    BY <1>0 DEF LocalInv
  <2>2. QED
    BY <1>1, <1>2, <2>1 DEF fetch

LEMMA GuardKeepsIInv ==
    ASSUME IInv, NEW t \in Threads, guard(t) PROVE IInv'
<1>1. Serves(t) /\ thread[t].at = "guard"
  BY DEF guard, Serves
<1>2. CASE thread[t].request.subject \in Guarded
  <2> DEFINE p == [abstained |-> TRUE, cites |-> {}]
  <2>1. p \in Proposal /\ p.cites \subseteq evidence[thread[t].run] /\ Propose(t, p)
    BY <1>2 DEF guard, Proposal
  <2> HIDE DEF p
  <2>2. QED
    BY <1>1, <2>1, ProposeKeepsIInv
<1>3. CASE thread[t].request.subject \notin Guarded
  <2>1. /\ update_run_state(thread[t].run, "authorized") /\ Goto(t, "fetch")
        /\ UNCHANGED <<runs, old, records, current, evidence, decisions, answers>>
    BY <1>3 DEF guard
  <2>2. "authorized" \in RunState /\ "fetch" \in Steps
    BY DEF RunState, Steps
  <2>3. QED
    BY <1>1, <2>1, <2>2, StateStepKeepsIInv
<1>4. QED
  BY <1>2, <1>3

LEMMA StepsKeepIInv ==
    ASSUME IInv, NEW t \in Threads, collect(t) \/ check(t) PROVE IInv'
<1>1. CASE collect(t)
  <2>1. /\ Serves(t) /\ "evidence_collected" \in RunState /\ "check" \in Steps
    BY <1>1 DEF collect, Serves, RunState, Steps
  <2>2. QED
    BY <1>1, <2>1, StateStepKeepsIInv DEF collect
<1>2. CASE check(t)
  <2>1. /\ Serves(t) /\ "policy_checked" \in RunState /\ "propose" \in Steps
    BY <1>2 DEF check, Serves, RunState, Steps
  <2>2. QED
    BY <1>2, <2>1, StateStepKeepsIInv DEF check
<1>3. QED
  BY <1>1, <1>2

LEMMA AnswerKeepsIInv ==
    ASSUME IInv, NEW t \in Threads, deny(t) \/ propose(t) PROVE IInv'
<1>1. Serves(t)
  BY DEF deny, propose, Serves
<1>2. CASE deny(t)
  <2> DEFINE p == [abstained |-> TRUE, cites |-> {}]
  <2>1. p \in Proposal /\ p.cites \subseteq evidence[thread[t].run] /\ Propose(t, p)
    BY <1>2 DEF deny, Proposal
  <2> HIDE DEF p
  <2>2. QED
    BY <1>1, <2>1, ProposeKeepsIInv
<1>3. CASE propose(t)
  <2>1. PICK abstain \in BOOLEAN :
            Propose(t, [abstained |-> abstain,
                        cites |-> IF thread[t].facts = None THEN {} ELSE {thread[t].facts}])
    BY <1>3 DEF propose
  <2> DEFINE p == [abstained |-> abstain,
                   cites |-> IF thread[t].facts = None THEN {} ELSE {thread[t].facts}]
  <2>2. thread[t] \in Locals /\ LocalInv(t) /\ thread[t].at = "propose"
    BY <1>3 DEF propose, IInv, TypeOK, LocalsInv
  <2>3. thread[t].facts # None => thread[t].facts \in evidence[thread[t].run] /\ thread[t].facts \in Facts
    BY <2>2 DEF LocalInv, Locals
  <2>4. p \in Proposal /\ p.cites \subseteq evidence[thread[t].run]
    BY <2>3 DEF Proposal
  <2> HIDE DEF p
  <2>5. Propose(t, p)
    BY <2>1 DEF p
  <2>6. QED
    BY <1>1, <2>4, <2>5, ProposeKeepsIInv
<1>4. QED
  BY <1>2, <1>3

LEMMA SaveRunKeepsIInv ==
    ASSUME IInv, NEW t \in Threads, NEW r \in RunIds, save_run(t, r) PROVE IInv'
<1> DEFINE row == [key |-> thread[t].key, request |-> thread[t].request]
           new == [thread[t] EXCEPT !.at = "guard", !.run = r]
<1>0. /\ thread[t] \in Locals /\ LocalInv(t) /\ thread[t].at = "insert"
      /\ thread[t].key \in Keys /\ thread[t].request \in Requests /\ thread[t].facts = None
      /\ thread \in [Threads -> Locals]
  BY DEF save_run, IInv, TypeOK, LocalsInv, LocalInv, Locals
<1>1. row \in RunRow /\ row # None /\ row.key = thread[t].key /\ row.request = thread[t].request
  BY <1>0, NoneAssumption DEF RunRow
<1>2. /\ new \in Locals /\ new.at = "guard" /\ new.run = r /\ new.facts = None
      /\ new.key = thread[t].key /\ new.request = thread[t].request
  BY <1>0 DEF Locals, Steps
<1>3. /\ runs' = [runs EXCEPT ![r] = row] /\ state' = [state EXCEPT ![r] = "received"]
      /\ thread' = [thread EXCEPT ![t] = new] /\ state[r] = "ABSENT"
      /\ UNCHANGED <<proposal, old, records, current, evidence, decisions, answers>>
  BY DEF save_run
<1>4. \A x \in RunIds : runs[x] # None => runs[x].key # thread[t].key
  BY DEF save_run, KeyTaken, Holds
<1> HIDE DEF row, new
<1>5. thread' \in [Threads -> Locals] /\ Others(t) /\ thread'[t] = new
  BY <1>0, <1>2, <1>3 DEF Others
<1>6. /\ runs' \in [RunIds -> RunRow \cup {None}] /\ state' \in [RunIds -> RunState]
      /\ runs'[r] = row /\ state'[r] = "received"
      /\ \A x \in RunIds : x # r => runs'[x] = runs[x] /\ state'[x] = state[x]
  BY <1>1, <1>3 DEF IInv, TypeOK, RunState
<1>7. runs[r] = None /\ proposal[r] = None /\ decisions[r] = None
  BY <1>3 DEF IInv, RowsInv, ClosedIsDecided
<1>8. \A x \in Threads : Serves(x) => thread[x].run # r
  BY <1>7, ServedRun
<1>9. TypeOK'
  BY <1>3, <1>5, <1>6 DEF IInv, TypeOK
<1>10. RowsInv'
  BY <1>1, <1>3, <1>4, <1>6, <1>7 DEF IInv, RowsInv, Holds
<1>11. AnswersInv'
  <2>1. \A a \in answers : a.run # r /\ a.run \in RunIds
    BY <1>7 DEF IInv, TypeOK, AnswersInv, Answer
  <2>2. QED
    BY <1>3, <1>6, <2>1 DEF IInv, AnswersInv
<1>12. ProposalsGrounded' /\ ClosedIsDecided'
  BY <1>3, <1>6, <1>7 DEF IInv, ProposalsGrounded, ClosedIsDecided
<1>13. ExclusionInv'
  BY <1>2, <1>5, <1>8 DEF IInv, ExclusionInv, Others, Serves
<1>14. LocalInv(t)'
  <2>1. thread'[t].key # None /\ thread'[t].request # None
    BY <1>0, <1>2, <1>5 DEF LocalInv
  <2>2. runs'[r] = [key |-> thread'[t].key, request |-> thread'[t].request]
    BY <1>2, <1>5, <1>6 DEF row
  <2>3. QED
    BY <1>2, <1>5, <1>6, <2>1, <2>2 DEF LocalInv, Serves
<1>15. LocalsInv'
  BY <1>3, <1>5, <1>6, <1>7, <1>8, <1>14, OthersKeepLocalInv DEF OnlyRun
<1>16. QED
  BY <1>9, <1>10, <1>11, <1>12, <1>13, <1>15 DEF IInv

LEMMA SaveEvidenceKeepsIInv ==
    ASSUME IInv, NEW t \in Threads, save_evidence(t) PROVE IInv'
<1> DEFINE r == thread[t].run
           f == thread[t].facts
<1>0. /\ thread[t] \in Locals /\ LocalInv(t) /\ thread[t].at = "save" /\ Serves(t)
      /\ r \in RunIds /\ f \in Facts /\ runs[r] # None
      /\ UNCHANGED <<runs, state, proposal, old, decisions, answers>>
  <2>1. thread[t] \in Locals /\ LocalInv(t) /\ thread[t].at = "save" /\ Serves(t)
    BY DEF save_evidence, IInv, TypeOK, LocalsInv, Serves
  <2>2. f \in Facts
    BY <2>1 DEF LocalInv, Locals
  <2>3. QED
    BY <2>1, <2>2, ServedRun DEF save_evidence
<1>1. /\ thread' \in [Threads -> Locals] /\ Others(t) /\ thread'[t].at = "collect"
      /\ thread'[t].key = thread[t].key /\ thread'[t].request = thread[t].request
      /\ thread'[t].run = r /\ thread'[t].facts = f
  BY GotoEffect DEF save_evidence, IInv, TypeOK, Steps
<1>2. /\ evidence' \in [RunIds -> SUBSET Facts]
      /\ evidence'[r] = evidence[r] \cup {f}
      /\ \A s \in RunIds : s # r => evidence'[s] = evidence[s]
  BY <1>0 DEF save_evidence, IInv, TypeOK
<1>3. [run |-> r, scope |-> runs[r].request.scope] \in EvidenceRow
  BY <1>0 DEF IInv, TypeOK, RunRow, Requests, EvidenceRow
<1>4. /\ records' \in [Facts -> EvidenceRow \cup {None}] /\ current' \in [Facts -> BOOLEAN]
      /\ records'[f] # None /\ \A g \in Facts : records[g] # None => records'[g] # None
  <2> DEFINE row == [run |-> r, scope |-> runs[r].request.scope]
  <2>1. row \in EvidenceRow /\ row # None
    BY <1>3, NoneAssumption
  <2>2. IF records[f] = None
        THEN records' = [records EXCEPT ![f] = row] /\ current' = [current EXCEPT ![f] = TRUE]
        ELSE UNCHANGED <<records, current>>
    BY DEF save_evidence
  <2> HIDE DEF row, r, f
  <2>3. QED
    BY <1>0, <2>1, <2>2 DEF IInv, TypeOK
<1> HIDE DEF r, f
<1>5. TypeOK'
  BY <1>0, <1>1, <1>2, <1>4 DEF IInv, TypeOK
<1>6. \A s \in RunIds : evidence[s] \subseteq evidence'[s] /\ evidence[s] \subseteq Facts
  BY <1>2 DEF IInv, TypeOK
<1>7. RowsInv'
  <2>1. \A s \in RunIds : \A g \in evidence'[s] : records'[g] # None
    BY <1>2, <1>4, <1>6 DEF IInv, RowsInv
  <2>2. QED
    BY <1>0, <2>1 DEF IInv, RowsInv, Holds
<1>8. AnswersInv' /\ ClosedIsDecided'
  BY <1>0 DEF IInv, AnswersInv, ClosedIsDecided
<1>9. ProposalsGrounded'
  BY <1>0, <1>4, <1>6 DEF IInv, ProposalsGrounded
<1>10. ExclusionInv'
  BY <1>0, <1>1, ExclusionStays DEF r
<1>11. LocalInv(t)'
  BY <1>0, <1>1, <1>2 DEF LocalInv, Serves, r, f
<1>12. LocalsInv'
  BY <1>0, <1>1, <1>6, <1>11, OthersKeepLocalInvQuiet
<1>13. QED
  BY <1>5, <1>7, <1>8, <1>9, <1>10, <1>12 DEF IInv

LEMMA HumanDecisionKeepsIInv ==
    ASSUME IInv, NEW t \in Threads, record_human_decision(t) PROVE IInv'
<1> DEFINE r == thread[t].run
<1>0. /\ thread[t] \in Locals /\ thread[t].at = "review" /\ r \in RunIds
      /\ thread[t].user \in Users /\ proposal[r] # None
      /\ UNCHANGED <<runs, proposal, old, records, current, evidence, answers>>
  BY DEF record_human_decision, IInv, TypeOK, LocalsInv, LocalInv, Locals
<1>1. thread' \in [Threads -> Locals] /\ Others(t) /\ thread'[t].at = "idle"
  BY ReturnEffect DEF record_human_decision, IInv, TypeOK
<1>2. LocalInv(t)'
  BY <1>1 DEF LocalInv, Serves
<1>3. CASE decisions[r] # None
  <2>1. UNCHANGED <<tables, answers>>
    BY <1>0, <1>3 DEF record_human_decision, tables
  <2>2. QED
    BY <1>1, <1>2, <2>1, MoveKeepsIInv DEF Serves
<1>4. CASE decisions[r] = None
  <2>1. /\ decisions' \in [RunIds -> Users \cup {None}] /\ decisions'[r] # None
        /\ \A s \in RunIds : s # r => decisions'[s] = decisions[s]
    BY <1>0, <1>4, NoneAssumption DEF record_human_decision, IInv, TypeOK
  <2>2. /\ state' \in [RunIds -> RunState] /\ state'[r] = "closed"
        /\ \A s \in RunIds : s # r => state'[s] = state[s]
    BY <1>0, <1>4 DEF record_human_decision, IInv, TypeOK, RunState
  <2>3. state[r] \in {"proposed", "closed"}
    BY <1>0 DEF IInv, RowsInv
  <2>4. \A x \in Threads : Serves(x) => thread[x].run # r
    BY <2>3, ServedRun
  <2> HIDE DEF r
  <2>5. TypeOK'
    BY <1>0, <1>1, <2>1, <2>2 DEF IInv, TypeOK
  <2>6. RowsInv'
    BY <1>0, <2>2, <2>3 DEF IInv, RowsInv, Holds
  <2>7. AnswersInv' /\ ProposalsGrounded'
    BY <1>0 DEF IInv, AnswersInv, ProposalsGrounded
  <2>8. ClosedIsDecided'
    BY <2>1, <2>2 DEF IInv, ClosedIsDecided
  <2>9. ExclusionInv'
    BY <1>1, ExclusionStays DEF Serves
  <2>10. LocalsInv'
    BY <1>0, <1>1, <1>2, <2>2, <2>4, OthersKeepLocalInv DEF OnlyRun
  <2>11. QED
    BY <2>5, <2>6, <2>7, <2>8, <2>9, <2>10 DEF IInv
<1>5. QED
  BY <1>3, <1>4

\* The observer, the clock and a step that does nothing.
LEMMA QuietKeepsIInv ==
    ASSUME IInv, UNCHANGED <<runs, state, proposal, records, evidence, decisions, thread>>,
           old' \in [RunIds -> BOOLEAN], current' \in [Facts -> BOOLEAN],
           answers' \subseteq Answer, AnswersInv'
    PROVE  IInv'
<1>1. TypeOK'
  BY DEF IInv, TypeOK
<1>2. RowsInv' /\ ProposalsGrounded' /\ ClosedIsDecided'
  BY DEF IInv, RowsInv, ProposalsGrounded, ClosedIsDecided, Holds
<1>3. ExclusionInv'
  BY DEF IInv, ExclusionInv, Serves
<1>4. \A t \in Threads : LocalInv(t)' <=> LocalInv(t)
  BY DEF LocalInv, Serves
<1>5. LocalsInv'
  BY <1>4 DEF IInv, LocalsInv
<1>6. QED
  BY <1>1, <1>2, <1>3, <1>5 DEF IInv

LEMMA ReplayKeepsIInv ==
    ASSUME IInv, NEW r \in RunIds, NEW q \in Requests, NEW k \in Keys, replay(r, q, k)
    PROVE  IInv'
<1> DEFINE a == [key |-> k, user |-> q.user, run |-> r, proposal |-> proposal[r]]
<1>1. /\ answers' = answers \cup {a}
      /\ UNCHANGED <<runs, state, proposal, records, evidence, decisions, thread, old, current>>
      /\ runs[r] # None /\ runs[r].key = k /\ runs[r].request = q /\ proposal[r] # None
  BY DEF replay, Reply, tables, Holds, MayReplay
<1>2. /\ a \in Answer /\ a.run = r /\ a.key = k /\ a.user = q.user /\ a.proposal = proposal[r]
  BY <1>1 DEF Answer, Requests, IInv, TypeOK
<1> HIDE DEF a
<1>3. AnswersInv'
  BY <1>1, <1>2 DEF IInv, AnswersInv
<1>4. QED
  BY <1>1, <1>2, <1>3, QuietKeepsIInv DEF IInv, TypeOK

LEMMA ClockKeepsIInv ==
    ASSUME IInv,
           \/ \E r \in RunIds : GrowsOld(r)
           \/ \E f \in Facts : EvidenceExpires(f)
           \/ UNCHANGED vars
    PROVE  IInv'
<1>1. /\ UNCHANGED <<runs, state, proposal, records, evidence, decisions, thread, answers>>
      /\ old' \in [RunIds -> BOOLEAN] /\ current' \in [Facts -> BOOLEAN]
  BY DEF GrowsOld, EvidenceExpires, vars, tables, IInv, TypeOK
<1>2. AnswersInv'
  BY <1>1 DEF IInv, AnswersInv
<1>3. QED
  BY <1>1, <1>2, QuietKeepsIInv DEF IInv, TypeOK

LEMMA RestartKeepsIInv == ASSUME IInv, Restart PROVE IInv'
<1>1. /\ thread' \in [Threads -> Locals] /\ \A t \in Threads : thread'[t].at = "idle"
  <2>1. thread' \in [Threads -> Locals] /\ \A t \in Threads : thread'[t] = Idle
    BY IdleType DEF Restart
  <2>2. QED
    BY <2>1 DEF Idle
<1>2. UNCHANGED <<runs, proposal, old, records, current, evidence, decisions, answers>>
  BY DEF Restart
<1>3. /\ state' \in [RunIds -> RunState]
      /\ \A r \in RunIds : \/ state'[r] = state[r]
                           \/ state[r] \in {"received", "authorized"} /\ state'[r] = "abstained"
  BY DEF Restart, recover_dangling_runs, IInv, TypeOK, RunState
<1>4. TypeOK'
  BY <1>1, <1>2, <1>3 DEF IInv, TypeOK
<1>5. RowsInv'
  BY <1>2, <1>3 DEF IInv, RowsInv, Holds
<1>6. AnswersInv' /\ ProposalsGrounded'
  BY <1>2 DEF IInv, AnswersInv, ProposalsGrounded
<1>7. ClosedIsDecided'
  BY <1>2, <1>3 DEF IInv, ClosedIsDecided
<1>8. ExclusionInv' /\ LocalsInv'
  BY <1>1 DEF ExclusionInv, LocalsInv, LocalInv, Serves
<1>9. QED
  BY <1>4, <1>5, <1>6, <1>7, <1>8 DEF IInv

LEMMA NextKeepsIInv == IInv /\ [Next]_vars => IInv'
<1> SUFFICES ASSUME IInv, [Next]_vars PROVE IInv'
  OBVIOUS
<1>1. ASSUME NEW t \in Threads, Request(t) PROVE IInv'
  BY <1>1, StartKeepsIInv, RecordDecisionKeepsIInv DEF Request
<1>2. ASSUME NEW t \in Threads, Serve(t) PROVE IInv'
  BY <1>2, SaveRunKeepsIInv, QuietReturnKeepsIInv, GuardKeepsIInv, FetchKeepsIInv, AnswerKeepsIInv,
     SaveEvidenceKeepsIInv, StepsKeepIInv, HumanDecisionKeepsIInv DEF Serve
<1>3. QED
  BY <1>1, <1>2, ReplayKeepsIInv, ClockKeepsIInv, RestartKeepsIInv DEF Next

\* The inductive invariant holds in every reachable state.
THEOREM Invariant == Spec => []IInv
<1>1. QED
  BY InitIInv, NextKeepsIInv, PTL DEF Spec

\* Type correctness of every table, observer and thread local.
THEOREM TypeCorrect == Spec => []TypeOK
<1>1. IInv => TypeOK
  BY DEF IInv
<1>2. QED
  BY <1>1, Invariant, PTL

\* All answers given under one key are the same run's same proposal, to one user.
THEOREM OneAnswer == Spec => []OneAnswerPerKey
<1>1. ASSUME IInv PROVE OneAnswerPerKey
  <2> SUFFICES ASSUME NEW a \in answers, NEW b \in answers, a.key = b.key
               PROVE  a.run = b.run /\ a.proposal = b.proposal /\ a.user = b.user
    BY DEF OneAnswerPerKey
  <2>1. a.run \in RunIds /\ b.run \in RunIds
    BY <1>1 DEF IInv, TypeOK, Answer
  <2>2. Holds(a.run, a.key) /\ Holds(b.run, b.key)
    BY <1>1 DEF IInv, AnswersInv, Holds
  <2>3. a.run = b.run
    BY <1>1, <2>1, <2>2 DEF IInv, RowsInv, Holds
  <2>4. QED
    BY <1>1, <2>3 DEF IInv, AnswersInv
<1>2. QED
  BY <1>1, Invariant, PTL

\* Proposals cite stored evidence of their own run only.
THEOREM GroundedProposals == Spec => []ProposalsGrounded
<1>1. IInv => ProposalsGrounded
  BY DEF IInv
<1>2. QED
  BY <1>1, Invariant, PTL

\* Closed runs are the decided ones.
THEOREM ClosedRunsAreDecided == Spec => []ClosedIsDecided
<1>1. IInv => ClosedIsDecided
  BY DEF IInv
<1>2. QED
  BY <1>1, Invariant, PTL

\* A step writes a run's state column only along the documented transitions.
LEMMA StepIsStrict ==
    ASSUME IInv, [Next]_vars, NEW r \in RunIds, state'[r] # state[r]
    PROVE  <<state[r], state'[r]>> \in Transitions
<1>1. ASSUME NEW t \in Threads, Serves(t), NEW s \in RunState, update_run_state(thread[t].run, s)
      PROVE  thread[t].run = r /\ state'[r] = s /\ LocalInv(t)
  BY <1>1, ServedRun DEF update_run_state, IInv, TypeOK, LocalsInv
<1>2. ASSUME NEW t \in Threads, Serves(t), NEW p, Propose(t, p)
      PROVE  thread[t].run = r /\ state'[r] = "proposed" /\ LocalInv(t)
  BY <1>2, ServedRun DEF Propose, update_run_proposal, IInv, TypeOK, LocalsInv
<1>3. ASSUME NEW t \in Threads, NEW s \in RunIds, save_run(t, s)
      PROVE  state[r] = "ABSENT" /\ state'[r] = "received"
  BY <1>3 DEF save_run, IInv, TypeOK
<1>4. ASSUME NEW t \in Threads, guard(t)
      PROVE  state[r] = "received" /\ state'[r] \in {"authorized", "proposed"}
  <2>1. Serves(t) /\ thread[t].at = "guard" /\ "authorized" \in RunState
    BY <1>4 DEF guard, Serves, RunState
  <2>2. CASE thread[t].request.subject \in Guarded
    BY <1>2, <1>4, <2>1, <2>2 DEF guard, LocalInv
  <2>3. CASE thread[t].request.subject \notin Guarded
    BY <1>1, <1>4, <2>1, <2>3 DEF guard, LocalInv
  <2>4. QED
    BY <2>2, <2>3
<1>5. ASSUME NEW t \in Threads, collect(t)
      PROVE  state[r] = "authorized" /\ state'[r] = "evidence_collected"
  BY <1>1, <1>5 DEF collect, Serves, RunState, LocalInv
<1>6. ASSUME NEW t \in Threads, check(t)
      PROVE  state[r] = "evidence_collected" /\ state'[r] = "policy_checked"
  BY <1>1, <1>6 DEF check, Serves, RunState, LocalInv
<1>7. ASSUME NEW t \in Threads, deny(t) \/ propose(t)
      PROVE  state[r] \in {"authorized", "policy_checked"} /\ state'[r] = "proposed"
  BY <1>2, <1>7 DEF deny, propose, Serves, LocalInv
<1>8. ASSUME NEW t \in Threads, record_human_decision(t)
      PROVE  state[r] = "proposed" /\ state'[r] = "closed"
  <2>1. /\ thread[t].at = "review" /\ LocalInv(t) /\ decisions[thread[t].run] = None
        /\ state' = [state EXCEPT ![thread[t].run] = "closed"]
    BY <1>8 DEF record_human_decision, IInv, LocalsInv
  <2>2. r = thread[t].run /\ state'[r] = "closed" /\ proposal[r] # None /\ decisions[r] = None
    BY <2>1 DEF LocalInv, IInv, TypeOK
  <2>3. QED
    BY <2>2 DEF IInv, RowsInv, ClosedIsDecided
<1>9. CASE Restart
  BY <1>9 DEF Restart, recover_dangling_runs, Transitions
<1>10. ASSUME NEW t \in Threads,
              \/ Request(t) \/ save_run_conflict(t) \/ unhandled_error(t)
              \/ fetch(t) \/ save_evidence(t)
       PROVE  FALSE
  BY <1>10 DEF Request, start_investigation, record_decision, save_run_conflict, unhandled_error,
               fetch, save_evidence, tables
<1>11. ASSUME \/ \E s \in RunIds, q \in Requests, k \in Keys : replay(s, q, k)
              \/ \E s \in RunIds : GrowsOld(s)
              \/ \E f \in Facts : EvidenceExpires(f)
              \/ UNCHANGED vars
       PROVE  FALSE
  BY <1>11 DEF replay, GrowsOld, EvidenceExpires, vars, tables
<1>12. ASSUME NEW t \in Threads, Serve(t) PROVE <<state[r], state'[r]>> \in Transitions
  BY <1>3, <1>4, <1>5, <1>6, <1>7, <1>8, <1>10, <1>12 DEF Serve, Transitions
<1>13. QED
  BY <1>9, <1>10, <1>11, <1>12 DEF Next

\* Runs only take the transitions their class documents.
THEOREM TransitionsAreStrict == Spec => StrictTransitions
<1>1. IInv /\ [Next]_vars =>
          [\A r \in RunIds : state'[r] # state[r] => <<state[r], state'[r]>> \in Transitions]_vars
  BY StepIsStrict
<1>2. QED
  BY <1>1, Invariant, PTL DEF Spec, StrictTransitions

\* Only a recorded decision writes the decisions.
LEMMA StepKeepsDecisions ==
    ASSUME IInv, [Next]_vars, NEW r \in RunIds, decisions[r] # None
    PROVE  decisions'[r] = decisions[r]
<1>1. ASSUME NEW t \in Threads, record_human_decision(t)
      PROVE  decisions'[r] = decisions[r]
  BY <1>1 DEF record_human_decision, IInv, TypeOK
<1>2. ASSUME NEW t \in Threads,
             \/ save_run_conflict(t) \/ unhandled_error(t) \/ fetch(t) \/ Request(t)
      PROVE  UNCHANGED decisions
  BY <1>2 DEF save_run_conflict, unhandled_error, fetch, Request, start_investigation,
              record_decision, tables
<1>3. ASSUME NEW t \in Threads, NEW s \in RunIds, save_run(t, s)
      PROVE  UNCHANGED decisions
  BY <1>3 DEF save_run
<1>4. ASSUME NEW t \in Threads, NEW p, Propose(t, p)
      PROVE  UNCHANGED decisions
  BY <1>4 DEF Propose
<1>5. ASSUME NEW t \in Threads, guard(t) \/ deny(t) \/ propose(t)
      PROVE  UNCHANGED decisions
  BY <1>4, <1>5 DEF guard, deny, propose
<1>6. ASSUME NEW t \in Threads, save_evidence(t) \/ collect(t) \/ check(t)
      PROVE  UNCHANGED decisions
  BY <1>6 DEF save_evidence, collect, check
<1>7. ASSUME NEW t \in Threads, Serve(t) PROVE decisions'[r] = decisions[r]
  BY <1>1, <1>2, <1>3, <1>5, <1>6, <1>7 DEF Serve
<1>8. CASE Restart
  BY <1>8 DEF Restart
<1>9. ASSUME \/ \E s \in RunIds, q \in Requests, k \in Keys : replay(s, q, k)
             \/ \E s \in RunIds : GrowsOld(s)
             \/ \E f \in Facts : EvidenceExpires(f)
             \/ UNCHANGED vars
      PROVE  UNCHANGED decisions
  BY <1>9 DEF replay, GrowsOld, EvidenceExpires, vars, tables
<1>10. QED
  BY <1>2, <1>7, <1>8, <1>9 DEF Next

\* A recorded decision is never replaced.
THEOREM DecisionsStand == Spec => DecisionStands
<1>1. IInv /\ [Next]_vars =>
          [\A r \in RunIds : decisions[r] # None => decisions'[r] = decisions[r]]_vars
  BY StepKeepsDecisions
<1>2. QED
  BY <1>1, Invariant, PTL DEF Spec, DecisionStands
=============================================================================
