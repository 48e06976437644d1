----------------------------- MODULE RunManager -----------------------------
(***************************************************************************)
(* The Agent Hub's investigations (core/run_manager.py over                *)
(* core/storage.py).  As in ActionExecutor, requests run on a pool of      *)
(* threads and every StorageManager call is one transaction, so a step is  *)
(* the code from one storage call to the next.  A request that is refused  *)
(* (409) changes no state.  A caller learns a run's id only from the       *)
(* proposal that is returned to it, so decisions are made on runs that     *)
(* were answered.                                                          *)
(***************************************************************************)
EXTENDS Naturals, FiniteSets

CONSTANTS Threads,     \* the server's worker threads
          RunIds,      \* run ids (uuid4, never repeated)
          Keys,        \* idempotency keys: the client's, or derived from the request
          Users, Scopes,
          Subjects,    \* what is asked: case type, entity and payload
          Guarded,     \* subjects with a mutation verb, a command or no alert manager
          Facts,       \* what an owner can answer about a subject; stands for its hash
          None

ASSUME GuardedAssumption == Guarded \subseteq Subjects

VARIABLES runs,        \* investigation_runs rows: key and request
          state,       \* the state column ("ABSENT": no row)
          proposal,    \* the proposal_json column
          old,         \* old[r]: created more than five minutes ago
          records,     \* evidence_records, by hash of the facts
          current,     \* current[f]: records[f] has not expired
          evidence,    \* investigation_evidence: the hashes associated with a run
          decisions,   \* human_decisions rows
          answers,     \* observer: the proposals returned to callers
          thread       \* what each worker thread is doing

tables == <<runs, state, proposal, old, records, current, evidence, decisions>>
vars == <<tables, answers, thread>>

Requests == [user : Users, scope : Scopes, subject : Subjects]
RunRow == [key : Keys, request : Requests]
Proposal == [abstained : BOOLEAN, cites : SUBSET Facts]
EvidenceRow == [run : RunIds, scope : Scopes]
Answer == [key : Keys, user : Users, run : RunIds, proposal : Proposal]

ASSUME NoneAssumption ==
    None \notin Keys \cup Requests \cup Users \cup Facts \cup RunRow \cup Proposal \cup EvidenceRow

RunState == {"ABSENT", "received", "authorized", "evidence_collected", "policy_checked",
             "proposed", "abstained", "closed"}
Steps == {"idle", "insert", "guard", "fetch", "deny", "save", "collect", "check", "propose", "review"}

\* A thread's locals: where it is, the key and request it serves, its run and the
\* fetched facts (none for a case type without an adapter), or the reviewer.
Locals == [at : Steps, key : Keys \cup {None}, request : Requests \cup {None},
           run : RunIds \cup {None}, facts : Facts \cup {None}, user : Users \cup {None}]
Idle == [at |-> "idle", key |-> None, request |-> None, run |-> None, facts |-> None, user |-> None]

Init == /\ runs = [r \in RunIds |-> None]
        /\ state = [r \in RunIds |-> "ABSENT"]
        /\ proposal = [r \in RunIds |-> None]
        /\ old = [r \in RunIds |-> FALSE]
        /\ records = [f \in Facts |-> None]
        /\ current = [f \in Facts |-> FALSE]
        /\ evidence = [r \in RunIds |-> {}]
        /\ decisions = [r \in RunIds |-> None]
        /\ answers = {}
        /\ thread = [t \in Threads |-> Idle]

Holds(r, k) == runs[r] # None /\ runs[r].key = k
KeyTaken(k) == \E r \in RunIds : Holds(r, k)

Goto(t, step) == thread' = [thread EXCEPT ![t].at = step]
Return(t) == thread' = [thread EXCEPT ![t] = Idle]

\* update_run_state writes its columns unconditionally.
update_run_state(r, s) == state' = [state EXCEPT ![r] = s] /\ UNCHANGED proposal
update_run_proposal(r, p) == /\ state' = [state EXCEPT ![r] = "proposed"]
                             /\ proposal' = [proposal EXCEPT ![r] = p]

Reply(k, u, r, p) ==
    answers' = answers \cup {[key |-> k, user |-> u, run |-> r, proposal |-> p]}
-----------------------------------------------------------------------------
(* start_investigation *)

\* Mutant: the stored proposal is returned without comparing the caller.
MayReplay_anyone(r, q) == runs[r].request.scope = q.scope /\ runs[r].request.subject = q.subject

\* The idempotency bindings: same scope, caller and subject.
MayReplay(r, q) == runs[r].request = q

\* A key that is stored with the same request and a proposal is a replay.
replay(r, q, k) ==
    /\ Holds(r, k)
    /\ MayReplay(r, q)
    /\ proposal[r] # None
    /\ Reply(k, q.user, r, proposal[r])
    /\ UNCHANGED <<tables, thread>>

\* A new key, or a stored one whose run has no proposal, goes on to save_run.
start_investigation(t, q, k) ==
    /\ thread[t].at = "idle"
    /\ \A r \in RunIds : Holds(r, k) => MayReplay(r, q) /\ proposal[r] = None
    /\ thread' = [thread EXCEPT ![t] = [Idle EXCEPT !.at = "insert", !.key = k, !.request = q]]
    /\ UNCHANGED <<tables, answers>>

save_run(t, r) ==
    /\ thread[t].at = "insert"
    /\ state[r] = "ABSENT"
    /\ ~KeyTaken(thread[t].key)
    /\ runs' = [runs EXCEPT ![r] = [key |-> thread[t].key, request |-> thread[t].request]]
    /\ state' = [state EXCEPT ![r] = "received"]
    /\ thread' = [thread EXCEPT ![t].at = "guard", ![t].run = r]
    /\ UNCHANGED <<proposal, old, records, current, evidence, decisions, answers>>

\* The UNIQUE constraint on idempotency_key: 500.
save_run_conflict(t) ==
    /\ thread[t].at = "insert"
    /\ KeyTaken(thread[t].key)
    /\ Return(t)
    /\ UNCHANGED <<tables, answers>>

\* The proposal is stored, then returned to the caller.
Propose(t, p) ==
    /\ update_run_proposal(thread[t].run, p)
    /\ Reply(thread[t].key, thread[t].request.user, thread[t].run, p)
    /\ Return(t)
    /\ UNCHANGED <<runs, old, records, current, evidence, decisions>>

\* The three guards before the run is authorized.
guard(t) ==
    /\ thread[t].at = "guard"
    /\ IF thread[t].request.subject \in Guarded
       THEN Propose(t, [abstained |-> TRUE, cites |-> {}])
       ELSE /\ update_run_state(thread[t].run, "authorized")
            /\ Goto(t, "fetch")
            /\ UNCHANGED <<runs, old, records, current, evidence, decisions, answers>>

\* The adapter's answer: facts, or none for a case type without an adapter, or
\* PermissionError.  Any other exception is unhandled_error.
fetch(t) ==
    /\ thread[t].at = "fetch"
    /\ \/ \E f \in Facts : thread' = [thread EXCEPT ![t].at = "save", ![t].facts = f]
       \/ Goto(t, "collect")
       \/ Goto(t, "deny")
    /\ UNCHANGED <<tables, answers>>

deny(t) ==
    /\ thread[t].at = "deny"
    /\ Propose(t, [abstained |-> TRUE, cites |-> {}])

\* Mutant: a known snapshot is not associated with the new run.
save_evidence_once(t) ==
    LET f == thread[t].facts
        r == thread[t].run
    IN  /\ thread[t].at = "save"
        /\ IF records[f] = None
           THEN /\ records' = [records EXCEPT ![f] = [run |-> r, scope |-> runs[r].request.scope]]
                /\ current' = [current EXCEPT ![f] = TRUE]
                /\ evidence' = [evidence EXCEPT ![r] = @ \cup {f}]
           ELSE UNCHANGED <<records, current, evidence>>
        /\ Goto(t, "collect")
        /\ UNCHANGED <<runs, state, proposal, old, decisions, answers>>

\* ON CONFLICT DO NOTHING keeps the first snapshot, with its scope and expiry.
save_evidence(t) ==
    LET f == thread[t].facts
        r == thread[t].run
    IN  /\ thread[t].at = "save"
        /\ IF records[f] = None
           THEN /\ records' = [records EXCEPT ![f] = [run |-> r, scope |-> runs[r].request.scope]]
                /\ current' = [current EXCEPT ![f] = TRUE]
           ELSE UNCHANGED <<records, current>>
        /\ evidence' = [evidence EXCEPT ![r] = @ \cup {f}]
        /\ Goto(t, "collect")
        /\ UNCHANGED <<runs, state, proposal, old, decisions, answers>>

collect(t) ==
    /\ thread[t].at = "collect"
    /\ update_run_state(thread[t].run, "evidence_collected")
    /\ Goto(t, "check")
    /\ UNCHANGED <<runs, old, records, current, evidence, decisions, answers>>

check(t) ==
    /\ thread[t].at = "check"
    /\ update_run_state(thread[t].run, "policy_checked")
    /\ Goto(t, "propose")
    /\ UNCHANGED <<runs, old, records, current, evidence, decisions, answers>>

\* Mutant: the proposal takes its evidence for granted.
propose_first_evidence(t) ==
    /\ thread[t].at = "propose"
    /\ \E abstain \in BOOLEAN : Propose(t, [abstained |-> abstain, cites |-> {thread[t].facts}])

\* The verifier's verdict or the critic may make the proposal abstain.
propose(t) ==
    /\ thread[t].at = "propose"
    /\ \E abstain \in BOOLEAN :
           Propose(t, [abstained |-> abstain,
                       cites |-> IF thread[t].facts = None THEN {} ELSE {thread[t].facts}])

\* ConnectionError from an adapter, an exception in the verifier, a storage error.
unhandled_error(t) ==
    /\ thread[t].at # "idle"
    /\ Return(t)
    /\ UNCHANGED <<tables, answers>>
-----------------------------------------------------------------------------
(* record_decision *)

\* Mutant: the id is handed out as soon as the run is stored.
Disclosed_early(r) == state[r] # "ABSENT"

\* The id of r was returned to a caller.
Disclosed(r) == \E a \in answers : a.run = r

\* The SELECTs of record_human_decision, which run before its transaction starts.
record_decision(t, r, u) ==
    /\ thread[t].at = "idle"
    /\ Disclosed(r)
    /\ state[r] # "closed"
    /\ decisions[r] = None
    /\ thread' = [thread EXCEPT ![t] = [Idle EXCEPT !.at = "review", !.run = r, !.user = u]]
    /\ UNCHANGED <<tables, answers>>

\* Mutant: the later of two decisions replaces the earlier.
record_human_decision_upsert(t) ==
    LET r == thread[t].run
    IN  /\ thread[t].at = "review"
        /\ decisions' = [decisions EXCEPT ![r] = thread[t].user]
        /\ state' = [state EXCEPT ![r] = "closed"]
        /\ Return(t)
        /\ UNCHANGED <<runs, proposal, old, records, current, evidence, answers>>

\* The insert and the update, one transaction; UNIQUE(run_id) answers 409.
record_human_decision(t) ==
    LET r == thread[t].run
    IN  /\ thread[t].at = "review"
        /\ IF decisions[r] = None
           THEN /\ decisions' = [decisions EXCEPT ![r] = thread[t].user]
                /\ state' = [state EXCEPT ![r] = "closed"]
           ELSE UNCHANGED <<decisions, state>>
        /\ Return(t)
        /\ UNCHANGED <<runs, proposal, old, records, current, evidence, answers>>
-----------------------------------------------------------------------------
(* The clock and the process *)

GrowsOld(r) ==
    /\ state[r] # "ABSENT"
    /\ ~old[r]
    /\ old' = [old EXCEPT ![r] = TRUE]
    /\ UNCHANGED <<runs, state, proposal, records, current, evidence, decisions, answers, thread>>

EvidenceExpires(f) ==
    /\ current[f]
    /\ current' = [current EXCEPT ![f] = FALSE]
    /\ UNCHANGED <<runs, state, proposal, old, records, evidence, decisions, answers, thread>>

\* Mutant: every old run is abstained, whatever its state.
recover_dangling_runs_all ==
    state' = [r \in RunIds |-> IF state[r] # "ABSENT" /\ old[r] THEN "abstained" ELSE state[r]]

recover_dangling_runs ==
    state' = [r \in RunIds |-> IF state[r] \in {"received", "authorized"} /\ old[r]
                               THEN "abstained" ELSE state[r]]

\* The process ends, with whatever it was doing, and starts again.
Restart ==
    /\ thread' = [t \in Threads |-> Idle]
    /\ recover_dangling_runs
    /\ UNCHANGED <<runs, proposal, old, records, current, evidence, decisions, answers>>
-----------------------------------------------------------------------------
Serve(t) ==
    \/ \E r \in RunIds : save_run(t, r)
    \/ save_run_conflict(t)
    \/ guard(t)
    \/ fetch(t)
    \/ deny(t)
    \/ save_evidence(t)
    \/ collect(t)
    \/ check(t)
    \/ propose(t)
    \/ unhandled_error(t)
    \/ record_human_decision(t)

Request(t) ==
    \/ \E q \in Requests, k \in Keys : start_investigation(t, q, k)
    \/ \E r \in RunIds, u \in Users : record_decision(t, r, u)

Next ==
    \/ \E t \in Threads : Request(t) \/ Serve(t)
    \/ \E r \in RunIds, q \in Requests, k \in Keys : replay(r, q, k)
    \/ \E r \in RunIds : GrowsOld(r)
    \/ \E f \in Facts : EvidenceExpires(f)
    \/ Restart

Spec == Init /\ [][Next]_vars
-----------------------------------------------------------------------------
(* Properties *)

\* Every table row and every thread local holds a value its code can put there.
TypeOK ==
    /\ runs \in [RunIds -> RunRow \cup {None}]
    /\ state \in [RunIds -> RunState]
    /\ proposal \in [RunIds -> Proposal \cup {None}]
    /\ old \in [RunIds -> BOOLEAN]
    /\ records \in [Facts -> EvidenceRow \cup {None}]
    /\ current \in [Facts -> BOOLEAN]
    /\ evidence \in [RunIds -> SUBSET Facts]
    /\ decisions \in [RunIds -> Users \cup {None}]
    /\ answers \subseteq Answer
    /\ thread \in [Threads -> Locals]

\* Whoever is answered under a key gets the same run's same proposal, and only
\* the user whose run it is: replays and concurrent starts with one key included.
OneAnswerPerKey == \A a, b \in answers :
    a.key = b.key => a.run = b.run /\ a.proposal = b.proposal /\ a.user = b.user

\* A proposal cites only evidence that is stored and associated with its run,
\* through crashes, failures and snapshots shared between runs.
ProposalsGrounded == \A r \in RunIds : proposal[r] # None =>
    \A f \in proposal[r].cites : records[f] # None /\ f \in evidence[r]

\* A run is closed exactly when it has a decision: no investigation step, and no
\* recovery at start-up, writes over a decided run.
ClosedIsDecided == \A r \in RunIds : state[r] = "closed" <=> decisions[r] # None

\* The first decision stands, whoever else was reviewing the run at the time.
DecisionStands == [][\A r \in RunIds :
    decisions[r] # None => decisions'[r] = decisions[r]]_vars

\* "Enforces strict transitions: received -> authorized -> evidence_collected ->
\* policy_checked -> proposed/abstained -> closed", with the early exits of the
\* guards, of a denied read and of the recovery.
Transitions == {<<"ABSENT", "received">>, <<"received", "authorized">>, <<"received", "proposed">>,
                <<"authorized", "evidence_collected">>, <<"authorized", "proposed">>,
                <<"evidence_collected", "policy_checked">>, <<"policy_checked", "proposed">>,
                <<"proposed", "closed">>, <<"received", "abstained">>, <<"authorized", "abstained">>}
StrictTransitions == [][\A r \in RunIds :
    state'[r] # state[r] => <<state[r], state'[r]>> \in Transitions]_vars

Serving(t, r) == thread[t].run = r /\ thread[t].at \notin {"idle", "review"}

\* "Client idempotency key for replay safety": a key whose request is no longer
\* being served can be replayed, that is, its run has a proposal to return.
KeyReplayable == \A r \in RunIds :
    runs[r] # None /\ (\A t \in Threads : ~Serving(t, r)) => proposal[r] # None

\* What a run has just fetched is current evidence of that run.
EvidenceCurrent == [][\A t \in Threads :
    save_evidence(t) => current'[thread[t].facts]]_vars
-----------------------------------------------------------------------------
(* The inductive invariant behind the properties, in named parts. *)

RowsInv == \A r \in RunIds :
    /\ runs[r] = None <=> state[r] = "ABSENT"
    /\ runs[r] # None => \A x \in RunIds : Holds(x, runs[r].key) => x = r
    /\ proposal[r] # None <=> state[r] \in {"proposed", "closed"}
    /\ \A f \in evidence[r] : records[f] # None

AnswersInv == \A a \in answers :
    /\ runs[a.run] # None
    /\ runs[a.run].key = a.key
    /\ runs[a.run].request.user = a.user
    /\ proposal[a.run] = a.proposal

\* A thread that serves a start has its run to itself.
Serves(t) == thread[t].at \notin {"idle", "insert", "review"}
ExclusionInv == \A t, x \in Threads :
    Serves(t) /\ Serves(x) /\ thread[t].run = thread[x].run => t = x

\* What a thread may rely on between its own storage calls.
LocalInv(t) ==
    /\ thread[t].at # "idle" /\ thread[t].at # "review" =>
          thread[t].key # None /\ thread[t].request # None
    /\ Serves(t) =>
          /\ thread[t].run \in RunIds
          /\ runs[thread[t].run] = [key |-> thread[t].key, request |-> thread[t].request]
    /\ thread[t].at = "guard" => state[thread[t].run] = "received"
    /\ thread[t].at \in {"fetch", "deny", "save", "collect"} => state[thread[t].run] = "authorized"
    /\ thread[t].at = "check" => state[thread[t].run] = "evidence_collected"
    /\ thread[t].at = "propose" => state[thread[t].run] = "policy_checked"
    /\ thread[t].at \in {"insert", "guard", "fetch"} => thread[t].facts = None
    /\ thread[t].at = "save" => thread[t].facts # None
    /\ thread[t].at \in {"collect", "check", "propose"} /\ thread[t].facts # None =>
          thread[t].facts \in evidence[thread[t].run]
    /\ thread[t].at = "review" =>
          thread[t].user # None /\ thread[t].run \in RunIds /\ proposal[thread[t].run] # None

LocalsInv == \A t \in Threads : LocalInv(t)

IInv == /\ TypeOK
        /\ RowsInv
        /\ AnswersInv
        /\ ExclusionInv
        /\ LocalsInv
        /\ ProposalsGrounded
        /\ ClosedIsDecided
=============================================================================
