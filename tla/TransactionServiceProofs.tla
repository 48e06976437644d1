---------------------- MODULE TransactionServiceProofs ----------------------
(***************************************************************************)
(* Proofs, for every set of threads, accounts, keys, references, amounts   *)
(* and fees, of the ledger's inductive invariant and what follows from it. *)
(***************************************************************************)
EXTENDS TransactionService, TLAPS

\* Every thread other than t keeps its locals.
Others(t) == \A x \in Threads : x # t => thread'[x] = thread[x]

LEMMA IdleType == Idle \in Locals
BY AmountAssumption DEF Idle, Locals, Steps

\* Thread t's locals are replaced.
LEMMA ThreadEffect ==
    ASSUME IInv, NEW t \in Threads, NEW new \in Locals, thread' = [thread EXCEPT ![t] = new]
    PROVE  thread' \in [Threads -> Locals] /\ Others(t) /\ thread'[t] = new
BY DEF IInv, TypeOK, Others

\* Goto(t, s) moves thread t to step s and keeps its other locals.
LEMMA GotoEffect ==
    ASSUME IInv, NEW t \in Threads, NEW s \in Steps, Goto(t, s)
    PROVE  /\ thread' \in [Threads -> Locals]
           /\ Others(t)
           /\ thread'[t].at = s
           /\ thread'[t].key = thread[t].key
           /\ thread'[t].request = thread[t].request
           /\ thread'[t].ref = thread[t].ref
           /\ thread'[t].customer = thread[t].customer
           /\ thread'[t].balance = thread[t].balance
           /\ thread'[t].version = thread[t].version
<1> DEFINE new == [thread[t] EXCEPT !.at = s]
<1>1. thread[t] \in Locals
  BY DEF IInv, TypeOK
<1>2. thread' = [thread EXCEPT ![t] = new]
  BY DEF Goto
<1>3. /\ new \in Locals /\ new.at = s /\ new.key = thread[t].key
      /\ new.request = thread[t].request /\ new.ref = thread[t].ref
      /\ new.customer = thread[t].customer /\ new.balance = thread[t].balance
      /\ new.version = thread[t].version
  BY <1>1 DEF Locals
<1> HIDE DEF new
<1>4. QED
  BY <1>2, <1>3, ThreadEffect

\* Return(t) makes thread t idle, with nothing left to lose or to lock.
LEMMA ReturnEffect ==
    ASSUME IInv, NEW t \in Threads, Return(t)
    PROVE  /\ thread' \in [Threads -> Locals] /\ Others(t) /\ thread'[t].at = "idle"
           /\ LocalInv(t)'
           /\ \A x \in Threads : Apart(t, x)' /\ Apart(x, t)'
<1>1. thread' \in [Threads -> Locals] /\ Others(t) /\ thread'[t] = Idle
  BY IdleType, ThreadEffect DEF Return
<1>2. thread'[t].at = "idle"
  BY <1>1 DEF Idle
<1>3. LocalInv(t)'
  BY <1>2 DEF LocalInv, RequestInv, AccountInv, PostSteps, Inserted, Opening
<1>4. \A x \in Threads : Apart(t, x)' /\ Apart(x, t)'
  BY <1>2 DEF Apart, Inserted, Opening
<1>5. QED
  BY <1>1, <1>2, <1>3, <1>4

LEMMA InitIInv == Init => IInv
<1> SUFFICES ASSUME Init PROVE IInv
  OBVIOUS
<1>1. \A t \in Threads : thread[t] = Idle /\ thread[t].at = "idle"
  BY DEF Init, Idle
<1>2. TypeOK
  BY IdleType DEF Init, TypeOK
<1>3. AccountsExist /\ OneEffectPerKey /\ OneAccountPerCustomer /\ AnswersSettled /\ AuditsMatch
  BY DEF Init, AccountsExist, OneEffectPerKey, Settled, OneAccountPerCustomer, AnswersSettled, AuditsMatch
<1>4. LocalsInv
  BY <1>1 DEF LocalsInv, LocalInv, RequestInv, AccountInv, PostSteps, Inserted, Opening
<1>5. LocksInv
  BY <1>1 DEF LocksInv, Apart, Inserted, Opening
<1>6. QED
  BY <1>2, <1>3, <1>4, <1>5 DEF IInv

\* A thread that keeps its locals keeps what it knows when no row changes.
LEMMA OthersKeepLocalInv ==
    ASSUME NEW x, LocalInv(x), thread'[x] = thread[x], UNCHANGED <<account, ledger>>
    PROVE  LocalInv(x)'
<1>1. RequestInv(x)'
  BY DEF LocalInv, RequestInv, Inserted, KeySettled, Settled
<1>2. AccountInv(x)'
  BY DEF LocalInv, AccountInv, Opening, Registered, Moves
<1>3. QED
  BY <1>1, <1>2 DEF LocalInv

\* Other threads stay apart from each other whatever thread t does.
LEMMA LocksStay ==
    ASSUME IInv, NEW t \in Threads, Others(t),
           \A x \in Threads : x # t => Apart(t, x)' /\ Apart(x, t)'
    PROVE  LocksInv'
<1>1. ASSUME NEW x \in Threads, NEW y \in Threads, x # y, x # t, y # t PROVE Apart(x, y)'
  <2>1. Apart(x, y) /\ thread'[x] = thread[x] /\ thread'[y] = thread[y]
    BY <1>1 DEF IInv, LocksInv, Others
  <2>2. QED
    BY <2>1 DEF Apart, Inserted, Opening, SameIdentity, Moves
<1>2. QED
  BY <1>1 DEF LocksInv

\* A step that changes no account and no ledger row.
LEMMA RowsKept ==
    ASSUME IInv, UNCHANGED <<account, ledger>>,
           thread' \in [Threads -> Locals], LocalsInv', LocksInv',
           audits' \subseteq Audit, answers' \subseteq Answer, AnswersSettled',
           \A r \in Refs : <<"TXN_SETTLED", r>> \in audits' <=> <<"TXN_SETTLED", r>> \in audits,
           \A a \in Accounts : <<"ACCOUNT_OPENED", a>> \in audits' <=> <<"ACCOUNT_OPENED", a>> \in audits,
           \A r \in Refs : <<"TXN_REPLAY_IGNORED", r>> \in audits' =>
                              <<"TXN_REPLAY_IGNORED", r>> \in audits \/ ledger[r] # None
    PROVE  IInv'
<1>1. TypeOK'
  BY DEF IInv, TypeOK
<1>2. AccountsExist' /\ OneEffectPerKey' /\ OneAccountPerCustomer'
  BY DEF IInv, AccountsExist, OneEffectPerKey, Settled, OneAccountPerCustomer
<1>3. AuditsMatch'
  BY DEF IInv, AuditsMatch
<1>4. QED
  BY <1>1, <1>2, <1>3 DEF IInv

\* What threads know is kept by a step of thread t that changes no row.
LEMMA LocalsKept ==
    ASSUME IInv, NEW t \in Threads, UNCHANGED <<account, ledger>>, Others(t), LocalInv(t)'
    PROVE  LocalsInv'
<1>1. ASSUME NEW x \in Threads, x # t PROVE LocalInv(x)'
  BY <1>1, OthersKeepLocalInv DEF IInv, LocalsInv, Others
<1>2. QED
  BY <1>1 DEF LocalsInv

\* A step that changes only thread t's locals.
LEMMA MoveKeepsIInv ==
    ASSUME IInv, NEW t \in Threads, UNCHANGED <<account, ledger, audits, answers>>,
           thread' \in [Threads -> Locals], Others(t), LocalInv(t)',
           \A x \in Threads : x # t => Apart(t, x)' /\ Apart(x, t)'
    PROVE  IInv'
<1>1. audits' \subseteq Audit /\ answers' \subseteq Answer /\ AnswersSettled'
  BY DEF IInv, TypeOK, AnswersSettled
<1>2. LocalsInv' /\ LocksInv'
  BY LocalsKept, LocksStay
<1>3. QED
  BY <1>1, <1>2, RowsKept

\* A thread at a step without locks is apart from every other.
LEMMA NoLocks ==
    ASSUME NEW t \in Threads, thread'[t].at \in {"read", "insert", "winner", "respond", "open_account"}
    PROVE  \A x \in Threads : Apart(t, x)' /\ Apart(x, t)'
BY DEF Apart, Inserted, Opening
-----------------------------------------------------------------------------
(* Steps that write nothing *)

\* A request ends without a write.
LEMMA QuietReturnKeepsIInv ==
    ASSUME IInv, NEW t \in Threads, Return(t), UNCHANGED <<account, ledger, audits, answers>>
    PROVE  IInv'
BY ReturnEffect, MoveKeepsIInv

\* A thread takes up a request: its locals are set from scratch.
LEMMA TakeUpKeepsIInv ==
    ASSUME IInv, NEW t \in Threads, NEW new \in Locals, thread' = [thread EXCEPT ![t] = new],
           UNCHANGED <<account, ledger, audits, answers>>, new.balance = 0, new.ref = None,
           \/ new.at = "read" /\ new.request \in Requests /\ new.key # None
           \/ /\ new.at = "open_account" /\ new.request \in Openings
              /\ new.key = new.request.account /\ new.customer # None
    PROVE  IInv'
<1>1. thread' \in [Threads -> Locals] /\ Others(t) /\ thread'[t] = new
  BY ThreadEffect
<1>2. LocalInv(t)'
  BY <1>1 DEF LocalInv, RequestInv, AccountInv, PostSteps, Inserted, Opening
<1>3. QED
  BY <1>1, <1>2, NoLocks, MoveKeepsIInv

LEMMA PostKeepsIInv ==
    ASSUME IInv, NEW t \in Threads, NEW q \in Requests, NEW k \in AllKeys, post(t, q, k)
    PROVE  IInv'
<1> DEFINE new == [Idle EXCEPT !.at = "read", !.key = k, !.request = q]
<1>0. new \in Locals
  BY IdleType DEF Locals, Steps
<1>1. new.at = "read" /\ new.key = k /\ new.request = q /\ new.balance = 0 /\ new.ref = None
  BY DEF Idle
<1>2. thread' = [thread EXCEPT ![t] = new] /\ UNCHANGED <<account, ledger, audits, answers>>
  BY DEF post
<1> HIDE DEF new
<1>3. k # None
  BY NoneAssumption
<1>4. QED
  BY <1>0, <1>1, <1>2, <1>3, TakeUpKeepsIInv

LEMMA OpenKeepsIInv ==
    ASSUME IInv, NEW t \in Threads, NEW q \in Openings, NEW c \in Customers, open(t, q, c)
    PROVE  IInv'
<1> DEFINE new == [Idle EXCEPT !.at = "open_account", !.key = q.account,
                               !.request = q, !.customer = c]
<1>0. q.account \in AllKeys
  BY DEF Openings, AllKeys
<1>1. new \in Locals
  BY <1>0, IdleType DEF Locals, Steps
<1>2. /\ new.at = "open_account" /\ new.key = q.account /\ new.request = q
      /\ new.customer = c /\ new.balance = 0 /\ new.ref = None
  BY DEF Idle
<1>3. thread' = [thread EXCEPT ![t] = new] /\ UNCHANGED <<account, ledger, audits, answers>>
  BY DEF open
<1> HIDE DEF new
<1>4. c # None
  BY NoneAssumption
<1>5. QED
  BY <1>1, <1>2, <1>3, <1>4, TakeUpKeepsIInv

\* The committed balance and version are read together.
LEMMA ReadAccountKeepsIInv ==
    ASSUME IInv, NEW t \in Threads, read_account(t) PROVE IInv'
<1> DEFINE row == account[thread[t].request.account]
           new == [thread[t] EXCEPT !.at = "insert", !.balance = row.balance, !.version = row.version]
<1>1. /\ thread[t] \in Locals /\ thread[t].at = "read" /\ LocalInv(t)
      /\ thread[t].request \in Requests /\ thread[t].key # None
  BY DEF read_account, IInv, TypeOK, LocalsInv, LocalInv, RequestInv, PostSteps
<1>2. row \in AccountRow /\ row # None
  BY <1>1 DEF read_account, IInv, TypeOK, Requests
<1>3. /\ new \in Locals /\ new.at = "insert" /\ new.balance = row.balance
      /\ new.version = row.version /\ new.key = thread[t].key /\ new.request = thread[t].request
  BY <1>1, <1>2 DEF Locals, Steps, AccountRow
<1>4. thread' = [thread EXCEPT ![t] = new] /\ UNCHANGED <<account, ledger, audits, answers>>
  BY DEF read_account
<1>5. row.version \in Nat
  BY <1>2 DEF AccountRow
<1>6. account[new.request.account] = row
  BY <1>3
<1> HIDE DEF new, row
<1>7. thread' \in [Threads -> Locals] /\ Others(t) /\ thread'[t] = new
  BY <1>3, <1>4, ThreadEffect
<1>8. RequestInv(t)'
  BY <1>1, <1>3, <1>7 DEF RequestInv, PostSteps, Inserted
<1>9. AccountInv(t)'
  BY <1>2, <1>3, <1>4, <1>5, <1>6, <1>7 DEF AccountInv, Opening
<1>10. QED
  BY <1>3, <1>4, <1>7, <1>8, <1>9, NoLocks, MoveKeepsIInv DEF LocalInv

LEMMA ConflictKeepsIInv ==
    ASSUME IInv, NEW t \in Threads, NEW r \in Refs, insert_conflict(t, r) PROVE IInv'
<1>1. /\ thread[t].at = "insert" /\ LocalInv(t) /\ Goto(t, "winner")
      /\ UNCHANGED <<account, ledger, audits, answers>> /\ "winner" \in Steps
  BY DEF insert_conflict, IInv, LocalsInv, Steps
<1>2. /\ thread' \in [Threads -> Locals] /\ Others(t) /\ thread'[t].at = "winner"
      /\ thread'[t].key = thread[t].key /\ thread'[t].request = thread[t].request
  BY <1>1, GotoEffect
<1>3. LocalInv(t)'
  BY <1>1, <1>2 DEF LocalInv, RequestInv, AccountInv, PostSteps, Inserted, Opening
<1>4. QED
  BY <1>1, <1>2, <1>3, NoLocks, MoveKeepsIInv
-----------------------------------------------------------------------------
(* Steps that insert or lock *)

\* What a thread at work on a posting is known to hold.
LEMMA Working ==
    ASSUME IInv, NEW t \in Threads, thread[t].at \in PostSteps
    PROVE  /\ thread[t] \in Locals /\ LocalInv(t)
           /\ thread[t].request \in Requests /\ thread[t].request.account \in Accounts
           /\ thread[t].key \in AllKeys /\ thread[t].key # None
           /\ thread[t].ref \in Refs \cup {None}
<1>1. thread[t] \in Locals /\ LocalInv(t)
  BY DEF IInv, TypeOK, LocalsInv
<1>2. thread[t].request \in Requests /\ thread[t].key # None
  BY <1>1 DEF LocalInv, RequestInv
<1>3. thread[t].key \in AllKeys /\ thread[t].ref \in Refs \cup {None}
  BY <1>1, <1>2 DEF Locals
<1>4. QED
  BY <1>1, <1>2, <1>3 DEF Requests

\* The same for an opening.
LEMMA WorkingOpening ==
    ASSUME IInv, NEW t \in Threads,
           thread[t].at \in {"open_account", "open_movement", "open_commit"}
    PROVE  /\ thread[t] \in Locals /\ LocalInv(t)
           /\ thread[t].request \in Openings /\ thread[t].request.account \in Accounts
           /\ thread[t].key = thread[t].request.account /\ thread[t].key \in AllKeys
           /\ thread[t].customer \in Customers /\ thread[t].customer # None
           /\ thread[t].ref \in Refs \cup {None}
<1>1. thread[t] \in Locals /\ LocalInv(t)
  BY DEF IInv, TypeOK, LocalsInv
<1>2. thread[t].request \in Openings /\ thread[t].customer # None /\ thread[t].key = thread[t].request.account
  BY <1>1 DEF LocalInv, RequestInv, PostSteps
<1>3. thread[t].customer \in Customers /\ thread[t].ref \in Refs \cup {None}
  BY <1>1, <1>2 DEF Locals
<1>4. QED
  BY <1>1, <1>2, <1>3 DEF Openings, AllKeys

LEMMA InsertKeepsIInv ==
    ASSUME IInv, NEW t \in Threads, NEW r \in Refs, insert(t, r) PROVE IInv'
<1> DEFINE new == [thread[t] EXCEPT !.at = "update", !.ref = r]
<1>1. thread[t].at = "insert" /\ thread[t].at \in PostSteps
  BY DEF insert, PostSteps
<1>2. /\ thread[t] \in Locals /\ LocalInv(t) /\ thread[t].request \in Requests
      /\ thread[t].key # None
  BY <1>1, Working
<1>3. new \in Locals
  BY <1>2 DEF Locals, Steps
<1>4. /\ new.at = "update" /\ new.ref = r /\ new.key = thread[t].key
      /\ new.request = thread[t].request /\ new.balance = thread[t].balance
      /\ new.version = thread[t].version
  BY <1>2 DEF Locals
<1>5. /\ thread' = [thread EXCEPT ![t] = new] /\ UNCHANGED <<account, ledger, audits, answers>>
      /\ ~KeySettled(thread[t].key) /\ ledger[r] = None
      /\ \A x \in Threads : Inserted(x) => thread[x].key # thread[t].key /\ thread[x].ref # r
      /\ \A x \in Threads : ~Owns(x, thread[t].request.account)
  BY DEF insert
<1> HIDE DEF new
<1>6. thread' \in [Threads -> Locals] /\ Others(t) /\ thread'[t] = new
  BY <1>3, <1>5, ThreadEffect
<1>7. r # None
  BY NoneAssumption
<1>8. RequestInv(t)'
  BY <1>2, <1>4, <1>5, <1>6, <1>7 DEF RequestInv, PostSteps, Inserted, KeySettled, Settled
<1>9. AccountInv(t)'
  BY <1>1, <1>2, <1>4, <1>5, <1>6 DEF LocalInv, AccountInv, Opening
<1>10. \A x \in Threads : x # t => Apart(t, x)' /\ Apart(x, t)'
  BY <1>4, <1>5, <1>6 DEF Apart, Others, Inserted, Opening, Owns, Moves
<1>11. QED
  BY <1>5, <1>6, <1>8, <1>9, <1>10, MoveKeepsIInv DEF LocalInv

\* The balance of a movement that is possible fits.
LEMMA MovedBalance ==
    ASSUME NEW q \in Requests, NEW b \in 0..MaxLong, CanMove(q, b)
    PROVE  b + Effect(q) \in 0..MaxLong
<1>1. /\ q.amount \in 1..MaxLong /\ q.fee \in 0..MaxLong /\ q.credit \in BOOLEAN /\ MaxLong \in Nat
  BY AmountAssumption DEF Requests
<1>2. CASE q.credit
  BY <1>1, <1>2 DEF CanMove, Effect
<1>3. CASE ~q.credit
  BY <1>1, <1>3 DEF CanMove, Effect
<1>4. QED
  BY <1>2, <1>3

LEMMA UpdateKeepsIInv ==
    ASSUME IInv, NEW t \in Threads, update_account(t) PROVE IInv'
<1> DEFINE q == thread[t].request
           new == [thread[t] EXCEPT !.at = "commit", !.balance = thread[t].balance + Effect(q)]
<1>1. /\ thread[t].at = "update" /\ thread[t].at \in PostSteps
      /\ CanMove(q, thread[t].balance)
  BY DEF update_account, AwaitsUpdate, PostSteps
<1>2. /\ thread[t] \in Locals /\ LocalInv(t) /\ q \in Requests /\ thread[t].key # None
  BY <1>1, Working
<1>3. CASE account[q.account].version # thread[t].version
  BY <1>3, QuietReturnKeepsIInv DEF update_account
<1>4. CASE account[q.account].version = thread[t].version
  <2>1. thread[t].balance + Effect(q) \in 0..MaxLong
    BY <1>1, <1>2, MovedBalance DEF Locals
  <2>2. new \in Locals
    BY <1>2, <2>1 DEF Locals, Steps
  <2>3. /\ new.at = "commit" /\ new.ref = thread[t].ref /\ new.key = thread[t].key
        /\ new.request = q /\ new.balance = thread[t].balance + Effect(q)
        /\ new.version = thread[t].version
    BY <1>2 DEF Locals
  <2>4. /\ thread' = [thread EXCEPT ![t] = new] /\ UNCHANGED <<account, ledger, audits, answers>>
        /\ \A x \in Threads \ {t} : ~Shares(x, q.account)
    BY <1>4 DEF update_account
  <2> HIDE DEF new
  <2>5. thread' \in [Threads -> Locals] /\ Others(t) /\ thread'[t] = new
    BY <2>2, <2>4, ThreadEffect
  <2>6. RequestInv(t)'
    BY <1>1, <1>2, <2>3, <2>4, <2>5 DEF LocalInv, RequestInv, PostSteps, Inserted, KeySettled, Settled
  <2>7. AccountInv(t)'
    BY <1>1, <1>2, <1>4, <2>3, <2>4, <2>5 DEF LocalInv, AccountInv, Opening, Moves
  <2>8. ASSUME NEW x \in Threads, x # t PROVE Apart(t, x)' /\ Apart(x, t)'
    <3>1. thread'[x] = thread[x] /\ Apart(t, x) /\ Apart(x, t)
      BY <2>5, <2>8 DEF Others, IInv, LocksInv
    <3>2. ~Shares(x, q.account)
      BY <2>4, <2>8
    <3>3. QED
      BY <1>1, <2>3, <2>5, <3>1, <3>2 DEF Apart, Inserted, Opening, Shares, Moves
  <2>9. QED
    BY <2>4, <2>5, <2>6, <2>7, <2>8, MoveKeepsIInv DEF LocalInv
<1>5. QED
  BY <1>3, <1>4

\* A movement without effect goes on to its commit as it is.
LEMMA KeepKeepsIInv ==
    ASSUME IInv, NEW t \in Threads, keep_account(t) PROVE IInv'
<1>1. /\ thread[t].at = "update" /\ ~Moves(t) /\ Goto(t, "commit")
      /\ UNCHANGED <<account, ledger, audits, answers>>
  BY DEF keep_account
<1>2. thread[t] \in Locals /\ LocalInv(t)
  BY <1>1, Working DEF PostSteps
<1>3. /\ thread' \in [Threads -> Locals] /\ Others(t) /\ thread'[t].at = "commit"
      /\ thread'[t].key = thread[t].key /\ thread'[t].request = thread[t].request
      /\ thread'[t].ref = thread[t].ref
  BY <1>1, GotoEffect DEF Steps
<1>4. RequestInv(t)'
  BY <1>1, <1>2, <1>3 DEF LocalInv, RequestInv, PostSteps, Inserted, KeySettled, Settled
<1>5. AccountInv(t)'
  BY <1>1, <1>2, <1>3 DEF LocalInv, AccountInv, Opening, Moves
<1>6. ASSUME NEW x \in Threads, x # t PROVE Apart(t, x)' /\ Apart(x, t)'
  <2>1. thread'[x] = thread[x] /\ Apart(t, x) /\ Apart(x, t)
    BY <1>3, <1>6 DEF Others, IInv, LocksInv
  <2>2. QED
    BY <1>1, <1>3, <2>1 DEF Apart, Inserted, Opening, Moves
<1>7. QED
  BY <1>1, <1>3, <1>4, <1>5, <1>6, MoveKeepsIInv DEF LocalInv

LEMMA InsertAccountKeepsIInv ==
    ASSUME IInv, NEW t \in Threads, insert_account(t) PROVE IInv'
<1> DEFINE step == IF thread[t].request.amount > 0 THEN "open_movement" ELSE "open_commit"
<1>1. thread[t].at = "open_account"
  BY DEF insert_account
<1>2. /\ thread[t] \in Locals /\ LocalInv(t) /\ thread[t].request \in Openings
      /\ thread[t].key = thread[t].request.account /\ thread[t].customer # None
  BY <1>1, WorkingOpening
<1>3. /\ Goto(t, step) /\ step \in {"open_movement", "open_commit"}
      /\ UNCHANGED <<account, ledger, audits, answers>>
      /\ account[thread[t].request.account] = None /\ ~Registered(thread[t].customer)
      /\ \A x \in Threads : Opening(x) => ~SameIdentity(x, t)
  BY DEF insert_account
<1> HIDE DEF step
<1>4. /\ thread' \in [Threads -> Locals] /\ Others(t) /\ thread'[t].at = step
      /\ thread'[t].key = thread[t].key /\ thread'[t].request = thread[t].request
      /\ thread'[t].ref = thread[t].ref /\ thread'[t].customer = thread[t].customer
      /\ thread'[t].balance = thread[t].balance
  BY <1>3, GotoEffect DEF Steps
<1>5. thread[t].ref = None /\ thread[t].balance = 0
  BY <1>1, <1>2 DEF LocalInv, RequestInv, AccountInv
<1>6. RequestInv(t)'
  BY <1>2, <1>3, <1>4, <1>5 DEF RequestInv, PostSteps, Inserted
<1>7. AccountInv(t)'
  BY <1>3, <1>4, <1>5 DEF AccountInv, Opening, Registered
<1>8. \A x \in Threads : x # t => Apart(t, x)' /\ Apart(x, t)'
  BY <1>3, <1>4, <1>5 DEF Apart, Others, Inserted, Opening, SameIdentity
<1>9. QED
  BY <1>3, <1>4, <1>6, <1>7, <1>8, MoveKeepsIInv DEF LocalInv

\* An opening's movement is not negative.
LEMMA OpeningEffect ==
    ASSUME NEW q \in Openings
    PROVE  Effect(q) \in 0..MaxLong
<1>1. q.credit = TRUE /\ q.fee = 0 /\ (q.amount \in Amounts \/ q.amount = 0)
  BY DEF Openings
<1>2. q.amount \in 0..MaxLong
  <2>1. CASE q.amount \in Amounts
    <3>1. q.amount \in 1..MaxLong
      BY <2>1, AmountAssumption
    <3>2. QED
      BY <3>1, AmountAssumption
  <2>2. CASE q.amount = 0
    BY <2>2, AmountAssumption
  <2>3. QED
    BY <1>1, <2>1, <2>2
<1>3. Effect(q) = q.amount
  BY <1>1, <1>2, AmountAssumption DEF Effect
<1>4. QED
  BY <1>2, <1>3

LEMMA OpenMovementKeepsIInv ==
    ASSUME IInv, NEW t \in Threads, NEW r \in Refs, open_movement(t, r) PROVE IInv'
<1> DEFINE q == thread[t].request
           new == [thread[t] EXCEPT !.at = "open_commit", !.ref = r,
                                    !.balance = Effect(q), !.version = 1]
<1>1. thread[t].at = "open_movement"
  BY DEF open_movement
<1>2. /\ thread[t] \in Locals /\ LocalInv(t) /\ q \in Openings
      /\ thread[t].key = q.account /\ thread[t].customer # None
  BY <1>1, WorkingOpening
<1>3. Effect(q) \in 0..MaxLong
  BY <1>2, OpeningEffect
<1>4. new \in Locals
  BY <1>2, <1>3 DEF Locals, Steps
<1>5. /\ new.at = "open_commit" /\ new.ref = r /\ new.key = thread[t].key
      /\ new.request = q /\ new.balance = Effect(q) /\ new.customer = thread[t].customer
  BY <1>2 DEF Locals
<1>6. /\ thread' = [thread EXCEPT ![t] = new] /\ UNCHANGED <<account, ledger, audits, answers>>
      /\ ~KeySettled(thread[t].key) /\ ledger[r] = None
      /\ \A x \in Threads : Inserted(x) => thread[x].key # thread[t].key /\ thread[x].ref # r
  BY DEF open_movement
<1> HIDE DEF new
<1>7. thread' \in [Threads -> Locals] /\ Others(t) /\ thread'[t] = new
  BY <1>4, <1>6, ThreadEffect
<1>8. r # None
  BY NoneAssumption
<1>9. RequestInv(t)'
  BY <1>2, <1>5, <1>6, <1>7, <1>8 DEF RequestInv, PostSteps, Inserted, KeySettled, Settled
<1>10. AccountInv(t)'
  BY <1>1, <1>2, <1>5, <1>6, <1>7, <1>8 DEF LocalInv, AccountInv, Opening, Registered
<1>11. ASSUME NEW x \in Threads, x # t PROVE Apart(t, x)' /\ Apart(x, t)'
  <2>1. thread'[x] = thread[x] /\ Apart(t, x) /\ Apart(x, t)
    BY <1>7, <1>11 DEF Others, IInv, LocksInv
  <2>2. QED
    BY <1>1, <1>5, <1>6, <1>7, <2>1 DEF Apart, Inserted, Opening, SameIdentity
<1>12. QED
  BY <1>6, <1>7, <1>9, <1>10, <1>11, MoveKeepsIInv DEF LocalInv
-----------------------------------------------------------------------------
(* Answers *)

\* A row that may be replayed is the request's own.
LEMMA ReplayedRow ==
    ASSUME IInv, NEW r \in Refs, NEW k, NEW q, Settled(r, k), MayReplay(r, q)
    PROVE  ledger[r] = [key |-> k, request |-> q]
BY DEF IInv, TypeOK, LedgerRow, Settled, MayReplay

\* A row that is a record is there.
LEMMA RowIsThere ==
    ASSUME IInv, NEW r \in Refs, NEW k \in AllKeys, NEW q \in Requests,
           ledger[r] = [key |-> k, request |-> q]
    PROVE  ledger[r] # None
BY NoneAssumption DEF LedgerRow

\* An answer that gives the row of its key and request.
LEMMA ReplyKeepsAnswers ==
    ASSUME IInv, NEW r \in Refs, NEW k \in AllKeys, NEW q \in Requests,
           Reply(k, q, r), UNCHANGED ledger, ledger[r] = [key |-> k, request |-> q]
    PROVE  answers' \subseteq Answer /\ AnswersSettled'
<1> DEFINE w == [key |-> k, request |-> q, ref |-> r]
<1>1. answers' = answers \cup {w}
  BY DEF Reply
<1>2. w \in Answer /\ w.key = k /\ w.request = q /\ w.ref = r
  BY DEF Answer
<1> HIDE DEF w
<1>3. QED
  BY <1>1, <1>2 DEF IInv, TypeOK, AnswersSettled

\* A replay's audit is no settlement's and no opening's.
LEMMA ReplayAudit ==
    ASSUME IInv, NEW r \in Refs, audits' = audits \cup {<<"TXN_REPLAY_IGNORED", r>>}
    PROVE  /\ audits' \subseteq Audit
           /\ \A s \in Refs : <<"TXN_SETTLED", s>> \in audits' <=> <<"TXN_SETTLED", s>> \in audits
           /\ \A a \in Accounts :
                 <<"ACCOUNT_OPENED", a>> \in audits' <=> <<"ACCOUNT_OPENED", a>> \in audits
           /\ \A s \in Refs : <<"TXN_REPLAY_IGNORED", s>> \in audits' =>
                 <<"TXN_REPLAY_IGNORED", s>> \in audits \/ s = r
BY DEF IInv, TypeOK, Audit

LEMMA PostReplayKeepsIInv ==
    ASSUME IInv, NEW q \in Requests, NEW k \in AllKeys, NEW r \in Refs, post_replay(q, k, r)
    PROVE  IInv'
<1>1. /\ audits' = audits \cup {<<"TXN_REPLAY_IGNORED", r>>}
      /\ Reply(k, q, r) /\ UNCHANGED <<account, ledger, thread>>
      /\ ledger[r] = [key |-> k, request |-> q] /\ ledger[r] # None
  BY ReplayedRow DEF post_replay, Settled
<1>2. LocalsInv' /\ thread' \in [Threads -> Locals]
  BY <1>1, OthersKeepLocalInv DEF IInv, LocalsInv, TypeOK
<1>3. LocksInv'
  BY <1>1 DEF IInv, LocksInv, Apart, Inserted, Opening, SameIdentity, Moves
<1>4. answers' \subseteq Answer /\ AnswersSettled'
  BY <1>1, ReplyKeepsAnswers
<1>5. QED
  BY <1>1, <1>2, <1>3, <1>4, ReplayAudit, RowsKept

LEMMA ReadWinnerKeepsIInv ==
    ASSUME IInv, NEW t \in Threads, NEW r \in Refs, read_winner(t, r) PROVE IInv'
<1>1. /\ thread[t].at \in PostSteps /\ Return(t) /\ UNCHANGED <<account, ledger>>
      /\ Settled(r, thread[t].key) /\ ledger[r] # None
  BY DEF read_winner, PostSteps, Settled
<1>2. thread[t].request \in Requests /\ thread[t].key \in AllKeys
  BY <1>1, Working
<1>3. CASE MayReplay(r, thread[t].request)
  <2>1. /\ audits' = audits \cup {<<"TXN_REPLAY_IGNORED", r>>}
        /\ Reply(thread[t].key, thread[t].request, r)
    BY <1>3 DEF read_winner
  <2>2. ledger[r] = [key |-> thread[t].key, request |-> thread[t].request]
    BY <1>1, <1>3, ReplayedRow
  <2>3. answers' \subseteq Answer /\ AnswersSettled'
    BY <1>1, <1>2, <2>1, <2>2, ReplyKeepsAnswers
  <2>4. thread' \in [Threads -> Locals] /\ LocalsInv' /\ LocksInv'
    BY <1>1, ReturnEffect, LocalsKept, LocksStay
  <2>5. QED
    BY <1>1, <2>1, <2>3, <2>4, ReplayAudit, RowsKept
<1>4. CASE ~MayReplay(r, thread[t].request)
  BY <1>1, <1>4, QuietReturnKeepsIInv DEF read_winner
<1>5. QED
  BY <1>3, <1>4

LEMMA RespondKeepsIInv ==
    ASSUME IInv, NEW t \in Threads, respond(t) PROVE IInv'
<1>1. /\ thread[t].at = "respond" /\ thread[t].at \in PostSteps /\ Return(t)
      /\ UNCHANGED <<account, ledger, audits>>
      /\ Reply(thread[t].key, thread[t].request, thread[t].ref)
  BY DEF respond, PostSteps
<1>2. /\ thread[t].request \in Requests /\ thread[t].key \in AllKeys
      /\ LocalInv(t) /\ thread[t].ref \in Refs \cup {None}
  BY <1>1, Working
<1>3. /\ thread[t].ref \in Refs
      /\ ledger[thread[t].ref] = [key |-> thread[t].key, request |-> thread[t].request]
  BY <1>1, <1>2 DEF LocalInv, RequestInv
<1>4. answers' \subseteq Answer /\ AnswersSettled'
  BY <1>1, <1>2, <1>3, ReplyKeepsAnswers
<1>5. thread' \in [Threads -> Locals] /\ LocalsInv' /\ LocksInv'
  BY <1>1, ReturnEffect, LocalsKept, LocksStay
<1>6. audits' \subseteq Audit
  BY <1>1 DEF IInv, TypeOK
<1>7. QED
  BY <1>1, <1>4, <1>5, <1>6, RowsKept
-----------------------------------------------------------------------------
(* Commits *)

\* The row thread t inserted becomes visible to everybody.
LEMMA SettleEffect ==
    ASSUME IInv, NEW t \in Threads, Inserted(t), NEW row \in LedgerRow,
           row.key = thread[t].key, row.request = thread[t].request,
           thread[t].ref \in Refs,
           ledger' = [ledger EXCEPT ![thread[t].ref] = row]
    PROVE  /\ ledger' \in [Refs -> LedgerRow \cup {None}]
           /\ ledger[thread[t].ref] = None /\ row # None
           /\ ledger'[thread[t].ref] = row
           /\ \A s \in Refs : s # thread[t].ref => ledger'[s] = ledger[s]
           /\ OneEffectPerKey'
           /\ UNCHANGED answers => AnswersSettled'
           /\ \A x \in Threads : x # t /\ thread'[x] = thread[x] => RequestInv(x)'
<1> DEFINE r == thread[t].ref
<1>1. ledger[r] = None /\ ~KeySettled(thread[t].key)
  BY DEF IInv, LocalsInv, LocalInv, RequestInv
<1>2. row # None
  BY NoneAssumption
<1>3. /\ ledger' \in [Refs -> LedgerRow \cup {None}] /\ ledger'[r] = row
      /\ \A s \in Refs : s # r => ledger'[s] = ledger[s]
  BY DEF IInv, TypeOK
<1> HIDE DEF r
<1>4. \A s \in Refs, k \in AllKeys : Settled(s, k)' <=> Settled(s, k) \/ (s = r /\ k = thread[t].key)
  BY <1>1, <1>2, <1>3 DEF Settled
<1>5. OneEffectPerKey'
  BY <1>1, <1>4 DEF IInv, OneEffectPerKey, KeySettled
<1>6. ASSUME UNCHANGED answers PROVE AnswersSettled'
  <2>1. ASSUME NEW w \in answers PROVE ledger'[w.ref] = ledger[w.ref]
    <3>1. w.ref \in Refs /\ w.key \in AllKeys /\ w.request \in Requests
      BY DEF IInv, TypeOK, Answer
    <3>2. ledger[w.ref] = [key |-> w.key, request |-> w.request]
      BY DEF IInv, AnswersSettled
    <3>3. ledger[w.ref] # None
      BY <3>1, <3>2, RowIsThere
    <3>4. QED
      BY <1>1, <1>3, <3>1, <3>3
  <2>2. QED
    BY <1>6, <2>1 DEF IInv, AnswersSettled
<1>7. ASSUME NEW x \in Threads, x # t, thread'[x] = thread[x] PROVE RequestInv(x)'
  <2>1. RequestInv(x) /\ thread[x] \in Locals
    BY DEF IInv, LocalsInv, LocalInv, TypeOK
  <2>2. CASE Inserted(x)
    <3>1. /\ thread[x].key # thread[t].key /\ thread[x].ref # r
          /\ ledger[thread[x].ref] = None /\ ~KeySettled(thread[x].key)
      BY <1>7, <2>1, <2>2 DEF IInv, LocksInv, Apart, RequestInv, r
    <3>2. thread[x].ref \in Refs /\ thread[x].key \in AllKeys
      <4>1. thread[x].at \in {"update", "commit"} \/ thread[x].at = "open_commit"
        BY <2>2 DEF Inserted
      <4>2. thread[x].key \in AllKeys
        BY <4>1, Working, WorkingOpening DEF PostSteps
      <4>3. QED
        BY <2>1, <2>2, <4>2 DEF Inserted, Locals
    <3>3. ledger'[thread[x].ref] = None /\ ~KeySettled(thread[x].key)'
      BY <1>3, <1>4, <1>7, <3>1, <3>2 DEF KeySettled
    <3>4. thread[x].at # "respond"
      BY <2>2 DEF Inserted
    <3>5. QED
      BY <1>7, <2>1, <3>3, <3>4 DEF RequestInv
  <2>3. CASE thread[x].at = "respond"
    <3>1. /\ ledger[thread[x].ref] = [key |-> thread[x].key, request |-> thread[x].request]
          /\ thread[x].ref # None
      BY <2>1, <2>3 DEF RequestInv
    <3>2. thread[x].ref \in Refs /\ thread[x].key \in AllKeys /\ thread[x].request \in Requests
      BY <2>3, <3>1, Working DEF PostSteps
    <3>3. thread[x].ref # r
      BY <1>1, <3>1, <3>2, RowIsThere
    <3>4. ~Inserted(x) /\ ledger'[thread[x].ref] = ledger[thread[x].ref]
      BY <1>3, <2>3, <3>2, <3>3 DEF Inserted
    <3>5. QED
      BY <1>7, <2>1, <2>3, <3>1, <3>4 DEF RequestInv, Inserted, PostSteps
  <2>4. CASE ~Inserted(x) /\ thread[x].at # "respond"
    BY <1>7, <2>1, <2>4 DEF RequestInv, Inserted
  <2>5. QED
    BY <2>2, <2>3, <2>4
<1>8. QED
  BY <1>1, <1>2, <1>3, <1>5, <1>6, <1>7 DEF r

\* The account's row takes the balance and the next version, or stays as it is
\* when the movement has no effect.
LEMMA CommitAccount ==
    ASSUME IInv, NEW t \in Threads, commit(t)
    PROVE  LET a == thread[t].request.account
           IN  /\ a \in Accounts /\ account[a] \in AccountRow /\ account[a] # None
               /\ account' \in [Accounts -> AccountRow \cup {None}]
               /\ account'[a] # None /\ account'[a].customer = account[a].customer
               /\ account'[a].balance = account[a].balance + Effect(thread[t].request)
               /\ \A b \in Accounts : b # a => account'[b] = account[b]
               /\ IF Moves(t) THEN account'[a].version = account[a].version + 1
                              ELSE account' = account
<1> DEFINE q == thread[t].request
           a == q.account
           new == [account[a] EXCEPT !.balance = thread[t].balance, !.version = thread[t].version + 1]
<1>1. /\ thread[t].at = "commit" /\ thread[t].at \in PostSteps
      /\ account' = IF Moves(t) THEN [account EXCEPT ![a] = new] ELSE account
  BY DEF commit, PostSteps
<1>2. thread[t] \in Locals /\ LocalInv(t) /\ q \in Requests /\ a \in Accounts
  BY <1>1, Working
<1>3. account \in [Accounts -> AccountRow \cup {None}] /\ account[a] # None /\ account[a] \in AccountRow
  BY <1>1, <1>2 DEF LocalInv, AccountInv, IInv, TypeOK
<1>4. CASE Moves(t)
  <2>1. thread[t].version = account[a].version /\ thread[t].balance = account[a].balance + Effect(q)
    BY <1>1, <1>2, <1>4 DEF LocalInv, AccountInv
  <2>2. thread[t].balance \in 0..MaxLong /\ thread[t].version + 1 \in Nat
    BY <1>2 DEF Locals
  <2>3. /\ new \in AccountRow /\ new.customer = account[a].customer
        /\ new.balance = thread[t].balance /\ new.version = account[a].version + 1
    BY <1>3, <2>1, <2>2 DEF AccountRow
  <2>4. new # None
    BY <2>3, NoneAssumption
  <2> HIDE DEF new
  <2>5. /\ account'[a] = new /\ \A b \in Accounts : b # a => account'[b] = account[b]
        /\ account' \in [Accounts -> AccountRow \cup {None}]
    BY <1>1, <1>2, <1>3, <1>4, <2>3
  <2>6. QED
    BY <1>2, <1>3, <1>4, <2>1, <2>3, <2>4, <2>5
<1>5. CASE ~Moves(t)
  <2>1. account' = account /\ Effect(q) = 0
    BY <1>1, <1>5 DEF Moves
  <2>2. account[a].balance \in Int
    BY <1>3, AmountAssumption DEF AccountRow
  <2>3. QED
    BY <1>2, <1>3, <1>5, <2>1, <2>2
<1>6. QED
  BY <1>4, <1>5

LEMMA CommitKeepsIInv ==
    ASSUME IInv, NEW t \in Threads, commit(t) PROVE IInv'
<1> DEFINE q == thread[t].request
           a == q.account
           r == thread[t].ref
           row == [key |-> thread[t].key, request |-> q]
<1>1. /\ thread[t].at = "commit" /\ thread[t].at \in PostSteps
      /\ ledger' = [ledger EXCEPT ![r] = row]
      /\ audits' = audits \cup {<<"TXN_SETTLED", r>>}
      /\ Goto(t, "respond") /\ UNCHANGED answers
  BY DEF commit, PostSteps
<1>2. /\ thread[t] \in Locals /\ LocalInv(t) /\ q \in Requests /\ a \in Accounts
      /\ thread[t].key \in AllKeys /\ thread[t].key # None
  BY <1>1, Working
<1>3. r \in Refs /\ Inserted(t)
  BY <1>1, <1>2 DEF LocalInv, RequestInv, Inserted, Locals
<1>4. row \in LedgerRow /\ row.key = thread[t].key /\ row.request = q
  BY <1>2 DEF LedgerRow
<1>5. account[a] \in AccountRow /\ account[a] # None
  BY CommitAccount
<1>6. /\ account' \in [Accounts -> AccountRow \cup {None}]
      /\ account'[a] # None /\ account'[a].customer = account[a].customer
      /\ IF Moves(t) THEN account'[a].version = account[a].version + 1 ELSE account' = account
      /\ \A b \in Accounts : b # a => account'[b] = account[b]
  BY CommitAccount
<1>7. /\ thread' \in [Threads -> Locals] /\ Others(t) /\ thread'[t].at = "respond"
      /\ thread'[t].key = thread[t].key /\ thread'[t].request = q /\ thread'[t].ref = r
  BY <1>1, GotoEffect DEF Steps
<1>8. /\ ledger' \in [Refs -> LedgerRow \cup {None}] /\ ledger[r] = None /\ row # None
      /\ ledger'[r] = row /\ \A s \in Refs : s # r => ledger'[s] = ledger[s]
      /\ OneEffectPerKey' /\ AnswersSettled'
      /\ \A x \in Threads : x # t => RequestInv(x)'
  BY <1>1, <1>3, <1>4, <1>7, SettleEffect DEF Others
<1>9. ledger'[r] = [key |-> thread'[t].key, request |-> thread'[t].request]
  BY <1>7, <1>8
<1> HIDE DEF q, a, r, row
<1>10. TypeOK'
  <2>1. audits' \subseteq Audit
    BY <1>1, <1>3 DEF IInv, TypeOK, Audit
  <2>2. QED
    BY <1>1, <1>6, <1>7, <1>8, <2>1 DEF IInv, TypeOK
<1>11. AccountsExist'
  <2>1. \A b \in Accounts : account[b] # None => account'[b] # None
    BY <1>6
  <2>2. ASSUME NEW s \in Refs, ledger'[s] # None PROVE account'[ledger'[s].request.account] # None
    <3>1. CASE s = r
      BY <1>4, <1>6, <1>8, <3>1 DEF q, a
    <3>2. CASE s # r
      <4>1. ledger[s] # None /\ ledger'[s] = ledger[s] /\ ledger[s].request.account \in Accounts
        BY <1>8, <2>2, <3>2 DEF IInv, TypeOK, LedgerRow, Requests, Openings
      <4>2. QED
        BY <2>1, <4>1 DEF IInv, AccountsExist
    <3>3. QED
      BY <3>1, <3>2
  <2>3. QED
    BY <2>2 DEF AccountsExist
<1>12. OneAccountPerCustomer'
  BY <1>5, <1>6 DEF IInv, OneAccountPerCustomer
<1>13. AuditsMatch'
  BY <1>1, <1>3, <1>5, <1>6, <1>8 DEF IInv, AuditsMatch
<1>14. \A c : Registered(c)' <=> Registered(c)
  BY <1>5, <1>6 DEF Registered
<1>15. ASSUME NEW x \in Threads, x # t PROVE AccountInv(x)'
  <2>1. thread'[x] = thread[x] /\ AccountInv(x) /\ thread[x] \in Locals /\ Apart(t, x)
    BY <1>7, <1>15 DEF Others, IInv, LocalsInv, LocalInv, TypeOK, LocksInv
  <2>0. CASE ~Moves(t)
    BY <1>6, <2>0, <2>1 DEF AccountInv, Opening, Registered, Moves
  <2>2. CASE thread[x].at = "insert" /\ Moves(t)
    <3>1. thread[x].request.account \in Accounts
      BY <2>2, Working DEF PostSteps
    <3>2. thread[x].version \in Nat /\ \A b \in Accounts : account[b] # None => account[b].version \in Nat
      BY <2>1 DEF IInv, TypeOK, AccountRow, Locals
    <3>3. CASE thread[x].request.account = a
      <4>1. thread[x].version <= account[a].version /\ account[a].version \in Nat
        BY <1>5, <2>1, <2>2, <3>3 DEF AccountInv, AccountRow
      <4>2. thread[x].version <= account'[a].version /\ thread[x].version # account'[a].version
        BY <1>6, <2>2, <3>2, <4>1
      <4>3. QED
        BY <1>6, <2>1, <2>2, <3>3, <4>2 DEF AccountInv, Opening
    <3>4. CASE thread[x].request.account # a
      BY <1>6, <2>1, <2>2, <3>1, <3>4 DEF AccountInv, Opening
    <3>5. QED
      BY <3>3, <3>4
  <2>3. CASE thread[x].at \in {"update", "commit"} /\ Moves(t)
    <3>1. thread[x].request.account \in Accounts
      BY <2>3, Working DEF PostSteps
    <3>2. thread[x].request.account # a
      BY <1>1, <2>1, <2>3 DEF Apart, a, q
    <3>3. QED
      BY <1>6, <2>1, <2>3, <3>1, <3>2 DEF AccountInv, Opening, Moves
  <2>4. CASE thread[x].at \in {"open_movement", "open_commit"}
    <3>1. thread[x].request.account \in Accounts
      BY <2>4, WorkingOpening
    <3>2. account[thread[x].request.account] = None
      BY <2>1, <2>4 DEF AccountInv, Opening
    <3>3. thread[x].request.account # a
      BY <1>5, <3>2
    <3>4. account'[thread[x].request.account] = None
      BY <1>6, <3>1, <3>2, <3>3
    <3>5. QED
      BY <1>14, <2>1, <2>4, <3>4 DEF AccountInv, Opening
  <2>5. CASE thread[x].at \notin {"insert", "update", "commit", "open_movement", "open_commit"}
    BY <2>1, <2>5 DEF AccountInv, Opening
  <2>6. QED
    BY <2>0, <2>2, <2>3, <2>4, <2>5
<1>16. LocalInv(t)'
  <2>1. RequestInv(t)'
    BY <1>2, <1>3, <1>7, <1>9, NoneAssumption DEF RequestInv, PostSteps, Inserted
  <2>2. AccountInv(t)'
    BY <1>7 DEF AccountInv, Opening
  <2>3. QED
    BY <2>1, <2>2 DEF LocalInv
<1>17. LocalsInv'
  BY <1>8, <1>15, <1>16 DEF LocalsInv, LocalInv
<1>18. LocksInv'
  BY <1>7, NoLocks, LocksStay
<1>19. QED
  BY <1>8, <1>10, <1>11, <1>12, <1>13, <1>17, <1>18 DEF IInv
\* An opening's account appears, with its first movement if there is one.
LEMMA OpenCommitKeepsIInv ==
    ASSUME IInv, NEW t \in Threads, open_commit(t) PROVE IInv'
<1> DEFINE q == thread[t].request
           a == q.account
           c == thread[t].customer
           r == thread[t].ref
           new == [customer |-> c, balance |-> thread[t].balance, version |-> thread[t].version]
           row == [key |-> a, request |-> q]
<1>1. /\ thread[t].at = "open_commit" /\ account' = [account EXCEPT ![a] = new]
      /\ Return(t) /\ UNCHANGED answers
  BY DEF open_commit
<1>2. /\ thread[t] \in Locals /\ LocalInv(t) /\ q \in Openings /\ a \in Accounts
      /\ thread[t].key = a /\ a \in AllKeys /\ c \in Customers /\ r \in Refs \cup {None}
  BY <1>1, WorkingOpening
<1>3. account[a] = None /\ ~Registered(c)
  BY <1>1, <1>2 DEF LocalInv, AccountInv, Opening
<1>4. new \in AccountRow /\ new # None /\ new.customer = c
  <2>1. new \in AccountRow
    BY <1>2 DEF AccountRow, Locals
  <2>2. QED
    BY <2>1, NoneAssumption
<1>5. row \in LedgerRow /\ row.key = thread[t].key /\ row.request = q
  BY <1>2 DEF LedgerRow
<1>6. IF r = None
      THEN audits' = audits \cup {<<"ACCOUNT_OPENED", a>>} /\ UNCHANGED ledger
      ELSE /\ audits' = audits \cup {<<"ACCOUNT_OPENED", a>>, <<"TXN_SETTLED", r>>}
           /\ ledger' = [ledger EXCEPT ![r] = row]
  BY DEF open_commit
<1>7. /\ thread' \in [Threads -> Locals] /\ Others(t) /\ LocalInv(t)'
      /\ \A x \in Threads : Apart(t, x)' /\ Apart(x, t)'
  BY <1>1, ReturnEffect
<1>8. r # None => Inserted(t) /\ r \in Refs
  BY <1>1, <1>2 DEF Inserted
<1>9. /\ ledger' \in [Refs -> LedgerRow \cup {None}] /\ row # None
      /\ r # None => ledger[r] = None /\ ledger'[r] = row
      /\ \A s \in Refs : s # r => ledger'[s] = ledger[s]
      /\ OneEffectPerKey' /\ AnswersSettled'
      /\ \A x \in Threads : x # t => RequestInv(x)'
  <2>1. CASE r # None
    BY <1>1, <1>5, <1>6, <1>7, <1>8, <2>1, SettleEffect DEF Others
  <2>2. CASE r = None
    <3>1. UNCHANGED ledger /\ ledger' \in [Refs -> LedgerRow \cup {None}] /\ row # None
      BY <1>5, <1>6, <2>2, NoneAssumption DEF IInv, TypeOK
    <3>2. OneEffectPerKey' /\ AnswersSettled'
      BY <1>1, <3>1 DEF IInv, OneEffectPerKey, Settled, AnswersSettled
    <3>3. ASSUME NEW x \in Threads, x # t PROVE RequestInv(x)'
      BY <1>7, <3>1, <3>3 DEF IInv, LocalsInv, LocalInv, Others, RequestInv, Inserted, KeySettled, Settled
    <3>4. QED
      BY <2>2, <3>1, <3>2, <3>3
  <2>3. QED
    BY <2>1, <2>2
<1> HIDE DEF q, a, c, r, new, row
<1>10. /\ account' \in [Accounts -> AccountRow \cup {None}] /\ account'[a] = new
       /\ \A b \in Accounts : b # a => account'[b] = account[b]
  BY <1>1, <1>2, <1>4 DEF IInv, TypeOK
<1>11. TypeOK'
  <2>1. audits' \subseteq Audit
    BY <1>2, <1>6, <1>8 DEF IInv, TypeOK, Audit
  <2>2. QED
    BY <1>1, <1>7, <1>9, <1>10, <2>1 DEF IInv, TypeOK
<1>12. AccountsExist'
  <2>1. \A b \in Accounts : account[b] # None => account'[b] # None
    BY <1>4, <1>10
  <2>2. ASSUME NEW s \in Refs, ledger'[s] # None PROVE account'[ledger'[s].request.account] # None
    <3>1. CASE s = r
      <4>1. r # None /\ ledger'[r] = row
        BY <1>9, <3>1, NoneAssumption
      <4>2. QED
        BY <1>4, <1>5, <1>10, <3>1, <4>1 DEF q, a
    <3>2. CASE s # r
      <4>1. ledger[s] # None /\ ledger'[s] = ledger[s] /\ ledger[s].request.account \in Accounts
        BY <1>9, <2>2, <3>2 DEF IInv, TypeOK, LedgerRow, Requests, Openings
      <4>2. QED
        BY <2>1, <4>1 DEF IInv, AccountsExist
    <3>3. QED
      BY <3>1, <3>2
  <2>3. QED
    BY <2>2 DEF AccountsExist
<1>13. OneAccountPerCustomer'
  <2>1. \A b \in Accounts : account[b] # None => account[b].customer # c
    BY <1>3 DEF Registered
  <2>2. QED
    BY <1>4, <1>10, <2>1 DEF IInv, OneAccountPerCustomer
<1>14. AuditsMatch'
  <2>1. ASSUME NEW s \in Refs PROVE ledger'[s] # None <=> <<"TXN_SETTLED", s>> \in audits'
    BY <1>6, <1>9, NoneAssumption DEF IInv, AuditsMatch
  <2>2. ASSUME NEW b \in Accounts PROVE account'[b] # None <=> <<"ACCOUNT_OPENED", b>> \in audits'
    BY <1>4, <1>6, <1>10 DEF IInv, AuditsMatch
  <2>3. ASSUME NEW s \in Refs, <<"TXN_REPLAY_IGNORED", s>> \in audits' PROVE ledger'[s] # None
    <3>1. <<"TXN_REPLAY_IGNORED", s>> \in audits /\ ledger[s] # None
      BY <1>6, <2>3 DEF IInv, AuditsMatch
    <3>2. QED
      BY <1>9, <3>1, NoneAssumption
  <2>4. QED
    BY <2>1, <2>2, <2>3 DEF AuditsMatch
<1>15. ASSUME NEW x \in Threads, x # t PROVE AccountInv(x)'
  <2>1. thread'[x] = thread[x] /\ AccountInv(x) /\ Apart(t, x)
    BY <1>7, <1>15 DEF Others, IInv, LocalsInv, LocalInv, LocksInv
  <2>2. CASE thread[x].at \in {"insert", "update", "commit"}
    <3>1. thread[x].request.account \in Accounts
      BY <2>2, Working DEF PostSteps
    <3>2. account[thread[x].request.account] # None
      BY <2>1, <2>2 DEF AccountInv
    <3>3. account'[thread[x].request.account] = account[thread[x].request.account]
      BY <1>3, <1>10, <3>1, <3>2
    <3>4. QED
      BY <2>1, <2>2, <3>3 DEF AccountInv, Opening, Moves
  <2>3. CASE thread[x].at \in {"open_movement", "open_commit"}
    <3>1. thread[x].request.account \in Accounts
      BY <2>3, WorkingOpening
    <3>2. thread[x].request.account # a /\ thread[x].customer # c
      BY <1>1, <2>1, <2>3 DEF Apart, Opening, SameIdentity, a, c, q
    <3>3. account[thread[x].request.account] = None /\ ~Registered(thread[x].customer)
      BY <2>1, <2>3 DEF AccountInv, Opening
    <3>4. account'[thread[x].request.account] = None
      BY <1>10, <3>1, <3>2, <3>3
    <3>5. ~Registered(thread[x].customer)'
      BY <1>4, <1>10, <2>1, <3>2, <3>3 DEF Registered
    <3>6. QED
      BY <2>1, <2>3, <3>4, <3>5 DEF AccountInv, Opening
  <2>4. CASE thread[x].at \notin {"insert", "update", "commit", "open_movement", "open_commit"}
    BY <2>1, <2>4 DEF AccountInv, Opening
  <2>5. QED
    BY <2>2, <2>3, <2>4
<1>16. LocalsInv'
  BY <1>7, <1>9, <1>15 DEF LocalsInv, LocalInv
<1>17. LocksInv'
  BY <1>7, LocksStay
<1>18. QED
  BY <1>9, <1>11, <1>12, <1>13, <1>14, <1>16, <1>17 DEF IInv
-----------------------------------------------------------------------------
LEMMA NextKeepsIInv == IInv /\ [Next]_vars => IInv'
<1> SUFFICES ASSUME IInv, [Next]_vars PROVE IInv'
  OBVIOUS
<1>1. ASSUME NEW t \in Threads, Request(t) PROVE IInv'
  BY <1>1, PostKeepsIInv, OpenKeepsIInv DEF Request
<1>2. ASSUME NEW t \in Threads, Insert(t) PROVE IInv'
  BY <1>2, InsertKeepsIInv, OpenMovementKeepsIInv DEF Insert
<1>3. ASSUME NEW t \in Threads, NEW r \in Refs, open_movement_conflict(t, r) PROVE IInv'
  BY <1>3, QuietReturnKeepsIInv DEF open_movement_conflict
<1>4. ASSUME NEW t \in Threads, Serve(t) PROVE IInv'
  <2>1. CASE \E r \in Refs : insert_conflict(t, r) \/ read_winner(t, r) \/ open_movement_conflict(t, r)
    BY <1>3, <2>1, ConflictKeepsIInv, ReadWinnerKeepsIInv
  <2>2. CASE refuse(t) \/ no_winner(t) \/ reject_movement(t) \/ deadlock_victim(t)
             \/ insert_account_conflict(t)
    <3>1. Return(t) /\ UNCHANGED <<account, ledger, audits, answers>>
      BY <2>2 DEF refuse, no_winner, reject_movement, deadlock_victim, insert_account_conflict
    <3>2. QED
      BY <3>1, QuietReturnKeepsIInv
  <2>3. CASE read_account(t) \/ update_account(t) \/ keep_account(t) \/ commit(t) \/ respond(t)
             \/ insert_account(t) \/ open_commit(t)
    BY <2>3, ReadAccountKeepsIInv, UpdateKeepsIInv, KeepKeepsIInv, CommitKeepsIInv,
       RespondKeepsIInv, InsertAccountKeepsIInv, OpenCommitKeepsIInv
  <2>4. QED
    BY <1>4, <2>1, <2>2, <2>3 DEF Serve
<1>5. ASSUME NEW t \in Threads, fail(t) PROVE IInv'
  BY <1>5, QuietReturnKeepsIInv DEF fail
<1>6. CASE UNCHANGED vars
  <2>1. LocalsInv' /\ thread' \in [Threads -> Locals]
    BY <1>6, OthersKeepLocalInv DEF vars, IInv, LocalsInv, TypeOK
  <2>2. LocksInv'
    BY <1>6 DEF vars, IInv, LocksInv, Apart, Inserted, Opening, SameIdentity, Moves
  <2>3. audits' \subseteq Audit /\ answers' \subseteq Answer /\ AnswersSettled'
    BY <1>6 DEF vars, IInv, TypeOK, AnswersSettled
  <2>4. QED
    BY <1>6, <2>1, <2>2, <2>3, RowsKept DEF vars
<1>7. QED
  BY <1>1, <1>2, <1>4, <1>5, <1>6, PostReplayKeepsIInv DEF Next

\* The inductive invariant holds in every reachable state.
THEOREM Invariant == Spec => []IInv
<1>1. QED
  BY InitIInv, NextKeepsIInv, PTL DEF Spec

\* Type correctness; in it, that no balance is negative or leaves a long.
THEOREM TypeCorrect == Spec => []TypeOK
<1>1. IInv => TypeOK
  BY DEF IInv
<1>2. QED
  BY <1>1, Invariant, PTL

\* A key has one ledger row, whatever retries and submissions overlap.
THEOREM OneEffect == Spec => []OneEffectPerKey
<1>1. IInv => OneEffectPerKey
  BY DEF IInv
<1>2. QED
  BY <1>1, Invariant, PTL

\* Every answer names the row of the caller's own key and movement.
THEOREM AnswersAreSettled == Spec => []AnswersSettled
<1>1. IInv => AnswersSettled
  BY DEF IInv
<1>2. QED
  BY <1>1, Invariant, PTL

\* Rows and their audit evidence are there together.
THEOREM AuditsAreComplete == Spec => []AuditsMatch
<1>1. IInv => AuditsMatch
  BY DEF IInv
<1>2. QED
  BY <1>1, Invariant, PTL

\* An identity has one account, whatever openings overlap.
THEOREM OneAccount == Spec => []OneAccountPerCustomer
<1>1. IInv => OneAccountPerCustomer
  BY DEF IInv
<1>2. QED
  BY <1>1, Invariant, PTL
-----------------------------------------------------------------------------
(* What a step may do to balances and rows *)

\* Only the two commits write rows.
LEMMA OnlyCommitsWrite ==
    ASSUME [Next]_vars, ~UNCHANGED <<account, ledger>>
    PROVE  \E t \in Threads : commit(t) \/ open_commit(t)
<1>1. ASSUME NEW t \in Threads, Serve(t), ~commit(t), ~open_commit(t)
      PROVE  UNCHANGED <<account, ledger>>
  <2>1. CASE read_account(t) \/ refuse(t) \/ no_winner(t) \/ reject_movement(t) \/ update_account(t)
    BY <2>1 DEF read_account, refuse, no_winner, reject_movement, update_account
  <2>2. CASE \/ keep_account(t) \/ deadlock_victim(t) \/ respond(t)
             \/ insert_account(t) \/ insert_account_conflict(t)
    BY <2>2 DEF keep_account, deadlock_victim, respond, insert_account, insert_account_conflict
  <2>3. ASSUME NEW r \in Refs,
               insert_conflict(t, r) \/ read_winner(t, r) \/ open_movement_conflict(t, r)
        PROVE  UNCHANGED <<account, ledger>>
    BY <2>3 DEF insert_conflict, read_winner, open_movement_conflict
  <2>4. QED
    BY <1>1, <2>1, <2>2, <2>3 DEF Serve
<1>2. ASSUME NEW t \in Threads, Request(t) \/ Insert(t) \/ fail(t)
      PROVE  UNCHANGED <<account, ledger>>
  BY <1>2 DEF Request, post, open, Insert, insert, open_movement, fail
<1>3. ASSUME NEW q \in Requests, NEW k \in AllKeys, NEW r \in Refs, post_replay(q, k, r)
      PROVE  UNCHANGED <<account, ledger>>
  BY <1>3 DEF post_replay
<1>4. QED
  BY <1>1, <1>2, <1>3 DEF Next, vars

\* A commit adds its row, which was not there, and that row's effect.
LEMMA CommitEffect ==
    ASSUME IInv, NEW t \in Threads, commit(t)
    PROVE  LET a == thread[t].request.account
               r == thread[t].ref
           IN  /\ a \in Accounts /\ r \in Refs /\ ledger[r] = None
               /\ ledger'[r] # None /\ ledger'[r].request = thread[t].request
               /\ \A s \in Refs : s # r => ledger'[s] = ledger[s]
               /\ \A b \in Accounts : b # a => account'[b] = account[b]
               /\ account[a] # None /\ account'[a] # None
               /\ account'[a].balance = account[a].balance + Effect(thread[t].request)
<1> DEFINE q == thread[t].request
           a == q.account
           r == thread[t].ref
           row == [key |-> thread[t].key, request |-> q]
<1>1. /\ thread[t].at = "commit" /\ thread[t].at \in PostSteps
      /\ ledger' = [ledger EXCEPT ![r] = row]
  BY DEF commit, PostSteps
<1>2. /\ thread[t] \in Locals /\ LocalInv(t) /\ q \in Requests /\ a \in Accounts
      /\ thread[t].key \in AllKeys
  BY <1>1, Working
<1>3. r \in Refs /\ ledger[r] = None
  BY <1>1, <1>2 DEF LocalInv, RequestInv, Inserted, Locals
<1>4. row # None /\ row.request = q
  BY <1>2, NoneAssumption DEF LedgerRow
<1>5. ledger'[r] = row /\ \A s \in Refs : s # r => ledger'[s] = ledger[s]
  BY <1>1, <1>3 DEF IInv, TypeOK
<1>6. QED
  BY <1>2, <1>3, <1>4, <1>5, CommitAccount

\* An opening adds an account that holds its movement's effect, or nothing.
LEMMA OpenCommitEffect ==
    ASSUME IInv, NEW t \in Threads, open_commit(t)
    PROVE  LET a == thread[t].request.account
               r == thread[t].ref
           IN  /\ a \in Accounts /\ account[a] = None /\ account'[a] # None
               /\ \A b \in Accounts : b # a => account'[b] = account[b]
               /\ r = None => UNCHANGED ledger /\ account'[a].balance = 0
               /\ r # None =>
                     /\ r \in Refs /\ ledger[r] = None /\ ledger'[r] # None
                     /\ ledger'[r].request = thread[t].request
                     /\ \A s \in Refs : s # r => ledger'[s] = ledger[s]
                     /\ account'[a].balance = Effect(thread[t].request)
<1> DEFINE q == thread[t].request
           a == q.account
           r == thread[t].ref
           row == [key |-> a, request |-> q]
           new == [customer |-> thread[t].customer, balance |-> thread[t].balance,
                   version |-> thread[t].version]
<1>1. /\ thread[t].at = "open_commit" /\ account' = [account EXCEPT ![a] = new]
      /\ IF r = None THEN UNCHANGED ledger ELSE ledger' = [ledger EXCEPT ![r] = row]
  BY DEF open_commit
<1>2. /\ thread[t] \in Locals /\ LocalInv(t) /\ q \in Openings /\ a \in Accounts
      /\ a \in AllKeys /\ thread[t].customer \in Customers /\ r \in Refs \cup {None}
  BY <1>1, WorkingOpening
<1>3. /\ account[a] = None
      /\ thread[t].balance = IF r = None THEN 0 ELSE Effect(q)
      /\ r # None => ledger[r] = None
  BY <1>1, <1>2 DEF LocalInv, AccountInv, RequestInv, Opening, Inserted
<1>4. row # None /\ row.request = q
  BY <1>2, NoneAssumption DEF LedgerRow
<1>5. new \in AccountRow /\ new.balance = thread[t].balance
  BY <1>2 DEF AccountRow, Locals
<1>6. new # None
  BY <1>5, NoneAssumption
<1>7. account'[a] = new /\ \A b \in Accounts : b # a => account'[b] = account[b]
  BY <1>1, <1>2 DEF IInv, TypeOK
<1>8. r # None => ledger'[r] = row /\ \A s \in Refs : s # r => ledger'[s] = ledger[s]
  BY <1>1, <1>2 DEF IInv, TypeOK
<1>9. QED
  BY <1>1, <1>2, <1>3, <1>4, <1>5, <1>6, <1>7, <1>8

\* Settled rows are never overwritten.
THEOREM RowsStay == Spec => LedgerImmutable
<1>1. ASSUME IInv, [Next]_vars, NEW r \in Refs, ledger[r] # None PROVE ledger'[r] = ledger[r]
  <2>1. CASE UNCHANGED ledger
    BY <2>1
  <2>2. ASSUME NEW t \in Threads, commit(t) PROVE ledger'[r] = ledger[r]
    BY <1>1, <2>2, CommitEffect
  <2>3. ASSUME NEW t \in Threads, open_commit(t) PROVE ledger'[r] = ledger[r]
    BY <1>1, <2>3, OpenCommitEffect
  <2>4. QED
    BY <1>1, <2>1, <2>2, <2>3, OnlyCommitsWrite
<1>2. IInv /\ [Next]_vars => [\A r \in Refs : ledger[r] # None => ledger'[r] = ledger[r]]_vars
  BY <1>1
<1>3. QED
  BY <1>2, Invariant, PTL DEF Spec, LedgerImmutable
=============================================================================
