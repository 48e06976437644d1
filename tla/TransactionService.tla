------------------------- MODULE TransactionService -------------------------
(***************************************************************************)
(* The retail core's ledger: TransactionService.post and                   *)
(* AccountOpeningService.open over MySQL (InnoDB).  A request thread runs  *)
(* its statements in one READ_COMMITTED transaction; what it wrote before  *)
(* its commit is in its locals and shows to others only as locks:          *)
(*   - a row inserted under a unique key makes an insert of the same key   *)
(*     wait until it is committed or rolled back,                          *)
(*   - the insert of a ledger row shares a lock on its account (the        *)
(*     foreign key), the update of the account needs it exclusively.  A    *)
(*     movement without effect (a credit as large as its fee) leaves the   *)
(*     account's entity as it was read: no UPDATE, no version, no wait.    *)
(* Requests that are refused before their transaction change nothing.      *)
(* Accounts are those opened through the service: the demo account that    *)
(* DataSeeder may insert at start-up has no outlet and is never posted to. *)
(***************************************************************************)
EXTENDS Integers, FiniteSets, Functions

CONSTANTS Threads,     \* request threads of the servers
          Accounts,    \* account numbers; a also stands for the key "opening-<a>"
          Customers,   \* id_number_hash
          Keys,        \* idempotency keys the terminals choose
          Refs,        \* generated transaction references (may repeat)
          Amounts, Fees,
          MaxLong,     \* Long.MAX_VALUE
          None

ASSUME AmountAssumption == /\ MaxLong \in Nat
                           /\ Amounts \subseteq 1..MaxLong
                           /\ Fees \subseteq 0..MaxLong

VARIABLES account,     \* account rows: customer, balance and @Version
          ledger,      \* txn_transaction rows, SETTLED when they are committed
          audits,      \* audit_log rows: action and target
          answers,     \* observer: what callers were answered
          thread       \* what each request thread is doing

vars == <<account, ledger, audits, answers, thread>>

AllKeys == Keys \cup Accounts
Requests == [account : Accounts, credit : BOOLEAN, amount : Amounts, fee : Fees]
Openings == [account : Accounts, credit : {TRUE}, amount : Amounts \cup {0}, fee : {0}]
AccountRow == [customer : Customers, balance : 0..MaxLong, version : Nat]
LedgerRow == [key : AllKeys, request : Requests \cup Openings]
Answer == [key : AllKeys, request : Requests, ref : Refs]
Audit == ({"TXN_SETTLED", "TXN_REPLAY_IGNORED"} \X Refs) \cup ({"ACCOUNT_OPENED"} \X Accounts)

ASSUME NoneAssumption == None \notin AccountRow \cup LedgerRow \cup AllKeys \cup Requests
                                     \cup Openings \cup Refs \cup Customers

Steps == {"idle", "read", "insert", "winner", "update", "commit", "respond",
          "open_account", "open_movement", "open_commit"}
Locals == [at : Steps, key : AllKeys \cup {None}, request : Requests \cup Openings \cup {None},
           ref : Refs \cup {None}, customer : Customers \cup {None},
           balance : 0..MaxLong, version : Nat]
Idle == [at |-> "idle", key |-> None, request |-> None, ref |-> None, customer |-> None,
         balance |-> 0, version |-> 0]

Init == /\ account = [a \in Accounts |-> None]
        /\ ledger = [r \in Refs |-> None]
        /\ audits = {}
        /\ answers = {}
        /\ thread = [t \in Threads |-> Idle]

Settled(r, k) == ledger[r] # None /\ ledger[r].key = k
KeySettled(k) == \E r \in Refs : Settled(r, k)

\* signed(amount), then the fee.
Effect(q) == (IF q.credit THEN q.amount ELSE -q.amount) - q.fee
Moves(t) == Effect(thread[t].request) # 0

\* Others' uncommitted ledger rows, and their locks on an account.
Inserted(t) == thread[t].at \in {"update", "commit", "open_commit"} /\ thread[t].ref # None
Shares(t, a) == /\ thread[t].at = "update" \/ (thread[t].at = "commit" /\ ~Moves(t))
                /\ thread[t].request.account = a
Owns(t, a) == thread[t].at = "commit" /\ Moves(t) /\ thread[t].request.account = a
Opening(t) == thread[t].at \in {"open_movement", "open_commit"}

Goto(t, step) == thread' = [thread EXCEPT ![t].at = step]
Return(t) == thread' = [thread EXCEPT ![t] = Idle]
Reply(k, q, r) == answers' = answers \cup {[key |-> k, request |-> q, ref |-> r]}
-----------------------------------------------------------------------------
(* post *)

\* Mutant: the stored movement is not compared with the one asked for.
MayReplay_any(r, q) == ledger[r].request.account = q.account

\* acceptReplay: account, outlet, type, amount and fee are those of the row.
MayReplay(r, q) == ledger[r].request = q

\* A key that is settled is answered with its row, and the repetition audited.
post_replay(q, k, r) ==
    /\ Settled(r, k)
    /\ MayReplay(r, q)
    /\ audits' = audits \cup {<<"TXN_REPLAY_IGNORED", r>>}
    /\ Reply(k, q, r)
    /\ UNCHANGED <<account, ledger, thread>>

post(t, q, k) ==
    /\ thread[t].at = "idle"
    /\ ~KeySettled(k)
    /\ thread' = [thread EXCEPT ![t] = [Idle EXCEPT !.at = "read", !.key = k, !.request = q]]
    /\ UNCHANGED <<account, ledger, audits, answers>>

\* The total of a debit fits a long and is covered.
Affordable(q, balance) == q.amount + q.fee <= MaxLong /\ (~q.credit => balance >= q.amount + q.fee)

\* The transaction starts and reads the committed account.
read_account(t) ==
    LET q == thread[t].request
        row == account[q.account]
    IN  /\ thread[t].at = "read"
        /\ row # None
        /\ Affordable(q, row.balance)
        /\ thread' = [thread EXCEPT ![t].at = "insert", ![t].balance = row.balance,
                                    ![t].version = row.version]
        /\ UNCHANGED <<account, ledger, audits, answers>>

\* "Account not found", "Insufficient balance" or an overflow: rolled back.
refuse(t) ==
    LET q == thread[t].request
    IN  /\ thread[t].at = "read"
        /\ account[q.account] # None => ~Affordable(q, account[q.account].balance)
        /\ Return(t)
        /\ UNCHANGED <<account, ledger, audits, answers>>

\* Mutant: without the unique index on the idempotency key.
insert_same_key(t, r) ==
    /\ thread[t].at = "insert"
    /\ ledger[r] = None
    /\ \A x \in Threads : Inserted(x) => thread[x].ref # r
    /\ \A x \in Threads : ~Owns(x, thread[t].request.account)
    /\ thread' = [thread EXCEPT ![t].at = "update", ![t].ref = r]
    /\ UNCHANGED <<account, ledger, audits, answers>>

\* Mutant: without the unique index on the reference.
insert_same_ref(t, r) ==
    /\ thread[t].at = "insert"
    /\ ~KeySettled(thread[t].key)
    /\ \A x \in Threads : Inserted(x) => thread[x].key # thread[t].key
    /\ \A x \in Threads : ~Owns(x, thread[t].request.account)
    /\ thread' = [thread EXCEPT ![t].at = "update", ![t].ref = r]
    /\ UNCHANGED <<account, ledger, audits, answers>>

\* The PENDING row is flushed; it waits for rows of the same key or reference
\* that are not committed, and for the account.
insert(t, r) ==
    /\ thread[t].at = "insert"
    /\ ~KeySettled(thread[t].key)
    /\ ledger[r] = None
    /\ \A x \in Threads : Inserted(x) => thread[x].key # thread[t].key /\ thread[x].ref # r
    /\ \A x \in Threads : ~Owns(x, thread[t].request.account)
    /\ thread' = [thread EXCEPT ![t].at = "update", ![t].ref = r]
    /\ UNCHANGED <<account, ledger, audits, answers>>

\* Mutant: a rejected insert is tried again.
insert_conflict_retry(t, r) ==
    /\ thread[t].at = "insert"
    /\ KeySettled(thread[t].key) \/ ledger[r] # None
    /\ Goto(t, "read")
    /\ UNCHANGED <<account, ledger, audits, answers>>

\* DataIntegrityViolationException: rolled back, then the winner is read.
insert_conflict(t, r) ==
    /\ thread[t].at = "insert"
    /\ KeySettled(thread[t].key) \/ ledger[r] # None
    /\ Goto(t, "winner")
    /\ UNCHANGED <<account, ledger, audits, answers>>

read_winner(t, r) ==
    /\ thread[t].at = "winner"
    /\ Settled(r, thread[t].key)
    /\ IF MayReplay(r, thread[t].request)
       THEN /\ audits' = audits \cup {<<"TXN_REPLAY_IGNORED", r>>}
            /\ Reply(thread[t].key, thread[t].request, r)
       ELSE UNCHANGED <<audits, answers>>
    /\ Return(t)
    /\ UNCHANGED <<account, ledger>>

\* The reference was taken, not the key: the exception is thrown again.
no_winner(t) ==
    /\ thread[t].at = "winner"
    /\ ~KeySettled(thread[t].key)
    /\ Return(t)
    /\ UNCHANGED <<account, ledger, audits, answers>>

\* Mutant: applyMovement without its check.
CanMove_unchecked(q, balance) == balance + Effect(q) <= MaxLong

\* applyMovement twice, addExact and the balance check each time.
CanMove(q, balance) ==
    /\ q.credit => balance + q.amount <= MaxLong
    /\ balance + Effect(q) >= 0

AwaitsUpdate(t) == /\ thread[t].at = "update"
                   /\ CanMove(thread[t].request, thread[t].balance)
                   /\ Moves(t)

reject_movement(t) ==
    /\ thread[t].at = "update"
    /\ ~CanMove(thread[t].request, thread[t].balance)
    /\ Return(t)
    /\ UNCHANGED <<account, ledger, audits, answers>>

\* The movements cancel out: Hibernate finds nothing to update.
keep_account(t) ==
    /\ thread[t].at = "update"
    /\ CanMove(thread[t].request, thread[t].balance)
    /\ ~Moves(t)
    /\ Goto(t, "commit")
    /\ UNCHANGED <<account, ledger, audits, answers>>

\* Mutant: the account is saved whatever its version.
update_account_unversioned(t) ==
    LET q == thread[t].request
    IN  /\ AwaitsUpdate(t)
        /\ \A x \in Threads \ {t} : ~Shares(x, q.account)
        /\ thread' = [thread EXCEPT ![t].at = "commit",
                                    ![t].balance = thread[t].balance + Effect(q)]
        /\ UNCHANGED <<account, ledger, audits, answers>>

\* Mutant: the settlement is audited in a transaction of its own.
update_account_audited(t) ==
    LET q == thread[t].request
    IN  /\ AwaitsUpdate(t)
        /\ \A x \in Threads \ {t} : ~Shares(x, q.account)
        /\ IF account[q.account].version = thread[t].version
           THEN /\ thread' = [thread EXCEPT ![t].at = "commit",
                                            ![t].balance = thread[t].balance + Effect(q)]
                /\ audits' = audits \cup {<<"TXN_SETTLED", thread[t].ref>>}
           ELSE Return(t) /\ UNCHANGED audits
        /\ UNCHANGED <<account, ledger, answers>>

\* UPDATE ... WHERE version = ?, under an exclusive lock: no row matches when
\* another movement was committed since the read (OptimisticLockException).
update_account(t) ==
    LET q == thread[t].request
    IN  /\ AwaitsUpdate(t)
        /\ \A x \in Threads \ {t} : ~Shares(x, q.account)
        /\ IF account[q.account].version = thread[t].version
           THEN thread' = [thread EXCEPT ![t].at = "commit",
                                         ![t].balance = thread[t].balance + Effect(q)]
           ELSE Return(t)
        /\ UNCHANGED <<account, ledger, audits, answers>>

\* Two transactions share the account's lock and both wait for it exclusively:
\* InnoDB rolls one back.
deadlock_victim(t) ==
    /\ AwaitsUpdate(t)
    /\ \E x \in Threads \ {t} : AwaitsUpdate(x) /\ Shares(x, thread[t].request.account)
    /\ Return(t)
    /\ UNCHANGED <<account, ledger, audits, answers>>

\* settle, the audit row and the commit.
commit(t) ==
    LET q == thread[t].request
    IN  /\ thread[t].at = "commit"
        /\ ledger' = [ledger EXCEPT ![thread[t].ref] = [key |-> thread[t].key, request |-> q]]
        /\ account' = IF Moves(t)
                      THEN [account EXCEPT ![q.account].balance = thread[t].balance,
                                           ![q.account].version = thread[t].version + 1]
                      ELSE account
        /\ audits' = audits \cup {<<"TXN_SETTLED", thread[t].ref>>}
        /\ Goto(t, "respond")
        /\ UNCHANGED answers

respond(t) ==
    /\ thread[t].at = "respond"
    /\ Reply(thread[t].key, thread[t].request, thread[t].ref)
    /\ Return(t)
    /\ UNCHANGED <<account, ledger, audits>>
-----------------------------------------------------------------------------
(* open: one transaction for the account, its first movement and the audits *)

open(t, q, c) ==
    /\ thread[t].at = "idle"
    /\ account[q.account] = None
    /\ thread' = [thread EXCEPT ![t] = [Idle EXCEPT !.at = "open_account", !.key = q.account,
                                                    !.request = q, !.customer = c]]
    /\ UNCHANGED <<account, ledger, audits, answers>>

Registered(c) == \E a \in Accounts : account[a] # None /\ account[a].customer = c

\* Mutant: without the unique index on the identity.
SameIdentity_account(x, t) == thread[x].request.account = thread[t].request.account

SameIdentity(x, t) == \/ thread[x].request.account = thread[t].request.account
                      \/ thread[x].customer = thread[t].customer

insert_account(t) ==
    LET q == thread[t].request
    IN  /\ thread[t].at = "open_account"
        /\ account[q.account] = None /\ ~Registered(thread[t].customer)
        /\ \A x \in Threads : Opening(x) => ~SameIdentity(x, t)
        /\ Goto(t, IF q.amount > 0 THEN "open_movement" ELSE "open_commit")
        /\ UNCHANGED <<account, ledger, audits, answers>>

\* uk_account_no or uk_account_id_number_hash: 422.
insert_account_conflict(t) ==
    /\ thread[t].at = "open_account"
    /\ account[thread[t].request.account] # None \/ Registered(thread[t].customer)
    /\ Return(t)
    /\ UNCHANGED <<account, ledger, audits, answers>>

\* post inside the opening: the row, then the balance of the new account.
open_movement(t, r) ==
    /\ thread[t].at = "open_movement"
    /\ ~KeySettled(thread[t].key) /\ ledger[r] = None
    /\ \A x \in Threads : Inserted(x) => thread[x].key # thread[t].key /\ thread[x].ref # r
    /\ thread' = [thread EXCEPT ![t].at = "open_commit", ![t].ref = r,
                                ![t].balance = Effect(thread[t].request), ![t].version = 1]
    /\ UNCHANGED <<account, ledger, audits, answers>>

\* The opening key or the reference is taken: all of the opening is rolled back.
open_movement_conflict(t, r) ==
    /\ thread[t].at = "open_movement"
    /\ KeySettled(thread[t].key) \/ ledger[r] # None
    /\ Return(t)
    /\ UNCHANGED <<account, ledger, audits, answers>>

open_commit(t) ==
    LET a == thread[t].request.account
        r == thread[t].ref
    IN  /\ thread[t].at = "open_commit"
        /\ account' = [account EXCEPT ![a] = [customer |-> thread[t].customer,
                           balance |-> thread[t].balance, version |-> thread[t].version]]
        /\ IF r = None
           THEN /\ audits' = audits \cup {<<"ACCOUNT_OPENED", a>>}
                /\ UNCHANGED ledger
           ELSE /\ audits' = audits \cup {<<"ACCOUNT_OPENED", a>>, <<"TXN_SETTLED", r>>}
                /\ ledger' = [ledger EXCEPT ![r] = [key |-> a, request |-> thread[t].request]]
        /\ Return(t)
        /\ UNCHANGED answers
-----------------------------------------------------------------------------
\* The audit insert fails, a lock wait times out, the connection or the server
\* is lost: what was not committed is rolled back, a response is not sent.
fail(t) ==
    /\ thread[t].at # "idle"
    /\ Return(t)
    /\ UNCHANGED <<account, ledger, audits, answers>>

Insert(t) == \E r \in Refs : insert(t, r) \/ open_movement(t, r)
Serve(t) ==
    \/ read_account(t) \/ refuse(t)
    \/ \E r \in Refs : insert_conflict(t, r) \/ read_winner(t, r) \/ open_movement_conflict(t, r)
    \/ no_winner(t) \/ reject_movement(t) \/ update_account(t) \/ keep_account(t)
    \/ deadlock_victim(t) \/ commit(t) \/ respond(t)
    \/ insert_account(t) \/ insert_account_conflict(t) \/ open_commit(t)

Request(t) ==
    \/ \E q \in Requests, k \in AllKeys : post(t, q, k)
    \/ \E q \in Openings, c \in Customers : open(t, q, c)

Next ==
    \/ \E t \in Threads : Request(t) \/ Insert(t) \/ Serve(t) \/ fail(t)
    \/ \E q \in Requests, k \in AllKeys, r \in Refs : post_replay(q, k, r)

Spec == Init /\ [][Next]_vars

\* A thread that can go on does; lock queues are first come, first served.
FairSpec == Spec /\ \A t \in Threads :
    WF_vars(Serve(t)) /\ SF_vars(Insert(t)) /\ SF_vars(update_account(t)) /\ SF_vars(insert_account(t))
-----------------------------------------------------------------------------
(* Properties *)

\* Every row and every local holds a value its code can put there; balances are
\* not negative and fit a long, also when several movements overlap.
TypeOK ==
    /\ account \in [Accounts -> AccountRow \cup {None}]
    /\ ledger \in [Refs -> LedgerRow \cup {None}]
    /\ audits \subseteq Audit
    /\ answers \subseteq Answer
    /\ thread \in [Threads -> Locals]

Movements(a) == {r \in Refs : ledger[r] # None /\ ledger[r].request.account = a}
Effects == [r \in Refs |-> IF ledger[r] = None THEN 0 ELSE Effect(ledger[r].request)]

\* "balance is a cached derived value ... the transaction ledger stays the source
\* of truth": no update is lost and no movement is half applied.
BalanceIsLedger == \A a \in Accounts :
    IF account[a] = None THEN Movements(a) = {}
    ELSE account[a].balance = SumFunctionOnSet(Effects, Movements(a))

\* "One effect per key": retries and concurrent submissions with one key leave
\* one ledger row.
OneEffectPerKey == \A r, s \in Refs : \A k \in AllKeys : Settled(r, k) /\ Settled(s, k) => r = s

\* Whatever a caller was answered is in the ledger, under the caller's key and
\* with the movement the caller asked for.
AnswersSettled == \A w \in answers : ledger[w.ref] = [key |-> w.key, request |-> w.request]

\* "A settled posting and its audit evidence must commit or roll back together"
\* (AuditService; retail-finance's README still names a transaction of their own
\* for all audits), and so must an account and its opening's.  A replay's audit,
\* which does have its own transaction, never names a row that was rolled back.
AuditsMatch ==
    /\ \A r \in Refs : ledger[r] # None <=> <<"TXN_SETTLED", r>> \in audits
    /\ \A a \in Accounts : account[a] # None <=> <<"ACCOUNT_OPENED", a>> \in audits
    /\ \A r \in Refs : <<"TXN_REPLAY_IGNORED", r>> \in audits => ledger[r] # None

\* A customer identity has one account, however many openings overlap.
OneAccountPerCustomer == \A a, b \in Accounts :
    account[a] # None /\ account[b] # None /\ account[a].customer = account[b].customer => a = b

\* "One row per money movement, never deleted" nor overwritten.
LedgerImmutable == [][\A r \in Refs : ledger[r] # None => ledger'[r] = ledger[r]]_vars

Balance(a) == IF account[a] = None THEN 0 ELSE account[a].balance

Balances == [a \in Accounts |-> Balance(a)]
Holders == [a \in Accounts |-> IF account[a] = None THEN None ELSE account[a].customer]

Book == INSTANCE AccountBook WITH Keys <- AllKeys, Postings <- Requests, holder <- Holders,
                                  balance <- Balances, book <- ledger, told <- answers

\* Through all their statements, locks and rollbacks, posting and opening do what
\* AccountBook does in single steps: one entry per key together with its effect,
\* no entry changed, no account or answer without what it stands for.
ImplementsBook == Book!BookSpec

\* Every request ends, although transactions wait for each other's keys, rows
\* and locks.
RequestsEnd == \A t \in Threads : thread[t].at # "idle" ~> thread[t].at = "idle"

\* "A retry must resolve to the original transaction": a submission whose very
\* movement is already settled under its key is not refused.
RetryGetsOriginal == [][\A t \in Threads : refuse(t) =>
    \A r \in Refs : ledger[r] # [key |-> thread[t].key, request |-> thread[t].request]]_vars
-----------------------------------------------------------------------------
(* The inductive invariant behind the properties, in named parts. *)

PostSteps == {"read", "insert", "winner", "update", "commit", "respond"}

\* What a thread at work knows of its request, and of the rows it inserted.
RequestInv(t) ==
    /\ thread[t].at \in PostSteps => thread[t].request \in Requests /\ thread[t].key # None
    /\ thread[t].at \notin PostSteps \cup {"idle"} =>
          /\ thread[t].request \in Openings /\ thread[t].key = thread[t].request.account
          /\ thread[t].customer # None
    /\ thread[t].at \in {"update", "commit", "respond"} => thread[t].ref # None
    /\ thread[t].at \in {"open_account", "open_movement"} => thread[t].ref = None
    /\ Inserted(t) => ledger[thread[t].ref] = None /\ ~KeySettled(thread[t].key)
    /\ thread[t].at = "respond" =>
          ledger[thread[t].ref] = [key |-> thread[t].key, request |-> thread[t].request]

\* What it knows of the account: the balance it read goes with the version it
\* read, and under its lock with the row.
AccountInv(t) ==
    LET row == account[thread[t].request.account]
    IN  /\ thread[t].at \in {"insert", "update"} =>
              /\ row # None
              /\ thread[t].version <= row.version
              /\ thread[t].version = row.version => thread[t].balance = row.balance
        /\ thread[t].at = "commit" => row # None
        /\ thread[t].at = "commit" /\ Moves(t) =>
              /\ thread[t].version = row.version
              /\ thread[t].balance = row.balance + Effect(thread[t].request)
        /\ Opening(t) => row = None /\ ~Registered(thread[t].customer)
        /\ thread[t].at \in {"open_account", "open_movement"} => thread[t].balance = 0
        /\ thread[t].at = "open_commit" =>
              thread[t].balance = IF thread[t].ref = None THEN 0 ELSE Effect(thread[t].request)

LocalInv(t) == RequestInv(t) /\ AccountInv(t)
LocalsInv == \A t \in Threads : LocalInv(t)

\* Uncommitted rows have different keys; an account's exclusive lock excludes
\* the shared ones.
Apart(t, x) ==
    /\ Inserted(t) /\ Inserted(x) => thread[t].key # thread[x].key /\ thread[t].ref # thread[x].ref
    /\ Opening(t) /\ Opening(x) => ~SameIdentity(x, t)
    /\ thread[t].at = "commit" /\ Moves(t) /\ thread[x].at \in {"update", "commit"} =>
          thread[t].request.account # thread[x].request.account

LocksInv == \A t, x \in Threads : t # x => Apart(t, x)

AccountsExist == \A r \in Refs : ledger[r] # None => account[ledger[r].request.account] # None

IInv == /\ TypeOK
        /\ AccountsExist
        /\ LocalsInv
        /\ LocksInv
        /\ OneEffectPerKey
        /\ OneAccountPerCustomer
        /\ AnswersSettled
        /\ AuditsMatch
=============================================================================
