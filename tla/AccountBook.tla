----------------------------- MODULE AccountBook -----------------------------
(***************************************************************************)
(* What the retail core promises about money, with no request threads, no  *)
(* transactions and no locks: an account is opened once and for a customer *)
(* who has none; a movement is entered in the book and in the balance in   *)
(* one step, at most once for a key, and only if the balance stays one;    *)
(* and what a caller is told is an entry of the book.                      *)
(***************************************************************************)
EXTENDS Integers

CONSTANTS Accounts, Customers,
          Keys,     \* of the movements
          Refs,     \* places in the book
          Postings, \* movements a caller asks for
          Openings, \* movements an account is opened with
          MaxLong,
          None

VARIABLES holder,  \* holder[a]: the account's customer, or None
          balance,
          book,    \* book[r]: None or [key, request]
          told     \* what callers were answered

bookVars == <<holder, balance, book, told>>

BookInit ==
    /\ holder = [a \in Accounts |-> None]
    /\ balance = [a \in Accounts |-> 0]
    /\ book = [r \in Refs |-> None]
    /\ told = {}

Gain(q) == IF q.credit THEN q.amount - q.fee ELSE -(q.amount + q.fee)

Enter(r, k, q) ==
    /\ book[r] = None
    /\ book' = [book EXCEPT ![r] = [key |-> k, request |-> q]]
    /\ \A s \in Refs : book[s] # None => book[s].key # k
    /\ balance[q.account] + Gain(q) \in 0..MaxLong
    /\ balance' = [balance EXCEPT ![q.account] = balance[q.account] + Gain(q)]

Register(a, c) ==
    /\ holder[a] = None
    /\ \A b \in Accounts : holder[b] # c
    /\ holder' = [holder EXCEPT ![a] = c]

Open(a, c) == Register(a, c) /\ UNCHANGED <<balance, book, told>>

OpenWith(c, r, q) == Register(q.account, c) /\ Enter(r, q.account, q) /\ UNCHANGED told

Post(r, k, q) == Enter(r, k, q) /\ holder[q.account] # None /\ UNCHANGED <<holder, told>>

Tell(r) ==
    /\ book[r] # None
    /\ told' = told \cup {[key |-> book[r].key, request |-> book[r].request, ref |-> r]}
    /\ UNCHANGED <<holder, balance, book>>

BookNext ==
    \/ \E a \in Accounts, c \in Customers : Open(a, c)
    \/ \E c \in Customers, r \in Refs, q \in Openings : OpenWith(c, r, q)
    \/ \E r \in Refs, k \in Keys, q \in Postings : Post(r, k, q)
    \/ \E r \in Refs : Tell(r)

BookSpec == BookInit /\ [][BookNext]_bookVars
==============================================================================
