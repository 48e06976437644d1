----------------------------- MODULE SettledFeed -----------------------------
(***************************************************************************)
(* The settled feed of the ledger and its reader in the reconciliation     *)
(* service: pages by offset, one query each, over rows that go on being    *)
(* committed, and the verdict on a partner's statement that comes of them. *)
(* A row is its place in the feed's order, settledAt then id; settledAt is *)
(* taken before the commit, so places fill out of order.                   *)
(***************************************************************************)
EXTENDS Integers, Sequences, FiniteSets, Reconciler

CONSTANTS MaxRows,   \* bound on the rows of the window
          PageSize,  \* limit
          MaxPages,  \* 1001
          Amount,    \* of a row
          Statements \* of the partner: sequences of [ref, amount]

ASSUME PagesAssumption == {MaxRows, PageSize, MaxPages} \subseteq Nat \ {0}
ASSUME AmountAssumption == Amount \in [1..MaxRows -> Nat]
ASSUME StatementsAssumption == Statements \subseteq Seq([ref : Nat, amount : Nat])

VARIABLES rows,      \* committed rows of the window
          page,      \* the next page to ask for
          pulled,    \* transactions
          pulling,   \* "idle", "paging", "done", "refused", "reported"
          report,    \* its items
          statement, \* the statement it is about
          atStart,   \* observer: the rows when the pull began
          disturbed  \* observer: a row was committed before another since then

verdict == <<report, statement>>
settledVars == <<rows, page, pulled, pulling, verdict, atStart, disturbed>>

SettledTypeOK ==
    /\ rows \in SUBSET (1..MaxRows) /\ atStart \in SUBSET (1..MaxRows)
    /\ page \in 0..MaxPages
    /\ pulled \in Seq(rows)
    /\ pulling \in {"idle", "paging", "done", "refused", "reported"}
    /\ statement \in Statements \cup {<< >>}
    /\ disturbed \in BOOLEAN

SettledInit ==
    /\ rows = {} /\ page = 0 /\ pulled = << >> /\ pulling = "idle"
    /\ report = {} /\ statement = << >> /\ atStart = {} /\ disturbed = FALSE

\* The k-th committed row of the window.
Row(k) == CHOOSE r \in rows : Cardinality({x \in rows : x <= r}) = k

\* The query: order by settledAt, id, with offset and limit.
settledBetween(p) ==
    LET left == Cardinality(rows) - p * PageSize
    IN  [i \in 1..(IF left < PageSize THEN left ELSE PageSize) |-> Row(p * PageSize + i)]

\* A posting commits; the window may be open, or the transaction slow.
commit(row) ==
    /\ row \notin rows /\ rows' = rows \cup {row}
    /\ disturbed' = (disturbed \/ (pulling = "paging" /\ \E r \in rows : row < r))
    /\ UNCHANGED <<page, pulled, pulling, verdict, atStart>>

fetch_settled ==
    /\ pulling = "idle"
    /\ pulling' = "paging" /\ page' = 0 /\ pulled' = << >>
    /\ atStart' = rows /\ disturbed' = FALSE
    /\ UNCHANGED <<rows, verdict>>

\* Mutant: when the pages run out, what has been read is returned.
next_page_truncates ==
    /\ pulling = "paging"
    /\ pulled' = pulled \o settledBetween(page)
    /\ pulling' = IF Len(settledBetween(page)) < PageSize \/ page + 1 = MaxPages
                  THEN "done" ELSE "paging"
    /\ page' = page + 1
    /\ UNCHANGED <<rows, verdict, atStart, disturbed>>

\* A short page ends the feed; when the pages run out it is refused.
next_page ==
    /\ pulling = "paging"
    /\ pulled' = pulled \o settledBetween(page)
    /\ pulling' = IF Len(settledBetween(page)) < PageSize THEN "done"
                  ELSE IF page + 1 = MaxPages THEN "refused" ELSE "paging"
    /\ page' = page + 1
    /\ UNCHANGED <<rows, verdict, atStart, disturbed>>

\* The core rejects the request, or is not reached.
page_fails ==
    /\ pulling = "paging" /\ pulling' = "refused"
    /\ UNCHANGED <<rows, page, pulled, verdict, atStart, disturbed>>

\* A row as the reader knows it.
Transaction(row) == [ref |-> row, amount |-> Amount[row]]

\* The report; the request's statement is not looked at before, but for its
\* format.
run_reconciliation(given) ==
    /\ pulling = "done" /\ pulling' = "reported"
    /\ statement' = given
    /\ report' = reconcile([i \in 1..Len(pulled) |-> Transaction(pulled[i])], given)
    /\ UNCHANGED <<rows, page, pulled, atStart, disturbed>>

\* The caller has its answer: nothing is kept.
answered ==
    /\ pulling \in {"reported", "refused"}
    /\ pulling' = "idle" /\ page' = 0 /\ pulled' = << >> /\ report' = {} /\ statement' = << >>
    /\ atStart' = {} /\ disturbed' = FALSE
    /\ UNCHANGED rows

SettledNext ==
    \/ \E row \in 1..MaxRows : commit(row)
    \/ \E given \in Statements : run_reconciliation(given)
    \/ fetch_settled \/ next_page \/ page_fails \/ answered

SettledSpec == SettledInit /\ [][SettledNext]_settledVars
-----------------------------------------------------------------------------
(* Properties *)

\* A feed that is returned holds every row that was there when the pull began,
\* and each row once and in order, unless a row was committed before others
\* while the pages were read.
FeedExact ==
    pulling = "done" =>
        /\ atStart \subseteq {pulled[i] : i \in 1..Len(pulled)}
        /\ disturbed \/ \A i \in 1..Len(pulled) - 1 : pulled[i] < pulled[i + 1]

\* "A truncated or collapsed feed could otherwise produce a false BALANCED
\* verdict": a balanced statement lists each of its references once, only
\* transactions that are in the ledger, with their amounts, and all that were
\* there when the pull began, even if late rows shifted the pages.
BalancedIsTrue ==
    pulling = "reported" /\ is_balanced(report) =>
        /\ \A i, j \in DOMAIN statement : statement[i].ref = statement[j].ref => i = j
        /\ \A i \in DOMAIN statement : \E row \in rows : statement[i] = Transaction(row)
        /\ \A row \in atStart : \E i \in DOMAIN statement : statement[i] = Transaction(row)
==============================================================================
