-------------------------- MODULE ReconcilerProofs --------------------------
(* What the reconciler's report says of its two inputs, and what the feed    *)
(* brings to it, for every ledger, page size, limit and statement.           *)
EXTENDS SettledFeed, FiniteSetTheorems, TLAPS

Records == [ref : Nat, amount : Nat]

(***************************************************************************)
(* The matching.                                                           *)
(***************************************************************************)

\* A reference has one first record.
LEMMA KeyUnique ==
    ASSUME NEW records \in Seq(Records),
           NEW i \in by_key(records), NEW j \in by_key(records),
           records[i].ref = records[j].ref
    PROVE  i = j
<1>1. i \in 1..Len(records) /\ j \in 1..Len(records)
    BY DEF by_key
<1>2. ~(i < j) /\ ~(j < i)
    BY <1>1 DEF by_key
<1> QED
    BY <1>1, <1>2

LEMMA PartnerOf ==
    ASSUME NEW partner \in Seq(Records), NEW ref
    PROVE  LET j == partner_of(partner, ref)
           IN  \/ j \in by_key(partner) /\ partner[j].ref = ref
               \/ j = 0 /\ \A k \in by_key(partner) : partner[k].ref # ref
BY DEF partner_of

LEMMA KeysAreIndices ==
    ASSUME NEW records \in Seq(Records)
    PROVE  /\ by_key(records) \subseteq DOMAIN records
           /\ DOMAIN records = 1..Len(records) /\ 0 \notin DOMAIN records
BY DEF by_key

\* The place of the partner's record that a core record is compared with is the
\* only one that fits.
LEMMA PartnerOfKey ==
    ASSUME NEW partner \in Seq(Records), NEW j \in by_key(partner)
    PROVE  partner_of(partner, partner[j].ref) = j
<1>1. j \in DOMAIN partner /\ j # 0
    BY KeysAreIndices
<1>2. PICK k : k = partner_of(partner, partner[j].ref)
    OBVIOUS
<1>3. k \in by_key(partner) /\ partner[k].ref = partner[j].ref
    BY <1>2 DEF partner_of
<1> QED
    BY <1>2, <1>3, KeyUnique

\* Every core transaction is in one item of the report.
LEMMA CoreAccounted ==
    ASSUME NEW core \in Seq(Records), NEW partner \in Seq(Records), NEW i \in DOMAIN core
    PROVE  \E x \in reconcile(core, partner) :
             x.core = i /\ \A y \in reconcile(core, partner) : y.core = i => y = x
<1> DEFINE x == IF i \in by_key(core) THEN compare(core, partner, i) ELSE Item("DUPLICATE_IN_CORE", i, 0)
<1>1. i # 0
    BY KeysAreIndices
<1>2. x.core = i
    BY DEF compare, Item
<1>3. x \in reconcile(core, partner)
    BY DEF reconcile, duplicates
<1>4. ASSUME NEW y \in reconcile(core, partner), y.core = i PROVE y = x
  <2>1. ASSUME NEW k \in duplicates(core), y = Item("DUPLICATE_IN_CORE", k, 0) PROVE y = x
        BY <1>4, <2>1 DEF Item, duplicates
  <2>2. ASSUME NEW k \in by_key(core), y = compare(core, partner, k) PROVE y = x
    <3>1. k = i
          BY <1>4, <2>2 DEF compare, Item
    <3> QED
          BY <2>2, <3>1
  <2>3. ASSUME NEW j, \/ y = Item("DUPLICATE_ON_PARTNER", 0, j)
                      \/ y = Item("MISSING_IN_CORE", 0, j) PROVE FALSE
        BY <1>1, <1>4, <2>3 DEF Item
  <2> QED
        BY <1>4, <2>1, <2>2, <2>3 DEF reconcile
<1> HIDE DEF x
<1> QED
    BY <1>2, <1>3, <1>4

\* Every record of the partner is in one item of the report.
LEMMA PartnerAccounted ==
    ASSUME NEW core \in Seq(Records), NEW partner \in Seq(Records), NEW j \in DOMAIN partner
    PROVE  \E x \in reconcile(core, partner) :
             x.partner = j /\ \A y \in reconcile(core, partner) : y.partner = j => y = x
<1>1. j # 0
    BY KeysAreIndices
<1>2. \A y \in reconcile(core, partner) : y.partner = j =>
        \/ j \in duplicates(partner) /\ y = Item("DUPLICATE_ON_PARTNER", 0, j)
        \/ j \in only_partner(core, partner) /\ y = Item("MISSING_IN_CORE", 0, j)
        \/ \E i \in by_key(core) : /\ y = compare(core, partner, i)
                                   /\ partner_of(partner, core[i].ref) = j
    BY <1>1 DEF reconcile, compare, Item
<1>3. CASE j \in duplicates(partner)
  <2>1. j \notin by_key(partner)
        BY <1>3 DEF duplicates
  <2>2. j \notin only_partner(core, partner)
        BY <2>1 DEF only_partner
  <2>3. \A i : partner_of(partner, core[i].ref) # j
        BY <1>1, <2>1, PartnerOf
  <2>4. Item("DUPLICATE_ON_PARTNER", 0, j) \in reconcile(core, partner)
        BY <1>3 DEF reconcile
  <2>5. Item("DUPLICATE_ON_PARTNER", 0, j).partner = j
        BY DEF Item
  <2> QED
        BY <1>2, <2>2, <2>3, <2>4, <2>5
<1>4. CASE j \in only_partner(core, partner)
  <2>1. j \notin duplicates(partner)
        BY <1>4 DEF only_partner, duplicates
  <2>2. \A i \in by_key(core) : partner_of(partner, core[i].ref) # j
        BY <1>1, <1>4, PartnerOf DEF only_partner
  <2>3. Item("MISSING_IN_CORE", 0, j) \in reconcile(core, partner)
        BY <1>4 DEF reconcile
  <2>4. Item("MISSING_IN_CORE", 0, j).partner = j
        BY DEF Item
  <2> QED
        BY <1>2, <2>1, <2>2, <2>3, <2>4
<1>5. CASE j \in by_key(partner) /\ j \notin only_partner(core, partner)
  <2>1. PICK i \in by_key(core) : core[i].ref = partner[j].ref
        BY <1>5 DEF only_partner
  <2>2. compare(core, partner, i).partner = j
        BY <1>5, <2>1, PartnerOfKey DEF compare, Item
  <2>3. compare(core, partner, i) \in reconcile(core, partner)
        BY DEF reconcile
  <2>4. ASSUME NEW k \in by_key(core), partner_of(partner, core[k].ref) = j PROVE k = i
    <3>1. core[k].ref = partner[j].ref
          BY <1>1, <2>4, PartnerOf
    <3> QED
          BY <2>1, <3>1, KeyUnique
  <2>5. j \notin duplicates(partner)
        BY <1>5 DEF duplicates
  <2>6. \A y \in reconcile(core, partner) : y.partner = j => y = compare(core, partner, i)
        BY <1>2, <1>5, <2>4, <2>5
  <2> QED
        BY <2>2, <2>3, <2>6
<1> QED
    BY <1>3, <1>4, <1>5 DEF duplicates

\* "A reference that exists on only one side is reported as missing rather than
\* dropped": each record of either side is in exactly one item of the report.
THEOREM ReportAccounts ==
    ASSUME NEW core \in Seq(Records), NEW partner \in Seq(Records)
    PROVE  /\ \A i \in DOMAIN core : \E x \in reconcile(core, partner) :
                x.core = i /\ \A y \in reconcile(core, partner) : y.core = i => y = x
           /\ \A j \in DOMAIN partner : \E x \in reconcile(core, partner) :
                x.partner = j /\ \A y \in reconcile(core, partner) : y.partner = j => y = x
BY CoreAccounted, PartnerAccounted

\* A balanced report is about two equal sides, each without repetitions.
THEOREM BalancedSidesEqual ==
    ASSUME NEW core \in Seq(Records), NEW partner \in Seq(Records),
           is_balanced(reconcile(core, partner))
    PROVE  /\ \A i, j \in DOMAIN partner : partner[i].ref = partner[j].ref => i = j
           /\ \A i, j \in DOMAIN core : core[i].ref = core[j].ref => i = j
           /\ \A i \in DOMAIN core : \E j \in DOMAIN partner : partner[j] = core[i]
           /\ \A j \in DOMAIN partner : \E i \in DOMAIN core : core[i] = partner[j]
<1>1. duplicates(core) = {} /\ duplicates(partner) = {} /\ only_partner(core, partner) = {}
  <2>1. ASSUME NEW i \in duplicates(core) PROVE FALSE
        BY Item("DUPLICATE_IN_CORE", i, 0) \in reconcile(core, partner) DEF reconcile, is_balanced, Item
  <2>2. ASSUME NEW j \in duplicates(partner) PROVE FALSE
        BY Item("DUPLICATE_ON_PARTNER", 0, j) \in reconcile(core, partner) DEF reconcile, is_balanced, Item
  <2>3. ASSUME NEW j \in only_partner(core, partner) PROVE FALSE
        BY Item("MISSING_IN_CORE", 0, j) \in reconcile(core, partner) DEF reconcile, is_balanced, Item
  <2> QED
        BY <2>1, <2>2, <2>3
<1>2. by_key(core) = DOMAIN core /\ by_key(partner) = DOMAIN partner
    BY <1>1, KeysAreIndices DEF duplicates
<1>3. ASSUME NEW i \in DOMAIN core
      PROVE  LET j == partner_of(partner, core[i].ref) IN j \in DOMAIN partner /\ partner[j] = core[i]
  <2> DEFINE j == partner_of(partner, core[i].ref)
  <2>1. compare(core, partner, i) \in reconcile(core, partner)
        BY <1>2 DEF reconcile
  <2>2. compare(core, partner, i).status = "MATCHED"
        BY <2>1 DEF is_balanced
  <2>3. j # 0 /\ partner[j].amount = core[i].amount
        BY <2>2 DEF compare, Item
  <2>4. j \in DOMAIN partner /\ partner[j].ref = core[i].ref
        BY <1>2, <2>3, PartnerOf
  <2>5. partner[j] \in Records /\ core[i] \in Records
        BY <2>4
  <2>6. \A a, b \in Records : a.ref = b.ref /\ a.amount = b.amount => a = b
        BY DEF Records
  <2> HIDE DEF j
  <2>7. partner[j] = core[i]
        BY <2>3, <2>4, <2>5, <2>6
  <2> QED
        BY <2>4, <2>7 DEF j
<1>4. ASSUME NEW j \in DOMAIN partner PROVE \E i \in DOMAIN core : core[i] = partner[j]
  <2>1. PICK i \in DOMAIN core : core[i].ref = partner[j].ref
        BY <1>1, <1>2 DEF only_partner
  <2>2. partner_of(partner, core[i].ref) = j
        BY <1>2, <2>1, PartnerOfKey
  <2> QED
        BY <1>3, <2>1, <2>2
<1> QED
    BY <1>2, <1>3, <1>4, KeyUnique

(***************************************************************************)
(* The feed.                                                               *)
(***************************************************************************)

\* A row's place among the committed ones; Row is its inverse.
Rank(row) == Cardinality({x \in rows : x <= row})

LEMMA UpToFinite ==
    ASSUME rows \subseteq 1..MaxRows, NEW row
    PROVE  /\ IsFiniteSet(rows) /\ Cardinality(rows) \in Nat
           /\ IsFiniteSet({x \in rows : x <= row}) /\ Rank(row) \in Nat
           /\ Rank(row) <= Cardinality(rows)
<1>1. IsFiniteSet(1..MaxRows)
    BY FS_Interval, PagesAssumption
<1>2. IsFiniteSet(rows)
    BY <1>1, FS_Subset
<1>3. {x \in rows : x <= row} \in SUBSET rows
    OBVIOUS
<1> QED
    BY <1>2, <1>3, FS_Subset, FS_CardinalityType DEF Rank

LEMMA RankRange ==
    ASSUME rows \subseteq 1..MaxRows, NEW r \in rows
    PROVE  Rank(r) \in 1..Cardinality(rows)
<1>1. r \in {x \in rows : x <= r}
    OBVIOUS
<1>2. Rank(r) # 0
    BY <1>1, UpToFinite, FS_EmptySet DEF Rank
<1>3. Rank(r) \in Nat /\ Cardinality(rows) \in Nat /\ Rank(r) <= Cardinality(rows)
    BY UpToFinite
<1> QED
    BY <1>2, <1>3

\* A later row has a higher rank.
LEMMA RankMonotone ==
    ASSUME rows \subseteq 1..MaxRows, NEW a \in rows, NEW b \in rows, a < b
    PROVE  Rank(a) < Rank(b)
<1> DEFINE A == {x \in rows : x <= a}
           B == {x \in rows : x <= b}
<1>1. \A x \in rows : x \in Int
    OBVIOUS
<1>2. A \in SUBSET B /\ b \in B /\ b \notin A
  <2>1. a \in Int /\ b \in Int
        BY <1>1
  <2>2. \A x \in rows : x <= a => x <= b
        BY <1>1, <2>1
  <2>3. b <= b /\ ~(b <= a)
        BY <2>1
  <2> QED
        BY <2>2, <2>3
<1>3. IsFiniteSet(B) /\ IsFiniteSet(A) /\ Cardinality(A) \in Nat /\ Cardinality(B) \in Nat
    BY UpToFinite, FS_CardinalityType
<1> HIDE DEF A, B
<1>4. Cardinality(A) <= Cardinality(B) /\ Cardinality(A) # Cardinality(B)
    BY <1>2, <1>3, FS_Subset
<1> QED
    BY <1>3, <1>4 DEF Rank, A, B

LEMMA RankInjective ==
    ASSUME rows \subseteq 1..MaxRows, NEW a \in rows, NEW b \in rows, Rank(a) = Rank(b)
    PROVE  a = b
<1>0. a \in Int /\ b \in Int
    OBVIOUS
<1>1. Rank(a) \in Nat
    BY UpToFinite
<1>2. ~(a < b) /\ ~(b < a)
    BY <1>1, RankMonotone
<1> QED
    BY <1>0, <1>2

\* Every place up to the number of rows is taken.
LEMMA RowAt ==
    ASSUME rows \subseteq 1..MaxRows, NEW k \in 1..Cardinality(rows)
    PROVE  Row(k) \in rows /\ Rank(Row(k)) = k
<1> DEFINE f == [r \in rows |-> Rank(r)]
           n == Cardinality(rows)
<1>1. IsFiniteSet(rows) /\ n \in Nat
    BY UpToFinite
<1>2. \A r \in rows : Rank(r) \in 1..n
    BY RankRange
<1>3. f \in Injection(rows, 1..n)
    BY <1>2, RankInjective DEF Injection, IsInjective
<1>4. IsFiniteSet(1..n) /\ Cardinality(1..n) = n
    BY <1>1, FS_Interval
<1>5. f \in Surjection(rows, 1..n)
    BY <1>3, <1>4, FS_Injection
<1>6. \E r \in rows : Rank(r) = k
    BY <1>5 DEF Surjection
<1>7. \E r \in rows : Cardinality({x \in rows : x <= r}) = k
    BY <1>6 DEF Rank
<1> QED
    BY <1>7 DEF Row, Rank

LEMMA RowOfRank ==
    ASSUME rows \subseteq 1..MaxRows, NEW r \in rows
    PROVE  Rank(r) \in 1..Cardinality(rows) /\ Row(Rank(r)) = r
BY RankRange, RowAt, RankInjective

\* Functions on an interval from 1 are sequences, also where it is empty.
LEMMA IntervalSeq ==
    ASSUME NEW S, NEW len \in Int, NEW g \in [1..len -> S]
    PROVE  g \in Seq(S) /\ DOMAIN g = 1..len /\ Len(g) = IF len < 0 THEN 0 ELSE len
<1>1. ASSUME NEW k \in Nat, g \in [1..k -> S] PROVE g \in Seq(S) /\ Len(g) = k
    BY <1>1
<1>2. CASE len \in Nat
    BY <1>1, <1>2
<1>3. CASE len < 0
  <2>1. 1..len = 1..0
        BY <1>3
  <2>2. g \in [1..0 -> S]
        BY <2>1
  <2> QED
        BY <1>1, <1>3, <2>2
<1> QED
    BY <1>2, <1>3

\* A page holds the rows of its ranks, and a short one is the last.
LEMMA PageRows ==
    ASSUME rows \subseteq 1..MaxRows, NEW p \in Nat
    PROVE  /\ settledBetween(p) \in Seq(rows)
           /\ \A r \in rows : p * PageSize < Rank(r) /\ Rank(r) <= p * PageSize + PageSize =>
                \E i \in DOMAIN settledBetween(p) : settledBetween(p)[i] = r
           /\ \A i \in DOMAIN settledBetween(p) : Rank(settledBetween(p)[i]) = p * PageSize + i
           /\ Len(settledBetween(p)) <= PageSize
           /\ Len(settledBetween(p)) < PageSize => Cardinality(rows) <= p * PageSize + PageSize
<1> DEFINE n == Cardinality(rows)
           before == p * PageSize
           len == IF n - before < PageSize THEN n - before ELSE PageSize
<1>1. n \in Nat /\ before \in Nat /\ PageSize \in Nat /\ len \in Int /\ len <= PageSize
  <2>1. n \in Nat
        BY UpToFinite
  <2>2. PageSize \in Nat
        BY PagesAssumption
  <2>3. before \in Nat
        BY <2>2
  <2> HIDE DEF n, before
  <2> QED
        BY <2>1, <2>2, <2>3
<1>2. settledBetween(p) = [i \in 1..len |-> Row(before + i)]
    BY DEF settledBetween
<1> HIDE DEF n, before
<1>3. \A i \in 1..len : before + i \in 1..n
    BY <1>1
<1>4. \A i \in 1..len : Row(before + i) \in rows /\ Rank(Row(before + i)) = before + i
    BY <1>3, RowAt DEF n
<1> DEFINE s == [i \in 1..len |-> Row(before + i)]
<1>5. s \in Seq(rows) /\ DOMAIN s = 1..len /\ Len(s) = IF len < 0 THEN 0 ELSE len
  <2>1. s \in [1..len -> rows]
        BY <1>4
  <2> HIDE DEF len, s
  <2> QED
        BY <1>1, <2>1, IntervalSeq
<1>6. ASSUME NEW r \in rows, before < Rank(r), Rank(r) <= before + PageSize
      PROVE  \E i \in 1..len : s[i] = r
  <2>1. Rank(r) \in 1..n /\ Row(Rank(r)) = r
        BY RowOfRank DEF n
  <2>2. Rank(r) - before \in 1..len /\ before + (Rank(r) - before) = Rank(r)
        BY <1>1, <1>6, <2>1
  <2> QED
        BY <2>1, <2>2
<1>7. Len(s) <= PageSize /\ (Len(s) < PageSize => n <= before + PageSize)
  <2> HIDE DEF s
  <2>1. PageSize > 0
        BY PagesAssumption
  <2>2. CASE n - before < PageSize
        BY <1>1, <1>5, <2>1, <2>2
  <2>3. CASE ~(n - before < PageSize)
        BY <1>1, <1>5, <2>1, <2>3
  <2> QED
        BY <2>2, <2>3
<1>8. \A i \in DOMAIN s : Rank(s[i]) = before + i
    BY <1>4, <1>5
<1> QED
    BY <1>2, <1>5, <1>6, <1>7, <1>8 DEF n, before

Held(row) == \E i \in DOMAIN pulled : pulled[i] = row
Feed == [i \in 1..Len(pulled) |-> Transaction(pulled[i])]

\* What has been read is what was in the ledger, and the pages so far hold every
\* row of the start whose place is on them; later commits only raise places.
FeedInv ==
    /\ rows \subseteq 1..MaxRows /\ atStart \subseteq rows
    /\ page \in Nat /\ pulled \in Seq(rows)
    /\ pulling = "paging" => \A r \in atStart : Rank(r) <= page * PageSize => Held(r)
    /\ pulling \in {"done", "reported"} => \A r \in atStart : Held(r)
    /\ pulling = "reported" => statement \in Statements /\ report = reconcile(Feed, statement)

LEMMA FeedInvInit == SettledInit => FeedInv
BY DEF SettledInit, FeedInv

LEMMA CommitKeepsInv ==
    ASSUME FeedInv, NEW row \in 1..MaxRows, commit(row)
    PROVE  FeedInv'
<1>1. /\ rows \subseteq rows' /\ rows' \subseteq 1..MaxRows
      /\ UNCHANGED <<page, pulled, pulling, verdict, atStart>>
    BY DEF commit, FeedInv
<1>2. ASSUME NEW r \in atStart PROVE Rank(r) \in Nat /\ Rank(r)' \in Nat /\ Rank(r) <= Rank(r)'
  <2> DEFINE A == {x \in rows : x <= r}
             B == {x \in rows' : x <= r}
  <2>1. IsFiniteSet(1..MaxRows)
        BY FS_Interval, PagesAssumption
  <2>2. IsFiniteSet(B) /\ A \in SUBSET B
        BY <1>1, <2>1, FS_Subset
  <2> HIDE DEF A, B
  <2>3. IsFiniteSet(A) /\ Cardinality(A) <= Cardinality(B)
        BY <2>2, FS_Subset
  <2>4. Cardinality(A) \in Nat /\ Cardinality(B) \in Nat
        BY <2>2, <2>3, FS_CardinalityType
  <2> QED
        BY <2>3, <2>4 DEF Rank, A, B
<1>3. PICK limit \in Nat : limit = page * PageSize /\ limit = (page * PageSize)'
    BY <1>1, PagesAssumption DEF FeedInv
<1>4. \A r \in atStart : Rank(r)' <= limit => Rank(r) <= limit
    BY <1>2, <1>3
<1>5. \A r : Held(r)' <=> Held(r)
    BY <1>1 DEF Held
<1>6. Feed' = Feed
    BY <1>1 DEF Feed, Transaction
<1>7. (pulling = "paging" => \A r \in atStart : Rank(r) <= page * PageSize => Held(r))'
    BY <1>1, <1>3, <1>4, <1>5 DEF FeedInv
<1>8. pulled' \in Seq(rows')
  <2>1. pulled \in Seq(rows)
        BY DEF FeedInv
  <2>2. Len(pulled) \in Int /\ pulled \in [1..Len(pulled) -> rows]
        BY <2>1
  <2>3. pulled \in [1..Len(pulled) -> rows']
        BY <1>1, <2>2
  <2> QED
        BY <1>1, <2>2, <2>3, IntervalSeq
<1> QED
    BY <1>1, <1>5, <1>6, <1>7, <1>8 DEF FeedInv, verdict

LEMMA FetchKeepsInv ==
    ASSUME FeedInv, fetch_settled
    PROVE  FeedInv'
<1>1. /\ rows' = rows /\ page' = 0 /\ pulled' = << >> /\ pulling' = "paging" /\ atStart' = rows
    BY DEF fetch_settled
<1>2. \A r \in rows : Rank(r)' \in 1..Cardinality(rows)
    BY <1>1, RankRange DEF FeedInv, Rank
<1>3. (page * PageSize)' = 0
    BY <1>1, PagesAssumption
<1>4. \A r \in rows : ~(Rank(r)' <= (page * PageSize)')
    BY <1>2, <1>3
<1> QED
    BY <1>1, <1>4 DEF FeedInv

LEMMA PageKeepsInv ==
    ASSUME FeedInv, next_page
    PROVE  FeedInv'
<1> DEFINE s == settledBetween(page)
<1>1. /\ rows' = rows /\ atStart' = atStart /\ pulling = "paging"
      /\ page' = page + 1 /\ pulled' = pulled \o s
      /\ pulling' \in {"done", "refused", "paging"}
      /\ pulling' = "done" => Len(s) < PageSize
    BY DEF next_page
<1>2. /\ s \in Seq(rows)
      /\ \A r \in rows : page * PageSize < Rank(r) /\ Rank(r) <= page * PageSize + PageSize =>
           \E i \in DOMAIN s : s[i] = r
      /\ Len(s) < PageSize => Cardinality(rows) <= page * PageSize + PageSize
    BY PageRows DEF FeedInv
<1> HIDE DEF s
<1>3. pulled' \in Seq(rows)
    BY <1>1, <1>2 DEF FeedInv
<1>4. ASSUME NEW r, Held(r) \/ \E i \in DOMAIN s : s[i] = r PROVE Held(r)'
  <2>1. CASE Held(r)
    <3>1. PICK i \in DOMAIN pulled : pulled[i] = r
          BY <2>1 DEF Held
    <3>2. i \in DOMAIN pulled' /\ pulled'[i] = r
          BY <1>1, <1>2, <3>1 DEF FeedInv
    <3> QED
          BY <3>2 DEF Held
  <2>2. CASE \E i \in DOMAIN s : s[i] = r
    <3>1. PICK i \in DOMAIN s : s[i] = r
          BY <2>2
    <3>2. Len(pulled) + i \in DOMAIN pulled' /\ pulled'[Len(pulled) + i] = r
          BY <1>1, <1>2, <3>1 DEF FeedInv
    <3> QED
          BY <3>2 DEF Held
  <2> QED
        BY <1>4, <2>1, <2>2
<1>5. PICK limit \in Nat : limit = page * PageSize
    BY PagesAssumption DEF FeedInv
<1>6. (page * PageSize)' = limit + PageSize
    BY <1>1, <1>5, PagesAssumption DEF FeedInv
<1>7. ASSUME NEW r \in atStart PROVE /\ Rank(r)' = Rank(r) /\ Rank(r) \in Nat
                                     /\ Rank(r) <= Cardinality(rows) /\ Cardinality(rows) \in Nat
    BY <1>1, UpToFinite DEF Rank, FeedInv
<1>8. ASSUME NEW r \in atStart, Rank(r) <= limit + PageSize PROVE Held(r)'
  <2>1. CASE Rank(r) <= limit
        BY <1>1, <1>4, <1>5, <2>1 DEF FeedInv
  <2>2. CASE limit < Rank(r)
        BY <1>2, <1>4, <1>5, <1>8, <2>2 DEF FeedInv
  <2> QED
        BY <1>5, <1>7, <2>1, <2>2
<1>9. pulling' = "done" => \A r \in atStart : Rank(r) <= limit + PageSize
    BY <1>1, <1>2, <1>5, <1>7, PagesAssumption
<1> QED
    BY <1>1, <1>3, <1>6, <1>7, <1>8, <1>9 DEF FeedInv

LEMMA OtherKeepsInv ==
    ASSUME FeedInv,
           page_fails \/ answered \/ (\E given \in Statements : run_reconciliation(given))
             \/ UNCHANGED settledVars
    PROVE  FeedInv'
<1>1. CASE page_fails
    BY <1>1 DEF page_fails, FeedInv
<1>2. CASE answered
    BY <1>2 DEF answered, FeedInv
<1>3. ASSUME NEW given \in Statements, run_reconciliation(given) PROVE FeedInv'
    BY <1>3 DEF run_reconciliation, FeedInv, Held, Feed, Transaction
<1>4. CASE UNCHANGED settledVars
    BY <1>4 DEF settledVars, verdict, FeedInv, Held, Feed, Transaction, Rank
<1> QED
    BY <1>1, <1>2, <1>3, <1>4

LEMMA FeedInvStep == FeedInv /\ [SettledNext]_settledVars => FeedInv'
BY CommitKeepsInv, FetchKeepsInv, PageKeepsInv, OtherKeepsInv DEF SettledNext

\* A balanced verdict is true of the ledger, although its rows were read page by
\* page while others were committed, before and between those already read.
THEOREM BalancedVerdictTrue == SettledSpec => []BalancedIsTrue
<1>1. FeedInv => BalancedIsTrue
  <2> SUFFICES ASSUME FeedInv, pulling = "reported", is_balanced(report) PROVE
        /\ \A i, j \in DOMAIN statement : statement[i].ref = statement[j].ref => i = j
        /\ \A i \in DOMAIN statement : \E row \in rows : statement[i] = Transaction(row)
        /\ \A row \in atStart : \E i \in DOMAIN statement : statement[i] = Transaction(row)
      BY DEF BalancedIsTrue
  <2>1. statement \in Seq(Records)
        BY StatementsAssumption DEF FeedInv, Records
  <2>2. \A row \in rows : Transaction(row) \in Records
        BY AmountAssumption DEF FeedInv, Transaction, Records
  <2>3. /\ Feed \in Seq(Records) /\ DOMAIN Feed = DOMAIN pulled
        /\ \A i \in DOMAIN pulled : pulled[i] \in rows /\ Feed[i] = Transaction(pulled[i])
    <3>1. pulled \in Seq(rows)
          BY DEF FeedInv
    <3>2. /\ Len(pulled) \in Nat /\ DOMAIN pulled = 1..Len(pulled)
          /\ \A i \in 1..Len(pulled) : pulled[i] \in rows
          BY <3>1
    <3>3. Feed \in [1..Len(pulled) -> Records]
          BY <2>2, <3>2 DEF Feed
    <3>4. Feed \in Seq(Records) /\ DOMAIN Feed = 1..Len(pulled)
          BY <3>2, <3>3, IntervalSeq
    <3> QED
          BY <3>2, <3>4 DEF Feed
  <2>4. /\ \A i, j \in DOMAIN statement : statement[i].ref = statement[j].ref => i = j
        /\ \A i \in DOMAIN Feed : \E j \in DOMAIN statement : statement[j] = Feed[i]
        /\ \A j \in DOMAIN statement : \E i \in DOMAIN Feed : Feed[i] = statement[j]
        BY <2>1, <2>3, BalancedSidesEqual DEF FeedInv
  <2>5. \A row \in atStart : \E i \in DOMAIN pulled : pulled[i] = row
        BY DEF FeedInv, Held
  <2> QED
        BY <2>3, <2>4, <2>5
<1> QED
    BY <1>1, FeedInvInit, FeedInvStep, PTL DEF SettledSpec
-----------------------------------------------------------------------------
(* The order of the feed. *)

\* The feed so far is the first rows of the ledger, each at its own place.
InPlace == \A i \in 1..Len(pulled) : Rank(pulled[i]) = i
Ascending == \A i \in 1..Len(pulled) - 1 : pulled[i] < pulled[i + 1]

OrderInv ==
    /\ FeedInv
    /\ pulling = "paging" /\ ~disturbed => Len(pulled) = page * PageSize /\ InPlace
    /\ pulling = "done" /\ ~disturbed => Ascending

\* Rows at consecutive places are in order.
LEMMA PlacesAscend == FeedInv /\ InPlace => Ascending
<1> SUFFICES ASSUME FeedInv, InPlace, NEW i \in 1..Len(pulled) - 1 PROVE pulled[i] < pulled[i + 1]
    BY DEF Ascending
<1>1. /\ rows \subseteq 1..MaxRows /\ pulled \in Seq(rows)
      /\ i \in 1..Len(pulled) /\ i + 1 \in 1..Len(pulled)
    BY DEF FeedInv
<1>2. pulled[i] \in rows /\ pulled[i + 1] \in rows
    BY <1>1
<1>3. Rank(pulled[i]) = i /\ Rank(pulled[i + 1]) = i + 1
    BY <1>1 DEF InPlace
<1>4. pulled[i] # pulled[i + 1] /\ ~(pulled[i + 1] < pulled[i])
  <2>1. pulled[i] # pulled[i + 1]
        BY <1>1, <1>3
  <2>2. ASSUME pulled[i + 1] < pulled[i] PROVE FALSE
    <3>1. Rank(pulled[i + 1]) < Rank(pulled[i])
          BY <1>1, <1>2, <2>2, RankMonotone
    <3> QED
          BY <1>1, <1>3, <3>1
  <2> QED
        BY <2>1, <2>2
<1>5. pulled[i] \in Int /\ pulled[i + 1] \in Int
  <2>1. \A r \in rows : r \in Int
        BY <1>1
  <2> QED
        BY <1>2, <2>1
<1> QED
    BY <1>4, <1>5

\* A row that is committed after all others takes no other's place.
LEMMA CommitKeepsOrder ==
    ASSUME OrderInv, NEW row \in 1..MaxRows, commit(row)
    PROVE  OrderInv'
<1>1. FeedInv'
    BY CommitKeepsInv DEF OrderInv
<1>2. /\ rows' = rows \cup {row} /\ UNCHANGED <<page, pulled, pulling>>
      /\ disturbed' = (disturbed \/ (pulling = "paging" /\ \E r \in rows : row < r))
      /\ rows \subseteq 1..MaxRows /\ pulled \in Seq(rows) /\ row \notin rows
    BY DEF commit, OrderInv, FeedInv
<1>3. ASSUME pulling = "paging", ~disturbed', NEW r \in rows PROVE Rank(r)' = Rank(r)
  <2>0. \A x \in rows : x \in Int
        BY <1>2
  <2>1. r \in Int /\ row \in Int /\ ~(row < r) /\ row # r
    <3>1. r \in Int /\ row \in Int
          BY <2>0
    <3>2. ~(row < r)
          BY <1>2, <1>3
    <3>3. row # r
          BY <1>2
    <3> QED
          BY <3>1, <3>2, <3>3
  <2>2. ~(row <= r)
        BY <2>1
  <2>3. {x \in rows' : x <= r} = {x \in rows : x <= r}
        BY <1>2, <2>2
  <2> QED
        BY <2>3 DEF Rank
<1>4. ASSUME pulling = "paging", ~disturbed' PROVE (Len(pulled) = page * PageSize /\ InPlace)'
  <2>1. Len(pulled) = page * PageSize /\ InPlace
        BY <1>2, <1>4 DEF OrderInv
  <2>2. \A i \in 1..Len(pulled) : pulled[i] \in rows
        BY <1>2
  <2>3. \A i \in 1..Len(pulled) : Rank(pulled[i])' = i
        BY <1>2, <1>3, <1>4, <2>1, <2>2 DEF InPlace
  <2> QED
        BY <1>2, <2>1, <2>3 DEF InPlace
<1> QED
    BY <1>1, <1>2, <1>4 DEF OrderInv, Ascending

LEMMA FetchKeepsOrder ==
    ASSUME OrderInv, fetch_settled
    PROVE  OrderInv'
<1>1. FeedInv'
    BY FetchKeepsInv DEF OrderInv
<1>2. pulled' = << >> /\ page' = 0 /\ pulling' = "paging"
    BY DEF fetch_settled
<1>3. Len(pulled') = 0 /\ page' * PageSize = 0
    BY <1>2, PagesAssumption
<1>4. InPlace'
    BY <1>3 DEF InPlace
<1> QED
    BY <1>1, <1>2, <1>3, <1>4 DEF OrderInv

LEMMA PageKeepsOrder ==
    ASSUME OrderInv, next_page
    PROVE  OrderInv'
<1> DEFINE s == settledBetween(page)
<1>1. FeedInv /\ FeedInv'
    BY PageKeepsInv DEF OrderInv
<1>2. /\ rows' = rows /\ disturbed' = disturbed /\ pulling = "paging"
      /\ page' = page + 1 /\ pulled' = pulled \o s
      /\ pulling' \in {"done", "refused", "paging"}
      /\ pulling' = "paging" => ~(Len(s) < PageSize)
    BY DEF next_page
<1>3. /\ s \in Seq(rows) /\ Len(s) <= PageSize
      /\ \A i \in DOMAIN s : Rank(s[i]) = page * PageSize + i
    BY <1>1, PageRows DEF FeedInv
<1>4. page \in Nat /\ PageSize \in Nat /\ pulled \in Seq(rows)
    BY <1>1, PagesAssumption DEF FeedInv
<1> HIDE DEF s
<1>5. ASSUME ~disturbed PROVE InPlace' /\ (Len(s) = PageSize => Len(pulled') = page' * PageSize)
  <2>1. Len(pulled) = page * PageSize /\ InPlace
        BY <1>2, <1>5 DEF OrderInv
  <2>2. Len(pulled) \in Nat /\ Len(s) \in Nat /\ Len(pulled') = Len(pulled) + Len(s)
        BY <1>2, <1>3, <1>4
  <2>3. page' * PageSize = page * PageSize + PageSize
        BY <1>2, <1>4
  <2>4. ASSUME NEW i \in 1..Len(pulled') PROVE Rank(pulled[i])' = i
    <3>1. CASE i \in 1..Len(pulled)
      <4>1. pulled'[i] = pulled[i] /\ Rank(pulled[i]) = i
            BY <1>2, <1>3, <1>4, <2>1, <3>1 DEF InPlace
      <4> QED
            BY <1>2, <4>1 DEF Rank
    <3>2. CASE i \notin 1..Len(pulled)
      <4>1. i - Len(pulled) \in DOMAIN s /\ pulled'[i] = s[i - Len(pulled)]
            BY <1>2, <1>3, <1>4, <2>2, <3>2
      <4>2. Rank(s[i - Len(pulled)]) = Len(pulled) + (i - Len(pulled))
            BY <1>3, <2>1, <4>1
      <4>3. Len(pulled) + (i - Len(pulled)) = i
            BY <2>2
      <4> QED
            BY <1>2, <4>1, <4>2, <4>3 DEF Rank
    <3> QED
        BY <3>1, <3>2
  <2> QED
      BY <2>1, <2>2, <2>3, <2>4 DEF InPlace
<1>6. Len(s) \in Nat /\ (pulling' = "paging" => Len(s) = PageSize)
    BY <1>2, <1>3, <1>4
<1>7. (FeedInv /\ InPlace => Ascending)'
    BY PlacesAscend, PTL
<1> QED
    BY <1>1, <1>2, <1>5, <1>6, <1>7 DEF OrderInv

LEMMA OrderInvStep == OrderInv /\ [SettledNext]_settledVars => OrderInv'
<1> SUFFICES ASSUME OrderInv, [SettledNext]_settledVars PROVE OrderInv'
    OBVIOUS
<1>1. FeedInv /\ FeedInv'
    BY FeedInvStep DEF OrderInv
<1>2. CASE page_fails \/ answered \/ \E given \in Statements : run_reconciliation(given)
    BY <1>1, <1>2 DEF page_fails, answered, run_reconciliation, OrderInv
<1>3. CASE UNCHANGED settledVars
    BY <1>1, <1>3 DEF settledVars, verdict, OrderInv, InPlace, Ascending, Rank
<1> QED
    BY <1>2, <1>3, CommitKeepsOrder, FetchKeepsOrder, PageKeepsOrder DEF SettledNext

\* A feed that was read page by page, while postings go on committing, lacks no
\* row of its start, and repeats none unless a row was committed before others.
THEOREM FeedIsExact == SettledSpec => []FeedExact
<1>1. SettledInit => OrderInv
    BY FeedInvInit DEF SettledInit, OrderInv
<1>2. OrderInv => FeedExact
  <2> SUFFICES ASSUME OrderInv, pulling = "done"
               PROVE  /\ atStart \subseteq {pulled[i] : i \in 1..Len(pulled)}
                      /\ disturbed \/ Ascending
      BY DEF FeedExact, Ascending
  <2>1. \A r \in atStart : \E i \in DOMAIN pulled : pulled[i] = r
        BY DEF OrderInv, FeedInv, Held
  <2>2. DOMAIN pulled = 1..Len(pulled)
        BY DEF OrderInv, FeedInv
  <2> QED
        BY <2>1, <2>2 DEF OrderInv
<1> QED
    BY <1>1, <1>2, OrderInvStep, PTL DEF SettledSpec
==============================================================================
