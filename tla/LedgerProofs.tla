---------------------------- MODULE LedgerProofs ----------------------------
(***************************************************************************)
(* The ledger against what it stands for, for every set of references and  *)
(* amounts: balances are the sums of their accounts' movements (facts      *)
(* about sums are proved from the definition of SumFunctionOnSet, by       *)
(* induction on the size of a set), and posting and opening implement the  *)
(* AccountBook.                                                            *)
(***************************************************************************)
EXTENDS TransactionServiceProofs, FiniteSetTheorems, WellFoundedInduction

\* Induction over the natural numbers, for a set of them.
LEMMA InductionOnNat ==
    ASSUME NEW G, 0 \in G, \A n \in Nat : n \in G => n + 1 \in G
    PROVE  \A n \in Nat : n \in G
<1> DEFINE T == {n \in Nat : n \notin G}
<1> SUFFICES ASSUME T # {} PROVE FALSE
  OBVIOUS
<1>1. PICK x \in T : \A y \in T : <<y, x>> \notin OpToRel(<, Nat)
  <2>1. T \subseteq Nat
    OBVIOUS
  <2> HIDE DEF T
  <2>2. QED
    BY <2>1, NatLessThanWellFounded, WFMin
<1>2. \A y \in T : ~(y < x)
  BY <1>1 DEF OpToRel
<1>3. x # 0 /\ x - 1 \in Nat /\ x - 1 \notin T
  BY <1>2
<1>4. x - 1 \in G /\ (x - 1) + 1 = x
  BY <1>3
<1>5. QED
  BY <1>1, <1>3, <1>4

\* The element a sum takes next, and the function it is the value of.
Pick(s) == CHOOSE x \in s : TRUE
Step(w, g, s) == IF s = {} THEN 0 ELSE w[Pick(s)] + g[s \ {Pick(s)}]
IsSum(w, S, g) == g = [s \in SUBSET S |-> Step(w, g, s)]

LEMMA SumUnfolds ==
    ASSUME NEW w, NEW S
    PROVE  SumFunctionOnSet(w, S) = (CHOOSE g : IsSum(w, S, g))[S]
BY DEF SumFunctionOnSet, FoldFunctionOnSet, MapThenFoldSet, IsSum, Step, Pick

LEMMA PickIn == \A s : s # {} => Pick(s) \in s
BY DEF Pick

\* Without its picked element a set is smaller by one.
LEMMA PickSmaller ==
    ASSUME NEW S, IsFiniteSet(S), NEW s \in SUBSET S
    PROVE  /\ IsFiniteSet(s) /\ Cardinality(s) \in Nat
           /\ Cardinality(s) = 0 <=> s = {}
           /\ s # {} => /\ s \ {Pick(s)} \in SUBSET S
                        /\ Cardinality(s \ {Pick(s)}) = Cardinality(s) - 1
<1>1. IsFiniteSet(s)
  BY FS_Subset
<1>2. Cardinality(s) \in Nat /\ (Cardinality(s) = 0 <=> s = {})
  BY <1>1, FS_CardinalityType, FS_EmptySet
<1>3. ASSUME s # {} PROVE Cardinality(s \ {Pick(s)}) = Cardinality(s) - 1
  <2>1. Pick(s) \in s
    BY <1>3, PickIn
  <2>2. QED
    BY <1>1, <2>1, FS_RemoveElement
<1>4. QED
  BY <1>1, <1>2, <1>3

\* For a finite set there is such a function.
LEMMA SumExists ==
    ASSUME NEW w, NEW S, IsFiniteSet(S)
    PROVE  \E g : IsSum(w, S, g)
<1> DEFINE Upto(n, g) == \A s \in SUBSET S : Cardinality(s) <= n => g[s] = Step(w, g, s)
           G == {n \in Nat : \E g : Upto(n, g)}
<1>1. 0 \in G
  <2> DEFINE g == [s \in SUBSET S |-> 0]
  <2>1. ASSUME NEW s \in SUBSET S, Cardinality(s) <= 0 PROVE g[s] = Step(w, g, s)
    <3>1. Cardinality(s) \in Nat /\ (Cardinality(s) = 0 <=> s = {})
      BY PickSmaller
    <3>2. s = {}
      BY <2>1, <3>1
    <3>3. QED
      BY <3>2 DEF Step
  <2> HIDE DEF g
  <2>2. QED
    BY <2>1
<1>2. ASSUME NEW n \in Nat, n \in G PROVE n + 1 \in G
  <2>1. PICK g : Upto(n, g)
    BY <1>2
  <2> DEFINE h == [s \in SUBSET S |-> IF Cardinality(s) <= n THEN g[s] ELSE Step(w, g, s)]
  <2>2. ASSUME NEW s \in SUBSET S, Cardinality(s) <= n + 1 PROVE h[s] = Step(w, h, s)
    <3>1. Step(w, h, s) = Step(w, g, s)
      <4>1. CASE s = {}
        BY <4>1 DEF Step
      <4>2. CASE s # {}
        <5>1. s \ {Pick(s)} \in SUBSET S /\ Cardinality(s \ {Pick(s)}) <= n
          BY <2>2, <4>2, PickSmaller
        <5>2. h[s \ {Pick(s)}] = g[s \ {Pick(s)}]
          BY <5>1
        <5> HIDE DEF h
        <5>3. QED
          BY <5>2 DEF Step
      <4>3. QED
        BY <4>1, <4>2
    <3>2. h[s] = Step(w, g, s)
      BY <2>1
    <3>3. QED
      BY <3>1, <3>2
  <2> HIDE DEF h
  <2>3. Upto(n + 1, h)
    BY <2>2
  <2>4. QED
    BY <2>3
<1> HIDE DEF G
<1>3. \A n \in Nat : n \in G
  BY <1>1, <1>2, InductionOnNat
<1>4. PICK g : Upto(Cardinality(S), g)
  BY <1>3, FS_CardinalityType DEF G
<1> DEFINE h == [s \in SUBSET S |-> g[s]]
<1>5. ASSUME NEW s \in SUBSET S PROVE g[s] = Step(w, h, s)
  <2>1. Cardinality(s) <= Cardinality(S)
    BY FS_Subset
  <2>2. g[s] = Step(w, g, s)
    BY <1>4, <2>1
  <2>3. Step(w, g, s) = Step(w, h, s)
    BY DEF Step
  <2>4. QED
    BY <2>2, <2>3
<1>6. h = [s \in SUBSET S |-> Step(w, h, s)]
  BY <1>5
<1>7. QED
  BY <1>6 DEF IsSum

\* What a sum function gives depends on the summands only.
LEMMA SumUnique ==
    ASSUME NEW S, NEW T, IsFiniteSet(S), T \subseteq S, NEW w, NEW v, \A x \in T : w[x] = v[x],
           NEW g, NEW h, IsSum(w, S, g), IsSum(v, T, h)
    PROVE  g[T] = h[T]
<1> DEFINE G == {n \in Nat : \A s \in SUBSET T : Cardinality(s) = n => g[s] = h[s]}
<1>1. IsFiniteSet(T) /\ T \in SUBSET T
  BY FS_Subset
<1>2. \A s \in SUBSET T : g[s] = Step(w, g, s) /\ h[s] = Step(v, h, s)
  BY DEF IsSum
<1>3. 0 \in G
  <2>1. ASSUME NEW s \in SUBSET T, Cardinality(s) = 0 PROVE g[s] = h[s]
    <3>1. s = {}
      BY <1>1, <2>1, PickSmaller
    <3>2. QED
      BY <1>2, <3>1 DEF Step
  <2>2. QED
    BY <2>1
<1>4. ASSUME NEW n \in Nat, n \in G PROVE n + 1 \in G
  <2>1. ASSUME NEW s \in SUBSET T, Cardinality(s) = n + 1 PROVE g[s] = h[s]
    <3>1. s # {} /\ s \ {Pick(s)} \in SUBSET T /\ Cardinality(s \ {Pick(s)}) = n
      BY <1>1, <2>1, PickSmaller
    <3>2. g[s \ {Pick(s)}] = h[s \ {Pick(s)}] /\ w[Pick(s)] = v[Pick(s)]
      BY <1>4, <3>1, PickIn
    <3>3. QED
      BY <1>2, <3>1, <3>2 DEF Step
  <2>2. QED
    BY <2>1
<1> HIDE DEF G
<1>5. Cardinality(T) \in G
  BY <1>3, <1>4, InductionOnNat, <1>1, FS_CardinalityType
<1>6. QED
  BY <1>1, <1>5 DEF G

\* Sums of functions that agree are equal.
LEMMA SumSame ==
    ASSUME NEW w, NEW v, NEW S, IsFiniteSet(S), \A x \in S : w[x] = v[x]
    PROVE  SumFunctionOnSet(w, S) = SumFunctionOnSet(v, S)
<1> DEFINE g == CHOOSE f : IsSum(w, S, f)
           h == CHOOSE f : IsSum(v, S, f)
<1>1. IsSum(w, S, g) /\ IsSum(v, S, h)
  BY SumExists
<1> HIDE DEF g, h
<1>2. S \in SUBSET S
  OBVIOUS
<1>3. g[S] = h[S]
  <2>1. \A a, b : IsSum(w, S, a) /\ IsSum(v, S, b) => a[S] = b[S]
    BY <1>2, SumUnique
  <2>2. QED
    BY <1>1, <2>1
<1>4. QED
  BY <1>3, SumUnfolds DEF g, h

\* The equation of a sum.
LEMMA SumEquation ==
    ASSUME NEW w, NEW S, IsFiniteSet(S)
    PROVE  SumFunctionOnSet(w, S) =
             IF S = {} THEN 0 ELSE w[Pick(S)] + SumFunctionOnSet(w, S \ {Pick(S)})
<1> DEFINE T == S \ {Pick(S)}
           g == CHOOSE f : IsSum(w, S, f)
           h == CHOOSE f : IsSum(w, T, f)
<1>1. IsFiniteSet(T) /\ T \in SUBSET S
  BY FS_Subset
<1> HIDE DEF T
<1>2. IsSum(w, S, g) /\ IsSum(w, T, h)
  BY <1>1, SumExists
<1>3. SumFunctionOnSet(w, S) = g[S] /\ SumFunctionOnSet(w, T) = h[T]
  BY SumUnfolds
<1> HIDE DEF g, h
<1>4. g[T] = h[T]
  <2>1. T \in SUBSET T /\ \A x \in T : w[x] = w[x]
    OBVIOUS
  <2>2. \A a, b : IsSum(w, S, a) /\ IsSum(w, T, b) => a[T] = b[T]
    BY <1>1, <2>1, SumUnique
  <2>3. QED
    BY <1>2, <2>2
<1>5. g[S] = Step(w, g, S)
  BY <1>2 DEF IsSum
<1>6. QED
  BY <1>3, <1>4, <1>5 DEF Step, T

\* The sum of integers is one.
LEMMA SumIsInt ==
    ASSUME NEW w, NEW S, IsFiniteSet(S), \A x \in S : w[x] \in Int
    PROVE  SumFunctionOnSet(w, S) \in Int
<1> DEFINE G == {n \in Nat : \A s \in SUBSET S : Cardinality(s) = n => SumFunctionOnSet(w, s) \in Int}
<1>1. 0 \in G
  <2>1. ASSUME NEW s \in SUBSET S, Cardinality(s) = 0 PROVE SumFunctionOnSet(w, s) \in Int
    <3>1. s = {} /\ IsFiniteSet(s)
      BY <2>1, PickSmaller
    <3>2. SumFunctionOnSet(w, s) = 0
      BY <3>1, SumEquation
    <3>3. QED
      BY <3>2
  <2>2. QED
    BY <2>1
<1>2. ASSUME NEW n \in Nat, n \in G PROVE n + 1 \in G
  <2>1. ASSUME NEW s \in SUBSET S, Cardinality(s) = n + 1 PROVE SumFunctionOnSet(w, s) \in Int
    <3>1. /\ s # {} /\ s \ {Pick(s)} \in SUBSET S /\ Cardinality(s \ {Pick(s)}) = n
          /\ IsFiniteSet(s)
      BY <2>1, PickSmaller
    <3>2. SumFunctionOnSet(w, s \ {Pick(s)}) \in Int /\ w[Pick(s)] \in Int
      BY <1>2, <3>1, PickIn
    <3>3. SumFunctionOnSet(w, s) = w[Pick(s)] + SumFunctionOnSet(w, s \ {Pick(s)})
      BY <3>1, SumEquation
    <3>4. QED
      BY <3>2, <3>3
  <2>2. QED
    BY <2>1
<1> HIDE DEF G
<1>3. Cardinality(S) \in G
  BY <1>1, <1>2, InductionOnNat, FS_CardinalityType
<1>4. QED
  BY <1>3 DEF G

\* Any element can be taken out first.
LEMMA SumTakeOut ==
    ASSUME NEW w, NEW S, IsFiniteSet(S), \A x \in S : w[x] \in Int, NEW e \in S
    PROVE  SumFunctionOnSet(w, S) = w[e] + SumFunctionOnSet(w, S \ {e})
<1> DEFINE Any(s) == \A x \in s : SumFunctionOnSet(w, s) = w[x] + SumFunctionOnSet(w, s \ {x})
           G == {n \in Nat : \A s \in SUBSET S : Cardinality(s) = n => Any(s)}
<1>1. 0 \in G
  BY PickSmaller
<1>2. ASSUME NEW n \in Nat, n \in G PROVE n + 1 \in G
  <2>1. ASSUME NEW s \in SUBSET S, Cardinality(s) = n + 1, NEW x \in s
        PROVE  SumFunctionOnSet(w, s) = w[x] + SumFunctionOnSet(w, s \ {x})
    <3> DEFINE c == Pick(s)
               u == s \ {c}
               v == s \ {x}
               z == (s \ {c}) \ {x}
    <3>1. c \in s /\ u \in SUBSET S /\ Cardinality(u) = n /\ IsFiniteSet(s)
      BY <2>1, PickSmaller, PickIn
    <3>2. IsFiniteSet(v) /\ v \in SUBSET S /\ IsFiniteSet(z) /\ z \in SUBSET S
      <4>1. v \in SUBSET s /\ z \in SUBSET s
        OBVIOUS
      <4> HIDE DEF v, z
      <4>2. QED
        BY <3>1, <4>1, FS_Subset
    <3>3. Cardinality(v) = n
      BY <2>1, <3>1, FS_RemoveElement
    <3>4. SumFunctionOnSet(w, s) = w[c] + SumFunctionOnSet(w, u)
      BY <2>1, <3>1, SumEquation
    <3>5. CASE x = c
      BY <3>4, <3>5
    <3>6. CASE x # c
      <4>1. x \in u /\ c \in v /\ v \ {c} = z
        BY <3>1, <3>6
      <4>2. SumFunctionOnSet(w, u) = w[x] + SumFunctionOnSet(w, z)
        BY <1>2, <3>1, <4>1
      <4>3. SumFunctionOnSet(w, v) = w[c] + SumFunctionOnSet(w, z)
        BY <1>2, <3>2, <3>3, <4>1
      <4>4. w[c] \in Int /\ w[x] \in Int /\ SumFunctionOnSet(w, z) \in Int
        BY <2>1, <3>1, <3>2, SumIsInt
      <4> HIDE DEF c, u, v, z
      <4>5. SumFunctionOnSet(w, s) = w[x] + SumFunctionOnSet(w, v)
        BY <3>4, <4>2, <4>3, <4>4
      <4>6. QED
        BY <4>5 DEF v
    <3>7. QED
      BY <3>5, <3>6
  <2>2. QED
    BY <2>1
<1> HIDE DEF G
<1>3. Cardinality(S) \in G
  BY <1>1, <1>2, InductionOnNat, FS_CardinalityType
<1>4. QED
  BY <1>3 DEF G
-----------------------------------------------------------------------------
(* Balances *)

SettledRefs == {r \in Refs : ledger[r] # None}
Sum(a) == SumFunctionOnSet(Effects, Movements(a))

\* With finitely many rows, as after any number of steps, balances are sums.
BalanceInv == IInv /\ IsFiniteSet(SettledRefs) /\ BalanceIsLedger

\* Amounts and fees are integers.
LEMMA WholeRequest ==
    ASSUME NEW q \in Requests \cup Openings
    PROVE  q.amount \in Int /\ q.fee \in Int
<1>1. (\A n \in Amounts : n \in Int) /\ (\A n \in Fees : n \in Int)
  BY AmountAssumption
<1>2. CASE q \in Requests
  BY <1>1, <1>2 DEF Requests
<1>3. CASE q \in Openings
  BY <1>1, <1>3 DEF Openings
<1>4. QED
  BY <1>2, <1>3

LEMMA EffectIsInt == \A q \in Requests \cup Openings : Effect(q) \in Int
BY WholeRequest DEF Effect

WholeEffects == \A r \in Refs : Effects[r] \in Int

LEMMA EffectsAreInts == IInv => WholeEffects
<1> SUFFICES ASSUME IInv, NEW r \in Refs PROVE Effects[r] \in Int
  BY DEF WholeEffects
<1>1. ledger[r] # None => ledger[r].request \in Requests \cup Openings
  BY DEF IInv, TypeOK, LedgerRow
<1>2. QED
  BY <1>1, EffectIsInt DEF Effects

LEMMA MovementsFinite ==
    ASSUME IsFiniteSet(SettledRefs), NEW a
    PROVE  IsFiniteSet(Movements(a)) /\ Movements(a) \in SUBSET Refs
<1>1. Movements(a) \in SUBSET SettledRefs /\ SettledRefs \in SUBSET Refs
  BY DEF Movements, SettledRefs
<1>2. QED
  BY <1>1, FS_Subset

\* A row that is settled adds its effect to its account's sum and to no other.
LEMMA SettledRowAddsUp ==
    ASSUME IInv, IInv', IsFiniteSet(SettledRefs), NEW r \in Refs, NEW a,
           ledger[r] = None, ledger'[r] # None, ledger'[r].request.account = a,
           \A s \in Refs : s # r => ledger'[s] = ledger[s]
    PROVE  /\ IsFiniteSet(SettledRefs')
           /\ Sum(a)' = Effect(ledger'[r].request) + Sum(a)
           /\ \A b : b # a => Sum(b)' = Sum(b) /\ Movements(b)' = Movements(b)
<1>1. IsFiniteSet(SettledRefs')
  <2>1. SettledRefs' = SettledRefs \cup {r}
    BY DEF SettledRefs
  <2>2. QED
    BY <2>1, FS_AddElement
<1>2. \A s \in Refs : s # r => Effects'[s] = Effects[s]
  BY DEF Effects
<1>3. Effects'[r] = Effect(ledger'[r].request)
  BY DEF Effects
<1>4. \A s \in Refs : Effects'[s] \in Int
  <2>1. (IInv => WholeEffects)'
    BY EffectsAreInts, PTL
  <2>2. QED
    BY <2>1 DEF WholeEffects
<1>5. Sum(a)' = Effect(ledger'[r].request) + Sum(a)
  <2>1. Movements(a)' = Movements(a) \cup {r} /\ r \notin Movements(a)
    BY DEF Movements
  <2>2. IsFiniteSet(Movements(a)) /\ Movements(a) \in SUBSET Refs
    BY MovementsFinite
  <2>3. IsFiniteSet(Movements(a)')
    BY <2>1, <2>2, FS_AddElement
  <2>4. Movements(a)' \ {r} = Movements(a) /\ r \in Movements(a)' /\ Movements(a)' \subseteq Refs
    BY <2>1, <2>2
  <2>5. SumFunctionOnSet(Effects', Movements(a)')
          = Effects'[r] + SumFunctionOnSet(Effects', Movements(a)' \ {r})
    BY <1>4, <2>3, <2>4, SumTakeOut
  <2>6. SumFunctionOnSet(Effects', Movements(a)) = SumFunctionOnSet(Effects, Movements(a))
    BY <1>2, <2>1, <2>2, SumSame
  <2>7. QED
    BY <1>3, <2>4, <2>5, <2>6 DEF Sum
<1>6. ASSUME NEW b, b # a PROVE Sum(b)' = Sum(b) /\ Movements(b)' = Movements(b)
  <2>1. Movements(b)' = Movements(b) /\ r \notin Movements(b)
    BY <1>6 DEF Movements
  <2>2. IsFiniteSet(Movements(b)) /\ Movements(b) \in SUBSET Refs
    BY MovementsFinite
  <2>3. SumFunctionOnSet(Effects', Movements(b)) = SumFunctionOnSet(Effects, Movements(b))
    BY <1>2, <2>1, <2>2, SumSame
  <2>4. QED
    BY <2>1, <2>3 DEF Sum
<1>7. QED
  BY <1>1, <1>5, <1>6

LEMMA NothingSums == \A w : SumFunctionOnSet(w, {}) = 0
BY SumEquation, FS_EmptySet

LEMMA InitBalances == Init => BalanceInv
<1> SUFFICES ASSUME Init PROVE BalanceInv
  OBVIOUS
<1>1. SettledRefs = {}
  BY DEF Init, SettledRefs
<1>2. BalanceIsLedger
  BY DEF Init, BalanceIsLedger, Movements
<1>3. QED
  BY <1>1, <1>2, InitIInv, FS_EmptySet DEF BalanceInv

\* A posting adds the same to the balance and to the sum.
LEMMA CommitKeepsBalances ==
    ASSUME BalanceInv, IInv', NEW t \in Threads, commit(t)
    PROVE  BalanceInv'
<1> PICK a, r : a = thread[t].request.account /\ r = thread[t].ref
  OBVIOUS
<1>1. IInv
  BY DEF BalanceInv
<1>2. /\ a \in Accounts /\ r \in Refs /\ ledger[r] = None
      /\ ledger'[r] # None /\ ledger'[r].request = thread[t].request
      /\ \A s \in Refs : s # r => ledger'[s] = ledger[s]
      /\ \A b \in Accounts : b # a => account'[b] = account[b]
      /\ account[a] # None /\ account'[a] # None
      /\ account'[a].balance = account[a].balance + Effect(thread[t].request)
  BY <1>1, CommitEffect
<1>3. ledger'[r].request.account = a
  BY <1>2
<1>4. /\ IsFiniteSet(SettledRefs')
      /\ Sum(a)' = Effect(ledger'[r].request) + Sum(a)
      /\ \A b : b # a => Sum(b)' = Sum(b) /\ Movements(b)' = Movements(b)
  BY <1>1, <1>2, <1>3, SettledRowAddsUp DEF BalanceInv
<1>5. account[a].balance = Sum(a) /\ account[a].balance \in Int
  <2>1. account[a].balance = Sum(a)
    BY <1>2 DEF BalanceInv, BalanceIsLedger, Sum
  <2>2. account[a] \in AccountRow
    BY <1>1, <1>2 DEF IInv, TypeOK
  <2>3. QED
    BY <2>1, <2>2, AmountAssumption DEF AccountRow
<1>6. Effect(thread[t].request) \in Int
  <2>1. ledger'[r].request \in Requests \cup Openings
    BY <1>2 DEF IInv, TypeOK, LedgerRow
  <2>2. QED
    BY <1>2, <2>1, EffectIsInt
<1>7. account'[a].balance = Sum(a)'
  BY <1>2, <1>4, <1>5, <1>6
<1>8. ASSUME NEW b \in Accounts
      PROVE  IF account'[b] = None THEN Movements(b)' = {} ELSE account'[b].balance = Sum(b)'
  <2>1. CASE b = a
    BY <1>2, <1>7, <2>1
  <2>2. CASE b # a
    BY <1>2, <1>4, <2>2 DEF BalanceInv, BalanceIsLedger, Sum
  <2>3. QED
    BY <2>1, <2>2
<1>9. BalanceIsLedger'
  BY <1>8 DEF BalanceIsLedger, Sum
<1>10. QED
  BY <1>4, <1>9 DEF BalanceInv

\* An opening adds an account with its movement, or with none.
LEMMA OpenCommitKeepsBalances ==
    ASSUME BalanceInv, IInv', NEW t \in Threads, open_commit(t)
    PROVE  BalanceInv'
<1> PICK a, r : a = thread[t].request.account /\ r = thread[t].ref
  OBVIOUS
<1>1. IInv
  BY DEF BalanceInv
<1>2. /\ a \in Accounts /\ account[a] = None /\ account'[a] # None
      /\ \A b \in Accounts : b # a => account'[b] = account[b]
      /\ r = None => UNCHANGED ledger /\ account'[a].balance = 0
      /\ r # None =>
            /\ r \in Refs /\ ledger[r] = None /\ ledger'[r] # None
            /\ ledger'[r].request = thread[t].request
            /\ \A s \in Refs : s # r => ledger'[s] = ledger[s]
            /\ account'[a].balance = Effect(thread[t].request)
  BY <1>1, OpenCommitEffect
<1>3. Movements(a) = {} /\ Sum(a) = 0
  BY <1>2, NothingSums DEF BalanceInv, BalanceIsLedger, Sum
<1>4. r # None => ledger'[r].request.account = a
  BY <1>2
<1>5. /\ IsFiniteSet(SettledRefs')
      /\ Sum(a)' = account'[a].balance
      /\ \A b : b # a => Sum(b)' = Sum(b) /\ Movements(b)' = Movements(b)
  <2>1. CASE r = None
    <3>1. UNCHANGED ledger
      BY <1>2, <2>1
    <3>2. Effects' = Effects /\ (\A b : Movements(b)' = Movements(b)) /\ SettledRefs' = SettledRefs
      BY <3>1 DEF Effects, Movements, SettledRefs
    <3>3. QED
      BY <1>2, <1>3, <2>1, <3>2 DEF BalanceInv, Sum
  <2>2. CASE r # None
    <3>1. /\ IsFiniteSet(SettledRefs')
          /\ Sum(a)' = Effect(ledger'[r].request) + Sum(a)
          /\ \A b : b # a => Sum(b)' = Sum(b) /\ Movements(b)' = Movements(b)
      BY <1>1, <1>2, <1>4, <2>2, SettledRowAddsUp DEF BalanceInv
    <3>2. Effect(ledger'[r].request) \in Int
      <4>1. ledger'[r].request \in Requests \cup Openings
        BY <1>2, <2>2 DEF IInv, TypeOK, LedgerRow
      <4>2. QED
        BY <4>1, EffectIsInt
    <3>3. Sum(a)' = account'[a].balance
      BY <1>2, <1>3, <2>2, <3>1, <3>2
    <3>4. QED
      BY <3>1, <3>3
  <2>3. QED
    BY <2>1, <2>2
<1>6. ASSUME NEW b \in Accounts
      PROVE  IF account'[b] = None THEN Movements(b)' = {} ELSE account'[b].balance = Sum(b)'
  <2>1. CASE b = a
    BY <1>2, <1>5, <2>1
  <2>2. CASE b # a
    BY <1>2, <1>5, <2>2 DEF BalanceInv, BalanceIsLedger, Sum
  <2>3. QED
    BY <2>1, <2>2
<1>7. BalanceIsLedger'
  BY <1>6 DEF BalanceIsLedger, Sum
<1>8. QED
  BY <1>5, <1>7 DEF BalanceInv

LEMMA NextKeepsBalances == BalanceInv /\ [Next]_vars => BalanceInv'
<1> SUFFICES ASSUME BalanceInv, [Next]_vars PROVE BalanceInv'
  OBVIOUS
<1>1. IInv'
  BY NextKeepsIInv DEF BalanceInv
<1>2. CASE UNCHANGED <<account, ledger>>
  BY <1>1, <1>2 DEF BalanceInv, BalanceIsLedger, Movements, Effects, SettledRefs
<1>3. QED
  BY <1>1, <1>2, OnlyCommitsWrite, CommitKeepsBalances, OpenCommitKeepsBalances

\* The cached balance of an account is the sum of its movements in the ledger,
\* whatever postings, openings, conflicts and failures overlap.
THEOREM BalancesAreSums == Spec => []BalanceIsLedger
<1>1. BalanceInv => BalanceIsLedger
  BY DEF BalanceInv
<1>2. QED
  BY <1>1, InitBalances, NextKeepsBalances, PTL DEF Spec
-----------------------------------------------------------------------------
(* The account book *)

LEMMA InitIsBook == Init => Book!BookInit
BY DEF Init, Book!BookInit, Holders, Balances, Balance

\* A step that keeps accounts, rows and answers is a stutter of the book.
LEMMA QuietStutters ==
    ASSUME UNCHANGED <<account, ledger, answers>>
    PROVE  UNCHANGED Book!bookVars
BY DEF Book!bookVars, Holders, Balances, Balance

\* The book's gain from a movement is the code's effect of it.
LEMMA GainIsEffect ==
    ASSUME NEW q \in Requests \cup Openings
    PROVE  Book!Gain(q) = Effect(q) /\ Effect(q) \in Int
<1>1. q.amount \in Int /\ q.fee \in Int
  BY WholeRequest
<1>2. QED
  BY <1>1 DEF Book!Gain, Effect

\* The balances of a step that changes the row of account a only.
LEMMA BalancesMove ==
    ASSUME NEW a \in Accounts, NEW n, account'[a] # None, account'[a].balance = n,
           \A b \in Accounts : b # a => account'[b] = account[b]
    PROVE  Balances' = [Balances EXCEPT ![a] = n]
BY DEF Balances, Balance

\* After a step the balance of an account that is there fits a long.
LEMMA BalanceFits ==
    ASSUME IInv', NEW a \in Accounts, account'[a] # None
    PROVE  account'[a].balance \in 0..MaxLong
<1>1. account'[a] \in AccountRow
  BY DEF IInv, TypeOK
<1>2. QED
  BY <1>1 DEF AccountRow

\* A thread's uncommitted row has a key the book does not have.
LEMMA InsertedIsNew ==
    ASSUME IInv, NEW t \in Threads, Inserted(t)
    PROVE  /\ ledger[thread[t].ref] = None
           /\ \A s \in Refs : ledger[s] # None => ledger[s].key # thread[t].key
BY DEF IInv, LocalsInv, LocalInv, RequestInv, KeySettled, Settled

\* The commit of a posting is the book's posting.
LEMMA CommitPosts ==
    ASSUME IInv, IInv', NEW t \in Threads, commit(t)
    PROVE  Book!BookNext
<1> PICK a, r, k, q : /\ a = thread[t].request.account /\ r = thread[t].ref
                      /\ k = thread[t].key /\ q = thread[t].request
  OBVIOUS
<1>1. /\ thread[t].at = "commit" /\ ledger' = [ledger EXCEPT ![r] = [key |-> k, request |-> q]]
      /\ UNCHANGED answers
  BY DEF commit
<1>2. q \in Requests /\ k \in AllKeys /\ a = q.account
  BY <1>1, Working DEF PostSteps
<1>3. /\ a \in Accounts /\ r \in Refs
      /\ \A b \in Accounts : b # a => account'[b] = account[b]
      /\ account[a] # None /\ account'[a] # None
      /\ account'[a].balance = account[a].balance + Effect(q)
  BY CommitEffect
<1>4. ledger[r] = None /\ \A s \in Refs : ledger[s] # None => ledger[s].key # k
  <2>1. Inserted(t)
    BY <1>1, <1>3, NoneAssumption DEF Inserted
  <2>2. QED
    BY <2>1, InsertedIsNew
<1>5. account[a] \in AccountRow /\ account'[a].customer = account[a].customer
  BY CommitAccount
<1>6. Holders' = Holders /\ Holders[a] # None
  <2>1. Holders[a] # None
    BY <1>3, <1>5, NoneAssumption DEF Holders, AccountRow
  <2>2. QED
    BY <1>3, <1>5, <2>1 DEF Holders
<1>7. Balances[a] + Book!Gain(q) = account'[a].balance /\ account'[a].balance \in 0..MaxLong
  <2>1. Balances[a] = account[a].balance
    BY <1>3 DEF Balances, Balance
  <2>2. QED
    BY <1>2, <1>3, <2>1, GainIsEffect, BalanceFits
<1>8. Balances' = [Balances EXCEPT ![a] = Balances[a] + Book!Gain(q)]
  BY <1>3, <1>7, BalancesMove
<1>9. Book!Enter(r, k, q)
  BY <1>1, <1>2, <1>4, <1>7, <1>8 DEF Book!Enter
<1>10. Book!Post(r, k, q)
  BY <1>1, <1>2, <1>6, <1>9 DEF Book!Post
<1>11. QED
  BY <1>2, <1>3, <1>10 DEF Book!BookNext

\* The commit of an opening is the book's opening, with or without a movement.
LEMMA OpenCommitOpens ==
    ASSUME IInv, IInv', NEW t \in Threads, open_commit(t)
    PROVE  Book!BookNext
<1> PICK a, c, r, q : /\ a = thread[t].request.account /\ r = thread[t].ref
                      /\ c = thread[t].customer /\ q = thread[t].request
  OBVIOUS
<1>1. /\ thread[t].at = "open_commit" /\ UNCHANGED answers
      /\ account' = [account EXCEPT ![a] = [customer |-> c, balance |-> thread[t].balance,
                                           version |-> thread[t].version]]
      /\ r # None => ledger' = [ledger EXCEPT ![r] = [key |-> a, request |-> q]]
  BY DEF open_commit
<1>2. /\ q \in Openings /\ a \in AllKeys /\ a = q.account /\ a = thread[t].key
      /\ c \in Customers /\ c # None
  BY <1>1, WorkingOpening
<1>3. /\ a \in Accounts /\ account[a] = None /\ account'[a] # None
      /\ \A b \in Accounts : b # a => account'[b] = account[b]
      /\ r = None => UNCHANGED ledger /\ account'[a].balance = 0
      /\ r # None => r \in Refs /\ account'[a].balance = Effect(q)
  BY OpenCommitEffect
<1>4. account \in [Accounts -> AccountRow \cup {None}]
  BY DEF IInv, TypeOK
<1>5. account'[a].customer = c
  BY <1>1, <1>3, <1>4
<1>6. \A b \in Accounts : Holders[b] # c
  <2>1. ~Registered(c)
    BY <1>1 DEF IInv, LocalsInv, LocalInv, AccountInv, Opening
  <2>2. QED
    BY <1>2, <2>1 DEF Holders, Registered
<1>7. Holders[a] = None /\ Holders' = [Holders EXCEPT ![a] = c]
  BY <1>3, <1>5 DEF Holders
<1>8. Book!Register(a, c)
  BY <1>6, <1>7 DEF Book!Register
<1>9. Balances[a] = 0
  BY <1>3 DEF Balances, Balance
<1>10. CASE r = None
  <2>1. Balances' = [Balances EXCEPT ![a] = 0]
    BY <1>3, <1>10, BalancesMove
  <2>2. UNCHANGED Balances
    BY <1>9, <2>1 DEF Balances
  <2>3. Book!Open(a, c)
    BY <1>1, <1>3, <1>8, <1>10, <2>2 DEF Book!Open
  <2>4. QED
    BY <1>2, <1>3, <2>3 DEF Book!BookNext
<1>11. CASE r # None
  <2>1. ledger[r] = None /\ \A s \in Refs : ledger[s] # None => ledger[s].key # a
    <3>1. Inserted(t)
      BY <1>1, <1>11 DEF Inserted
    <3>2. QED
      BY <1>2, <3>1, InsertedIsNew
  <2>2. Balances[a] + Book!Gain(q) = account'[a].balance /\ account'[a].balance \in 0..MaxLong
    BY <1>2, <1>3, <1>9, <1>11, GainIsEffect, BalanceFits
  <2>3. Balances' = [Balances EXCEPT ![a] = Balances[a] + Book!Gain(q)]
    BY <1>3, <2>2, BalancesMove
  <2>4. Book!Enter(r, q.account, q)
    BY <1>1, <1>2, <1>11, <2>1, <2>2, <2>3 DEF Book!Enter
  <2>5. Book!OpenWith(c, r, q)
    BY <1>1, <1>2, <1>8, <2>4 DEF Book!OpenWith
  <2>6. QED
    BY <1>2, <1>3, <1>11, <2>5 DEF Book!BookNext
<1>12. QED
  BY <1>10, <1>11

\* An answer that gives the row of its key and request is one the book tells.
LEMMA ReplyTells ==
    ASSUME IInv, NEW r \in Refs, NEW k \in AllKeys, NEW q \in Requests, Reply(k, q, r),
           UNCHANGED <<account, ledger>>, ledger[r] = [key |-> k, request |-> q]
    PROVE  Book!BookNext
<1>1. UNCHANGED <<Holders, Balances>>
  BY DEF Holders, Balances, Balance
<1>2. Book!Tell(r)
  BY <1>1, RowIsThere DEF Book!Tell, Reply
<1>3. QED
  BY <1>2 DEF Book!BookNext

\* Steps that write no row answer from one or are stutters.
LEMMA AnswersTell ==
    ASSUME IInv, [Next]_vars, UNCHANGED <<account, ledger>>
    PROVE  Book!BookNext \/ UNCHANGED answers
<1>1. ASSUME NEW t \in Threads, respond(t) PROVE Book!BookNext
  <2> PICK r, k, q : r = thread[t].ref /\ k = thread[t].key /\ q = thread[t].request
    OBVIOUS
  <2>1. thread[t].at = "respond" /\ Reply(k, q, r)
    BY <1>1 DEF respond
  <2>2. k \in AllKeys /\ q \in Requests /\ LocalInv(t) /\ r \in Refs \cup {None}
    BY <2>1, Working DEF PostSteps
  <2>3. r \in Refs /\ ledger[r] = [key |-> k, request |-> q]
    BY <2>1, <2>2 DEF LocalInv, RequestInv
  <2>4. QED
    BY <2>1, <2>2, <2>3, ReplyTells
<1>2. ASSUME NEW t \in Threads, NEW r \in Refs, read_winner(t, r)
      PROVE  Book!BookNext \/ UNCHANGED answers
  <2> PICK k, q : k = thread[t].key /\ q = thread[t].request
    OBVIOUS
  <2>1. /\ thread[t].at = "winner" /\ Settled(r, k)
        /\ (MayReplay(r, q) /\ Reply(k, q, r)) \/ UNCHANGED answers
    BY <1>2 DEF read_winner
  <2>2. k \in AllKeys /\ q \in Requests
    BY <2>1, Working DEF PostSteps
  <2>3. CASE MayReplay(r, q) /\ Reply(k, q, r)
    <3>1. ledger[r] = [key |-> k, request |-> q]
      BY <2>1, <2>3, ReplayedRow
    <3>2. QED
      BY <2>2, <2>3, <3>1, ReplyTells
  <2>4. QED
    BY <2>1, <2>3
<1>3. ASSUME NEW q \in Requests, NEW k \in AllKeys, NEW r \in Refs, post_replay(q, k, r)
      PROVE  Book!BookNext
  <2>1. Reply(k, q, r) /\ ledger[r] = [key |-> k, request |-> q]
    BY <1>3, ReplayedRow DEF post_replay
  <2>2. QED
    BY <2>1, ReplyTells
<1>4. ASSUME NEW t \in Threads, Request(t) \/ Insert(t) \/ fail(t) PROVE UNCHANGED answers
  BY <1>4 DEF Request, post, open, Insert, insert, open_movement, fail
<1>5. ASSUME NEW t \in Threads, Serve(t) PROVE Book!BookNext \/ UNCHANGED answers
  <2>1. CASE read_account(t) \/ refuse(t) \/ no_winner(t) \/ reject_movement(t) \/ update_account(t)
    BY <2>1 DEF read_account, refuse, no_winner, reject_movement, update_account
  <2>2. CASE \/ keep_account(t) \/ deadlock_victim(t) \/ insert_account(t)
             \/ insert_account_conflict(t) \/ commit(t) \/ open_commit(t)
    BY <2>2 DEF keep_account, deadlock_victim, insert_account, insert_account_conflict, commit, open_commit
  <2>3. ASSUME NEW r \in Refs, insert_conflict(t, r) \/ open_movement_conflict(t, r)
        PROVE  UNCHANGED answers
    BY <2>3 DEF insert_conflict, open_movement_conflict
  <2>4. QED
    BY <1>1, <1>2, <1>5, <2>1, <2>2, <2>3 DEF Serve
<1>6. QED
  BY <1>3, <1>4, <1>5 DEF Next, vars

\* Posting and opening implement the account book: every step of a request, a
\* conflict, a lock or a rollback is one entry, one answer from an entry, or
\* nothing.
THEOREM LedgerImplementsBook == Spec => ImplementsBook
<1>1. ASSUME IInv, [Next]_vars PROVE [Book!BookNext]_(Book!bookVars)
  <2>1. IInv'
    BY <1>1, NextKeepsIInv
  <2>2. CASE ~UNCHANGED <<account, ledger>>
    BY <1>1, <2>1, <2>2, OnlyCommitsWrite, CommitPosts, OpenCommitOpens
  <2>3. CASE UNCHANGED <<account, ledger>>
    BY <1>1, <2>3, AnswersTell, QuietStutters
  <2>4. QED
    BY <2>2, <2>3
<1>2. QED
  BY <1>1, InitIsBook, Invariant, PTL DEF Spec, ImplementsBook, Book!BookSpec
=============================================================================
