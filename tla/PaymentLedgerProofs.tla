------------------------ MODULE PaymentLedgerProofs ------------------------
(***************************************************************************)
(* The ledger conserves money, for any number of accounts and payments.    *)
(***************************************************************************)
EXTENDS PaymentLedger, FiniteSets, FiniteSetTheorems, WellFoundedInduction, TLAPS

-----------------------------------------------------------------------------
(* What SumTo computes, proved from its definition.  NatInduction takes an  *)
(* operator as a parameter, so induction is done here with a first-order    *)
(* principle: a non-empty set of naturals has a least member.               *)

(* The initial segments of Nat, ordered by inclusion, are well founded. *)
LEMMA LeastNatural ==
  ASSUME NEW T \in SUBSET Nat, T # {}
  PROVE  \E n \in T : \A m \in T : n <= m
<1> DEFINE Segments == {0 .. n : n \in T}
<1>1. Segments \subseteq FiniteSubsetsOf(Nat)
  <2> SUFFICES ASSUME NEW n \in T PROVE 0 .. n \in FiniteSubsetsOf(Nat)
    OBVIOUS
  <2>1. 0 .. n \in SUBSET Nat
    OBVIOUS
  <2>2. IsFiniteSet(0 .. n)
    BY FS_Interval
  <2> QED
    BY <2>1, <2>2 DEF FiniteSubsetsOf
<1>2. Segments # {}
  OBVIOUS
<1>3. \E s \in Segments : \A t \in Segments :
        <<t, s>> \notin StrictSubsetOrdering(Nat)
  <2> HIDE DEF Segments
  <2> QED
    BY <1>1, <1>2, FS_StrictSubsetOrderingWellFounded, WFMin
<1>4. PICK n \in T : \A m \in T : <<0 .. m, 0 .. n>> \notin StrictSubsetOrdering(Nat)
  BY <1>3
<1>5. ASSUME NEW m \in T, m < n PROVE FALSE
  <2>1. 0 .. m \subseteq 0 .. n /\ 0 .. m # 0 .. n
    BY <1>5
  <2>2. 0 .. m \in SUBSET Nat /\ 0 .. n \in SUBSET Nat
    OBVIOUS
  <2> QED
    BY <1>4, <2>1, <2>2 DEF StrictSubsetOrdering
<1> QED
  BY <1>5

-----------------------------------------------------------------------------
IsPrefixSums(s, f, n) ==
  s = [k \in 0 .. n |-> IF k = 0 THEN 0 ELSE s[k-1] + f[k]]

LEMMA PrefixSumsExist ==
  ASSUME NEW f, NEW n \in Nat
  PROVE  \E s : IsPrefixSums(s, f, n)
<1> DEFINE Bad == {m \in Nat : ~ \E s : IsPrefixSums(s, f, m)}
<1> SUFFICES ASSUME Bad # {} PROVE FALSE
  OBVIOUS
<1>1. PICK m \in Bad : \A k \in Bad : m <= k
  <2> Bad \in SUBSET Nat
    OBVIOUS
  <2> HIDE DEF Bad
  <2> QED
    BY LeastNatural
<1>2. CASE m = 0
  <2>1. IsPrefixSums([k \in 0 .. 0 |-> 0], f, 0)
    BY DEF IsPrefixSums
  <2> QED
    BY <1>1, <1>2, <2>1
<1>3. CASE m # 0
  <2>1. m - 1 \in Nat /\ m - 1 \notin Bad
    BY <1>1, <1>3
  <2>2. PICK s : IsPrefixSums(s, f, m - 1)
    BY <2>1
  <2> DEFINE t == [k \in 0 .. m |-> IF k = m THEN s[m-1] + f[m] ELSE s[k]]
  <2>3. IsPrefixSums(t, f, m)
    BY <1>3, <2>1, <2>2 DEF IsPrefixSums
  <2> QED
    BY <1>1, <2>3
<1> QED
  BY <1>2, <1>3

LEMMA PrefixSumsEquation ==
  ASSUME NEW f, NEW n \in Nat
  PROVE  IsPrefixSums(PrefixSums(f, n), f, n)
BY PrefixSumsExist DEF PrefixSums, IsPrefixSums

LEMMA PrefixSumsAgree ==
  ASSUME NEW f, NEW m \in Nat, NEW n \in Nat, m <= n
  PROVE  \A k \in 0 .. m : PrefixSums(f, m)[k] = PrefixSums(f, n)[k]
<1> DEFINE s == PrefixSums(f, m)
           t == PrefixSums(f, n)
           Bad == {k \in 0 .. m : s[k] # t[k]}
<1>1. /\ s = [k \in 0 .. m |-> IF k = 0 THEN 0 ELSE s[k-1] + f[k]]
      /\ t = [k \in 0 .. n |-> IF k = 0 THEN 0 ELSE t[k-1] + f[k]]
  BY PrefixSumsEquation DEF IsPrefixSums
<1> HIDE DEF s, t
<1> SUFFICES ASSUME Bad # {} PROVE FALSE
  BY DEF s, t
<1>2. PICK k \in Bad : \A j \in Bad : k <= j
  <2> Bad \in SUBSET Nat
    OBVIOUS
  <2> HIDE DEF Bad
  <2> QED
    BY LeastNatural
<1>3. CASE k = 0
  BY <1>1, <1>2, <1>3
<1>4. CASE k # 0
  <2>1. k - 1 \in 0 .. m /\ k - 1 \notin Bad
    BY <1>2, <1>4
  <2>2. s[k-1] = t[k-1]
    BY <2>1
  <2>3. s[k] = s[k-1] + f[k] /\ t[k] = t[k-1] + f[k]
    BY <1>1, <1>2, <1>4
  <2> QED
    BY <1>2, <2>2, <2>3
<1> QED
  BY <1>3, <1>4

(* The two equations that define a sum. *)
THEOREM SumToEquations ==
  ASSUME NEW f
  PROVE  /\ SumTo(f, 0) = 0
         /\ \A n \in Nat : SumTo(f, n + 1) = SumTo(f, n) + f[n + 1]
<1>1. SumTo(f, 0) = 0
  <2>1. IsPrefixSums(PrefixSums(f, 0), f, 0)
    BY PrefixSumsEquation
  <2> QED
    BY <2>1 DEF SumTo, IsPrefixSums
<1>2. ASSUME NEW n \in Nat
      PROVE  SumTo(f, n + 1) = SumTo(f, n) + f[n + 1]
  <2>1. IsPrefixSums(PrefixSums(f, n + 1), f, n + 1)
    BY PrefixSumsEquation
  <2>2. PrefixSums(f, n + 1)[n + 1] = PrefixSums(f, n + 1)[n] + f[n + 1]
    BY <2>1 DEF IsPrefixSums
  <2>3. PrefixSums(f, n)[n] = PrefixSums(f, n + 1)[n]
    BY PrefixSumsAgree
  <2> QED
    BY <2>2, <2>3 DEF SumTo
<1> QED
  BY <1>1, <1>2

-----------------------------------------------------------------------------
(* Two functions that agree on 1..n except at one point, where they differ *)
(* by d, have sums that differ by d; it is the one fact the ledger needs.  *)
LEMMA SumToType ==
  ASSUME NEW n \in Nat, NEW f \in [1 .. n -> Int]
  PROVE  \A k \in 0 .. n : SumTo(f, k) \in Int
<1> DEFINE Bad == {k \in 0 .. n : SumTo(f, k) \notin Int}
<1> SUFFICES ASSUME Bad # {} PROVE FALSE
  OBVIOUS
<1>1. PICK k \in Bad : \A j \in Bad : k <= j
  <2> Bad \in SUBSET Nat
    OBVIOUS
  <2> HIDE DEF Bad
  <2> QED
    BY LeastNatural
<1>2. k # 0
  BY <1>1, SumToEquations
<1>3. SumTo(f, k - 1) \in Int
  BY <1>1, <1>2
<1>4. SumTo(f, k) = SumTo(f, k - 1) + f[k]
  <2>1. k - 1 \in Nat /\ (k - 1) + 1 = k
    BY <1>1, <1>2
  <2> QED
    BY <2>1, SumToEquations
<1> QED
  BY <1>1, <1>2, <1>3, <1>4

LEMMA SumToSame ==
  ASSUME NEW n \in Nat, NEW f, NEW g, \A k \in 1 .. n : f[k] = g[k]
  PROVE  SumTo(f, n) = SumTo(g, n)
<1> DEFINE Bad == {k \in 0 .. n : SumTo(f, k) # SumTo(g, k)}
<1> SUFFICES ASSUME Bad # {} PROVE FALSE
  OBVIOUS
<1>1. PICK k \in Bad : \A j \in Bad : k <= j
  <2> Bad \in SUBSET Nat
    OBVIOUS
  <2> HIDE DEF Bad
  <2> QED
    BY LeastNatural
<1>2. k # 0
  BY <1>1, SumToEquations
<1>3. SumTo(f, k - 1) = SumTo(g, k - 1)
  BY <1>1, <1>2
<1>4. k - 1 \in Nat /\ (k - 1) + 1 = k
  BY <1>1, <1>2
<1>5. SumTo(f, k) = SumTo(f, k - 1) + f[k]
  BY <1>4, SumToEquations
<1>6. SumTo(g, k) = SumTo(g, k - 1) + g[k]
  BY <1>4, SumToEquations
<1> QED
  BY <1>1, <1>2, <1>3, <1>5, <1>6

(* Adding d to one element of a function adds d to its sum: how the sum of  *)
(* the account balances changes when one account is posted.                *)
THEOREM SumToUpdate ==
  ASSUME NEW n \in Nat,
         NEW f \in [1 .. n -> Int], NEW g \in [1 .. n -> Int],
         NEW a \in 1 .. n, NEW d \in Int,
         g[a] = f[a] + d,
         \A k \in 1 .. n : k # a => g[k] = f[k]
  PROVE  SumTo(g, n) = SumTo(f, n) + d
<1> DEFINE Bad == {k \in a .. n : SumTo(g, k) # SumTo(f, k) + d}
<1>t. \A k \in 0 .. n : SumTo(f, k) \in Int /\ SumTo(g, k) \in Int
  BY SumToType
<1> SUFFICES ASSUME Bad # {} PROVE FALSE
  OBVIOUS
<1>1. PICK k \in Bad : \A j \in Bad : k <= j
  <2> Bad \in SUBSET Nat
    OBVIOUS
  <2> HIDE DEF Bad
  <2> QED
    BY LeastNatural
<1>2. k - 1 \in Nat /\ (k - 1) + 1 = k /\ k - 1 \in 0 .. n
  BY <1>1
<1>3. SumTo(f, k) = SumTo(f, k - 1) + f[k]
  BY <1>2, SumToEquations
<1>4. SumTo(g, k) = SumTo(g, k - 1) + g[k]
  BY <1>2, SumToEquations
<1>5. CASE k = a
  <2>1. SumTo(f, k - 1) = SumTo(g, k - 1)
    BY <1>2, <1>5, SumToSame
  <2> QED
    BY <1>1, <1>2, <1>3, <1>4, <1>5, <1>t, <2>1
<1>6. CASE k # a
  <2>1. SumTo(g, k - 1) = SumTo(f, k - 1) + d
    BY <1>1, <1>2, <1>6
  <2> QED
    BY <1>1, <1>2, <1>3, <1>4, <1>6, <1>t, <2>1
<1> QED
  BY <1>5, <1>6

LEMMA SumToZero ==
  ASSUME NEW n \in Nat, NEW f, \A k \in 1 .. n : f[k] = 0
  PROVE  SumTo(f, n) = 0
<1> DEFINE Bad == {k \in 0 .. n : SumTo(f, k) # 0}
<1> SUFFICES ASSUME Bad # {} PROVE FALSE
  OBVIOUS
<1>1. PICK k \in Bad : \A j \in Bad : k <= j
  <2> Bad \in SUBSET Nat
    OBVIOUS
  <2> HIDE DEF Bad
  <2> QED
    BY LeastNatural
<1>2. k # 0
  BY <1>1, SumToEquations
<1>3. SumTo(f, k - 1) = 0
  BY <1>1, <1>2
<1>4. k - 1 \in Nat /\ (k - 1) + 1 = k
  BY <1>1, <1>2
<1>5. SumTo(f, k) = SumTo(f, k - 1) + f[k]
  BY <1>4, SumToEquations
<1> QED
  BY <1>1, <1>2, <1>3, <1>5

-----------------------------------------------------------------------------
THEOREM LedgerTypeCorrect == Spec => []TypeOK
<1> USE LedgerAssumption DEF LedgerAssumption, TypeOK
<1>1. Init => TypeOK
  BY DEF Init, Stages
<1>2. TypeOK /\ [Next]_vars => TypeOK'
  <2> SUFFICES ASSUME TypeOK, [Next]_vars PROVE TypeOK'
    OBVIOUS
  <2>1. CASE UNCHANGED vars
    BY <2>1 DEF vars
  <2>2. ASSUME NEW p \in Payments, Accept(p) \/ Confirm(p) PROVE TypeOK'
    BY <2>2 DEF Accept, Confirm, Advance, Stages
  <2>3. ASSUME NEW p \in Payments, Debit(p) PROVE TypeOK'
    BY <2>3 DEF Debit, Advance, Post, Stages
  <2>4. ASSUME NEW p \in Payments, Credit(p) PROVE TypeOK'
    BY <2>4 DEF Credit, Advance, Post, Stages
  <2> QED
    BY <2>1, <2>2, <2>3, <2>4 DEF Next
<1> QED
  BY <1>1, <1>2, PTL DEF Spec

(* Every step moves as much between the accounts as it moves in transit,   *)
(* so that the two sums change by opposite amounts or not at all.          *)
LEMMA StepConserves ==
  TypeOK /\ TypeOK' /\ Conservation /\ [Next]_vars => Conservation'
<1> SUFFICES ASSUME TypeOK, TypeOK', Conservation, [Next]_vars
             PROVE  Conservation'
  OBVIOUS
<1>n. NumAccounts \in Nat /\ NumPayments \in Nat
  BY LedgerAssumption DEF LedgerAssumption
<1>p. ASSUME NEW p \in Payments
      PROVE  From[p] \in Accounts /\ To[p] \in Accounts /\ Amount[p] \in Int
  BY LedgerAssumption DEF LedgerAssumption
<1>a. balance \in [1 .. NumAccounts -> Int] /\ balance' \in [1 .. NumAccounts -> Int]
  BY DEF TypeOK, Accounts
<1>b. /\ InTransit \in [1 .. NumPayments -> Int]
      /\ InTransit' \in [1 .. NumPayments -> Int]
  BY <1>p DEF InTransit, Payments
<1>c. /\ SumTo(balance, NumAccounts) \in Int
      /\ SumTo(InTransit, NumPayments) \in Int
  <2>1. NumAccounts \in 0 .. NumAccounts /\ NumPayments \in 0 .. NumPayments
    BY <1>n
  <2>2. SumTo(balance, NumAccounts) \in Int
    BY ONLY <1>n, <1>a, <2>1, SumToType
  <2>3. SumTo(InTransit, NumPayments) \in Int
    BY ONLY <1>n, <1>b, <2>1, SumToType
  <2> QED
    BY <2>2, <2>3
<1>1. CASE UNCHANGED vars
  <2>1. InTransit' = InTransit /\ balance' = balance
    BY <1>1 DEF vars, InTransit
  <2> QED
    BY <2>1 DEF Conservation
<1>2. ASSUME NEW p \in Payments, Accept(p) \/ Confirm(p)
      PROVE  Conservation'
  <2>1. balance' = balance
    BY <1>2 DEF Accept, Confirm
  <2>2. InTransit' = InTransit
    BY <1>2 DEF Accept, Confirm, Advance, InTransit, TypeOK
  <2> QED
    BY <2>1, <2>2 DEF Conservation
<1>3. ASSUME NEW p \in Payments, Debit(p)
      PROVE  Conservation'
  <2>1. SumTo(balance', NumAccounts) = SumTo(balance, NumAccounts) + (-Amount[p])
    <3>1. /\ balance'[From[p]] = balance[From[p]] + (-Amount[p])
          /\ \A k \in 1 .. NumAccounts : k # From[p] => balance'[k] = balance[k]
      BY <1>3, <1>a, <1>p DEF Debit, Post, Accounts
    <3>2. From[p] \in 1 .. NumAccounts /\ -Amount[p] \in Int
      BY <1>p DEF Accounts
    <3> QED
      BY ONLY <1>n, <1>a, <3>1, <3>2, SumToUpdate
  <2>2. SumTo(InTransit', NumPayments) = SumTo(InTransit, NumPayments) + Amount[p]
    <3>1. /\ InTransit'[p] = InTransit[p] + Amount[p]
          /\ \A k \in 1 .. NumPayments : k # p => InTransit'[k] = InTransit[k]
      BY <1>3, <1>p DEF Debit, Advance, InTransit, TypeOK, Payments
    <3>2. p \in 1 .. NumPayments /\ Amount[p] \in Int
      BY <1>p DEF Payments
    <3> QED
      BY ONLY <1>n, <1>b, <3>1, <3>2, SumToUpdate
  <2> QED
    BY <2>1, <2>2, <1>c, <1>p DEF Conservation
<1>4. ASSUME NEW p \in Payments, Credit(p)
      PROVE  Conservation'
  <2>1. SumTo(balance', NumAccounts) = SumTo(balance, NumAccounts) + Amount[p]
    <3>1. /\ balance'[To[p]] = balance[To[p]] + Amount[p]
          /\ \A k \in 1 .. NumAccounts : k # To[p] => balance'[k] = balance[k]
      BY <1>4, <1>a, <1>p DEF Credit, Post, Accounts
    <3>2. To[p] \in 1 .. NumAccounts /\ Amount[p] \in Int
      BY <1>p DEF Accounts
    <3> QED
      BY ONLY <1>n, <1>a, <3>1, <3>2, SumToUpdate
  <2>2. SumTo(InTransit', NumPayments) = SumTo(InTransit, NumPayments) + (-Amount[p])
    <3>1. /\ InTransit'[p] = InTransit[p] + (-Amount[p])
          /\ \A k \in 1 .. NumPayments : k # p => InTransit'[k] = InTransit[k]
      BY <1>4, <1>p DEF Credit, Advance, InTransit, TypeOK, Payments
    <3>2. p \in 1 .. NumPayments /\ -Amount[p] \in Int
      BY <1>p DEF Payments
    <3> QED
      BY ONLY <1>n, <1>b, <3>1, <3>2, SumToUpdate
  <2> QED
    BY <2>1, <2>2, <1>c, <1>p DEF Conservation
<1> QED
  BY <1>1, <1>2, <1>3, <1>4 DEF Next

(* No behaviour of the ledger makes or loses money: the accounts and the   *)
(* money between two accounts always add up to nothing.                    *)
THEOREM LedgerConserves == Spec => []Conservation
<1>1. Init => Conservation
  <2> SUFFICES ASSUME Init PROVE Conservation
    OBVIOUS
  <2>1. SumTo(balance, NumAccounts) = 0
    BY LedgerAssumption, SumToZero DEF LedgerAssumption, Init, Accounts
  <2>2. SumTo(InTransit, NumPayments) = 0
    BY LedgerAssumption, SumToZero DEF LedgerAssumption, Init, InTransit, Payments
  <2> QED
    BY <2>1, <2>2 DEF Conservation
<1> QED
  BY <1>1, LedgerTypeCorrect, StepConserves, PTL DEF Spec
=============================================================================
