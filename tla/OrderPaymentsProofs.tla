------------------------- MODULE OrderPaymentsProofs -------------------------
(***************************************************************************)
(* Safety proofs for orders, wallet and payments, for every set of orders, *)
(* payments and adjustments, every price and every amount: types, the      *)
(* books of the wallet, the price of an order, and the refinement of       *)
(* PaymentSettlement.                                                      *)
(***************************************************************************)
EXTENDS OrderPayments, FiniteSetTheorems, TLAPS

-----------------------------------------------------------------------------
(* Totals.  A total is a fold over the domain of a function; the facts     *)
(* below (a fold exists, any element may be taken first, equal functions   *)
(* have equal folds) are shown on a smallest set that would violate them.  *)

Pick(s) == CHOOSE x \in s : TRUE
Step(f, s, g) == IF s = {} THEN 0 ELSE f[Pick(s)] + g[s \ {Pick(s)}]
IntValued(f, S) == \A x \in S : f[x] \in Int
Agree(f, h, S) == \A x \in S : f[x] = h[x]
AnyOrder(f, S, g) == \A s \in SUBSET S : \A x \in s : g[s] = f[x] + g[s \ {x}]
Folds(f, S, g) == g = [s \in SUBSET S |-> Step(f, s, g)]

LEMMA TotalDef == ASSUME NEW f PROVE Total(f) = (CHOOSE g : Folds(f, DOMAIN f, g))[DOMAIN f]
  BY DEF Total, MapThenSumSet, MapThenFoldSet, Folds, Step, Pick

LEMMA LeastNat ==
  ASSUME NEW B \in SUBSET Nat, B # {}
  PROVE  \E m \in B : \A n \in B : m <= n
<1>1. PICK m \in B : \A n \in B : ~ (<<n, m>> \in OpToRel(<, Nat))
  BY NatLessThanWellFounded, WFMin, Zenon
<1>2. \A n \in B : ~ (n < m)
  BY <1>1 DEF OpToRel
<1> QED BY <1>2

LEMMA PickIn == ASSUME NEW s, s # {} PROVE Pick(s) \in s
  BY DEF Pick

LEMMA FoldExists ==
  ASSUME NEW S, IsFiniteSet(S), NEW f, IntValued(f, S)
  PROVE  \E g \in [SUBSET S -> Int] : Folds(f, S, g)
<1> USE DEF IntValued
<1> DEFINE Good(n, g) == \A s \in SUBSET S : Cardinality(s) <= n => g[s] = Step(f, s, g)
           B == {n \in Nat : ~ \E g \in [SUBSET S -> Int] : Good(n, g)}
<1>1. \A s \in SUBSET S : /\ IsFiniteSet(s) /\ Cardinality(s) \in Nat
                          /\ Cardinality(s) = 0 <=> s = {}
  BY FS_Subset, FS_CardinalityType, FS_EmptySet
<1>2. \A s \in SUBSET S : s # {} =>
         /\ Pick(s) \in s
         /\ s \ {Pick(s)} \in SUBSET S
         /\ Cardinality(s \ {Pick(s)}) = Cardinality(s) - 1
  BY <1>1, PickIn, FS_RemoveElement
<1>3. 0 \notin B
  <2> DEFINE z == [s \in SUBSET S |-> 0]
  <2>1. z \in [SUBSET S -> Int]
    OBVIOUS
  <2>2. Good(0, z)
    BY <1>1 DEF Step
  <2> QED BY <2>1, <2>2
<1>4. ASSUME NEW n \in Nat, n \notin B PROVE n + 1 \notin B
  <2> PICK g \in [SUBSET S -> Int] : Good(n, g)
    BY <1>4
  <2> DEFINE h == [s \in SUBSET S |-> IF Cardinality(s) <= n THEN g[s] ELSE Step(f, s, g)]
  <2>1. \A s \in SUBSET S : Step(f, s, g) \in Int
    <3> SUFFICES ASSUME NEW s \in SUBSET S PROVE Step(f, s, g) \in Int
      OBVIOUS
    <3>1. CASE s = {}
      BY <3>1 DEF Step
    <3>2. CASE s # {}
      <4>1. f[Pick(s)] \in Int /\ g[s \ {Pick(s)}] \in Int
        BY <3>2, <1>2
      <4> QED BY <3>2, <4>1 DEF Step
    <3> QED BY <3>1, <3>2
  <2>2. h \in [SUBSET S -> Int]
    BY <2>1
  <2>3. ASSUME NEW s \in SUBSET S, Cardinality(s) <= n + 1 PROVE h[s] = Step(f, s, h)
    <3>1. CASE s = {}
      BY <3>1, <1>1 DEF Step
    <3>2. CASE s # {}
      <4>1. h[s \ {Pick(s)}] = g[s \ {Pick(s)}]
        BY <3>2, <1>2, <1>1, <2>3
      <4>2. Step(f, s, h) = Step(f, s, g)
        BY <4>1 DEF Step
      <4> QED BY <4>2
    <3> QED BY <3>1, <3>2
  <2> HIDE DEF h
  <2> QED BY <2>2, <2>3
<1>5. B = {}
  <2> SUFFICES ASSUME B # {} PROVE FALSE
    OBVIOUS
  <2>1. B \in SUBSET Nat
    OBVIOUS
  <2> HIDE DEF B
  <2>2. PICK m \in B : \A n \in B : m <= n
    BY <2>1, LeastNat
  <2>3. m - 1 \in Nat /\ m - 1 \notin B /\ (m - 1) + 1 = m
    BY <2>1, <2>2, <1>3
  <2> QED BY <2>2, <2>3, <1>4
<1>6. PICK g \in [SUBSET S -> Int] : Good(Cardinality(S), g)
  BY <1>1, <1>5
<1>7. \A s \in SUBSET S : g[s] = Step(f, s, g)
  BY <1>6, <1>1, FS_Subset
<1>8. g = [s \in SUBSET S |-> Step(f, s, g)]
  BY <1>7
<1> QED BY <1>8 DEF Folds

LEMMA SmallestSubset ==
  ASSUME NEW S, IsFiniteSet(S), NEW B \in SUBSET (SUBSET S), B # {}
  PROVE  \E s \in B : \A t \in B : t \subseteq s => t = s
<1>1. IsWellFoundedOn(StrictSubsetOrdering(S), FiniteSubsetsOf(S))
  BY FS_StrictSubsetOrderingWellFounded
<1>2. B \subseteq FiniteSubsetsOf(S)
  BY FS_FiniteSubsetsOfFinite
<1>3. PICK s \in B : \A t \in B : ~ (<<t, s>> \in StrictSubsetOrdering(S))
  BY <1>1, <1>2, WFMin, Zenon
<1> QED BY <1>3 DEF StrictSubsetOrdering

(* The empty set folds to 0; another set to one element and the rest.      *)
LEMMA FoldStep ==
  ASSUME NEW S, NEW f, NEW g, Folds(f, S, g)
  PROVE  /\ g[{}] = 0
         /\ \A s \in SUBSET S : s # {} => /\ Pick(s) \in s
                                          /\ s \ {Pick(s)} \in SUBSET S
                                          /\ g[s] = f[Pick(s)] + g[s \ {Pick(s)}]
<1>1. \A s \in SUBSET S : g[s] = Step(f, s, g)
  BY DEF Folds
<1>2. g[{}] = Step(f, {}, g)
  BY <1>1
<1>3. g[{}] = 0
  BY <1>2 DEF Step
<1>4. ASSUME NEW s \in SUBSET S, s # {} PROVE g[s] = f[Pick(s)] + g[s \ {Pick(s)}]
  BY <1>1, <1>4 DEF Step
<1> QED BY <1>3, <1>4, PickIn

(* A fold of integers is an integer.                                       *)
LEMMA FoldInt ==
  ASSUME NEW S, IsFiniteSet(S), NEW f, IntValued(f, S), NEW g, Folds(f, S, g)
  PROVE  \A s \in SUBSET S : g[s] \in Int
<1> USE DEF IntValued
<1> DEFINE B == {s \in SUBSET S : g[s] \notin Int}
<1>1. B \in SUBSET (SUBSET S)
  OBVIOUS
<1>2. SUFFICES ASSUME B # {} PROVE FALSE
  OBVIOUS
<1> HIDE DEF B
<1>3. PICK s \in B : \A t \in B : t \subseteq s => t = s
  BY <1>1, <1>2, SmallestSubset
<1> USE DEF B
<1>4. s \in SUBSET S /\ g[s] \notin Int /\ s # {}
  BY FoldStep
<1>5. Pick(s) \in s /\ s \ {Pick(s)} \in SUBSET S /\ g[s] = f[Pick(s)] + g[s \ {Pick(s)}]
  BY <1>4, FoldStep
<1>6. g[s \ {Pick(s)}] \in Int
  BY <1>3, <1>5
<1>7. f[Pick(s)] \in Int
  BY <1>4, <1>5
<1> QED BY <1>4, <1>5, <1>6, <1>7

(* Any element may be taken out first.                                     *)
LEMMA FoldAnyOrder ==
  ASSUME NEW S, IsFiniteSet(S), NEW f, IntValued(f, S), NEW g, Folds(f, S, g)
  PROVE  AnyOrder(f, S, g)
<1> USE DEF AnyOrder, IntValued
<1> DEFINE B == {s \in SUBSET S : \E x \in s : g[s] # f[x] + g[s \ {x}]}
<1>1. B \in SUBSET (SUBSET S)
  OBVIOUS
<1>2. SUFFICES ASSUME B # {} PROVE FALSE
  OBVIOUS
<1> HIDE DEF B
<1>3. PICK s \in B : \A t \in B : t \subseteq s => t = s
  BY <1>1, <1>2, SmallestSubset
<1> USE DEF B
<1>4. PICK x \in s : g[s] # f[x] + g[s \ {x}]
  OBVIOUS
<1>a. s \in SUBSET S /\ s # {}
  BY <1>4
<1> DEFINE y == Pick(s)
<1>5. s \in SUBSET S /\ y \in s /\ g[s] = f[y] + g[s \ {y}]
  BY <1>a, FoldStep
<1> HIDE DEF y
<1>6. x # y
  BY <1>4, <1>5
<1>7. s \ {y} \notin B /\ s \ {x} \notin B
  BY <1>3, <1>5
<1>8. g[s \ {y}] = f[x] + g[(s \ {y}) \ {x}]
  BY <1>5, <1>7, <1>6
<1>9. g[s \ {x}] = f[y] + g[(s \ {x}) \ {y}]
  BY <1>5, <1>7, <1>6
<1>10. (s \ {y}) \ {x} = (s \ {x}) \ {y}
  OBVIOUS
<1>11. f[x] \in Int /\ f[y] \in Int
  BY <1>5
<1>12. g[(s \ {x}) \ {y}] \in Int
  BY <1>5, FoldInt
<1>13. g[s] = f[x] + g[s \ {x}]
  <2> DEFINE r == g[(s \ {x}) \ {y}]
  <2>1. g[s \ {y}] = f[x] + r /\ g[s \ {x}] = f[y] + r
    BY <1>8, <1>9, <1>10
  <2>2. r \in Int
    BY <1>12
  <2> HIDE DEF r, B
  <2>3. g[s] = f[y] + (f[x] + r)
    BY <1>5, <2>1
  <2>4. f[y] + (f[x] + r) = f[x] + (f[y] + r)
    BY <1>11, <2>2
  <2> QED BY <2>1, <2>3, <2>4
<1> QED BY <1>4, <1>13

(* Functions that agree on a set have the same fold of it.                 *)
LEMMA FoldAgree ==
  ASSUME NEW S, NEW T, IsFiniteSet(S), NEW f, NEW g, NEW h, NEW k,
         Folds(f, S, g), Folds(h, T, k),
         NEW U \in SUBSET (S \cap T), Agree(f, h, U)
  PROVE  g[U] = k[U]
<1> USE DEF Agree
<1> DEFINE B == {s \in SUBSET U : g[s] # k[s]}
<1>1. B \in SUBSET (SUBSET U) /\ IsFiniteSet(U)
  BY FS_Subset
<1>2. SUFFICES ASSUME B # {} PROVE FALSE
  OBVIOUS
<1> HIDE DEF B
<1>3. PICK s \in B : \A t \in B : t \subseteq s => t = s
  BY <1>1, <1>2, SmallestSubset
<1> USE DEF B
<1>4. s \in SUBSET S /\ s \in SUBSET T /\ g[s] # k[s]
  OBVIOUS
<1>5. g[{}] = 0 /\ k[{}] = 0
  BY FoldStep
<1>6. s # {}
  BY <1>4, <1>5
<1>7. Pick(s) \in s
  BY <1>6, PickIn
<1>8. g[s] = f[Pick(s)] + g[s \ {Pick(s)}]
  BY <1>4, <1>6, FoldStep
<1>9. k[s] = h[Pick(s)] + k[s \ {Pick(s)}]
  BY <1>4, <1>6, FoldStep
<1>10. g[s \ {Pick(s)}] = k[s \ {Pick(s)}]
  BY <1>3, <1>7
<1>11. f[Pick(s)] = h[Pick(s)]
  BY <1>7
<1> QED BY <1>4, <1>8, <1>9, <1>10, <1>11

LEMMA TotalFold ==
  ASSUME NEW S, IsFiniteSet(S), NEW f \in [S -> Int]
  PROVE  \E g : Folds(f, S, g) /\ Total(f) = g[S]
<1> DEFINE g == CHOOSE g : Folds(f, S, g)
<1>a. IntValued(f, S)
  BY DEF IntValued
<1>1. Folds(f, S, g)
  BY <1>a, FoldExists
<1>2. Total(f) = g[S]
  BY TotalDef
<1> HIDE DEF g
<1> QED BY <1>1, <1>2

LEMMA TotalInt ==
  ASSUME NEW S, IsFiniteSet(S), NEW f \in [S -> Int]
  PROVE  Total(f) \in Int
<1>1. PICK g : Folds(f, S, g) /\ Total(f) = g[S]
  BY TotalFold
<1>a. IntValued(f, S)
  BY DEF IntValued
<1>2. \A s \in SUBSET S : g[s] \in Int
  BY <1>1, <1>a, FoldInt
<1> QED BY <1>1, <1>2

(* A change at one place changes the total by as much.                     *)
LEMMA TotalUpdate ==
  ASSUME NEW S, IsFiniteSet(S), NEW f \in [S -> Int], NEW h \in [S -> Int], NEW x \in S,
         \A y \in S \ {x} : h[y] = f[y]
  PROVE  Total(h) = Total(f) - f[x] + h[x]
<1>1. PICK g : Folds(f, S, g) /\ Total(f) = g[S]
  BY TotalFold
<1>2. PICK k : Folds(h, S, k) /\ Total(h) = k[S]
  BY TotalFold
<1>a. IntValued(f, S) /\ IntValued(h, S)
  BY DEF IntValued
<1>3. AnyOrder(f, S, g)
  BY <1>1, <1>a, FoldAnyOrder
<1>4. AnyOrder(h, S, k)
  BY <1>2, <1>a, FoldAnyOrder
<1>5. g[S] = f[x] + g[S \ {x}] /\ k[S] = h[x] + k[S \ {x}]
  BY <1>3, <1>4 DEF AnyOrder
<1>6. g[S \ {x}] = k[S \ {x}]
  <2> DEFINE U == S \ {x}
  <2>1. U \in SUBSET (S \cap S) /\ Agree(f, h, U)
    BY DEF Agree
  <2> HIDE DEF U
  <2>2. g[U] = k[U]
    BY <1>1, <1>2, <2>1, FoldAgree
  <2> QED BY <2>2 DEF U
<1>7. g[S \ {x}] \in Int
  BY <1>1, <1>a, FoldInt
<1>8. f[x] \in Int /\ h[x] \in Int
  OBVIOUS
<1> QED BY <1>1, <1>2, <1>5, <1>6, <1>7, <1>8

LEMMA TotalEmpty == ASSUME NEW f \in [{} -> Int] PROVE Total(f) = 0
<1>1. PICK g : Folds(f, {}, g) /\ Total(f) = g[{}]
  BY TotalFold, FS_EmptySet
<1> QED BY <1>1, FoldStep

LEMMA TotalSingle == ASSUME NEW x, NEW f \in [{x} -> Int] PROVE Total(f) = f[x]
<1>0. IsFiniteSet({x})
  BY FS_Singleton
<1>1. PICK g : Folds(f, {x}, g) /\ Total(f) = g[{x}]
  BY <1>0, TotalFold
<1>a. IntValued(f, {x})
  BY DEF IntValued
<1>2. AnyOrder(f, {x}, g)
  BY <1>0, <1>1, <1>a, FoldAnyOrder
<1>3. g[{x}] = f[x] + g[{x} \ {x}]
  BY <1>2 DEF AnyOrder
<1>4. g[{}] = 0 /\ {x} \ {x} = {}
  BY <1>1, FoldStep
<1> QED BY <1>1, <1>3, <1>4

LEMMA TotalPair ==
  ASSUME NEW x, NEW y, x # y, NEW f \in [{x, y} -> Int]
  PROVE  Total(f) = f[x] + f[y]
<1>0. IsFiniteSet({x, y})
  <2>1. IsFiniteSet({x} \cup {y})
    BY FS_Singleton, FS_AddElement
  <2>2. {x} \cup {y} = {x, y}
    OBVIOUS
  <2> QED BY <2>1, <2>2
<1>1. PICK g : Folds(f, {x, y}, g) /\ Total(f) = g[{x, y}]
  BY <1>0, TotalFold
<1>a. IntValued(f, {x, y})
  BY DEF IntValued
<1>2. AnyOrder(f, {x, y}, g)
  BY <1>0, <1>1, <1>a, FoldAnyOrder
<1>3. g[{x, y}] = f[x] + g[{x, y} \ {x}]
  BY <1>2 DEF AnyOrder
<1>4. {x, y} \ {x} = {y} /\ {y} \ {y} = {}
  OBVIOUS
<1>5. g[{y}] = f[y] + g[{y} \ {y}]
  BY <1>2 DEF AnyOrder
<1>6. g[{}] = 0
  BY <1>1, FoldStep
<1>7. g[{y}] = f[y]
  BY <1>4, <1>5, <1>6
<1> QED BY <1>1, <1>3, <1>4, <1>7

LEMMA TotalZero ==
  ASSUME NEW S, IsFiniteSet(S), NEW f \in [S -> Int], \A x \in S : f[x] = 0
  PROVE  Total(f) = 0
<1>1. PICK g : Folds(f, S, g) /\ Total(f) = g[S]
  BY TotalFold
<1> DEFINE B == {s \in SUBSET S : g[s] # 0}
<1>2. B \in SUBSET (SUBSET S)
  OBVIOUS
<1>3. SUFFICES ASSUME B # {} PROVE FALSE
  BY <1>1
<1> HIDE DEF B
<1>4. PICK s \in B : \A t \in B : t \subseteq s => t = s
  BY <1>2, <1>3, SmallestSubset
<1> USE DEF B
<1>a. g[{}] = 0
  BY <1>1, FoldStep
<1>5. s \in SUBSET S /\ g[s] # 0 /\ s # {}
  BY <1>a
<1>6. Pick(s) \in s /\ g[s] = f[Pick(s)] + g[s \ {Pick(s)}]
  BY <1>1, <1>5, FoldStep
<1>7. g[s \ {Pick(s)}] = 0
  BY <1>4, <1>6
<1> QED BY <1>5, <1>6, <1>7
-----------------------------------------------------------------------------
(* The wallet                                                              *)

LEMMA Sets == /\ IsFiniteSet(Orders) /\ IsFiniteSet(Trades)
              /\ IsFiniteSet(Credits) /\ IsFiniteSet(Debits)
BY PaymentAssumption

LEMMA EntryType ==
  ASSUME NEW key \in EntryKeys, NEW b \in Int, NEW r \in Int
  PROVE  /\ Entry(key, b, r) \in EntryRows
         /\ Entry(key, b, r).key = key
         /\ Entry(key, b, r).balance = b
         /\ Entry(key, b, r).reserved = r
BY DEF Entry, EntryRows

LEMMA KeyType ==
  /\ \A o \in Orders : /\ <<"reserve", o>> \in EntryKeys /\ <<"release", o>> \in EntryKeys
                       /\ <<"capture", o>> \in EntryKeys /\ <<"topup", o>> \in EntryKeys
  /\ \A t \in Trades : <<"receipt", t>> \in EntryKeys
  /\ \A c \in Credits : <<"credit", c>> \in EntryKeys
  /\ \A d \in Debits : <<"debit", d>> \in EntryKeys /\ <<"reversal", d>> \in EntryKeys
BY DEF EntryKeys

(* Entries of the right type leave an account of the right type.           *)
LEMMA AppendType ==
  ASSUME account \in AccountRows, entries \subseteq EntryRows,
         NEW es \in SUBSET EntryRows, IsFiniteSet(es), appendWalletEntries(es)
  PROVE  account' \in AccountRows /\ entries' \subseteq EntryRows
<1>1. IsFiniteSet(Fresh(es)) /\ Fresh(es) \subseteq EntryRows
  BY FS_Subset DEF Fresh
<1>2. /\ [e \in Fresh(es) |-> e.balance] \in [Fresh(es) -> Int]
      /\ [e \in Fresh(es) |-> e.reserved] \in [Fresh(es) -> Int]
  BY <1>1 DEF EntryRows
<1>3. /\ Total([e \in Fresh(es) |-> e.balance]) \in Int
      /\ Total([e \in Fresh(es) |-> e.reserved]) \in Int
  BY <1>1, <1>2, TotalInt
<1>4. Balance(Fresh(es)) \in Int /\ Reserved(Fresh(es)) \in Int
  BY <1>3 DEF Balance, Reserved, AccountRows
<1>5. Balance(Fresh(es)) \in Nat /\ Reserved(Fresh(es)) \in Nat
  BY <1>4 DEF appendWalletEntries
<1>6. account' = [balance |-> Balance(Fresh(es)), reserved |-> Reserved(Fresh(es))]
      /\ entries' = entries \cup es
  BY DEF appendWalletEntries
<1>7. Reserved(Fresh(es)) <= Balance(Fresh(es))
  BY <1>4 DEF appendWalletEntries
<1> QED BY <1>5, <1>6, <1>7 DEF AccountRows

LEMMA AppendNothing ==
  ASSUME account \in AccountRows, appendWalletEntries({})
  PROVE  account' = account /\ entries' = entries
<1>1. Fresh({}) = {}
  BY DEF Fresh
<1>2. /\ [e \in {} |-> e.balance] \in [{} -> Int]
      /\ [e \in {} |-> e.reserved] \in [{} -> Int]
  OBVIOUS
<1>3. Total([e \in {} |-> e.balance]) = 0 /\ Total([e \in {} |-> e.reserved]) = 0
  BY <1>2, TotalEmpty
<1>a. account.balance \in Int /\ account.reserved \in Int
  BY DEF AccountRows
<1>b. Balance({}) = account.balance /\ Reserved({}) = account.reserved
  BY <1>3, <1>a DEF Balance, Reserved
<1>4. account' = [balance |-> account.balance, reserved |-> account.reserved]
  BY <1>1, <1>b DEF appendWalletEntries
<1> QED BY <1>4 DEF appendWalletEntries, AccountRows

(* What a new entry does to the account.                                   *)
LEMMA AppendOne ==
  ASSUME account \in AccountRows, NEW e \in EntryRows, ~Booked(e.key), appendWalletEntries({e})
  PROVE  /\ account'.balance = account.balance + e.balance
         /\ account'.reserved = account.reserved + e.reserved
         /\ account'.reserved <= account'.balance
         /\ entries' = entries \cup {e}
<1>1. Fresh({e}) = {e}
  BY DEF Fresh
<1>2. /\ [x \in {e} |-> x.balance] \in [{e} -> Int]
      /\ [x \in {e} |-> x.reserved] \in [{e} -> Int]
  BY DEF EntryRows
<1>3. /\ Total([x \in {e} |-> x.balance]) = e.balance
      /\ Total([x \in {e} |-> x.reserved]) = e.reserved
  BY <1>2, TotalSingle
<1> QED BY <1>1, <1>3 DEF appendWalletEntries, Balance, Reserved

LEMMA AppendTwo ==
  ASSUME account \in AccountRows, NEW e \in EntryRows, NEW f \in EntryRows,
         ~Booked(e.key), ~Booked(f.key), e # f, appendWalletEntries({e, f})
  PROVE  /\ account'.balance = account.balance + (e.balance + f.balance)
         /\ account'.reserved = account.reserved + (e.reserved + f.reserved)
         /\ account'.reserved <= account'.balance
         /\ entries' = entries \cup {e, f}
<1>1. Fresh({e, f}) = {e, f}
  BY DEF Fresh
<1>2. /\ [x \in {e, f} |-> x.balance] \in [{e, f} -> Int]
      /\ [x \in {e, f} |-> x.reserved] \in [{e, f} -> Int]
  BY DEF EntryRows
<1>3. /\ Total([x \in {e, f} |-> x.balance]) = e.balance + f.balance
      /\ Total([x \in {e, f} |-> x.reserved]) = e.reserved + f.reserved
  <2> DEFINE b == [x \in {e, f} |-> x.balance]
             r == [x \in {e, f} |-> x.reserved]
  <2>1. b[e] = e.balance /\ b[f] = f.balance /\ r[e] = e.reserved /\ r[f] = f.reserved
    OBVIOUS
  <2>2. b \in [{e, f} -> Int] /\ r \in [{e, f} -> Int]
    BY <1>2
  <2> HIDE DEF b, r
  <2>3. Total(b) = b[e] + b[f] /\ Total(r) = r[e] + r[f]
    BY <2>2, TotalPair
  <2> QED BY <2>1, <2>3 DEF b, r
<1> QED BY <1>1, <1>3 DEF appendWalletEntries, Balance, Reserved

-----------------------------------------------------------------------------
(* Types                                                                   *)

LEMMA LifetimeType == Lifetime \in Nat \ {0} /\ 0 \in 0..Lifetime /\ Lifetime \in 0..Lifetime
BY PaymentAssumption

LEMMA PriceType == \A o \in Orders : Price[o] \in Nat
BY PaymentAssumption

LEMMA AmountType == \A k \in Credits \cup Debits : Amount[k] \in Nat \ {0}
BY PaymentAssumption

LEMMA MinOfTwo ==
  ASSUME NEW m \in Int, NEW n \in Int
  PROVE  /\ Min({m, n}) \in {m, n}
         /\ Min({m, n}) <= m /\ Min({m, n}) <= n
<1>1. \E x \in {m, n} : \A y \in {m, n} : x <= y
  OBVIOUS
<1> QED BY <1>1 DEF Min

LEMMA ReleaseEntriesType ==
  ASSUME funds \in [Orders -> FundRows], NEW o \in Orders
  PROVE  ReleaseEntries(o) \subseteq EntryRows /\ IsFiniteSet(ReleaseEntries(o))
<1>1. Entry(<<"release", o>>, 0, -funds[o].wallet) \in EntryRows
  <2>1. <<"release", o>> \in EntryKeys
    BY KeyType
  <2>2. funds[o].wallet \in Nat
    BY DEF FundRows
  <2>3. 0 \in Int /\ -funds[o].wallet \in Int
    BY <2>2
  <2> QED BY <2>1, <2>3, EntryType
<1> QED BY <1>1, FS_Singleton, FS_EmptySet DEF ReleaseEntries

LEMMA CaptureEntriesType ==
  ASSUME funds \in [Orders -> FundRows], NEW o \in Orders
  PROVE  CaptureEntries(o) \subseteq EntryRows /\ IsFiniteSet(CaptureEntries(o))
<1>1. Entry(<<"capture", o>>, -funds[o].wallet, -funds[o].wallet) \in EntryRows
  <2>1. <<"capture", o>> \in EntryKeys
    BY KeyType
  <2>2. funds[o].wallet \in Nat
    BY DEF FundRows
  <2>3. -funds[o].wallet \in Int
    BY <2>2
  <2> QED BY <2>1, <2>3, EntryType
<1> QED BY <1>1, FS_Singleton, FS_EmptySet DEF CaptureEntries

LEMMA TopUpEntryType ==
  ASSUME NEW o \in Orders
  PROVE  Entry(<<"topup", o>>, Price[o], 0) \in EntryRows
<1>1. <<"topup", o>> \in EntryKeys
  BY KeyType
<1>2. Price[o] \in Int /\ 0 \in Int
  BY PriceType
<1> QED BY <1>1, <1>2, EntryType

(* releaseOrderFunding keeps the types of what it writes, whoever holds    *)
(* the lease of a discount.                                                *)
LEMMA ReleaseType ==
  ASSUME NEW H, funds \in [Orders -> FundRows], intents \in [Discounted -> IntentRows(H)],
         NEW o \in Orders, releaseOrderFunding(o)
  PROVE  funds' \in [Orders -> FundRows] /\ intents' \in [Discounted -> IntentRows(H)]
<1>1. ReleaseFund(o) \in [Orders -> FundRows]
  BY LifetimeType DEF ReleaseFund, FundRows
<1>2. ReleaseIntent(o) \in [Discounted -> IntentRows(H)]
  BY DEF ReleaseIntent, IntentRows
<1> QED BY <1>1, <1>2 DEF releaseOrderFunding

LEMMA SetPaidType ==
  ASSUME NEW H, orders \in [Orders -> OrderRows], funds \in [Orders -> FundRows],
         intents \in [Discounted -> IntentRows(H)], grants \in [Orders -> Nat],
         account \in AccountRows, entries \subseteq EntryRows,
         NEW o \in Orders, NEW channel \in Channels \cup Providers \cup {None, "wallet"},
         NEW trade \in Trades \cup {None}, setPaid(o, channel, trade)
  PROVE  /\ orders' \in [Orders -> OrderRows] /\ funds' \in [Orders -> FundRows]
         /\ intents' \in [Discounted -> IntentRows(H)] /\ grants' \in [Orders -> Nat]
         /\ account' \in AccountRows /\ entries' \subseteq EntryRows
<1>1. orders' \in [Orders -> OrderRows]
  BY PriceType DEF setPaid, OrderRows, Statuses
<1>2. funds' \in [Orders -> FundRows]
  BY LifetimeType DEF setPaid, CaptureFund, FundRows
<1>3. intents' \in [Discounted -> IntentRows(H)]
  BY DEF setPaid, CommitIntent, IntentRows
<1>4. grants' \in [Orders -> Nat]
  BY DEF setPaid
<1>5. account' \in AccountRows /\ entries' \subseteq EntryRows
  <2> DEFINE topup == IF o \in TopUps THEN {Entry(<<"topup", o>>, Price[o], 0)} ELSE {}
  <2>1. topup \subseteq EntryRows /\ IsFiniteSet(topup)
    BY TopUpEntryType, FS_Singleton, FS_EmptySet
  <2>2. appendWalletEntries(CaptureEntries(o) \cup topup)
    BY DEF setPaid
  <2> HIDE DEF topup
  <2>3. CaptureEntries(o) \cup topup \subseteq EntryRows /\ IsFiniteSet(CaptureEntries(o) \cup topup)
    BY <2>1, CaptureEntriesType, FS_Union
  <2> QED BY <2>2, <2>3, AppendType
<1> QED BY <1>1, <1>2, <1>3, <1>4, <1>5

LEMMA AppendOneType ==
  ASSUME account \in AccountRows, entries \subseteq EntryRows,
         NEW key \in EntryKeys, NEW b \in Int, NEW r \in Int,
         appendWalletEntries({Entry(key, b, r)})
  PROVE  account' \in AccountRows /\ entries' \subseteq EntryRows
<1>1. {Entry(key, b, r)} \subseteq EntryRows /\ IsFiniteSet({Entry(key, b, r)})
  BY EntryType, FS_Singleton
<1> QED BY <1>1, AppendType

LEMMA InitType == Init => TypeOK
BY LifetimeType DEF Init, TypeOK, Typed, OrderRows, FundRows, IntentRows, ReceiptRows, AccountRows,
   AdjustmentRows, NoOrder, NoFund, NoIntent, NoReceipt, Statuses

(* Every transaction on an order keeps the types.                          *)
LEMMA OrderType ==
  ASSUME NEW H, None \in H, Typed(H), NEW o \in Orders, OrderStep(o)
  PROVE  Typed(H)'
<1> USE DEF Typed
<1>1. ASSUME NEW channel \in Channels, Create(o, channel) PROVE Typed(H)'
  <2>1. orders' \in [Orders -> OrderRows]
    BY <1>1 DEF Create, OrderRows, Statuses, Open
  <2>2. NewIntent \in IntentRows(H)
    BY LifetimeType DEF NewIntent, NoIntent, IntentRows
  <2>3. intents' \in [Discounted -> IntentRows(H)]
    BY <1>1, <2>2 DEF Create
  <2> QED BY <1>1, <2>1, <2>3 DEF Create, ledger
<1>2. ASSUME NEW balance \in BOOLEAN, Configure(o, balance) PROVE Typed(H)'
  <2> DEFINE wallet == IF balance THEN Min({Available, Price[o]}) ELSE 0
             es == IF wallet > 0 THEN {Entry(<<"reserve", o>>, 0, wallet)} ELSE {}
  <2>1. wallet \in Nat /\ wallet <= Price[o]
    <3>1. Available \in Nat /\ Price[o] \in Nat
      BY PriceType DEF Available, AccountRows
    <3>2. Min({Available, Price[o]}) \in {Available, Price[o]}
          /\ Min({Available, Price[o]}) <= Price[o]
      <4>1. Available \in Int /\ Price[o] \in Int
        BY <3>1
      <4> QED BY <4>1, MinOfTwo
    <3> QED BY <3>1, <3>2
  <2>2. es \subseteq EntryRows /\ IsFiniteSet(es)
    <3>1. <<"reserve", o>> \in EntryKeys
      BY KeyType
    <3>2. Entry(<<"reserve", o>>, 0, wallet) \in EntryRows
      BY <2>1, <3>1, EntryType
    <3> QED BY <3>2, FS_Singleton, FS_EmptySet
  <2>3. appendWalletEntries(es) /\ funds' = [funds EXCEPT ![o] = [state |-> "reserved",
           balance |-> balance, wallet |-> wallet, cash |-> Price[o] - wallet, left |-> Lifetime]]
    BY <1>2 DEF Configure
  <2> HIDE DEF wallet, es
  <2>4. account' \in AccountRows /\ entries' \subseteq EntryRows
    BY <2>2, <2>3, AppendType
  <2>5. funds' \in [Orders -> FundRows]
    BY <2>1, <2>3, PriceType, LifetimeType DEF FundRows
  <2> QED BY <1>2, <2>4, <2>5 DEF Configure
<1>3. CASE Pay(o)
  <2>1. "wallet" \in Channels \cup Providers \cup {None, "wallet"} /\ orders[o].trade \in Trades \cup {None}
    BY DEF OrderRows
  <2>2. setPaid(o, "wallet", orders[o].trade)
    BY <1>3 DEF Pay
  <2> QED BY <1>3, <2>1, <2>2, SetPaidType DEF Pay
<1>4. ASSUME NEW status \in Open \cup {"canceled"}, releaseOrderFunding(o),
             appendWalletEntries(ReleaseEntries(o)),
             orders' = [orders EXCEPT ![o].status = status],
             UNCHANGED <<receipts, attempts, adjustments, grants>>, notified' \subseteq Orders
      PROVE  Typed(H)'
  <2>1. account' \in AccountRows /\ entries' \subseteq EntryRows
    BY <1>4, ReleaseEntriesType, AppendType
  <2>2. funds' \in [Orders -> FundRows] /\ intents' \in [Discounted -> IntentRows(H)]
    BY <1>4, ReleaseType
  <2>3. orders' \in [Orders -> OrderRows]
    BY <1>4 DEF OrderRows, Statuses
  <2> QED BY <1>4, <2>1, <2>2, <2>3
<1>5. CASE Expire(o)
  BY <1>4, <1>5 DEF Expire
<1>6. ASSUME NEW status \in {"failed", "canceled"}, NEW force \in BOOLEAN, Close(o, status, force)
      PROVE  Typed(H)'
  BY <1>4, <1>6 DEF Close, Open
<1>7. ASSUME NEW force \in BOOLEAN, Settle(o, force) PROVE Typed(H)'
  <2>1. orders[o].channel \in Channels \cup Providers \cup {None, "wallet"}
        /\ orders[o].trade \in Trades \cup {None}
    BY DEF OrderRows
  <2>2. setPaid(o, orders[o].channel, orders[o].trade)
    BY <1>7 DEF Settle
  <2> QED BY <1>7, <2>1, <2>2, SetPaidType DEF Settle
<1>8. ASSUME NEW p \in Providers, OpenCheckout(o, p) PROVE Typed(H)'
  <2>1. Cash(o) \in Nat \ {0}
    BY <1>8, PriceType DEF OpenCheckout, Cash, FundRows
  <2> QED BY <1>8, <2>1 DEF OpenCheckout, AttemptRows, ledger
<1>9. ASSUME NEW t \in Trades, RecordFailed(o, t) PROVE Typed(H)'
  <2>1. account' \in AccountRows /\ entries' \subseteq EntryRows
    BY <1>9, ReleaseEntriesType, AppendType DEF RecordFailed
  <2>2. funds' \in [Orders -> FundRows] /\ intents' \in [Discounted -> IntentRows(H)]
    BY <1>9, ReleaseType DEF RecordFailed
  <2>3. orders' \in [Orders -> OrderRows]
    <3>1. Issuer[t] \in Channels \cup Providers \cup {None, "wallet"} /\ "failed" \in Statuses
      BY DEF Providers, Statuses, Open
    <3>2. orders' = [orders EXCEPT ![o].status = "failed", ![o].channel = Issuer[t], ![o].trade = t]
      BY <1>9 DEF RecordFailed
    <3> DEFINE row == [orders[o] EXCEPT !.status = "failed", !.channel = Issuer[t], !.trade = t]
    <3>3. row \in OrderRows
      BY <3>1 DEF OrderRows
    <3>4. orders' = [orders EXCEPT ![o] = row]
      BY <3>2
    <3> HIDE DEF row
    <3> QED BY <3>3, <3>4
  <2> QED BY <1>9, <2>1, <2>2, <2>3 DEF RecordFailed
<1>10. ASSUME NEW t \in Trades, PaidFactStep(o, t) PROVE Typed(H)'
  <2>0. PICK amount \in {Price[o], funds[o].cash} :
           \/ RepeatReceipt(o, t, amount) \/ BoundReceipt(o, t, amount)
           \/ ReviewReceipt(o, t, amount) \/ FulfillReceipt(o, t, amount)
           \/ CreditReceipt(o, t, amount)
    BY <1>10 DEF PaidFactStep
  <2>1. amount \in Nat
    BY PriceType DEF FundRows
  <2>2. CASE RepeatReceipt(o, t, amount)
    BY <2>2 DEF RepeatReceipt, PaidFact, ledger
  <2>3. CASE BoundReceipt(o, t, amount)
    BY <2>1, <2>3 DEF BoundReceipt, PaidFact, ledger, Dispose, ReceiptRows
  <2>4. CASE ReviewReceipt(o, t, amount)
    BY <2>1, <2>4 DEF ReviewReceipt, PaidFact, ledger, Dispose, ReceiptRows
  <2>5. CASE FulfillReceipt(o, t, amount)
    <3>1. Issuer[t] \in Channels \cup Providers \cup {None, "wallet"} /\ t \in Trades \cup {None}
      BY DEF Providers
    <3>2. setPaid(o, Issuer[t], t)
      BY <2>5 DEF FulfillReceipt
    <3>3. /\ orders' \in [Orders -> OrderRows] /\ funds' \in [Orders -> FundRows]
          /\ intents' \in [Discounted -> IntentRows(H)] /\ grants' \in [Orders -> Nat]
          /\ account' \in AccountRows /\ entries' \subseteq EntryRows
      BY <3>1, <3>2, SetPaidType
    <3>4. receipts' \in [Trades -> ReceiptRows]
      BY <2>1, <2>5 DEF FulfillReceipt, Dispose, ReceiptRows
    <3> QED BY <2>5, <3>3, <3>4 DEF FulfillReceipt, PaidFact
  <2>6. CASE CreditReceipt(o, t, amount)
    <3>1. {Entry(<<"receipt", t>>, amount, 0)} \subseteq EntryRows
          /\ IsFiniteSet({Entry(<<"receipt", t>>, amount, 0)})
      <4>1. <<"receipt", t>> \in EntryKeys
        BY KeyType
      <4>2. Entry(<<"receipt", t>>, amount, 0) \in EntryRows
        BY <2>1, <4>1, EntryType
      <4> QED BY <4>2, FS_Singleton
    <3>2. account' \in AccountRows /\ entries' \subseteq EntryRows
      <4> DEFINE es == ReleaseEntries(o) \cup {Entry(<<"receipt", t>>, amount, 0)}
      <4>1. es \subseteq EntryRows /\ IsFiniteSet(es)
        BY <3>1, ReleaseEntriesType, FS_Union
      <4>2. appendWalletEntries(es)
        BY <2>6 DEF CreditReceipt
      <4> HIDE DEF es
      <4> QED BY <4>1, <4>2, AppendType
    <3>3. funds' \in [Orders -> FundRows] /\ intents' \in [Discounted -> IntentRows(H)]
      BY <2>6, ReleaseType DEF CreditReceipt
    <3>4. orders' \in [Orders -> OrderRows]
      BY <2>6 DEF CreditReceipt, OrderRows, Statuses
    <3>5. receipts' \in [Trades -> ReceiptRows]
      BY <2>1, <2>6 DEF CreditReceipt, Dispose, ReceiptRows
    <3> QED BY <2>6, <3>2, <3>3, <3>4, <3>5 DEF CreditReceipt, PaidFact
  <2> QED BY <2>0, <2>2, <2>3, <2>4, <2>5, <2>6
<1> QED
  BY <1>1, <1>2, <1>3, <1>5, <1>6, <1>7, <1>8, <1>9, <1>10 DEF OrderStep


LEMMA AdjustmentType ==
  ASSUME NEW H, Typed(H), AdjustmentStep
  PROVE  Typed(H)'
<1> USE DEF Typed
<1>1. ASSUME NEW t \in Trades, NEW disposition \in {"wallet_credit", "legacy_applied"},
             Resolve(t, disposition)
      PROVE  Typed(H)'
  <2> DEFINE es == IF disposition = "wallet_credit"
                   THEN {Entry(<<"receipt", t>>, receipts[t].amount, 0)} ELSE {}
  <2>1. <<"receipt", t>> \in EntryKeys /\ receipts[t].amount \in Int /\ 0 \in Int
    BY KeyType DEF ReceiptRows
  <2>2. Entry(<<"receipt", t>>, receipts[t].amount, 0) \in EntryRows
    BY <2>1, EntryType
  <2>3. es \subseteq EntryRows /\ IsFiniteSet(es)
    BY <2>2, FS_Singleton, FS_EmptySet
  <2>4. appendWalletEntries(es)
    BY <1>1 DEF Resolve
  <2> HIDE DEF es
  <2>5. account' \in AccountRows /\ entries' \subseteq EntryRows
    BY <2>3, <2>4, AppendType
  <2>6. receipts' \in [Trades -> ReceiptRows]
    BY <1>1 DEF Resolve, ReceiptRows
  <2> QED BY <1>1, <2>5, <2>6 DEF Resolve
<1>2. ASSUME NEW k \in Credits, Credit(k) PROVE Typed(H)'
  <2>1. <<"credit", k>> \in EntryKeys /\ Amount[k] \in Int /\ 0 \in Int
    BY KeyType, AmountType
  <2>2. account' \in AccountRows /\ entries' \subseteq EntryRows
    BY <1>2, <2>1, AppendOneType DEF Credit
  <2> QED BY <1>2, <2>2 DEF Credit
<1>3. ASSUME NEW d \in Debits, Debit(d) PROVE Typed(H)'
  <2>0. Amount[d] \in Nat
    BY AmountType
  <2>a. <<"debit", d>> \in EntryKeys
    BY KeyType
  <2>1. <<"debit", d>> \in EntryKeys /\ -Amount[d] \in Int /\ 0 \in Int
    BY <2>0, <2>a
  <2>2. account' \in AccountRows /\ entries' \subseteq EntryRows
    BY <1>3, <2>1, AppendOneType DEF Debit
  <2>3. adjustments' \in [Debits -> AdjustmentRows]
    BY <1>3 DEF Debit, AdjustmentRows
  <2> QED BY <1>3, <2>2, <2>3 DEF Debit
<1>4. ASSUME NEW d \in Debits, Reverse(d) PROVE Typed(H)'
  <2>a. <<"reversal", d>> \in EntryKeys
    BY KeyType
  <2>1. <<"reversal", d>> \in EntryKeys /\ Amount[d] \in Int /\ 0 \in Int
    BY AmountType, <2>a
  <2>2. account' \in AccountRows /\ entries' \subseteq EntryRows
    BY <1>4, <2>1, AppendOneType DEF Reverse
  <2>3. adjustments' \in [Debits -> AdjustmentRows]
    BY <1>4 DEF Reverse, AdjustmentRows
  <2> QED BY <1>4, <2>2, <2>3 DEF Reverse
<1>5. ASSUME NEW d \in Debits, NEW outcome \in {"unknown", "succeeded", "failed"},
             RecordPayout(d, outcome)
      PROVE  Typed(H)'
  <2>1. adjustments' \in [Debits -> AdjustmentRows]
    BY <1>5 DEF RecordPayout, AdjustmentRows
  <2> QED BY <1>5, <2>1 DEF RecordPayout, ledger
<1> QED BY <1>1, <1>2, <1>3, <1>4, <1>5 DEF AdjustmentStep

LEMMA TickType == ASSUME NEW H, Typed(H), Tick PROVE Typed(H)'
<1> USE DEF Typed
<1>1. \A n \in 0..Lifetime : Sooner(n) \in 0..Lifetime
  BY LifetimeType DEF Sooner
<1>2. \A n \in Nat : Sooner(n) \in Nat
  BY DEF Sooner
<1>3. funds' \in [Orders -> FundRows]
  <2>1. \A o \in Orders : [funds[o] EXCEPT !.left = Sooner(@)] \in FundRows
    BY <1>1 DEF FundRows
  <2> QED BY <2>1 DEF Tick
<1>4. intents' \in [Discounted -> IntentRows(H)]
  <2>1. \A o \in Discounted :
           [intents[o] EXCEPT !.window = Sooner(@), !.wait = Sooner(@), !.until = Sooner(@)]
              \in IntentRows(H)
    BY <1>2 DEF IntentRows
  <2> QED BY <2>1 DEF Tick
<1> QED BY <1>3, <1>4 DEF Tick, ledger

LEMMA StepType == ASSUME NEW H, None \in H, Typed(H), [PaymentNext]_vars PROVE Typed(H)'
<1>1. CASE UNCHANGED vars
  BY <1>1 DEF Typed, vars
<1> QED BY <1>1, OrderType, AdjustmentType, TickType DEF PaymentNext

(* The account is never negative and never reserves more than it has, and  *)
(* every row keeps its columns: appendWalletEntries is the only writer of  *)
(* the account (wallet_credit.go:41-81).                                   *)
THEOREM PaymentTypes == Spec => []TypeOK
<1>1. TypeOK /\ [PaymentNext]_vars => TypeOK'
  BY StepType DEF TypeOK
<1> QED BY InitType, <1>1, PTL DEF Spec


-----------------------------------------------------------------------------
(* The inductive invariant: how the rows of different tables agree.        *)

(* An entry of the wallet belongs to a row that has taken its step, so an  *)
(* entry that a step writes is a new one.                                  *)
KeysAgree ==
    /\ \A o \in Orders :
          /\ Booked(<<"reserve", o>>) => Configured(o)
          /\ Booked(<<"release", o>>) => funds[o].state = "released"
          /\ Booked(<<"capture", o>>) => funds[o].state = "captured"
          /\ Booked(<<"topup", o>>) => orders[o].status = "paid"
    /\ \A t \in Trades : Booked(<<"receipt", t>>) => receipts[t].disposition = "wallet_credit"
    /\ \A d \in Debits :
          /\ Booked(<<"debit", d>>) => adjustments[d].status /= "none"
          /\ Booked(<<"reversal", d>>) => adjustments[d].reversed
          /\ adjustments[d].reversed => adjustments[d].status /= "none"

(* A funding splits the price of a purchase; it is captured when the order *)
(* is paid, and reserved only while the order is open.                     *)
FundsAgree ==
    \A o \in Orders :
        /\ Configured(o) => /\ o \notin TopUps /\ orders[o].status /= "absent"
                            /\ funds[o].wallet + funds[o].cash = Price[o]
        /\ funds[o].state = "reserved" => orders[o].status \in Open
        /\ funds[o].state = "captured" => orders[o].status = "paid"
        /\ orders[o].status = "paid" => funds[o].state \in {"none", "captured"}

(* An order is delivered when it is paid. *)
OrdersAgree ==
    \A o \in Orders :
        /\ grants[o] = IF orders[o].status = "paid" THEN 1 ELSE 0
        /\ orders[o].paid > 0 => orders[o].status = "paid"

(* Only a payment for a paid order is put under review. *)
ReviewsAgree ==
    \A t \in Trades :
        receipts[t].disposition = "review_required" =>
           receipts[t].order \in Orders /\ orders[receipts[t].order].status = "paid"

RowsAgree == KeysAgree /\ FundsAgree /\ OrdersAgree /\ ReviewsAgree


LEMMA BookedSame == ASSUME entries' = entries, NEW k PROVE Booked(k)' <=> Booked(k)
BY DEF Booked

LEMMA BookedEntry ==
  ASSUME NEW key, NEW b, NEW r, entries' = entries \cup {Entry(key, b, r)}, NEW k
  PROVE  Booked(k)' <=> Booked(k) \/ k = key
<1>1. \A e : e \in entries' <=> e \in entries \/ e = Entry(key, b, r)
  OBVIOUS
<1>2. Entry(key, b, r).key = key
  BY DEF Entry
<1> QED BY <1>1, <1>2 DEF Booked

(* A release returns what the order has set aside, once.                   *)
LEMMA ReleaseAccount ==
  ASSUME NEW H, Typed(H), KeysAgree, NEW o \in Orders, appendWalletEntries(ReleaseEntries(o))
  PROVE  /\ account'.balance = account.balance
         /\ account'.reserved = account.reserved - SetAside[o]
         /\ \A k : Booked(k)' => \/ Booked(k)
                                 \/ k = <<"release", o>> /\ funds[o].state = "reserved"
<1> USE DEF Typed
<1>1. funds[o].wallet \in Nat /\ account.balance \in Nat /\ account.reserved \in Nat
  BY DEF FundRows, AccountRows
<1>2. SetAside[o] = IF funds[o].state = "reserved" THEN funds[o].wallet ELSE 0
  BY DEF SetAside
<1>3. CASE funds[o].state = "reserved" /\ funds[o].wallet > 0
  <2> DEFINE e == Entry(<<"release", o>>, 0, -funds[o].wallet)
  <2>1. <<"release", o>> \in EntryKeys /\ ~Booked(<<"release", o>>)
    BY <1>3, KeyType DEF KeysAgree
  <2>2. e \in EntryRows /\ e.key = <<"release", o>> /\ e.balance = 0 /\ e.reserved = -funds[o].wallet
    <3>1. -funds[o].wallet \in Int /\ 0 \in Int
      BY <1>1
    <3> QED BY <2>1, <3>1, EntryType
  <2>3. appendWalletEntries({e})
    BY <1>3 DEF ReleaseEntries
  <2>4. entries' = entries \cup {Entry(<<"release", o>>, 0, -funds[o].wallet)}
    BY <2>3 DEF appendWalletEntries
  <2>5. \A k : Booked(k)' <=> Booked(k) \/ k = <<"release", o>>
    BY <2>4, BookedEntry
  <2> HIDE DEF e
  <2>6. /\ account'.balance = account.balance + e.balance
        /\ account'.reserved = account.reserved + e.reserved
    BY <2>1, <2>2, <2>3, AppendOne
  <2> QED BY <1>1, <1>2, <1>3, <2>2, <2>5, <2>6
<1>4. CASE ~(funds[o].state = "reserved" /\ funds[o].wallet > 0)
  <2>1. appendWalletEntries({})
    BY <1>4 DEF ReleaseEntries
  <2>2. account' = account /\ entries' = entries
    BY <2>1, AppendNothing
  <2>3. SetAside[o] = 0
    BY <1>1, <1>2, <1>4
  <2> QED BY <1>1, <2>2, <2>3, BookedSame
<1> QED BY <1>3, <1>4

(* The same with the money of payment t.                                   *)
LEMMA CreditAccount ==
  ASSUME NEW H, Typed(H), KeysAgree, NEW o \in Orders, NEW t \in Trades, NEW amount \in Nat,
         ~Booked(<<"receipt", t>>),
         appendWalletEntries(ReleaseEntries(o) \cup {Entry(<<"receipt", t>>, amount, 0)})
  PROVE  /\ account'.balance = account.balance + amount
         /\ account'.reserved = account.reserved - SetAside[o]
         /\ Booked(<<"receipt", t>>)'
         /\ \A k : Booked(k)' => \/ Booked(k) \/ k = <<"receipt", t>>
                                 \/ k = <<"release", o>> /\ funds[o].state = "reserved"
<1> USE DEF Typed
<1>1. funds[o].wallet \in Nat /\ account.balance \in Nat /\ account.reserved \in Nat
  BY DEF FundRows, AccountRows
<1>2. SetAside[o] = IF funds[o].state = "reserved" THEN funds[o].wallet ELSE 0
  BY DEF SetAside
<1> DEFINE f == Entry(<<"receipt", t>>, amount, 0)
<1>a. f \in EntryRows /\ f.key = <<"receipt", t>> /\ f.balance = amount /\ f.reserved = 0
  <2>1. <<"receipt", t>> \in EntryKeys
    BY KeyType
  <2> QED BY <2>1, EntryType
<1>3. CASE funds[o].state = "reserved" /\ funds[o].wallet > 0
  <2> DEFINE e == Entry(<<"release", o>>, 0, -funds[o].wallet)
  <2>1. <<"release", o>> \in EntryKeys /\ ~Booked(<<"release", o>>)
    BY <1>3, KeyType DEF KeysAgree
  <2>2. e \in EntryRows /\ e.key = <<"release", o>> /\ e.balance = 0 /\ e.reserved = -funds[o].wallet
    <3>1. -funds[o].wallet \in Int /\ 0 \in Int
      BY <1>1
    <3> QED BY <2>1, <3>1, EntryType
  <2>3. appendWalletEntries({e, f})
    <3>1. ReleaseEntries(o) \cup {f} = {e, f}
      BY <1>3 DEF ReleaseEntries
    <3> HIDE DEF e
    <3> QED BY <3>1
  <2> HIDE DEF e, f
  <2>4. entries' = entries \cup {e, f} /\ e # f
    BY <1>a, <2>2, <2>3 DEF appendWalletEntries
  <2>5. \A k : Booked(k)' <=> Booked(k) \/ k = <<"release", o>> \/ k = <<"receipt", t>>
    <3>1. \A x : x \in entries' <=> x \in entries \/ x = e \/ x = f
      BY <2>4
    <3> QED BY <3>1, <1>a, <2>2 DEF Booked
  <2>6. /\ account'.balance = account.balance + (e.balance + f.balance)
        /\ account'.reserved = account.reserved + (e.reserved + f.reserved)
    BY <1>a, <2>1, <2>2, <2>3, <2>4, AppendTwo
  <2> QED BY <1>1, <1>2, <1>3, <1>a, <2>2, <2>5, <2>6
<1>4. CASE ~(funds[o].state = "reserved" /\ funds[o].wallet > 0)
  <2>1. appendWalletEntries({f})
    BY <1>4 DEF ReleaseEntries
  <2> HIDE DEF f
  <2>2. /\ account'.balance = account.balance + f.balance
        /\ account'.reserved = account.reserved + f.reserved
        /\ entries' = entries \cup {f}
    BY <1>a, <2>1, AppendOne
  <2>3. SetAside[o] = 0
    BY <1>1, <1>2, <1>4
  <2>4. \A k : Booked(k)' <=> Booked(k) \/ k = <<"receipt", t>>
    <3>1. \A x : x \in entries' <=> x \in entries \/ x = f
      BY <2>2
    <3> QED BY <3>1, <1>a DEF Booked
  <2> QED BY <1>1, <1>a, <2>2, <2>3, <2>4
<1> QED BY <1>3, <1>4


(* A settlement takes what the order has set aside, or tops the wallet up. *)
LEMMA PaidAccount ==
  ASSUME NEW H, Typed(H), RowsAgree, NEW o \in Orders, orders[o].status # "paid",
         Configured(o) => funds[o].state = "reserved",
         appendWalletEntries(CaptureEntries(o)
              \cup IF o \in TopUps THEN {Entry(<<"topup", o>>, Price[o], 0)} ELSE {})
  PROVE  /\ account'.balance = account.balance - SetAside[o] + (IF o \in TopUps THEN Price[o] ELSE 0)
         /\ account'.reserved = account.reserved - SetAside[o]
         /\ \A k : Booked(k)' => \/ Booked(k)
                                 \/ k = <<"capture", o>> /\ Configured(o)
                                 \/ k = <<"topup", o>>
<1> USE DEF Typed
<1>1. /\ funds[o].wallet \in Nat /\ account.balance \in Nat /\ account.reserved \in Nat
      /\ Price[o] \in Nat
  BY PriceType DEF FundRows, AccountRows
<1>2. SetAside[o] = IF Configured(o) THEN funds[o].wallet ELSE 0
  BY DEF SetAside, Configured
<1>3. CASE o \in TopUps
  <2> DEFINE e == Entry(<<"topup", o>>, Price[o], 0)
  <2>1. ~Configured(o) /\ CaptureEntries(o) = {}
    BY <1>3 DEF RowsAgree, FundsAgree, CaptureEntries
  <2>2. <<"topup", o>> \in EntryKeys /\ ~Booked(<<"topup", o>>)
    BY KeyType DEF RowsAgree, KeysAgree
  <2>3. e \in EntryRows /\ e.key = <<"topup", o>> /\ e.balance = Price[o] /\ e.reserved = 0
    <3>1. Price[o] \in Int /\ 0 \in Int
      BY <1>1
    <3> QED BY <2>2, <3>1, EntryType
  <2>4. appendWalletEntries({e})
    BY <1>3, <2>1
  <2>5. entries' = entries \cup {Entry(<<"topup", o>>, Price[o], 0)}
    BY <2>4 DEF appendWalletEntries
  <2>6. \A k : Booked(k)' <=> Booked(k) \/ k = <<"topup", o>>
    BY <2>5, BookedEntry
  <2> HIDE DEF e
  <2>7. /\ account'.balance = account.balance + e.balance
        /\ account'.reserved = account.reserved + e.reserved
    BY <2>2, <2>3, <2>4, AppendOne
  <2> QED BY <1>1, <1>2, <1>3, <2>1, <2>3, <2>6, <2>7
<1>4. CASE o \notin TopUps /\ Configured(o) /\ funds[o].wallet > 0
  <2> DEFINE e == Entry(<<"capture", o>>, -funds[o].wallet, -funds[o].wallet)
  <2>1. <<"capture", o>> \in EntryKeys /\ ~Booked(<<"capture", o>>)
    BY <1>4, KeyType DEF RowsAgree, KeysAgree
  <2>2. e \in EntryRows /\ e.key = <<"capture", o>> /\ e.balance = -funds[o].wallet
        /\ e.reserved = -funds[o].wallet
    <3>1. -funds[o].wallet \in Int
      BY <1>1
    <3> QED BY <2>1, <3>1, EntryType
  <2>3. appendWalletEntries({e})
    BY <1>4 DEF CaptureEntries
  <2>4. entries' = entries \cup {Entry(<<"capture", o>>, -funds[o].wallet, -funds[o].wallet)}
    BY <2>3 DEF appendWalletEntries
  <2>5. \A k : Booked(k)' <=> Booked(k) \/ k = <<"capture", o>>
    BY <2>4, BookedEntry
  <2> HIDE DEF e
  <2>6. /\ account'.balance = account.balance + e.balance
        /\ account'.reserved = account.reserved + e.reserved
    BY <2>1, <2>2, <2>3, AppendOne
  <2> QED BY <1>1, <1>2, <1>4, <2>2, <2>5, <2>6
<1>5. CASE o \notin TopUps /\ ~(Configured(o) /\ funds[o].wallet > 0)
  <2>1. appendWalletEntries({})
    BY <1>5 DEF CaptureEntries
  <2>2. account' = account /\ entries' = entries
    BY <2>1, AppendNothing
  <2>3. SetAside[o] = 0
    BY <1>1, <1>2, <1>5
  <2> QED BY <1>1, <1>5, <2>2, <2>3, BookedSame
<1> QED BY <1>3, <1>4, <1>5


-----------------------------------------------------------------------------
(* The two ways a funding ends: the order gives it back, or is paid.       *)

Released(o) ==
    /\ orders' \in [Orders -> OrderRows]
    /\ \A p \in Orders \ {o} : orders'[p] = orders[p]
    /\ orders[o].status # "absent" /\ orders'[o].status # "absent"
    /\ orders'[o].status = "paid" <=> orders[o].status = "paid"
    /\ orders'[o].paid = orders[o].paid
    /\ funds' = ReleaseFund(o)

Paid(o) ==
    /\ orders' \in [Orders -> OrderRows]
    /\ \A p \in Orders \ {o} : orders'[p] = orders[p]
    /\ orders[o].status \notin {"absent", "paid"} /\ orders'[o].status = "paid"
    /\ Configured(o) => funds[o].state = "reserved"
    /\ funds' = CaptureFund(o)
    /\ grants' = [grants EXCEPT ![o] = @ + 1]

LEMMA ReleasedFunds ==
  ASSUME NEW H, Typed(H), NEW o \in Orders, Released(o)
  PROVE  /\ \A p \in Orders \ {o} : funds'[p] = funds[p]
         /\ funds'[o].wallet = funds[o].wallet /\ funds'[o].cash = funds[o].cash
         /\ funds'[o].state = IF funds[o].state = "reserved" THEN "released" ELSE funds[o].state
BY DEF Typed, Released, ReleaseFund, FundRows

LEMMA PaidFunds ==
  ASSUME NEW H, Typed(H), NEW o \in Orders, Paid(o)
  PROVE  /\ \A p \in Orders \ {o} : funds'[p] = funds[p]
         /\ funds'[o].wallet = funds[o].wallet /\ funds'[o].cash = funds[o].cash
         /\ funds'[o].state = IF Configured(o) THEN "captured" ELSE "none"
BY DEF Typed, Paid, CaptureFund, FundRows, Configured

LEMMA ReleasedRows ==
  ASSUME NEW H, Typed(H), RowsAgree, NEW o \in Orders, Released(o), UNCHANGED grants
  PROVE  FundsAgree' /\ OrdersAgree'
<1>1. /\ \A p \in Orders \ {o} : funds'[p] = funds[p]
      /\ funds'[o].wallet = funds[o].wallet /\ funds'[o].cash = funds[o].cash
      /\ funds'[o].state = IF funds[o].state = "reserved" THEN "released" ELSE funds[o].state
  BY ReleasedFunds
<1>2. FundsAgree'
  BY <1>1 DEF RowsAgree, FundsAgree, Released, Configured, Open
<1>3. OrdersAgree'
  BY DEF RowsAgree, OrdersAgree, Released
<1> QED BY <1>2, <1>3

LEMMA PaidRows ==
  ASSUME NEW H, Typed(H), RowsAgree, NEW o \in Orders, Paid(o)
  PROVE  FundsAgree' /\ OrdersAgree'
<1>1. /\ \A p \in Orders \ {o} : funds'[p] = funds[p]
      /\ funds'[o].wallet = funds[o].wallet /\ funds'[o].cash = funds[o].cash
      /\ funds'[o].state = IF Configured(o) THEN "captured" ELSE "none"
  BY PaidFunds
<1>2. FundsAgree'
  BY <1>1 DEF RowsAgree, FundsAgree, Paid, Configured
<1>3. OrdersAgree'
  BY DEF RowsAgree, OrdersAgree, Paid, Typed
<1> QED BY <1>2, <1>3

(* Which transactions end a funding which way.                             *)
LEMMA WhoReleases ==
  ASSUME NEW H, Typed(H), NEW o \in Orders
  PROVE  /\ Expire(o) => Released(o)
         /\ \A status \in {"failed", "canceled"}, force \in BOOLEAN : Close(o, status, force) => Released(o)
         /\ \A t \in Trades : RecordFailed(o, t) => Released(o)
         /\ \A t \in Trades, amount \in Nat : CreditReceipt(o, t, amount) => Released(o)
<1> USE DEF Typed, Released, releaseOrderFunding
<1>1. orders[o].status \in Statuses
  BY DEF OrderRows
<1>2. ASSUME NEW row \in OrderRows, orders' = [orders EXCEPT ![o] = row]
      PROVE  /\ orders' \in [Orders -> OrderRows] /\ orders'[o] = row
             /\ \A p \in Orders \ {o} : orders'[p] = orders[p]
  BY <1>2
<1>3. ASSUME NEW status \in Statuses
      PROVE  [orders[o] EXCEPT !.status = status] \in OrderRows
             /\ [orders[o] EXCEPT !.status = status].status = status
             /\ [orders[o] EXCEPT !.status = status].paid = orders[o].paid
  BY DEF OrderRows
<1>4. Expire(o) => Released(o)
  BY <1>2, <1>3 DEF Expire, Open, Statuses
<1>5. ASSUME NEW status \in {"failed", "canceled"}, NEW force \in BOOLEAN, Close(o, status, force)
      PROVE  Released(o)
  BY <1>2, <1>3, <1>5 DEF Close, Open, Statuses, OrderTransitionAllowed
<1>6. ASSUME NEW t \in Trades, RecordFailed(o, t) PROVE Released(o)
  <2> DEFINE row == [orders[o] EXCEPT !.status = "failed", !.channel = Issuer[t], !.trade = t]
  <2>1. row \in OrderRows /\ row.status = "failed" /\ row.paid = orders[o].paid
    BY DEF OrderRows, Statuses, Open, Providers
  <2>2. orders' = [orders EXCEPT ![o] = row]
    BY <1>6 DEF RecordFailed
  <2> HIDE DEF row
  <2>3. orders[o].status \notin {"absent", "paid"}
    BY <1>6 DEF RecordFailed, OrderTransitionAllowed
  <2>4. funds' = ReleaseFund(o)
    BY <1>6 DEF RecordFailed
  <2> QED BY <1>2, <2>1, <2>2, <2>3, <2>4
<1>7. ASSUME NEW t \in Trades, NEW amount \in Nat, CreditReceipt(o, t, amount) PROVE Released(o)
  <2> DEFINE status == IF orders[o].status \in Open THEN "canceled" ELSE orders[o].status
  <2>1. status \in Statuses /\ orders' = [orders EXCEPT ![o] = [orders[o] EXCEPT !.status = status]]
    BY <1>1, <1>7 DEF CreditReceipt, Statuses
  <2>2. orders[o].status # "absent" /\ status # "absent" /\ (status = "paid" <=> orders[o].status = "paid")
    BY <1>7 DEF CreditReceipt, PaidFact, Open
  <2>3. funds' = ReleaseFund(o)
    BY <1>7 DEF CreditReceipt
  <2> HIDE DEF status
  <2> QED BY <1>2, <1>3, <2>1, <2>2, <2>3
<1> QED BY <1>4, <1>5, <1>6, <1>7

LEMMA WhoPays ==
  ASSUME NEW H, Typed(H), NEW o \in Orders
  PROVE  /\ Pay(o) => Paid(o)
         /\ \A force \in BOOLEAN : Settle(o, force) => Paid(o)
         /\ \A t \in Trades, amount \in Nat : FulfillReceipt(o, t, amount) => Paid(o)
<1> USE DEF Typed
<1>1. ASSUME NEW channel \in Channels \cup Providers \cup {None, "wallet"},
             NEW trade \in Trades \cup {None}, setPaid(o, channel, trade),
             orders[o].status \notin {"absent", "paid"},
             Configured(o) => Live(o)
      PROVE  Paid(o)
  <2>1. [status |-> "paid", channel |-> channel, trade |-> trade, paid |-> Price[o]] \in OrderRows
    BY PriceType DEF OrderRows, Statuses
  <2> QED BY <1>1, <2>1 DEF Paid, setPaid, Live
<1>2. orders[o].channel \in Channels \cup Providers \cup {None, "wallet"}
      /\ orders[o].trade \in Trades \cup {None}
  BY DEF OrderRows
<1>3. Pay(o) => Paid(o)
  BY <1>1, <1>2 DEF Pay, Open
<1>4. ASSUME NEW force \in BOOLEAN, Settle(o, force) PROVE Paid(o)
  BY <1>1, <1>2, <1>4 DEF Settle
<1>5. ASSUME NEW t \in Trades, NEW amount \in Nat, FulfillReceipt(o, t, amount) PROVE Paid(o)
  <2>1. Issuer[t] \in Channels \cup Providers \cup {None, "wallet"}
    BY DEF Providers
  <2>2. orders[o].status \notin {"absent", "paid"} /\ (Configured(o) => Live(o))
    BY <1>5 DEF FulfillReceipt, Fulfillable, FundingLost, Open
  <2> QED BY <1>1, <1>5, <2>1, <2>2 DEF FulfillReceipt
<1> QED BY <1>3, <1>4, <1>5


-----------------------------------------------------------------------------
(* The rows of the tables go on agreeing.                                  *)

LEMMA ReleasedAgree ==
  ASSUME NEW H, Typed(H), RowsAgree, NEW o \in Orders, Released(o),
         appendWalletEntries(ReleaseEntries(o)), UNCHANGED <<receipts, adjustments, grants>>
  PROVE  RowsAgree'
<1>1. FundsAgree' /\ OrdersAgree'
  BY ReleasedRows
<1>2. /\ \A p \in Orders \ {o} : funds'[p] = funds[p]
      /\ funds'[o].state = IF funds[o].state = "reserved" THEN "released" ELSE funds[o].state
  BY ReleasedFunds
<1>a. KeysAgree
  BY DEF RowsAgree
<1>3. \A k : Booked(k)' => Booked(k) \/ (k = <<"release", o>> /\ funds[o].state = "reserved")
  BY <1>a, ReleaseAccount
<1>4. KeysAgree'
  BY <1>2, <1>3 DEF RowsAgree, KeysAgree, Configured, Released
<1>5. ReviewsAgree'
  BY DEF RowsAgree, ReviewsAgree, Released
<1> QED BY <1>1, <1>4, <1>5 DEF RowsAgree

LEMMA PaidAgree ==
  ASSUME NEW H, Typed(H), RowsAgree, NEW o \in Orders, Paid(o), UNCHANGED adjustments,
         appendWalletEntries(CaptureEntries(o)
              \cup IF o \in TopUps THEN {Entry(<<"topup", o>>, Price[o], 0)} ELSE {}),
         \A t \in Trades : \/ receipts'[t] = receipts[t]
                           \/ /\ receipts[t].disposition = "none"
                              /\ receipts'[t].disposition \in {"fulfilled", "wallet_topup"}
  PROVE  RowsAgree'
<1>1. FundsAgree' /\ OrdersAgree'
  BY PaidRows
<1>2. /\ \A p \in Orders \ {o} : funds'[p] = funds[p]
      /\ funds'[o].state = IF Configured(o) THEN "captured" ELSE "none"
  BY PaidFunds
<1>3. \A k : Booked(k)' => \/ Booked(k)
                           \/ k = <<"capture", o>> /\ Configured(o)
                           \/ k = <<"topup", o>>
  BY PaidAccount DEF Paid
<1>4. KeysAgree'
  <2>1. Configured(o) => funds[o].state = "reserved"
    BY DEF Paid
  <2> QED BY <1>2, <1>3, <2>1 DEF RowsAgree, KeysAgree, Configured, Paid
<1>5. ReviewsAgree'
  BY DEF RowsAgree, ReviewsAgree, Paid
<1> QED BY <1>1, <1>4, <1>5 DEF RowsAgree

LEMMA OrderAgree ==
  ASSUME NEW H, Typed(H), RowsAgree, NEW o \in Orders, OrderStep(o)
  PROVE  RowsAgree'
<1>1. ASSUME NEW channel \in Channels, Create(o, channel) PROVE RowsAgree'
  <2>1. /\ \A p \in Orders \ {o} : orders'[p] = orders[p]
        /\ orders'[o].status = "pending" /\ orders'[o].paid = orders[o].paid
    BY <1>1 DEF Create, Typed, OrderRows
  <2>2. orders[o].status = "absent" /\ UNCHANGED <<funds, entries, receipts, adjustments, grants>>
    BY <1>1 DEF Create, ledger
  <2>3. KeysAgree'
    BY <2>1, <2>2, BookedSame DEF RowsAgree, KeysAgree, Configured
  <2>4. FundsAgree'
    BY <2>1, <2>2 DEF RowsAgree, FundsAgree, Configured, Open
  <2>5. OrdersAgree'
    BY <2>1, <2>2 DEF RowsAgree, OrdersAgree
  <2>6. ReviewsAgree'
    BY <2>1, <2>2 DEF RowsAgree, ReviewsAgree
  <2> QED BY <2>3, <2>4, <2>5, <2>6 DEF RowsAgree
<1>2. ASSUME NEW balance \in BOOLEAN, Configure(o, balance) PROVE RowsAgree'
  <2> DEFINE wallet == IF balance THEN Min({Available, Price[o]}) ELSE 0
             es == IF wallet > 0 THEN {Entry(<<"reserve", o>>, 0, wallet)} ELSE {}
  <2>1. wallet \in Nat
    <3>1. Available \in Nat /\ Price[o] \in Nat
      BY PriceType DEF Available, AccountRows, Typed
    <3>2. Min({Available, Price[o]}) \in {Available, Price[o]}
      <4>1. Available \in Int /\ Price[o] \in Int
        BY <3>1
      <4> QED BY <4>1, MinOfTwo
    <3> QED BY <3>1, <3>2
  <2>2. /\ orders[o].status \in Open /\ o \notin TopUps
        /\ entries' = entries \cup es
        /\ funds' = [funds EXCEPT ![o] = [state |-> "reserved", balance |-> balance,
              wallet |-> wallet, cash |-> Price[o] - wallet, left |-> Lifetime]]
        /\ UNCHANGED <<orders, receipts, adjustments, grants>>
    BY <1>2 DEF Configure, appendWalletEntries
  <2>3. \A k : Booked(k)' => Booked(k) \/ k = <<"reserve", o>>
    <3>1. CASE wallet > 0
      BY <2>2, <3>1, BookedEntry
    <3>2. CASE ~(wallet > 0)
      BY <2>2, <3>2, BookedSame
    <3> QED BY <3>1, <3>2
  <2> HIDE DEF wallet, es
  <2>4. /\ \A p \in Orders \ {o} : funds'[p] = funds[p]
        /\ funds'[o].state = "reserved" /\ funds'[o].wallet = wallet
        /\ funds'[o].cash = Price[o] - wallet
    BY <2>2 DEF Typed
  <2>a. funds[o].state = "none"
    BY <1>2 DEF Configure, Configured
  <2>5. KeysAgree'
    BY <2>2, <2>3, <2>4, <2>a DEF RowsAgree, KeysAgree, Configured
  <2>6. wallet + (Price[o] - wallet) = Price[o]
    BY <2>1, PriceType
  <2>7. FundsAgree'
    BY <2>2, <2>4, <2>6 DEF RowsAgree, FundsAgree, Configured, Open
  <2>8. OrdersAgree' /\ ReviewsAgree'
    BY <2>2 DEF RowsAgree, OrdersAgree, ReviewsAgree
  <2> QED BY <2>5, <2>7, <2>8 DEF RowsAgree
<1>3. CASE Pay(o)
  BY <1>3, WhoPays, PaidAgree DEF Pay, setPaid
<1>4. CASE Expire(o)
  BY <1>4, WhoReleases, ReleasedAgree DEF Expire
<1>5. ASSUME NEW status \in {"failed", "canceled"}, NEW force \in BOOLEAN, Close(o, status, force)
      PROVE  RowsAgree'
  BY <1>5, WhoReleases, ReleasedAgree DEF Close
<1>6. ASSUME NEW force \in BOOLEAN, Settle(o, force) PROVE RowsAgree'
  BY <1>6, WhoPays, PaidAgree DEF Settle, setPaid
<1>a. ASSUME UNCHANGED <<orders, funds, entries, receipts, adjustments, grants>> PROVE RowsAgree'
  BY <1>a DEF RowsAgree, KeysAgree, Booked, FundsAgree, OrdersAgree, ReviewsAgree, Configured
<1>7. ASSUME NEW p \in Providers, OpenCheckout(o, p) PROVE RowsAgree'
  BY <1>7, <1>a DEF OpenCheckout, ledger
<1>8. ASSUME NEW t \in Trades, RecordFailed(o, t) PROVE RowsAgree'
  BY <1>8, WhoReleases, ReleasedAgree DEF RecordFailed
<1>9. ASSUME NEW t \in Trades, PaidFactStep(o, t) PROVE RowsAgree'
  <2>0. PICK amount \in {Price[o], funds[o].cash} :
           \/ RepeatReceipt(o, t, amount) \/ BoundReceipt(o, t, amount)
           \/ ReviewReceipt(o, t, amount) \/ FulfillReceipt(o, t, amount)
           \/ CreditReceipt(o, t, amount)
    BY <1>9 DEF PaidFactStep
  <2>1. amount \in Nat
    BY PriceType DEF FundRows, Typed
  <2>2. CASE RepeatReceipt(o, t, amount)
    BY <2>2, <1>a DEF RepeatReceipt, ledger
  <2>3. ASSUME NEW disposition, NewReceipt(t), Dispose(o, t, amount, disposition),
               UNCHANGED <<orders, funds, entries, adjustments, grants>>,
               disposition = "review_required" => orders[o].status = "paid"
        PROVE  RowsAgree'
    <3>1. /\ receipts[t].disposition = "none" /\ receipts'[t].disposition = disposition
          /\ receipts'[t].order = o
          /\ \A u \in Trades \ {t} : receipts'[u] = receipts[u]
      BY <2>3 DEF NewReceipt, Dispose, Typed
    <3>2. KeysAgree'
      BY <2>3, <3>1, BookedSame DEF RowsAgree, KeysAgree, Configured
    <3>3. FundsAgree' /\ OrdersAgree'
      BY <2>3 DEF RowsAgree, FundsAgree, OrdersAgree, Configured
    <3>4. ReviewsAgree'
      BY <2>3, <3>1 DEF RowsAgree, ReviewsAgree
    <3> QED BY <3>2, <3>3, <3>4 DEF RowsAgree
  <2>4. CASE BoundReceipt(o, t, amount)
    BY <2>3, <2>4 DEF BoundReceipt, ledger
  <2>5. CASE ReviewReceipt(o, t, amount)
    <3>1. orders[o].status = "paid"
      BY <2>5 DEF ReviewReceipt, PaidByHand, RowsAgree, OrdersAgree
    <3> QED BY <2>3, <2>5, <3>1 DEF ReviewReceipt, ledger
  <2>6. CASE FulfillReceipt(o, t, amount)
    <3>1. Paid(o)
      BY <2>1, <2>6, WhoPays
    <3>2. \A u \in Trades : \/ receipts'[u] = receipts[u]
                            \/ /\ receipts[u].disposition = "none"
                               /\ receipts'[u].disposition \in {"fulfilled", "wallet_topup"}
      BY <2>6 DEF FulfillReceipt, Dispose, NewReceipt, Typed
    <3> QED BY <2>6, <3>1, <3>2, PaidAgree DEF FulfillReceipt, setPaid
  <2>7. CASE CreditReceipt(o, t, amount)
    <3>1. Released(o)
      BY <2>1, <2>7, WhoReleases
    <3>2. FundsAgree' /\ OrdersAgree'
      BY <2>7, <3>1, ReleasedRows DEF CreditReceipt
    <3>3. /\ \A p \in Orders \ {o} : funds'[p] = funds[p]
          /\ funds'[o].state = IF funds[o].state = "reserved" THEN "released" ELSE funds[o].state
      BY <3>1, ReleasedFunds
    <3>4. /\ receipts[t].disposition = "none" /\ receipts'[t].disposition = "wallet_credit"
          /\ \A u \in Trades \ {t} : receipts'[u] = receipts[u]
      BY <2>7 DEF CreditReceipt, NewReceipt, Dispose, Typed
    <3>5. ~Booked(<<"receipt", t>>)
      BY <3>4 DEF RowsAgree, KeysAgree
    <3>6. \A k : Booked(k)' => \/ Booked(k) \/ k = <<"receipt", t>>
                               \/ k = <<"release", o>> /\ funds[o].state = "reserved"
      BY <2>1, <2>7, <3>5, CreditAccount DEF CreditReceipt, RowsAgree
    <3>7. KeysAgree'
      <4>1. UNCHANGED adjustments
        BY <2>7 DEF CreditReceipt
      <4> QED BY <3>1, <3>3, <3>4, <3>6, <4>1 DEF RowsAgree, KeysAgree, Configured, Released
    <3>8. ReviewsAgree'
      BY <3>1, <3>4 DEF RowsAgree, ReviewsAgree, Released
    <3> QED BY <3>2, <3>7, <3>8 DEF RowsAgree
  <2> QED BY <2>0, <2>2, <2>4, <2>5, <2>6, <2>7
<1> QED BY <1>1, <1>2, <1>3, <1>4, <1>5, <1>6, <1>7, <1>8, <1>9 DEF OrderStep


LEMMA AdjustmentAgree == ASSUME NEW H, Typed(H), RowsAgree, AdjustmentStep PROVE RowsAgree'
<1>1. ASSUME NEW t \in Trades, NEW disposition \in {"wallet_credit", "legacy_applied"},
             Resolve(t, disposition)
      PROVE  RowsAgree'
  <2>1. /\ receipts[t].disposition = "review_required" /\ receipts'[t].disposition = disposition
        /\ \A u \in Trades \ {t} : receipts'[u] = receipts[u]
        /\ UNCHANGED <<orders, funds, adjustments, grants>>
    BY <1>1 DEF Resolve, Typed, ReceiptRows
  <2>2. \A k : Booked(k)' => Booked(k) \/ (k = <<"receipt", t>> /\ disposition = "wallet_credit")
    <3>1. CASE disposition = "wallet_credit"
      <4>1. entries' = entries \cup {Entry(<<"receipt", t>>, receipts[t].amount, 0)}
        BY <1>1, <3>1 DEF Resolve, appendWalletEntries
      <4> QED BY <3>1, <4>1, BookedEntry
    <3>2. CASE disposition # "wallet_credit"
      <4>1. entries' = entries
        BY <1>1, <3>2 DEF Resolve, appendWalletEntries
      <4> QED BY <4>1, BookedSame
    <3> QED BY <3>1, <3>2
  <2>3. KeysAgree'
    BY <2>1, <2>2 DEF RowsAgree, KeysAgree, Configured
  <2>4. FundsAgree' /\ OrdersAgree'
    BY <2>1 DEF RowsAgree, FundsAgree, OrdersAgree, Configured
  <2>5. ReviewsAgree'
    BY <2>1 DEF RowsAgree, ReviewsAgree
  <2> QED BY <2>3, <2>4, <2>5 DEF RowsAgree
<1>2. ASSUME NEW k \in Credits, Credit(k) PROVE RowsAgree'
  <2>1. /\ entries' = entries \cup {Entry(<<"credit", k>>, Amount[k], 0)}
        /\ UNCHANGED <<orders, funds, receipts, adjustments, grants>>
    BY <1>2 DEF Credit, appendWalletEntries
  <2>2. \A j : Booked(j)' => Booked(j) \/ j = <<"credit", k>>
    BY <2>1, BookedEntry
  <2>3. KeysAgree'
    BY <2>1, <2>2 DEF RowsAgree, KeysAgree, Configured
  <2> QED BY <2>1, <2>3 DEF RowsAgree, FundsAgree, OrdersAgree, ReviewsAgree, Configured
<1>3. ASSUME NEW d \in Debits, Debit(d) PROVE RowsAgree'
  <2>1. /\ entries' = entries \cup {Entry(<<"debit", d>>, -Amount[d], 0)}
        /\ adjustments'[d].status = "pending" /\ adjustments'[d].reversed = adjustments[d].reversed
        /\ \A e \in Debits \ {d} : adjustments'[e] = adjustments[e]
        /\ UNCHANGED <<orders, funds, receipts, grants>>
    BY <1>3 DEF Debit, appendWalletEntries, Typed, AdjustmentRows
  <2>2. \A j : Booked(j)' => Booked(j) \/ j = <<"debit", d>>
    BY <2>1, BookedEntry
  <2>3. KeysAgree'
    BY <2>1, <2>2 DEF RowsAgree, KeysAgree, Configured
  <2> QED BY <2>1, <2>3 DEF RowsAgree, FundsAgree, OrdersAgree, ReviewsAgree, Configured
<1>4. ASSUME NEW d \in Debits, Reverse(d) PROVE RowsAgree'
  <2>1. /\ entries' = entries \cup {Entry(<<"reversal", d>>, Amount[d], 0)}
        /\ adjustments'[d].status = "failed" /\ adjustments'[d].reversed
        /\ \A e \in Debits \ {d} : adjustments'[e] = adjustments[e]
        /\ UNCHANGED <<orders, funds, receipts, grants>>
    BY <1>4 DEF Reverse, appendWalletEntries, Typed, AdjustmentRows
  <2>2. \A j : Booked(j)' => Booked(j) \/ j = <<"reversal", d>>
    BY <2>1, BookedEntry
  <2>3. KeysAgree'
    BY <2>1, <2>2 DEF RowsAgree, KeysAgree, Configured
  <2> QED BY <2>1, <2>3 DEF RowsAgree, FundsAgree, OrdersAgree, ReviewsAgree, Configured
<1>5. ASSUME NEW d \in Debits, NEW outcome \in {"unknown", "succeeded", "failed"},
             RecordPayout(d, outcome)
      PROVE  RowsAgree'
  <2>1. /\ adjustments'[d].status # "none" /\ adjustments'[d].reversed = adjustments[d].reversed
        /\ \A e \in Debits \ {d} : adjustments'[e] = adjustments[e]
        /\ UNCHANGED <<orders, funds, entries, receipts, grants>>
    BY <1>5 DEF RecordPayout, Typed, AdjustmentRows, ledger
  <2>2. KeysAgree'
    BY <2>1, BookedSame DEF RowsAgree, KeysAgree, Configured
  <2> QED BY <2>1, <2>2 DEF RowsAgree, FundsAgree, OrdersAgree, ReviewsAgree, Configured
<1> QED BY <1>1, <1>2, <1>3, <1>4, <1>5 DEF AdjustmentStep

LEMMA TickFunds ==
  ASSUME NEW H, Typed(H), Tick
  PROVE  \A o \in Orders : /\ funds'[o].state = funds[o].state /\ funds'[o].wallet = funds[o].wallet
                           /\ funds'[o].cash = funds[o].cash
BY DEF Tick, Typed, FundRows

LEMMA TickAgree == ASSUME NEW H, Typed(H), RowsAgree, Tick PROVE RowsAgree'
<1>1. /\ \A o \in Orders : /\ funds'[o].state = funds[o].state /\ funds'[o].wallet = funds[o].wallet
                           /\ funds'[o].cash = funds[o].cash
      /\ UNCHANGED <<orders, entries, receipts, adjustments, grants>>
  BY TickFunds DEF Tick, ledger
<1>2. KeysAgree'
  BY <1>1, BookedSame DEF RowsAgree, KeysAgree, Configured
<1> QED BY <1>1, <1>2 DEF RowsAgree, FundsAgree, OrdersAgree, ReviewsAgree, Configured

LEMMA InitAgree == Init => RowsAgree
BY DEF Init, RowsAgree, KeysAgree, FundsAgree, OrdersAgree, ReviewsAgree, Booked, Configured,
   NoOrder, NoFund, NoReceipt

LEMMA StepAgree == ASSUME NEW H, Typed(H), RowsAgree, [PaymentNext]_vars PROVE RowsAgree'
<1>1. CASE UNCHANGED vars
  BY <1>1 DEF vars, RowsAgree, KeysAgree, Booked, FundsAgree, OrdersAgree, ReviewsAgree, Configured
<1> QED BY <1>1, OrderAgree, AdjustmentAgree, TickAgree DEF PaymentNext

LEMMA Agreement == Spec => [](TypeOK /\ RowsAgree)
<1>1. TypeOK /\ RowsAgree /\ [PaymentNext]_vars => TypeOK' /\ RowsAgree'
  BY StepType, StepAgree DEF TypeOK
<1> QED BY InitType, InitAgree, <1>1, PTL DEF Spec

(* Balance is reserved only for an order that can still be paid: of        *)
(* payment, failed payment, expiry, cancellation and settlement, in        *)
(* whatever order they come, the one that closes the order ends the        *)
(* funding in the same transaction (wallet_payments.go:213-252, :316-355). *)
THEOREM ReservedWhileOpen == Spec => []HeldWhileOpen
<1>1. RowsAgree => HeldWhileOpen
  BY DEF RowsAgree, FundsAgree, HeldWhileOpen
<1> QED BY Agreement, <1>1, PTL


-----------------------------------------------------------------------------
(* The price of an order.                                                  *)

LEMMA BoughtType ==
  ASSUME NEW H, Typed(H), NEW o \in Orders
  PROVE  /\ Bought(o) \in [Trades -> Int] /\ Total(Bought(o)) \in Int
         /\ Captured[o] \in Nat
         /\ Captured[o] = IF funds[o].state = "captured" THEN funds[o].wallet ELSE 0
<1>1. Bought(o) \in [Trades -> Int]
  BY DEF Typed, Bought, ReceiptRows
<1>2. Total(Bought(o)) \in Int
  BY <1>1, Sets, TotalInt
<1>3. Captured[o] = IF funds[o].state = "captured" THEN funds[o].wallet ELSE 0
  BY DEF Captured
<1>4. funds[o].wallet \in Nat
  BY DEF Typed, FundRows
<1> QED BY <1>1, <1>2, <1>3, <1>4

(* Steps that neither pay an order nor use a payment for one.              *)
LEMMA PriceUntouched ==
  ASSUME NEW H, Typed(H), Typed(H)', PaidInFull,
         \A p \in Orders : orders'[p].status = "paid" <=> orders[p].status = "paid",
         \A p \in Orders : /\ funds'[p].wallet = funds[p].wallet \/ funds'[p].state # "captured"
                           /\ funds'[p].state = "captured" <=> funds[p].state = "captured",
         \A t \in Trades : \/ receipts'[t] = receipts[t]
                           \/ /\ receipts[t].disposition \notin {"fulfilled", "wallet_topup"}
                              /\ receipts'[t].disposition \notin {"fulfilled", "wallet_topup"},
         UNCHANGED grants
  PROVE  PaidInFull'
<1>1. \A p \in Orders : Bought(p)' = Bought(p)
  BY DEF Bought
<1>2. \A p \in Orders : Captured'[p] = Captured[p]
  BY DEF Captured
<1>3. \A p \in Orders : Total(Bought(p))' = Total(Bought(p))
  BY <1>1
<1> QED BY <1>2, <1>3 DEF PaidInFull

LEMMA PricePaid ==
  ASSUME NEW H, Typed(H), Typed(H)', RowsAgree, PaidInFull, NEW o \in Orders, Paid(o),
         NEW n \in Nat, Total(Bought(o))' = Total(Bought(o)) + n,
         \A p \in Orders \ {o} : Bought(p)' = Bought(p),
         LET w == IF Configured(o) THEN funds[o].wallet ELSE 0
         IN  n + w = Price[o] \/ (n + w = 0 /\ o \notin TopUps)
  PROVE  PaidInFull'
<1>1. /\ \A p \in Orders \ {o} : funds'[p] = funds[p]
      /\ funds'[o].wallet = funds[o].wallet
      /\ funds'[o].state = IF Configured(o) THEN "captured" ELSE "none"
  BY PaidFunds
<1>2. Captured'[o] = IF Configured(o) THEN funds[o].wallet ELSE 0
  BY <1>1 DEF Captured
<1>3. \A p \in Orders \ {o} : Captured'[p] = Captured[p]
  BY <1>1 DEF Captured
<1>4. \A p \in Orders \ {o} : Total(Bought(p))' = Total(Bought(p))
  OBVIOUS
<1>5. orders[o].status # "paid" /\ funds[o].state # "captured"
  BY DEF Paid, RowsAgree, FundsAgree
<1>6. Total(Bought(o)) = 0 /\ grants[o] = 0
  <2>1. Captured[o] = 0 /\ Total(Bought(o)) \in Int
    BY <1>5, BoughtType
  <2>2. grants[o] = 0 /\ Total(Bought(o)) + Captured[o] = 0
    BY <1>5 DEF PaidInFull
  <2> QED BY <2>1, <2>2
<1>7. Total(Bought(o))' = n
  BY <1>6
<1>8. /\ grants'[o] = 1 /\ \A p \in Orders \ {o} : grants'[p] = grants[p]
      /\ orders'[o].status = "paid" /\ \A p \in Orders \ {o} : orders'[p] = orders[p]
  BY <1>6 DEF Paid, Typed
<1> SUFFICES ASSUME NEW p \in Orders
             PROVE  (LET taken == Total(Bought(p)) + Captured[p] IN
                     IF orders[p].status = "paid"
                     THEN grants[p] = 1 /\ (taken = Price[p] \/ (taken = 0 /\ p \notin TopUps))
                     ELSE grants[p] = 0 /\ taken = 0)'
  BY DEF PaidInFull
<1>9. CASE p = o
  BY <1>2, <1>7, <1>8, <1>9
<1>10. CASE p # o
  BY <1>3, <1>4, <1>8, <1>10 DEF PaidInFull
<1> QED BY <1>9, <1>10

LEMMA OrderPrice ==
  ASSUME NEW H, Typed(H), Typed(H)', RowsAgree, PaidInFull, NEW o \in Orders, OrderStep(o)
  PROVE  PaidInFull'
<1>1. ASSUME Released(o), UNCHANGED <<receipts, grants>> PROVE PaidInFull'
  <2>1. \A p \in Orders : /\ orders'[p].status = "paid" <=> orders[p].status = "paid"
                          /\ funds'[p].wallet = funds[p].wallet
                          /\ funds'[p].state = "captured" <=> funds[p].state = "captured"
    BY <1>1, ReleasedFunds DEF Released
  <2> QED BY <1>1, <2>1, PriceUntouched
<1>2. ASSUME UNCHANGED <<orders, funds, receipts, grants>> PROVE PaidInFull'
  BY <1>2, PriceUntouched
<1>3. ASSUME NEW channel \in Channels, Create(o, channel) PROVE PaidInFull'
  <2>1. \A p \in Orders : orders'[p].status = "paid" <=> orders[p].status = "paid"
    BY <1>3 DEF Create, Typed, OrderRows
  <2> QED BY <1>3, <2>1, PriceUntouched DEF Create
<1>4. ASSUME NEW balance \in BOOLEAN, Configure(o, balance) PROVE PaidInFull'
  <2>1. \A p \in Orders \ {o} : funds'[p] = funds[p]
    BY <1>4 DEF Configure, Typed
  <2>2. funds[o].state = "none" /\ funds'[o].state = "reserved"
    BY <1>4 DEF Configure, Configured, Typed
  <2> QED BY <1>4, <2>1, <2>2, PriceUntouched DEF Configure
<1>a. ASSUME Paid(o), UNCHANGED receipts,
             LET w == IF Configured(o) THEN funds[o].wallet ELSE 0
             IN  w = Price[o] \/ (w = 0 /\ o \notin TopUps)
      PROVE  PaidInFull'
  <2>1. \A p \in Orders : Bought(p)' = Bought(p)
    BY <1>a DEF Bought
  <2>2. Total(Bought(o))' = Total(Bought(o)) + 0
    BY <2>1, BoughtType
  <2>3. LET w == IF Configured(o) THEN funds[o].wallet ELSE 0
        IN  0 + w = Price[o] \/ (0 + w = 0 /\ o \notin TopUps)
    BY <1>a DEF Typed, FundRows
  <2> QED BY <1>a, <2>1, <2>2, <2>3, PricePaid
<1>5. CASE Pay(o)
  <2>1. Paid(o)
    BY <1>5, WhoPays
  <2>2. funds[o].wallet + 0 = Price[o] /\ Configured(o)
    BY <1>5 DEF Pay, Live, RowsAgree, FundsAgree, Configured
  <2>3. funds[o].wallet = Price[o]
    BY <2>2 DEF Typed, FundRows
  <2> QED BY <1>5, <1>a, <2>1, <2>2, <2>3 DEF Pay
<1>6. ASSUME NEW force \in BOOLEAN, Settle(o, force) PROVE PaidInFull'
  <2>1. Paid(o)
    BY <1>6, WhoPays
  <2> QED BY <1>6, <1>a, <2>1 DEF Settle
<1>7. CASE Expire(o)
  BY <1>1, <1>7, WhoReleases DEF Expire
<1>8. ASSUME NEW status \in {"failed", "canceled"}, NEW force \in BOOLEAN, Close(o, status, force)
      PROVE  PaidInFull'
  BY <1>1, <1>8, WhoReleases DEF Close
<1>9. ASSUME NEW p \in Providers, OpenCheckout(o, p) PROVE PaidInFull'
  BY <1>2, <1>9 DEF OpenCheckout
<1>10. ASSUME NEW t \in Trades, RecordFailed(o, t) PROVE PaidInFull'
  BY <1>1, <1>10, WhoReleases DEF RecordFailed
<1>11. ASSUME NEW t \in Trades, PaidFactStep(o, t) PROVE PaidInFull'
  <2>0. PICK amount \in {Price[o], funds[o].cash} :
           \/ RepeatReceipt(o, t, amount) \/ BoundReceipt(o, t, amount)
           \/ ReviewReceipt(o, t, amount) \/ FulfillReceipt(o, t, amount)
           \/ CreditReceipt(o, t, amount)
    BY <1>11 DEF PaidFactStep
  <2>1. amount \in Nat
    BY PriceType DEF FundRows, Typed
  <2>2. CASE RepeatReceipt(o, t, amount)
    BY <2>2, <1>2 DEF RepeatReceipt
  <2>3. ASSUME NEW disposition, NewReceipt(t), Dispose(o, t, amount, disposition)
        PROVE  /\ receipts[t].disposition = "none"
               /\ receipts'[t] = [disposition |-> disposition, order |-> o, amount |-> amount]
               /\ \A u \in Trades \ {t} : receipts'[u] = receipts[u]
    BY <2>3 DEF NewReceipt, Dispose, Typed
  <2>a. ASSUME NEW disposition \in {"legacy_applied", "review_required", "wallet_credit"},
               NewReceipt(t), Dispose(o, t, amount, disposition)
        PROVE  \A u \in Trades : \/ receipts'[u] = receipts[u]
                                 \/ /\ receipts[u].disposition \notin {"fulfilled", "wallet_topup"}
                                    /\ receipts'[u].disposition \notin {"fulfilled", "wallet_topup"}
    <3>1. receipts[t].disposition = "none" /\ receipts'[t].disposition = disposition
          /\ \A u \in Trades \ {t} : receipts'[u] = receipts[u]
      BY <2>a DEF NewReceipt, Dispose, Typed
    <3> QED BY <3>1, <2>a
  <2>4. CASE BoundReceipt(o, t, amount)
    <3>1. \A u \in Trades : \/ receipts'[u] = receipts[u]
                            \/ /\ receipts[u].disposition \notin {"fulfilled", "wallet_topup"}
                               /\ receipts'[u].disposition \notin {"fulfilled", "wallet_topup"}
      BY <2>a, <2>4 DEF BoundReceipt
    <3>2. UNCHANGED <<orders, funds, grants>>
      BY <2>4 DEF BoundReceipt
    <3> QED BY <3>1, <3>2, PriceUntouched
  <2>5. CASE ReviewReceipt(o, t, amount)
    <3>1. \A u \in Trades : \/ receipts'[u] = receipts[u]
                            \/ /\ receipts[u].disposition \notin {"fulfilled", "wallet_topup"}
                               /\ receipts'[u].disposition \notin {"fulfilled", "wallet_topup"}
      BY <2>a, <2>5 DEF ReviewReceipt
    <3>2. UNCHANGED <<orders, funds, grants>>
      BY <2>5 DEF ReviewReceipt
    <3> QED BY <3>1, <3>2, PriceUntouched
  <2>6. CASE CreditReceipt(o, t, amount)
    <3>1. Released(o)
      BY <2>1, <2>6, WhoReleases
    <3>2. \A p \in Orders : /\ orders'[p].status = "paid" <=> orders[p].status = "paid"
                            /\ funds'[p].wallet = funds[p].wallet
                            /\ funds'[p].state = "captured" <=> funds[p].state = "captured"
      BY <3>1, ReleasedFunds DEF Released
    <3>3. \A u \in Trades : \/ receipts'[u] = receipts[u]
                            \/ /\ receipts[u].disposition \notin {"fulfilled", "wallet_topup"}
                               /\ receipts'[u].disposition \notin {"fulfilled", "wallet_topup"}
      BY <2>a, <2>6 DEF CreditReceipt
    <3>4. UNCHANGED grants
      BY <2>6 DEF CreditReceipt
    <3> QED BY <3>2, <3>3, <3>4, PriceUntouched
  <2>7. CASE FulfillReceipt(o, t, amount)
    <3>1. Paid(o)
      BY <2>1, <2>7, WhoPays
    <3>2. PICK disposition \in {"fulfilled", "wallet_topup"} :
             /\ receipts[t].disposition = "none"
             /\ receipts'[t] = [disposition |-> disposition, order |-> o, amount |-> amount]
             /\ \A u \in Trades \ {t} : receipts'[u] = receipts[u]
      BY <2>3, <2>7 DEF FulfillReceipt
    <3>3. \A p \in Orders \ {o} : Bought(p)' = Bought(p)
      BY <3>2 DEF Bought
    <3>4. /\ Bought(o)[t] = 0 /\ Bought(o)'[t] = amount
          /\ \A u \in Trades \ {t} : Bought(o)'[u] = Bought(o)[u]
      BY <3>2 DEF Bought
    <3>5. Bought(o) \in [Trades -> Int] /\ Bought(o)' \in [Trades -> Int] /\ Total(Bought(o)) \in Int
      <4>1. Bought(o)' \in [Trades -> Int]
        BY DEF Typed, Bought, ReceiptRows
      <4> QED BY <4>1, BoughtType
    <3>6. Total(Bought(o))' = Total(Bought(o)) - Bought(o)[t] + Bought(o)'[t]
      BY <3>4, <3>5, Sets, TotalUpdate
    <3>7. Total(Bought(o))' = Total(Bought(o)) + amount
      BY <2>1, <3>4, <3>5, <3>6
    <3>8. amount = Cash(o) /\ (Configured(o) => ~UnplannedWhole(o, t, amount))
      BY <2>7 DEF FulfillReceipt, PaidFact, UnplannedWhole, FundingLost
    <3>9. LET w == IF Configured(o) THEN funds[o].wallet ELSE 0 IN amount + w = Price[o]
      BY <2>1, <3>8, PriceType DEF Cash, RowsAgree, FundsAgree, Typed, FundRows
    <3> QED BY <2>1, <3>1, <3>3, <3>7, <3>9, PricePaid
  <2> QED BY <2>0, <2>2, <2>4, <2>5, <2>6, <2>7
<1> QED BY <1>3, <1>4, <1>5, <1>6, <1>7, <1>8, <1>9, <1>10, <1>11 DEF OrderStep


LEMMA OtherPrice ==
  ASSUME NEW H, Typed(H), Typed(H)', PaidInFull, Tick \/ AdjustmentStep \/ UNCHANGED vars
  PROVE  PaidInFull'
<1>1. CASE Tick
  <2>1. \A p \in Orders : funds'[p].wallet = funds[p].wallet /\ funds'[p].state = funds[p].state
    BY <1>1, TickFunds
  <2>2. UNCHANGED <<orders, receipts, grants>>
    BY <1>1 DEF Tick
  <2> QED BY <2>1, <2>2, PriceUntouched
<1>2. ASSUME NEW t \in Trades, NEW disposition \in {"wallet_credit", "legacy_applied"},
             Resolve(t, disposition)
      PROVE  PaidInFull'
  <2>1. /\ receipts[t].disposition = "review_required" /\ receipts'[t].disposition = disposition
        /\ \A u \in Trades \ {t} : receipts'[u] = receipts[u]
        /\ UNCHANGED <<orders, funds, grants>>
    BY <1>2 DEF Resolve, Typed, ReceiptRows
  <2>2. \A u \in Trades : \/ receipts'[u] = receipts[u]
                          \/ /\ receipts[u].disposition \notin {"fulfilled", "wallet_topup"}
                             /\ receipts'[u].disposition \notin {"fulfilled", "wallet_topup"}
    BY <2>1
  <2> QED BY <2>1, <2>2, PriceUntouched
<1>3. ASSUME UNCHANGED <<orders, funds, receipts, grants>> PROVE PaidInFull'
  BY <1>3, PriceUntouched
<1>4. CASE AdjustmentStep
  BY <1>2, <1>3, <1>4 DEF AdjustmentStep, Credit, Debit, Reverse, RecordPayout
<1>5. CASE UNCHANGED vars
  BY <1>3, <1>5 DEF vars
<1> QED BY <1>1, <1>4, <1>5

LEMMA InitPrice == Init => PaidInFull
<1> SUFFICES ASSUME Init PROVE PaidInFull
  OBVIOUS
<1>1. \A o \in Orders : Bought(o) = [t \in Trades |-> 0] /\ Captured[o] = 0
  BY DEF Init, NoReceipt, NoFund, Bought, Captured
<1> DEFINE z == [t \in Trades |-> 0]
<1>2. z \in [Trades -> Int] /\ \A t \in Trades : z[t] = 0
  OBVIOUS
<1> HIDE DEF z
<1>3. Total(z) = 0
  BY <1>2, Sets, TotalZero
<1>4. \A o \in Orders : Total(Bought(o)) = 0
  BY <1>1, <1>3 DEF z
<1> QED BY <1>1, <1>4 DEF Init, NoOrder, PaidInFull

(* An order is delivered once, when it is paid, and for its price: the     *)
(* payment that bought it plus the balance it captured, or neither when an *)
(* administrator settled it.  However reports, retries, expiries and       *)
(* cancellations interleave, no order is paid twice or partly              *)
(* (payment_facts.go:169-265, order_fulfillment.go:17-181).                *)
THEOREM OrderCostsItsPrice == Spec => []PaidInFull
<1>1. ASSUME TypeOK, TypeOK', RowsAgree, PaidInFull, [PaymentNext]_vars PROVE PaidInFull'
  <2>1. ASSUME NEW o \in Orders, OrderStep(o) PROVE PaidInFull'
    BY <1>1, <2>1, OrderPrice DEF TypeOK
  <2>2. CASE Tick \/ AdjustmentStep \/ UNCHANGED vars
    BY <1>1, <2>2, OtherPrice DEF TypeOK
  <2> QED BY <1>1, <2>1, <2>2 DEF PaymentNext
<1> QED BY InitPrice, <1>1, Agreement, PTL DEF Spec


-----------------------------------------------------------------------------
(* The books of the wallet.                                                *)

LEMMA BookTypes ==
  ASSUME NEW H, Typed(H)
  PROVE  /\ Given \in [Credits -> Int] /\ ToppedUp \in [Orders -> Int]
         /\ Converted \in [Trades -> Int] /\ Captured \in [Orders -> Int]
         /\ Withdrawn \in [Debits -> Int] /\ SetAside \in [Orders -> Int]
<1> USE DEF Typed
<1>1. Given \in [Credits -> Int]
  BY AmountType DEF Given
<1>2. ToppedUp \in [Orders -> Int]
  BY PriceType DEF ToppedUp
<1>3. Converted \in [Trades -> Int]
  BY DEF Converted, ReceiptRows
<1>4. Captured \in [Orders -> Int]
  BY DEF Captured, FundRows
<1>5. Withdrawn \in [Debits -> Int]
  BY AmountType DEF Withdrawn
<1>6. SetAside \in [Orders -> Int]
  BY DEF SetAside, FundRows
<1> QED BY <1>1, <1>2, <1>3, <1>4, <1>5, <1>6

LEMMA TotalTypes ==
  ASSUME NEW H, Typed(H)
  PROVE  /\ Total(Given) \in Int /\ Total(ToppedUp) \in Int /\ Total(Converted) \in Int
         /\ Total(Captured) \in Int /\ Total(Withdrawn) \in Int /\ Total(SetAside) \in Int
BY BookTypes, Sets, TotalInt

(* The totals over orders after a step that writes the rows of order o.    *)
LEMMA OrderTotals ==
  ASSUME NEW H, Typed(H), Typed(H)', NEW o \in Orders,
         \A p \in Orders \ {o} : orders'[p] = orders[p] /\ funds'[p] = funds[p]
  PROVE  /\ Total(ToppedUp)' = Total(ToppedUp) - ToppedUp[o] + ToppedUp'[o]
         /\ Total(Captured)' = Total(Captured) - Captured[o] + Captured'[o]
         /\ Total(SetAside)' = Total(SetAside) - SetAside[o] + SetAside'[o]
<1>1. /\ ToppedUp \in [Orders -> Int] /\ Captured \in [Orders -> Int] /\ SetAside \in [Orders -> Int]
  BY BookTypes
<1>2. /\ ToppedUp' \in [Orders -> Int] /\ Captured' \in [Orders -> Int] /\ SetAside' \in [Orders -> Int]
  <2>1. ToppedUp' \in [Orders -> Int]
    BY PriceType DEF ToppedUp, Typed
  <2>2. Captured' \in [Orders -> Int]
    BY DEF Captured, FundRows, Typed
  <2>3. SetAside' \in [Orders -> Int]
    BY DEF SetAside, FundRows, Typed
  <2> QED BY <2>1, <2>2, <2>3
<1>3. \A p \in Orders \ {o} : ToppedUp'[p] = ToppedUp[p]
  BY DEF ToppedUp
<1>4. \A p \in Orders \ {o} : Captured'[p] = Captured[p]
  BY DEF Captured
<1>5. \A p \in Orders \ {o} : SetAside'[p] = SetAside[p]
  BY DEF SetAside
<1>6. Total(ToppedUp)' = Total(ToppedUp) - ToppedUp[o] + ToppedUp'[o]
  BY <1>1, <1>2, <1>3, Sets, TotalUpdate
<1>7. Total(Captured)' = Total(Captured) - Captured[o] + Captured'[o]
  BY <1>1, <1>2, <1>4, Sets, TotalUpdate
<1>8. Total(SetAside)' = Total(SetAside) - SetAside[o] + SetAside'[o]
  BY <1>1, <1>2, <1>5, Sets, TotalUpdate
<1> QED BY <1>6, <1>7, <1>8

LEMMA ReceiptTotals ==
  ASSUME NEW H, Typed(H), Typed(H)', NEW t \in Trades,
         \A u \in Trades \ {t} : receipts'[u] = receipts[u]
  PROVE  Total(Converted)' = Total(Converted) - Converted[t] + Converted'[t]
<1>1. Converted \in [Trades -> Int]
  BY BookTypes
<1>2. Converted' \in [Trades -> Int]
  BY DEF Converted, ReceiptRows, Typed
<1>3. \A u \in Trades \ {t} : Converted'[u] = Converted[u]
  BY DEF Converted
<1> QED BY <1>1, <1>2, <1>3, Sets, TotalUpdate

LEMMA DebitTotals ==
  ASSUME NEW H, Typed(H), Typed(H)', NEW d \in Debits,
         \A e \in Debits \ {d} : adjustments'[e] = adjustments[e]
  PROVE  Total(Withdrawn)' = Total(Withdrawn) - Withdrawn[d] + Withdrawn'[d]
<1>1. Withdrawn \in [Debits -> Int]
  BY BookTypes
<1>2. Withdrawn' \in [Debits -> Int]
  BY AmountType DEF Withdrawn
<1>3. \A e \in Debits \ {d} : Withdrawn'[e] = Withdrawn[e]
  BY DEF Withdrawn
<1> QED BY <1>1, <1>2, <1>3, Sets, TotalUpdate

LEMMA CreditTotals ==
  ASSUME NEW H, Typed(H), Typed(H)', NEW k \in Credits,
         \A j \in Credits \ {k} : Booked(<<"credit", j>>)' <=> Booked(<<"credit", j>>)
  PROVE  Total(Given)' = Total(Given) - Given[k] + Given'[k]
<1>1. Given \in [Credits -> Int]
  BY BookTypes
<1>2. Given' \in [Credits -> Int]
  BY AmountType DEF Given
<1>3. \A j \in Credits \ {k} : Given'[j] = Given[j]
  BY DEF Given
<1> QED BY <1>1, <1>2, <1>3, Sets, TotalUpdate

(* An entry is never taken back.                                           *)
LEMMA BookedStays == ASSUME NEW es, appendWalletEntries(es), NEW k, Booked(k) PROVE Booked(k)'
BY DEF appendWalletEntries, Booked

LEMMA ReleasedBooks ==
  ASSUME NEW H, Typed(H), Typed(H)', RowsAgree, NEW o \in Orders, Released(o)
  PROVE  /\ Total(ToppedUp)' = Total(ToppedUp) /\ Total(Captured)' = Total(Captured)
         /\ Total(SetAside)' = Total(SetAside) - SetAside[o]
<1>1. /\ \A p \in Orders \ {o} : funds'[p] = funds[p]
      /\ funds'[o].wallet = funds[o].wallet
      /\ funds'[o].state = IF funds[o].state = "reserved" THEN "released" ELSE funds[o].state
  BY ReleasedFunds
<1>2. \A p \in Orders \ {o} : orders'[p] = orders[p]
  BY DEF Released
<1>3. ToppedUp'[o] = ToppedUp[o]
  BY DEF ToppedUp, Released
<1>4. Captured'[o] = Captured[o]
  BY <1>1 DEF Captured
<1>5. SetAside'[o] = 0
  BY <1>1 DEF SetAside
<1>6. /\ Total(ToppedUp)' = Total(ToppedUp) - ToppedUp[o] + ToppedUp'[o]
      /\ Total(Captured)' = Total(Captured) - Captured[o] + Captured'[o]
      /\ Total(SetAside)' = Total(SetAside) - SetAside[o] + SetAside'[o]
  BY <1>1, <1>2, OrderTotals
<1>7. ToppedUp[o] \in Int /\ Captured[o] \in Int /\ SetAside[o] \in Int
  BY BookTypes
<1> QED BY <1>3, <1>4, <1>5, <1>6, <1>7, TotalTypes

LEMMA PaidBooks ==
  ASSUME NEW H, Typed(H), Typed(H)', RowsAgree, NEW o \in Orders, Paid(o)
  PROVE  /\ Total(ToppedUp)' = Total(ToppedUp) + (IF o \in TopUps THEN Price[o] ELSE 0)
         /\ Total(Captured)' = Total(Captured) + SetAside[o]
         /\ Total(SetAside)' = Total(SetAside) - SetAside[o]
<1>1. /\ \A p \in Orders \ {o} : funds'[p] = funds[p]
      /\ funds'[o].wallet = funds[o].wallet
      /\ funds'[o].state = IF Configured(o) THEN "captured" ELSE "none"
  BY PaidFunds
<1>2. \A p \in Orders \ {o} : orders'[p] = orders[p]
  BY DEF Paid
<1>a. Configured(o) <=> funds[o].state = "reserved"
  BY DEF Paid, Configured
<1>3. ToppedUp[o] = 0 /\ ToppedUp'[o] = IF o \in TopUps THEN Price[o] ELSE 0
  BY DEF ToppedUp, Paid
<1>4. Captured[o] = 0 /\ Captured'[o] = SetAside[o]
  BY <1>1, <1>a DEF Captured, SetAside, Configured
<1>5. SetAside'[o] = 0
  BY <1>1 DEF SetAside
<1>6. /\ Total(ToppedUp)' = Total(ToppedUp) - ToppedUp[o] + ToppedUp'[o]
      /\ Total(Captured)' = Total(Captured) - Captured[o] + Captured'[o]
      /\ Total(SetAside)' = Total(SetAside) - SetAside[o] + SetAside'[o]
  BY <1>1, <1>2, OrderTotals
<1>7. SetAside[o] \in Int /\ Price[o] \in Int
  BY BookTypes, PriceType
<1> QED BY <1>3, <1>4, <1>5, <1>6, <1>7, TotalTypes


LEMMA SameTotals ==
  /\ UNCHANGED receipts => Total(Converted)' = Total(Converted)
  /\ UNCHANGED adjustments => Total(Withdrawn)' = Total(Withdrawn)
  /\ (\A j \in Credits : Booked(<<"credit", j>>)' <=> Booked(<<"credit", j>>))
        => Total(Given)' = Total(Given)
  /\ UNCHANGED orders => Total(ToppedUp)' = Total(ToppedUp)
  /\ UNCHANGED funds => Total(Captured)' = Total(Captured) /\ Total(SetAside)' = Total(SetAside)
<1>1. UNCHANGED receipts => Converted' = Converted
  BY DEF Converted
<1>2. UNCHANGED adjustments => Withdrawn' = Withdrawn
  BY DEF Withdrawn
<1>3. (\A j \in Credits : Booked(<<"credit", j>>)' <=> Booked(<<"credit", j>>)) => Given' = Given
  BY DEF Given
<1>4. UNCHANGED orders => ToppedUp' = ToppedUp
  BY DEF ToppedUp
<1>5. UNCHANGED funds => Captured' = Captured /\ SetAside' = SetAside
  BY DEF Captured, SetAside
<1> QED BY <1>1, <1>2, <1>3, <1>4, <1>5

LEMMA AccountType ==
  ASSUME NEW H, Typed(H) PROVE account.balance \in Nat /\ account.reserved \in Nat
BY DEF Typed, AccountRows

(* What goes back is no longer reserved, and the balance is as before.     *)
LEMMA ReleasedWallet ==
  ASSUME NEW H, Typed(H), Typed(H)', RowsAgree, WalletExplained, NEW o \in Orders, Released(o),
         appendWalletEntries(ReleaseEntries(o)), UNCHANGED <<receipts, adjustments>>
  PROVE  WalletExplained'
<1>1. KeysAgree
  BY DEF RowsAgree
<1>2. /\ account'.balance = account.balance
      /\ account'.reserved = account.reserved - SetAside[o]
      /\ \A k : Booked(k)' => Booked(k) \/ (k = <<"release", o>> /\ funds[o].state = "reserved")
  BY <1>1, ReleaseAccount
<1>3. \A j \in Credits : Booked(<<"credit", j>>)' <=> Booked(<<"credit", j>>)
  BY <1>2, BookedStays
<1>4. /\ Total(Converted)' = Total(Converted) /\ Total(Withdrawn)' = Total(Withdrawn)
      /\ Total(Given)' = Total(Given)
  BY <1>3, SameTotals
<1>5. /\ Total(ToppedUp)' = Total(ToppedUp) /\ Total(Captured)' = Total(Captured)
      /\ Total(SetAside)' = Total(SetAside) - SetAside[o]
  BY ReleasedBooks
<1> QED BY <1>2, <1>4, <1>5 DEF WalletExplained

LEMMA PaidWallet ==
  ASSUME NEW H, Typed(H), Typed(H)', RowsAgree, WalletExplained, NEW o \in Orders, Paid(o),
         appendWalletEntries(CaptureEntries(o)
              \cup IF o \in TopUps THEN {Entry(<<"topup", o>>, Price[o], 0)} ELSE {}),
         Total(Converted)' = Total(Converted), UNCHANGED adjustments
  PROVE  WalletExplained'
<1>1. orders[o].status # "paid" /\ (Configured(o) => funds[o].state = "reserved")
  BY DEF Paid
<1>2. /\ account'.balance = account.balance - SetAside[o] + (IF o \in TopUps THEN Price[o] ELSE 0)
      /\ account'.reserved = account.reserved - SetAside[o]
      /\ \A k : Booked(k)' => \/ Booked(k)
                              \/ k = <<"capture", o>> /\ Configured(o)
                              \/ k = <<"topup", o>>
  BY <1>1, PaidAccount
<1>3. \A j \in Credits : Booked(<<"credit", j>>)' <=> Booked(<<"credit", j>>)
  BY <1>2, BookedStays
<1>4. Total(Withdrawn)' = Total(Withdrawn) /\ Total(Given)' = Total(Given)
  BY <1>3, SameTotals
<1>5. /\ Total(ToppedUp)' = Total(ToppedUp) + (IF o \in TopUps THEN Price[o] ELSE 0)
      /\ Total(Captured)' = Total(Captured) + SetAside[o]
      /\ Total(SetAside)' = Total(SetAside) - SetAside[o]
  BY PaidBooks
<1>6. SetAside[o] \in Int /\ Price[o] \in Int
  BY BookTypes, PriceType
<1> QED BY <1>2, <1>4, <1>5, <1>6, TotalTypes, AccountType DEF WalletExplained

LEMMA OrderWallet ==
  ASSUME NEW H, Typed(H), Typed(H)', RowsAgree, WalletExplained, NEW o \in Orders, OrderStep(o)
  PROVE  WalletExplained'
<1>0. ASSUME entries' = entries, NEW j PROVE Booked(<<"credit", j>>)' <=> Booked(<<"credit", j>>)
  BY <1>0, BookedSame
<1>1. ASSUME NEW channel \in Channels, Create(o, channel) PROVE WalletExplained'
  <2>1. /\ \A p \in Orders \ {o} : orders'[p] = orders[p]
        /\ orders[o].status # "paid" /\ orders'[o].status # "paid"
    BY <1>1 DEF Create, Typed, OrderRows
  <2>2. ToppedUp' = ToppedUp
    BY <2>1 DEF ToppedUp
  <2>3. UNCHANGED <<funds, account, entries, receipts, adjustments>>
    BY <1>1 DEF Create, ledger
  <2>4. /\ Total(Converted)' = Total(Converted) /\ Total(Withdrawn)' = Total(Withdrawn)
        /\ Total(Given)' = Total(Given) /\ Total(Captured)' = Total(Captured)
        /\ Total(SetAside)' = Total(SetAside)
    BY <1>0, <2>3, SameTotals
  <2>5. Total(ToppedUp)' = Total(ToppedUp)
    BY <2>2
  <2> QED BY <2>3, <2>4, <2>5 DEF WalletExplained
<1>2. ASSUME NEW balance \in BOOLEAN, Configure(o, balance) PROVE WalletExplained'
  <2> DEFINE wallet == IF balance THEN Min({Available, Price[o]}) ELSE 0
             e == Entry(<<"reserve", o>>, 0, wallet)
             es == IF wallet > 0 THEN {e} ELSE {}
  <2>1. wallet \in Nat
    <3>1. Available \in Nat /\ Price[o] \in Nat
      BY PriceType DEF Available, AccountRows, Typed
    <3>2. Min({Available, Price[o]}) \in {Available, Price[o]}
      <4>1. Available \in Int /\ Price[o] \in Int
        BY <3>1
      <4> QED BY <4>1, MinOfTwo
    <3> QED BY <3>1, <3>2
  <2>2. /\ ~Configured(o) /\ appendWalletEntries(es)
        /\ funds' = [funds EXCEPT ![o] = [state |-> "reserved", balance |-> balance,
              wallet |-> wallet, cash |-> Price[o] - wallet, left |-> Lifetime]]
        /\ UNCHANGED <<orders, receipts, adjustments, grants>>
    BY <1>2 DEF Configure
  <2>3. <<"reserve", o>> \in EntryKeys /\ ~Booked(<<"reserve", o>>)
    BY <2>2, KeyType DEF RowsAgree, KeysAgree
  <2> HIDE DEF wallet
  <2>4. e \in EntryRows /\ e.key = <<"reserve", o>> /\ e.balance = 0 /\ e.reserved = wallet
    BY <2>1, <2>3, EntryType
  <2>5. /\ account'.balance = account.balance /\ account'.reserved = account.reserved + wallet
        /\ \A k : Booked(k)' => Booked(k) \/ k = <<"reserve", o>>
    <3>1. CASE wallet > 0
      <4>1. appendWalletEntries({e})
        BY <2>2, <3>1
      <4>2. entries' = entries \cup {Entry(<<"reserve", o>>, 0, wallet)}
        BY <4>1 DEF appendWalletEntries
      <4>3. \A k : Booked(k)' <=> Booked(k) \/ k = <<"reserve", o>>
        BY <4>2, BookedEntry
      <4> HIDE DEF e
      <4>4. /\ account'.balance = account.balance + e.balance
            /\ account'.reserved = account.reserved + e.reserved
        BY <2>3, <2>4, <4>1, AppendOne DEF Typed
      <4> QED BY <2>4, <4>3, <4>4, AccountType
    <3>2. CASE ~(wallet > 0)
      <4>1. account' = account /\ entries' = entries
        BY <2>2, <3>2, AppendNothing DEF Typed
      <4>2. \A k : Booked(k)' <=> Booked(k)
        BY <4>1, BookedSame
      <4>3. wallet = 0
        BY <2>1, <3>2
      <4> QED BY <4>1, <4>2, <4>3, AccountType
    <3> QED BY <3>1, <3>2
  <2>6. \A j \in Credits : Booked(<<"credit", j>>)' <=> Booked(<<"credit", j>>)
    BY <2>2, <2>5, BookedStays
  <2>7. /\ \A p \in Orders \ {o} : orders'[p] = orders[p] /\ funds'[p] = funds[p]
        /\ funds'[o].state = "reserved" /\ funds'[o].wallet = wallet
    BY <2>2 DEF Typed
  <2>8. /\ Total(Converted)' = Total(Converted) /\ Total(Withdrawn)' = Total(Withdrawn)
        /\ Total(Given)' = Total(Given) /\ Total(ToppedUp)' = Total(ToppedUp)
    BY <2>2, <2>6, SameTotals
  <2>9. /\ Total(Captured)' = Total(Captured) - Captured[o] + Captured'[o]
        /\ Total(SetAside)' = Total(SetAside) - SetAside[o] + SetAside'[o]
    BY <2>7, OrderTotals
  <2>10. Captured[o] = 0 /\ SetAside[o] = 0
    BY <2>2 DEF Captured, SetAside, Configured
  <2>11. Captured'[o] = 0 /\ SetAside'[o] = wallet
    BY <2>7 DEF Captured, SetAside
  <2>12. Total(Captured)' = Total(Captured) /\ Total(SetAside)' = Total(SetAside) + wallet
    BY <2>1, <2>9, <2>10, <2>11, TotalTypes
  <2> QED BY <2>5, <2>8, <2>12 DEF WalletExplained
<1>3. CASE Pay(o)
  <2>1. Paid(o)
    BY <1>3, WhoPays
  <2>2. Total(Converted)' = Total(Converted)
    BY <1>3, SameTotals DEF Pay
  <2> QED BY <1>3, <2>1, <2>2, PaidWallet DEF Pay, setPaid
<1>4. CASE Expire(o)
  BY <1>4, WhoReleases, ReleasedWallet DEF Expire
<1>5. ASSUME NEW status \in {"failed", "canceled"}, NEW force \in BOOLEAN, Close(o, status, force)
      PROVE  WalletExplained'
  BY <1>5, WhoReleases, ReleasedWallet DEF Close
<1>6. ASSUME NEW force \in BOOLEAN, Settle(o, force) PROVE WalletExplained'
  <2>1. Paid(o)
    BY <1>6, WhoPays
  <2>2. Total(Converted)' = Total(Converted)
    BY <1>6, SameTotals DEF Settle
  <2> QED BY <1>6, <2>1, <2>2, PaidWallet DEF Settle, setPaid
<1>a. ASSUME UNCHANGED <<orders, funds, account, entries, receipts, adjustments>> PROVE WalletExplained'
  <2>1. /\ Total(Converted)' = Total(Converted) /\ Total(Withdrawn)' = Total(Withdrawn)
        /\ Total(Given)' = Total(Given) /\ Total(Captured)' = Total(Captured)
        /\ Total(SetAside)' = Total(SetAside) /\ Total(ToppedUp)' = Total(ToppedUp)
    BY <1>0, <1>a, SameTotals
  <2> QED BY <1>a, <2>1 DEF WalletExplained
<1>7. ASSUME NEW p \in Providers, OpenCheckout(o, p) PROVE WalletExplained'
  BY <1>7, <1>a DEF OpenCheckout, ledger
<1>8. ASSUME NEW t \in Trades, RecordFailed(o, t) PROVE WalletExplained'
  BY <1>8, WhoReleases, ReleasedWallet DEF RecordFailed
<1>9. ASSUME NEW t \in Trades, PaidFactStep(o, t) PROVE WalletExplained'
  <2>0. PICK amount \in {Price[o], funds[o].cash} :
           \/ RepeatReceipt(o, t, amount) \/ BoundReceipt(o, t, amount)
           \/ ReviewReceipt(o, t, amount) \/ FulfillReceipt(o, t, amount)
           \/ CreditReceipt(o, t, amount)
    BY <1>9 DEF PaidFactStep
  <2>1. amount \in Nat
    BY PriceType DEF FundRows, Typed
  <2>2. CASE RepeatReceipt(o, t, amount)
    BY <2>2, <1>a DEF RepeatReceipt, ledger
  <2>3. ASSUME NEW disposition, NewReceipt(t), Dispose(o, t, amount, disposition)
        PROVE  /\ receipts[t].disposition = "none"
               /\ receipts'[t] = [disposition |-> disposition, order |-> o, amount |-> amount]
               /\ \A u \in Trades \ {t} : receipts'[u] = receipts[u]
               /\ Converted[t] = 0
               /\ Converted'[t] = IF disposition = "wallet_credit" THEN amount ELSE 0
               /\ Total(Converted)' = Total(Converted) - Converted[t] + Converted'[t]
    <3>1. /\ receipts[t].disposition = "none"
          /\ receipts'[t] = [disposition |-> disposition, order |-> o, amount |-> amount]
          /\ \A u \in Trades \ {t} : receipts'[u] = receipts[u]
      BY <2>3 DEF NewReceipt, Dispose, Typed
    <3>2. Converted[t] = 0 /\ Converted'[t] = IF disposition = "wallet_credit" THEN amount ELSE 0
      BY <3>1 DEF Converted
    <3> QED BY <3>1, <3>2, ReceiptTotals
  <2>4. ASSUME NEW disposition, disposition # "wallet_credit",
               NewReceipt(t), Dispose(o, t, amount, disposition)
        PROVE  Total(Converted)' = Total(Converted)
    <3>1. /\ Converted[t] = 0 /\ Converted'[t] = 0
          /\ Total(Converted)' = Total(Converted) - Converted[t] + Converted'[t]
      BY <2>3, <2>4
    <3> QED BY <3>1, TotalTypes
  <2>5. ASSUME UNCHANGED <<orders, funds, account, entries, adjustments>>,
               Total(Converted)' = Total(Converted)
        PROVE  WalletExplained'
    <3>1. /\ Total(Withdrawn)' = Total(Withdrawn)
          /\ Total(Given)' = Total(Given) /\ Total(Captured)' = Total(Captured)
          /\ Total(SetAside)' = Total(SetAside) /\ Total(ToppedUp)' = Total(ToppedUp)
      BY <1>0, <2>5, SameTotals
    <3> QED BY <2>5, <3>1 DEF WalletExplained
  <2>6. CASE BoundReceipt(o, t, amount)
    BY <2>4, <2>5, <2>6 DEF BoundReceipt, ledger
  <2>7. CASE ReviewReceipt(o, t, amount)
    BY <2>4, <2>5, <2>7 DEF ReviewReceipt, ledger
  <2>8. CASE FulfillReceipt(o, t, amount)
    <3>1. Paid(o)
      BY <2>1, <2>8, WhoPays
    <3>2. Total(Converted)' = Total(Converted)
      BY <2>4, <2>8 DEF FulfillReceipt
    <3> QED BY <2>8, <3>1, <3>2, PaidWallet DEF FulfillReceipt, setPaid
  <2>9. CASE CreditReceipt(o, t, amount)
    <3>1. Released(o)
      BY <2>1, <2>9, WhoReleases
    <3>2. /\ receipts[t].disposition = "none" /\ Converted[t] = 0 /\ Converted'[t] = amount
          /\ Total(Converted)' = Total(Converted) - Converted[t] + Converted'[t]
      BY <2>3, <2>9 DEF CreditReceipt
    <3>3. KeysAgree /\ ~Booked(<<"receipt", t>>)
      BY <3>2 DEF RowsAgree, KeysAgree
    <3>4. /\ account'.balance = account.balance + amount
          /\ account'.reserved = account.reserved - SetAside[o]
          /\ \A k : Booked(k)' => \/ Booked(k) \/ k = <<"receipt", t>>
                                  \/ k = <<"release", o>> /\ funds[o].state = "reserved"
      BY <2>1, <2>9, <3>3, CreditAccount DEF CreditReceipt
    <3>5. \A j \in Credits : Booked(<<"credit", j>>)' <=> Booked(<<"credit", j>>)
      BY <2>9, <3>4, BookedStays DEF CreditReceipt
    <3>6. Total(Withdrawn)' = Total(Withdrawn) /\ Total(Given)' = Total(Given)
      BY <2>9, <3>5, SameTotals DEF CreditReceipt
    <3>7. /\ Total(ToppedUp)' = Total(ToppedUp) /\ Total(Captured)' = Total(Captured)
          /\ Total(SetAside)' = Total(SetAside) - SetAside[o]
      BY <3>1, ReleasedBooks
    <3> QED BY <2>1, <3>2, <3>4, <3>6, <3>7, TotalTypes, AccountType DEF WalletExplained
  <2> QED BY <2>0, <2>2, <2>6, <2>7, <2>8, <2>9
<1> QED BY <1>1, <1>2, <1>3, <1>4, <1>5, <1>6, <1>7, <1>8, <1>9 DEF OrderStep


LEMMA AdjustmentWallet ==
  ASSUME NEW H, Typed(H), Typed(H)', RowsAgree, WalletExplained, AdjustmentStep
  PROVE  WalletExplained'
<1>0. ASSUME entries' = entries, NEW j PROVE Booked(<<"credit", j>>)' <=> Booked(<<"credit", j>>)
  BY <1>0, BookedSame
<1>a. ASSUME NEW key \in EntryKeys, NEW b \in Int, ~Booked(key),
             appendWalletEntries({Entry(key, b, 0)})
      PROVE  /\ account'.balance = account.balance + b /\ account'.reserved = account.reserved
             /\ \A k : Booked(k)' <=> Booked(k) \/ k = key
  <2> DEFINE e == Entry(key, b, 0)
  <2>1. e \in EntryRows /\ e.key = key /\ e.balance = b /\ e.reserved = 0
    BY EntryType
  <2>2. entries' = entries \cup {Entry(key, b, 0)}
    BY <1>a DEF appendWalletEntries
  <2>3. \A k : Booked(k)' <=> Booked(k) \/ k = key
    BY <2>2, BookedEntry
  <2>4. appendWalletEntries({e})
    BY <1>a
  <2> HIDE DEF e
  <2>5. account'.balance = account.balance + e.balance /\ account'.reserved = account.reserved + e.reserved
    BY <1>a, <2>1, <2>4, AppendOne DEF Typed
  <2> QED BY <2>1, <2>3, <2>5, AccountType
<1>1. ASSUME NEW t \in Trades, NEW disposition \in {"wallet_credit", "legacy_applied"},
             Resolve(t, disposition)
      PROVE  WalletExplained'
  <2>1. /\ receipts[t].disposition = "review_required" /\ receipts'[t].disposition = disposition
        /\ receipts'[t].amount = receipts[t].amount
        /\ \A u \in Trades \ {t} : receipts'[u] = receipts[u]
        /\ UNCHANGED <<orders, funds, adjustments>>
    BY <1>1 DEF Resolve, Typed, ReceiptRows
  <2>2. /\ Converted[t] = 0
        /\ Converted'[t] = IF disposition = "wallet_credit" THEN receipts[t].amount ELSE 0
    BY <2>1 DEF Converted
  <2>3. Total(Converted)' = Total(Converted) - Converted[t] + Converted'[t]
    BY <2>1, ReceiptTotals
  <2>4. receipts[t].amount \in Int
    BY DEF Typed, ReceiptRows
  <2>5. /\ account'.reserved = account.reserved
        /\ account'.balance = account.balance + Converted'[t]
        /\ \A j \in Credits : Booked(<<"credit", j>>)' <=> Booked(<<"credit", j>>)
    <3>1. CASE disposition = "wallet_credit"
      <4>1. <<"receipt", t>> \in EntryKeys
        BY KeyType
      <4>2. ~Booked(<<"receipt", t>>)
        BY <2>1 DEF RowsAgree, KeysAgree
      <4>3. appendWalletEntries({Entry(<<"receipt", t>>, receipts[t].amount, 0)})
        BY <1>1, <3>1 DEF Resolve
      <4>4. /\ account'.balance = account.balance + receipts[t].amount
            /\ account'.reserved = account.reserved
            /\ \A k : Booked(k)' <=> Booked(k) \/ k = <<"receipt", t>>
        BY <1>a, <2>4, <4>1, <4>2, <4>3
      <4> QED BY <2>2, <3>1, <4>4
    <3>2. CASE disposition # "wallet_credit"
      <4>1. appendWalletEntries({})
        BY <1>1, <3>2 DEF Resolve
      <4>2. account' = account /\ entries' = entries
        BY <4>1, AppendNothing DEF Typed
      <4> QED BY <1>0, <2>2, <3>2, <4>2, AccountType
    <3> QED BY <3>1, <3>2
  <2>6. /\ Total(Withdrawn)' = Total(Withdrawn) /\ Total(Given)' = Total(Given)
        /\ Total(ToppedUp)' = Total(ToppedUp) /\ Total(Captured)' = Total(Captured)
        /\ Total(SetAside)' = Total(SetAside)
    BY <2>1, <2>5, SameTotals
  <2> QED BY <2>2, <2>3, <2>4, <2>5, <2>6, TotalTypes, AccountType DEF WalletExplained
<1>2. ASSUME NEW c \in Credits, Credit(c) PROVE WalletExplained'
  <2>1. <<"credit", c>> \in EntryKeys
    BY KeyType
  <2>2. Amount[c] \in Int
    BY AmountType
  <2>3. /\ account'.balance = account.balance + Amount[c] /\ account'.reserved = account.reserved
        /\ \A k : Booked(k)' <=> Booked(k) \/ k = <<"credit", c>>
    BY <1>2, <1>a, <2>1, <2>2 DEF Credit
  <2>4. \A j \in Credits \ {c} : Booked(<<"credit", j>>)' <=> Booked(<<"credit", j>>)
    BY <2>3
  <2>5. Total(Given)' = Total(Given) - Given[c] + Given'[c]
    BY <2>4, CreditTotals
  <2>6. Given[c] = 0 /\ Given'[c] = Amount[c]
    BY <1>2, <2>3 DEF Given, Credit
  <2>7. /\ Total(Withdrawn)' = Total(Withdrawn) /\ Total(Converted)' = Total(Converted)
        /\ Total(ToppedUp)' = Total(ToppedUp) /\ Total(Captured)' = Total(Captured)
        /\ Total(SetAside)' = Total(SetAside)
    BY <1>2, SameTotals DEF Credit
  <2> QED BY <2>2, <2>3, <2>5, <2>6, <2>7, TotalTypes, AccountType DEF WalletExplained
<1>b. ASSUME NEW d \in Debits, \A e \in Debits \ {d} : adjustments'[e] = adjustments[e],
             UNCHANGED <<orders, funds, receipts>>,
             \A j \in Credits : Booked(<<"credit", j>>)' <=> Booked(<<"credit", j>>),
             account'.balance = account.balance + Withdrawn[d] - Withdrawn'[d],
             account'.reserved = account.reserved
      PROVE  WalletExplained'
  <2>1. Total(Withdrawn)' = Total(Withdrawn) - Withdrawn[d] + Withdrawn'[d]
    BY <1>b, DebitTotals
  <2>2. /\ Total(Given)' = Total(Given) /\ Total(Converted)' = Total(Converted)
        /\ Total(ToppedUp)' = Total(ToppedUp) /\ Total(Captured)' = Total(Captured)
        /\ Total(SetAside)' = Total(SetAside)
    BY <1>b, SameTotals
  <2>3. Withdrawn[d] \in Int /\ Withdrawn'[d] \in Int
    BY AmountType DEF Withdrawn
  <2> QED BY <1>b, <2>1, <2>2, <2>3, TotalTypes, AccountType DEF WalletExplained
<1>3. ASSUME NEW d \in Debits, Debit(d) PROVE WalletExplained'
  <2>1. <<"debit", d>> \in EntryKeys
    BY KeyType
  <2>2. Amount[d] \in Int
    BY AmountType
  <2>a. -Amount[d] \in Int
    BY <2>2
  <2>3. /\ adjustments[d].status = "none" /\ adjustments'[d].status = "pending"
        /\ adjustments'[d].reversed = adjustments[d].reversed
        /\ \A e \in Debits \ {d} : adjustments'[e] = adjustments[e]
        /\ UNCHANGED <<orders, funds, receipts>>
    BY <1>3 DEF Debit, Typed, AdjustmentRows
  <2>4. ~Booked(<<"debit", d>>) /\ ~adjustments[d].reversed
    BY <2>3 DEF RowsAgree, KeysAgree
  <2>5. /\ account'.balance = account.balance + (-Amount[d]) /\ account'.reserved = account.reserved
        /\ \A k : Booked(k)' <=> Booked(k) \/ k = <<"debit", d>>
    BY <1>3, <1>a, <2>1, <2>a, <2>4 DEF Debit
  <2>6. Withdrawn[d] = 0 /\ Withdrawn'[d] = Amount[d]
    BY <2>3, <2>4 DEF Withdrawn
  <2>7. account'.balance = account.balance + Withdrawn[d] - Withdrawn'[d]
    BY <2>2, <2>5, <2>6, AccountType
  <2> QED BY <1>b, <2>3, <2>5, <2>7
<1>4. ASSUME NEW d \in Debits, Reverse(d) PROVE WalletExplained'
  <2>1. <<"reversal", d>> \in EntryKeys
    BY KeyType
  <2>2. Amount[d] \in Int
    BY AmountType
  <2>3. /\ adjustments[d].status = "failed" /\ ~adjustments[d].reversed /\ adjustments'[d].reversed
        /\ \A e \in Debits \ {d} : adjustments'[e] = adjustments[e]
        /\ UNCHANGED <<orders, funds, receipts>>
    BY <1>4 DEF Reverse, Typed, AdjustmentRows
  <2>4. ~Booked(<<"reversal", d>>)
    BY <2>3 DEF RowsAgree, KeysAgree
  <2>5. /\ account'.balance = account.balance + Amount[d] /\ account'.reserved = account.reserved
        /\ \A k : Booked(k)' <=> Booked(k) \/ k = <<"reversal", d>>
    BY <1>4, <1>a, <2>1, <2>2, <2>4 DEF Reverse
  <2>6. Withdrawn[d] = Amount[d] /\ Withdrawn'[d] = 0
    BY <2>3 DEF Withdrawn
  <2>7. account'.balance = account.balance + Withdrawn[d] - Withdrawn'[d]
    BY <2>2, <2>5, <2>6, AccountType
  <2> QED BY <1>b, <2>3, <2>5, <2>7
<1>5. ASSUME NEW d \in Debits, NEW outcome \in {"unknown", "succeeded", "failed"},
             RecordPayout(d, outcome)
      PROVE  WalletExplained'
  <2>1. /\ adjustments[d].status # "none" /\ adjustments'[d].status # "none"
        /\ adjustments'[d].reversed = adjustments[d].reversed
        /\ \A e \in Debits \ {d} : adjustments'[e] = adjustments[e]
        /\ UNCHANGED <<orders, funds, account, entries, receipts>>
    BY <1>5 DEF RecordPayout, Typed, AdjustmentRows, ledger
  <2>2. Withdrawn'[d] = Withdrawn[d] /\ Withdrawn[d] \in Int
    BY <2>1, AmountType DEF Withdrawn
  <2>3. account'.balance = account.balance + Withdrawn[d] - Withdrawn'[d]
    BY <2>1, <2>2, AccountType
  <2> QED BY <1>0, <1>b, <2>1, <2>3
<1> QED BY <1>1, <1>2, <1>3, <1>4, <1>5 DEF AdjustmentStep

LEMMA OtherWallet ==
  ASSUME NEW H, Typed(H), WalletExplained, Tick \/ UNCHANGED vars
  PROVE  WalletExplained'
<1>1. /\ \A o \in Orders : funds'[o].state = funds[o].state /\ funds'[o].wallet = funds[o].wallet
      /\ UNCHANGED <<orders, account, entries, receipts, adjustments>>
  <2>1. CASE Tick
    BY <2>1, TickFunds DEF Tick, ledger
  <2>2. CASE UNCHANGED vars
    BY <2>2 DEF vars
  <2> QED BY <2>1, <2>2
<1>2. Captured' = Captured /\ SetAside' = SetAside
  BY <1>1 DEF Captured, SetAside
<1>3. \A j \in Credits : Booked(<<"credit", j>>)' <=> Booked(<<"credit", j>>)
  BY <1>1, BookedSame
<1>4. /\ Total(Withdrawn)' = Total(Withdrawn) /\ Total(Converted)' = Total(Converted)
      /\ Total(ToppedUp)' = Total(ToppedUp) /\ Total(Given)' = Total(Given)
  BY <1>1, <1>3, SameTotals
<1>5. Total(Captured)' = Total(Captured) /\ Total(SetAside)' = Total(SetAside)
  BY <1>2
<1> QED BY <1>1, <1>4, <1>5 DEF WalletExplained

LEMMA InitWallet == Init => WalletExplained
<1> SUFFICES ASSUME Init PROVE WalletExplained
  OBVIOUS
<1>1. /\ Given = [x \in Credits |-> 0] /\ ToppedUp = [x \in Orders |-> 0]
      /\ Converted = [x \in Trades |-> 0] /\ Captured = [x \in Orders |-> 0]
      /\ Withdrawn = [x \in Debits |-> 0] /\ SetAside = [x \in Orders |-> 0]
  BY DEF Init, NoOrder, NoFund, NoReceipt, Given, ToppedUp, Converted, Captured, Withdrawn,
     SetAside, Booked
<1>2. ASSUME NEW S, IsFiniteSet(S) PROVE Total([x \in S |-> 0]) = 0
  <2> DEFINE z == [x \in S |-> 0]
  <2>1. z \in [S -> Int] /\ \A x \in S : z[x] = 0
    OBVIOUS
  <2> HIDE DEF z
  <2>2. Total(z) = 0
    BY <1>2, <2>1, TotalZero
  <2> QED BY <2>2 DEF z
<1>3. /\ Total(Given) = 0 /\ Total(ToppedUp) = 0 /\ Total(Converted) = 0
      /\ Total(Captured) = 0 /\ Total(Withdrawn) = 0 /\ Total(SetAside) = 0
  BY <1>1, <1>2, Sets
<1>4. account.balance = 0 /\ account.reserved = 0
  BY DEF Init
<1> QED BY <1>3, <1>4 DEF WalletExplained

(* The wallet is explained to the last minor unit by the business rows, in *)
(* every state: every caller of appendWalletEntries writes the row that    *)
(* explains its entry in the same transaction, and an entry is applied     *)
(* once however often a step is retried (wallet_credit.go:41-81).          *)
THEOREM WalletIsExplained == Spec => []WalletExplained
<1>1. ASSUME TypeOK, TypeOK', RowsAgree, WalletExplained, [PaymentNext]_vars PROVE WalletExplained'
  <2>1. ASSUME NEW o \in Orders, OrderStep(o) PROVE WalletExplained'
    BY <1>1, <2>1, OrderWallet DEF TypeOK
  <2>2. CASE AdjustmentStep
    BY <1>1, <2>2, AdjustmentWallet DEF TypeOK
  <2>3. CASE Tick \/ UNCHANGED vars
    BY <1>1, <2>3, OtherWallet DEF TypeOK
  <2> QED BY <1>1, <2>1, <2>2, <2>3 DEF PaymentNext
<1> QED BY InitWallet, <1>1, Agreement, PTL DEF Spec


-----------------------------------------------------------------------------
(* The refinement of PaymentSettlement.                                    *)

Used == [t \in Trades |-> UseOf(receipts[t].disposition)]
Kept == {t \in Trades : Booked(<<"receipt", t>>)}
Delivered == {o \in Orders : grants[o] > 0}

LEMMA AbstractGrant ==
  ASSUME NEW o \in Orders, o \notin Delivered, Delivered' = Delivered \cup {o},
         UNCHANGED <<Used, Kept>>
  PROVE  Settlement!Next
<1>1. Settlement!Grant(o)
  BY DEF Settlement!Grant, Used, Kept, Delivered
<1> QED BY <1>1 DEF Settlement!Next

LEMMA AbstractBuy ==
  ASSUME NEW o \in Orders, NEW t \in Trades, o \notin Delivered, Delivered' = Delivered \cup {o},
         Used[t] = "none", Used' = [Used EXCEPT ![t] = "order"], UNCHANGED Kept
  PROVE  Settlement!Next
<1>1. Settlement!Buy(t, o)
  BY DEF Settlement!Buy, Settlement!PutTo, Used, Kept, Delivered
<1> QED BY <1>1 DEF Settlement!Next

LEMMA AbstractKeep ==
  ASSUME NEW t \in Trades, Used[t] \in {"none", "review"}, Used' = [Used EXCEPT ![t] = "wallet"],
         Kept' = Kept \cup {t}, UNCHANGED Delivered
  PROVE  Settlement!Next
<1>1. Settlement!Keep(t)
  BY DEF Settlement!Keep, Settlement!PutTo, Used, Kept, Delivered
<1> QED BY <1>1 DEF Settlement!Next

LEMMA AbstractHold ==
  ASSUME NEW t \in Trades, Used[t] = "none", Used' = [Used EXCEPT ![t] = "review"],
         UNCHANGED <<Kept, Delivered>>
  PROVE  Settlement!Next
<1>1. Settlement!Hold(t)
  BY DEF Settlement!Hold, Settlement!PutTo, Used, Kept, Delivered
<1> QED BY <1>1 DEF Settlement!Next

LEMMA AbstractAbsorb ==
  ASSUME NEW o \in Orders, NEW t \in Trades, o \in Delivered, Used[t] \in {"none", "review"},
         Used' = [Used EXCEPT ![t] = "absorbed"], UNCHANGED <<Kept, Delivered>>
  PROVE  Settlement!Next
<1>1. Settlement!Absorb(t, o)
  BY DEF Settlement!Absorb, Settlement!PutTo, Used, Kept, Delivered
<1> QED BY <1>1 DEF Settlement!Next

LEMMA AbstractStutter ==
  ASSUME UNCHANGED <<Used, Kept, Delivered>> PROVE UNCHANGED Settlement!vars
BY DEF Settlement!vars, Used, Kept, Delivered


LEMMA UsedChange ==
  ASSUME NEW H, Typed(H), NEW t \in Trades, NEW d, receipts'[t].disposition = d,
         \A u \in Trades \ {t} : receipts'[u] = receipts[u]
  PROVE  Used' = [Used EXCEPT ![t] = UseOf(d)]
BY DEF Used

LEMMA UseOfAll ==
  /\ UseOf("none") = "none" /\ UseOf("fulfilled") = "order" /\ UseOf("wallet_topup") = "order"
  /\ UseOf("wallet_credit") = "wallet" /\ UseOf("review_required") = "review"
  /\ UseOf("legacy_applied") = "absorbed"
BY DEF UseOf

LEMMA PaidDelivered ==
  ASSUME NEW H, Typed(H), RowsAgree, NEW o \in Orders, Paid(o)
  PROVE  o \notin Delivered /\ Delivered' = Delivered \cup {o}
<1>1. grants[o] = 0
  BY DEF RowsAgree, OrdersAgree, Paid
<1>2. grants'[o] = 1 /\ \A p \in Orders \ {o} : grants'[p] = grants[p]
  BY <1>1 DEF Paid, Typed
<1> QED BY <1>1, <1>2 DEF Delivered

LEMMA ReleasedKept ==
  ASSUME NEW H, Typed(H), RowsAgree, NEW o \in Orders, appendWalletEntries(ReleaseEntries(o))
  PROVE  UNCHANGED Kept
<1>1. KeysAgree
  BY DEF RowsAgree
<1>2. \A k : Booked(k)' => Booked(k) \/ (k = <<"release", o>> /\ funds[o].state = "reserved")
  BY <1>1, ReleaseAccount
<1> QED BY <1>2, BookedStays DEF Kept

LEMMA PaidKept ==
  ASSUME NEW H, Typed(H), RowsAgree, NEW o \in Orders, Paid(o),
         appendWalletEntries(CaptureEntries(o)
              \cup IF o \in TopUps THEN {Entry(<<"topup", o>>, Price[o], 0)} ELSE {})
  PROVE  UNCHANGED Kept
<1>1. orders[o].status # "paid" /\ (Configured(o) => funds[o].state = "reserved")
  BY DEF Paid
<1>2. \A k : Booked(k)' => \/ Booked(k)
                           \/ k = <<"capture", o>> /\ Configured(o)
                           \/ k = <<"topup", o>>
  BY <1>1, PaidAccount
<1> QED BY <1>2, BookedStays DEF Kept

(* Every step of an order is a step of PaymentSettlement or a stutter.     *)
LEMMA OrderRefines ==
  ASSUME NEW H, Typed(H), RowsAgree, NEW o \in Orders, OrderStep(o)
  PROVE  [Settlement!Next]_(Settlement!vars)
<1> DEFINE Goal == [Settlement!Next]_(Settlement!vars)
<1>1. ASSUME UNCHANGED <<receipts, Kept, grants>> PROVE Goal
  <2>1. UNCHANGED <<Used, Kept, Delivered>>
    BY <1>1 DEF Used, Delivered
  <2> QED BY <2>1, AbstractStutter
<1>2. ASSUME UNCHANGED entries PROVE UNCHANGED Kept
  BY <1>2, BookedSame DEF Kept
<1>3. ASSUME NEW channel \in Channels, Create(o, channel) PROVE Goal
  <2>1. UNCHANGED <<receipts, Kept, grants>>
    BY <1>2, <1>3 DEF Create, ledger
  <2> HIDE DEF Goal
  <2> QED BY <1>1, <2>1
<1>4. ASSUME NEW balance \in BOOLEAN, Configure(o, balance) PROVE Goal
  <2> DEFINE wallet == IF balance THEN Min({Available, Price[o]}) ELSE 0
  <2>1. CASE wallet > 0
    <3>1. appendWalletEntries({Entry(<<"reserve", o>>, 0, wallet)})
      BY <1>4, <2>1 DEF Configure
    <3> HIDE DEF wallet
    <3>2. entries' = entries \cup {Entry(<<"reserve", o>>, 0, wallet)}
      BY <3>1 DEF appendWalletEntries
    <3>3. \A k : Booked(k)' <=> Booked(k) \/ k = <<"reserve", o>>
      BY <3>2, BookedEntry
    <3>4. UNCHANGED Kept
      BY <3>3 DEF Kept
    <3> HIDE DEF Goal
    <3> QED BY <1>1, <1>4, <3>4 DEF Configure
  <2>2. CASE ~(wallet > 0)
    <3>1. appendWalletEntries({})
      BY <1>4, <2>2 DEF Configure
    <3>2. UNCHANGED Kept
      BY <1>2, <3>1, AppendNothing DEF Typed
    <3> HIDE DEF Goal, wallet
    <3> QED BY <1>1, <1>4, <3>2 DEF Configure
  <2> HIDE DEF Goal, wallet
  <2> QED BY <2>1, <2>2
<1>5. ASSUME Paid(o), UNCHANGED <<receipts, Kept>> PROVE Goal
  <2>1. o \notin Delivered /\ Delivered' = Delivered \cup {o}
    BY <1>5, PaidDelivered
  <2>2. UNCHANGED <<Used, Kept>>
    BY <1>5 DEF Used
  <2> QED BY <2>1, <2>2, AbstractGrant
<1>6. ASSUME Pay(o) PROVE Goal
  <2>1. Paid(o) /\ UNCHANGED Kept
    BY <1>6, WhoPays, PaidKept DEF Pay, setPaid
  <2> HIDE DEF Goal
  <2> QED BY <1>5, <1>6, <2>1 DEF Pay
<1>7. ASSUME NEW force \in BOOLEAN, Settle(o, force) PROVE Goal
  <2>1. Paid(o) /\ UNCHANGED Kept
    BY <1>7, WhoPays, PaidKept DEF Settle, setPaid
  <2> HIDE DEF Goal
  <2> QED BY <1>5, <1>7, <2>1 DEF Settle
<1>8. ASSUME appendWalletEntries(ReleaseEntries(o)), UNCHANGED <<receipts, grants>> PROVE Goal
  <2>1. UNCHANGED Kept
    BY <1>8, ReleasedKept
  <2> HIDE DEF Goal
  <2> QED BY <1>1, <1>8, <2>1
<1>9. ASSUME NEW p \in Providers, OpenCheckout(o, p) PROVE Goal
  <2>1. UNCHANGED <<receipts, Kept, grants>>
    BY <1>2, <1>9 DEF OpenCheckout, ledger
  <2> HIDE DEF Goal
  <2> QED BY <1>1, <2>1
<1>10. ASSUME NEW t \in Trades, PaidFactStep(o, t) PROVE Goal
  <2>0. PICK amount \in {Price[o], funds[o].cash} :
           \/ RepeatReceipt(o, t, amount) \/ BoundReceipt(o, t, amount)
           \/ ReviewReceipt(o, t, amount) \/ FulfillReceipt(o, t, amount)
           \/ CreditReceipt(o, t, amount)
    BY <1>10 DEF PaidFactStep
  <2>1. amount \in Nat
    BY PriceType DEF FundRows, Typed
  <2>2. ASSUME NEW disposition, NewReceipt(t), Dispose(o, t, amount, disposition)
        PROVE  Used[t] = "none" /\ Used' = [Used EXCEPT ![t] = UseOf(disposition)]
    <3>1. /\ receipts[t].disposition = "none" /\ receipts'[t].disposition = disposition
          /\ \A u \in Trades \ {t} : receipts'[u] = receipts[u]
      BY <2>2 DEF NewReceipt, Dispose, Typed
    <3>2. Used[t] = "none"
      BY <3>1, UseOfAll DEF Used
    <3> QED BY <3>1, <3>2, UsedChange
  <2>3. CASE RepeatReceipt(o, t, amount)
    <3>1. UNCHANGED <<receipts, Kept, grants>>
      BY <1>2, <2>3 DEF RepeatReceipt, ledger
    <3> HIDE DEF Goal
    <3> QED BY <1>1, <3>1
  <2>4. CASE BoundReceipt(o, t, amount)
    <3>1. Used[t] = "none" /\ Used' = [Used EXCEPT ![t] = "absorbed"]
      BY <2>2, <2>4, UseOfAll DEF BoundReceipt
    <3>2. UNCHANGED <<Kept, Delivered>>
      BY <1>2, <2>4 DEF BoundReceipt, ledger, Delivered
    <3>3. o \in Delivered
      BY <2>4 DEF BoundReceipt, Bound, RowsAgree, OrdersAgree, Delivered
    <3> QED BY <3>1, <3>2, <3>3, AbstractAbsorb
  <2>5. CASE ReviewReceipt(o, t, amount)
    <3>1. Used[t] = "none" /\ Used' = [Used EXCEPT ![t] = "review"]
      BY <2>2, <2>5, UseOfAll DEF ReviewReceipt
    <3>2. UNCHANGED <<Kept, Delivered>>
      BY <1>2, <2>5 DEF ReviewReceipt, ledger, Delivered
    <3> QED BY <3>1, <3>2, AbstractHold
  <2>6. CASE FulfillReceipt(o, t, amount)
    <3>1. Paid(o)
      BY <2>1, <2>6, WhoPays
    <3>2. UNCHANGED Kept
      BY <2>6, <3>1, PaidKept DEF FulfillReceipt, setPaid
    <3>3. o \notin Delivered /\ Delivered' = Delivered \cup {o}
      BY <3>1, PaidDelivered
    <3>4. Used[t] = "none" /\ Used' = [Used EXCEPT ![t] = "order"]
      BY <2>2, <2>6, UseOfAll DEF FulfillReceipt
    <3> QED BY <3>2, <3>3, <3>4, AbstractBuy
  <2>7. CASE CreditReceipt(o, t, amount)
    <3>1. Used[t] = "none" /\ Used' = [Used EXCEPT ![t] = "wallet"]
      BY <2>2, <2>7, UseOfAll DEF CreditReceipt
    <3>2. KeysAgree /\ ~Booked(<<"receipt", t>>)
      BY <2>7 DEF RowsAgree, KeysAgree, CreditReceipt, NewReceipt
    <3>3. /\ Booked(<<"receipt", t>>)'
          /\ \A k : Booked(k)' => \/ Booked(k) \/ k = <<"receipt", t>>
                                  \/ k = <<"release", o>> /\ funds[o].state = "reserved"
      BY <2>1, <2>7, <3>2, CreditAccount DEF CreditReceipt
    <3>4. \A k : Booked(k) => Booked(k)'
      BY <2>7, BookedStays DEF CreditReceipt
    <3>5. Kept' = Kept \cup {t}
      BY <3>3, <3>4 DEF Kept
    <3>6. UNCHANGED Delivered
      BY <2>7 DEF CreditReceipt, Delivered
    <3> QED BY <3>1, <3>5, <3>6, AbstractKeep
  <2> HIDE DEF Goal
  <2> QED BY <2>0, <2>3, <2>4, <2>5, <2>6, <2>7
<1> HIDE DEF Goal
<1>11. ASSUME Expire(o) PROVE Goal
  BY <1>8, <1>11 DEF Expire
<1>12. ASSUME NEW status \in {"failed", "canceled"}, NEW force \in BOOLEAN, Close(o, status, force)
       PROVE  Goal
  BY <1>8, <1>12 DEF Close
<1>13. ASSUME NEW t \in Trades, RecordFailed(o, t) PROVE Goal
  BY <1>8, <1>13 DEF RecordFailed
<1>14. Goal
  BY <1>3, <1>4, <1>6, <1>7, <1>9, <1>10, <1>11, <1>12, <1>13 DEF OrderStep
<1> QED BY <1>14 DEF Goal

LEMMA OtherRefines ==
  ASSUME NEW H, Typed(H), RowsAgree, Tick \/ AdjustmentStep \/ UNCHANGED vars
  PROVE  [Settlement!Next]_(Settlement!vars)
<1> DEFINE Goal == [Settlement!Next]_(Settlement!vars)
<1>1. ASSUME UNCHANGED <<receipts, Kept, grants>> PROVE Goal
  <2>1. UNCHANGED <<Used, Kept, Delivered>>
    BY <1>1 DEF Used, Delivered
  <2> QED BY <2>1, AbstractStutter
<1>2. ASSUME UNCHANGED entries PROVE UNCHANGED Kept
  BY <1>2, BookedSame DEF Kept
<1>3. ASSUME Tick \/ UNCHANGED vars PROVE Goal
  <2>1. UNCHANGED <<receipts, entries, grants>>
    BY <1>3 DEF Tick, vars, ledger
  <2> HIDE DEF Goal
  <2> QED BY <1>1, <1>2, <2>1
<1>4. ASSUME NEW t \in Trades, NEW disposition \in {"wallet_credit", "legacy_applied"},
             Resolve(t, disposition)
      PROVE  Goal
  <2>1. /\ receipts[t].disposition = "review_required" /\ receipts'[t].disposition = disposition
        /\ \A u \in Trades \ {t} : receipts'[u] = receipts[u]
        /\ UNCHANGED <<orders, grants>>
    BY <1>4 DEF Resolve, Typed, ReceiptRows
  <2>2. Used[t] = "review" /\ Used' = [Used EXCEPT ![t] = UseOf(disposition)]
    BY <2>1, UsedChange, UseOfAll DEF Used
  <2>3. UNCHANGED Delivered
    BY <2>1 DEF Delivered
  <2>4. CASE disposition = "wallet_credit"
    <3>1. entries' = entries \cup {Entry(<<"receipt", t>>, receipts[t].amount, 0)}
      BY <1>4, <2>4 DEF Resolve, appendWalletEntries
    <3>2. \A k : Booked(k)' <=> Booked(k) \/ k = <<"receipt", t>>
      BY <3>1, BookedEntry
    <3>3. Kept' = Kept \cup {t}
      BY <3>2 DEF Kept
    <3>4. Used' = [Used EXCEPT ![t] = "wallet"]
      BY <2>2, <2>4, UseOfAll
    <3> QED BY <2>2, <2>3, <3>3, <3>4, AbstractKeep
  <2>5. CASE disposition = "legacy_applied"
    <3>1. UNCHANGED entries
      BY <1>4, <2>5 DEF Resolve, appendWalletEntries
    <3>2. receipts[t].order \in Orders /\ receipts[t].order \in Delivered
      BY <2>1 DEF RowsAgree, ReviewsAgree, OrdersAgree, Delivered
    <3>3. Used' = [Used EXCEPT ![t] = "absorbed"]
      BY <2>2, <2>5, UseOfAll
    <3>4. UNCHANGED Kept
      BY <1>2, <3>1
    <3> QED BY <2>2, <2>3, <3>2, <3>3, <3>4, AbstractAbsorb
  <2> HIDE DEF Goal
  <2> QED BY <2>4, <2>5
<1>5. ASSUME NEW key, NEW b, \A t \in Trades : key # <<"receipt", t>>,
             entries' = entries \cup {Entry(key, b, 0)}, UNCHANGED <<receipts, grants>>
      PROVE  Goal
  <2>1. \A k : Booked(k)' <=> Booked(k) \/ k = key
    BY <1>5, BookedEntry
  <2>2. UNCHANGED Kept
    BY <1>5, <2>1 DEF Kept
  <2> HIDE DEF Goal
  <2> QED BY <1>1, <1>5, <2>2
<1> HIDE DEF Goal
<1>6. ASSUME NEW c \in Credits, Credit(c) PROVE Goal
  <2>1. \A t \in Trades : <<"credit", c>> # <<"receipt", t>>
    OBVIOUS
  <2> QED BY <1>5, <1>6, <2>1 DEF Credit, appendWalletEntries
<1>7. ASSUME NEW d \in Debits, Debit(d) PROVE Goal
  <2>1. \A t \in Trades : <<"debit", d>> # <<"receipt", t>>
    OBVIOUS
  <2> QED BY <1>5, <1>7, <2>1 DEF Debit, appendWalletEntries
<1>8. ASSUME NEW d \in Debits, Reverse(d) PROVE Goal
  <2>1. \A t \in Trades : <<"reversal", d>> # <<"receipt", t>>
    OBVIOUS
  <2> QED BY <1>5, <1>8, <2>1 DEF Reverse, appendWalletEntries
<1>9. ASSUME NEW d \in Debits, NEW outcome \in {"unknown", "succeeded", "failed"},
             RecordPayout(d, outcome)
      PROVE  Goal
  <2>1. UNCHANGED <<receipts, entries, grants>>
    BY <1>9 DEF RecordPayout, ledger
  <2> QED BY <1>1, <1>2, <2>1
<1>10. Goal
  BY <1>3, <1>4, <1>6, <1>7, <1>8, <1>9 DEF AdjustmentStep
<1> QED BY <1>10 DEF Goal

(* Whatever is reported, retried, expired or settled in whatever order,    *)
(* a payment is put to one use, once, and an order is delivered at most    *)
(* once: every transaction maps to a step of PaymentSettlement or to none  *)
(* (payment_facts.go:147-265, payment_receipts.go:62-117).                 *)
THEOREM PaymentsImplementSettlement == Spec => ImplementsSettlement
<1>1. ASSUME Init PROVE Settlement!Init
  <2>1. Used = [t \in Trades |-> "none"]
    BY <1>1, UseOfAll DEF Init, NoReceipt, Used
  <2>2. Kept = {} /\ Delivered = {}
    BY <1>1 DEF Init, Booked, Kept, Delivered
  <2> QED BY <2>1, <2>2 DEF Settlement!Init, Used, Kept, Delivered
<1>2. ASSUME TypeOK, RowsAgree, [PaymentNext]_vars PROVE [Settlement!Next]_(Settlement!vars)
  <2>1. ASSUME NEW o \in Orders, OrderStep(o) PROVE [Settlement!Next]_(Settlement!vars)
    BY <1>2, <2>1, OrderRefines DEF TypeOK
  <2>2. CASE Tick \/ AdjustmentStep \/ UNCHANGED vars
    BY <1>2, <2>2, OtherRefines DEF TypeOK
  <2> QED BY <1>2, <2>1, <2>2 DEF PaymentNext
<1> QED BY <1>1, <1>2, Agreement, PTL DEF Spec, ImplementsSettlement, Settlement!Spec
=============================================================================
