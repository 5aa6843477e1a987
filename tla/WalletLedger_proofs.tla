------------------------ MODULE WalletLedger_proofs ------------------------
(* The sums in WalletPayout: what the balances and the ledger add up to.    *)
(* First, what SumFunctionOnSet computes.  It is a recursive function on    *)
(* the subsets of a set, which exists, and is unique, by well-founded       *)
(* induction: a counterexample would have a minimal one.                    *)
EXTENDS WalletPayout_proofs, FiniteSetTheorems, WellFoundedInduction

\* h is the recursive function that SumFunctionOnSet(f, S) evaluates, when it takes
\* the elements of a set T in the order c gives.
Sums(h, f, c, S) ==
    /\ h = [T \in SUBSET S |-> h[T]]
    /\ \A T \in SUBSET S : h[T] = IF T = {} THEN 0 ELSE f[c[T]] + h[T \ {c[T]}]

Chooses(c, S) == \A T \in SUBSET S : T # {} => c[T] \in T

\* Of the subsets of a finite set for which something holds, one is minimal.
LEMMA MinimalSubset ==
    ASSUME NEW S, IsFiniteSet(S), NEW B, B \subseteq SUBSET S, B # {}
    PROVE  \E T \in B : \A U \in SUBSET T : U \in B => U = T
<1>1. IsWellFoundedOn(StrictSubsetOrdering(S), SUBSET S)
  BY FS_StrictSubsetOrderingWellFounded, FS_FiniteSubsetsOfFinite
<1>2. PICK T \in B : \A U \in B : <<U, T>> \notin StrictSubsetOrdering(S)
  BY <1>1, WFMin
<1>3. \A U \in SUBSET T : U \in B => U = T
  BY <1>2 DEF StrictSubsetOrdering
<1> QED
  BY <1>3

LEMMA SumsUnique ==
    ASSUME NEW S, IsFiniteSet(S), NEW f, NEW c, Chooses(c, S),
           NEW T \in SUBSET S, NEW U \in SUBSET S, NEW h, NEW k,
           Sums(h, f, c, T), Sums(k, f, c, U),
           NEW W \in SUBSET (T \cap U)
    PROVE  h[W] = k[W]
<1> DEFINE B == {V \in SUBSET (T \cap U) : h[V] # k[V]}
<1>1. SUFFICES ASSUME B # {} PROVE FALSE
  OBVIOUS
<1>2. PICK V \in B : \A X \in SUBSET V : X \in B => X = V
  <2>1. B \subseteq SUBSET S
    OBVIOUS
  <2> HIDE DEF B
  <2> QED
    BY <1>1, <2>1, MinimalSubset
<1>3. /\ V \in SUBSET T /\ V \in SUBSET U /\ h[V] # k[V]
      /\ \A X \in SUBSET V : X # V => h[X] = k[X]
  BY <1>2
<1>4. /\ h[V] = IF V = {} THEN 0 ELSE f[c[V]] + h[V \ {c[V]}]
      /\ k[V] = IF V = {} THEN 0 ELSE f[c[V]] + k[V \ {c[V]}]
  BY <1>3 DEF Sums
<1>5. V # {} => c[V] \in V
  BY <1>3 DEF Chooses
<1>6. V # {} => h[V \ {c[V]}] = k[V \ {c[V]}]
  BY <1>3, <1>5
<1> QED
  BY <1>3, <1>4, <1>6

LEMMA SumsExist ==
    ASSUME NEW S, IsFiniteSet(S), NEW f, NEW c, Chooses(c, S)
    PROVE  \E h : Sums(h, f, c, S)
<1> DEFINE B == {T \in SUBSET S : ~\E h : Sums(h, f, c, T)}
<1>1. SUFFICES ASSUME B # {} PROVE FALSE
  OBVIOUS
<1>2. PICK T \in B : \A U \in SUBSET T : U \in B => U = T
  <2>1. B \subseteq SUBSET S
    OBVIOUS
  <2> HIDE DEF B
  <2> QED
    BY <1>1, <2>1, MinimalSubset
<1> DEFINE part(U) == CHOOSE h : Sums(h, f, c, U)
           Rest(U) == U \ {c[U]}
           g == [U \in SUBSET T |-> IF U = {} THEN 0 ELSE f[c[U]] + part(Rest(U))[Rest(U)]]
<1>3. ASSUME NEW U \in SUBSET T, U # T PROVE Sums(part(U), f, c, U)
  <2>1. \E h : Sums(h, f, c, U)
    BY <1>2, <1>3
  <2> QED
    BY <2>1
<1>4. ASSUME NEW U \in SUBSET T, U # {} PROVE Rest(U) \in SUBSET T /\ Rest(U) # T /\ Rest(U) # U /\ Rest(U) \subseteq U
  BY <1>2, <1>4 DEF Chooses
<1>5. ASSUME NEW W \in SUBSET T, W # T PROVE g[W] = part(W)[W]
  <2>1. Sums(part(W), f, c, W)
    BY <1>3, <1>5
  <2>2. part(W)[W] = IF W = {} THEN 0 ELSE f[c[W]] + part(W)[Rest(W)]
    BY <2>1 DEF Sums
  <2>3. CASE W = {}
    BY <2>2, <2>3
  <2>4. CASE W # {}
    <3>1. Sums(part(Rest(W)), f, c, Rest(W))
      BY <1>3, <1>4, <2>4
    <3>2. Rest(W) \in SUBSET (W \cap Rest(W))
      BY <1>4, <2>4
    <3>3. W \in SUBSET S /\ Rest(W) \in SUBSET S
      BY <1>2
    <3> HIDE DEF part, Rest
    <3>4. part(W)[Rest(W)] = part(Rest(W))[Rest(W)]
      BY <2>1, <3>1, <3>2, <3>3, SumsUnique
    <3>5. g[W] = f[c[W]] + part(Rest(W))[Rest(W)]
      BY <2>4
    <3> QED
      BY <2>2, <2>4, <3>4, <3>5
  <2> QED
    BY <2>3, <2>4
<1>6. ASSUME NEW U \in SUBSET T, U # {} PROVE g[U] = f[c[U]] + g[Rest(U)]
  <2>1. g[Rest(U)] = part(Rest(U))[Rest(U)]
    BY <1>4, <1>5, <1>6
  <2> HIDE DEF part, Rest
  <2>2. g[U] = f[c[U]] + part(Rest(U))[Rest(U)]
    BY <1>6
  <2> QED
    BY <2>1, <2>2
<1>7. Sums(g, f, c, T)
  <2>1. g = [U \in SUBSET T |-> g[U]]
    OBVIOUS
  <2>2. g[{}] = 0
    OBVIOUS
  <2>3. \A U \in SUBSET T : g[U] = IF U = {} THEN 0 ELSE f[c[U]] + g[U \ {c[U]}]
    <3> HIDE DEF g
    <3> QED
      BY <1>6, <2>2
  <2> HIDE DEF g
  <2> QED
    BY <2>1, <2>3 DEF Sums
<1> QED
  BY <1>2, <1>7
-----------------------------------------------------------------------------
(* The library's sum.                                                       *)

\* The order in which SumFunctionOnSet takes the elements.
Order(S) == [T \in SUBSET S |-> CHOOSE x \in T : TRUE]

LEMMA OrderChooses == ASSUME NEW S PROVE Chooses(Order(S), S)
BY DEF Chooses, Order

LEMMA SumIsChosen ==
    ASSUME NEW S, IsFiniteSet(S), NEW f, NEW T \in SUBSET S
    PROVE  \E h : Sums(h, f, Order(S), T) /\ SumFunctionOnSet(f, T) = h[T]
<1> DEFINE Defines(h) == h = [U \in SUBSET T |-> IF U = {} THEN 0
                                ELSE f[CHOOSE x \in U : TRUE] + h[U \ {CHOOSE x \in U : TRUE}]]
           h0 == CHOOSE h : Defines(h)
<1>1. IsFiniteSet(T) /\ Chooses(Order(S), T)
  BY FS_Subset, OrderChooses DEF Chooses
<1>2. PICK g : Sums(g, f, Order(S), T)
  BY <1>1, SumsExist
<1>3. \A U \in SUBSET T : Order(S)[U] = CHOOSE x \in U : TRUE
  BY DEF Order
<1>4. Defines(g)
  <2>1. g = [U \in SUBSET T |-> g[U]]
    BY <1>2 DEF Sums
  <2>2. \A U \in SUBSET T : g[U] = IF U = {} THEN 0
            ELSE f[CHOOSE x \in U : TRUE] + g[U \ {CHOOSE x \in U : TRUE}]
    BY <1>2, <1>3 DEF Sums
  <2> QED
    BY <2>1, <2>2
<1>5. Defines(h0)
  BY <1>4
<1>6. SumFunctionOnSet(f, T) = h0[T]
  BY DEF SumFunctionOnSet, FoldFunctionOnSet, MapThenFoldSet
<1>7. Sums(h0, f, Order(S), T)
  <2> HIDE DEF h0
  <2>1. h0 = [U \in SUBSET T |-> h0[U]]
    BY <1>5
  <2>2. \A U \in SUBSET T : h0[U] = IF U = {} THEN 0
            ELSE f[CHOOSE x \in U : TRUE] + h0[U \ {CHOOSE x \in U : TRUE}]
    BY <1>5
  <2> QED
    BY <1>3, <2>1, <2>2 DEF Sums
<1> QED
  BY <1>6, <1>7

\* All sums over subsets of S are values of one recursive function.
LEMMA SumsOf ==
    ASSUME NEW S, IsFiniteSet(S), NEW f
    PROVE  \E h : /\ Sums(h, f, Order(S), S)
                  /\ \A T \in SUBSET S : SumFunctionOnSet(f, T) = h[T]
<1>1. PICK h : Sums(h, f, Order(S), S)
  BY SumsExist, OrderChooses
<1>2. ASSUME NEW T \in SUBSET S PROVE SumFunctionOnSet(f, T) = h[T]
  <2>1. PICK g : Sums(g, f, Order(S), T) /\ SumFunctionOnSet(f, T) = g[T]
    BY SumIsChosen
  <2>2. T \in SUBSET (S \cap T) /\ S \in SUBSET S
    OBVIOUS
  <2> QED
    BY <1>1, <2>1, <2>2, SumsUnique, OrderChooses
<1> QED
  BY <1>1, <1>2

LEMMA AddSwapped == \A i, j, k \in Int : i + (j + k) = j + (i + k)
OBVIOUS

LEMMA AddTurned == \A i, j \in Int : i + j = j + i
OBVIOUS

\* The sum of integers is an integer, and does not depend on the order.
LEMMA SumFacts ==
    ASSUME NEW S, IsFiniteSet(S), NEW f, \A x \in S : f[x] \in Int
    PROVE  /\ SumFunctionOnSet(f, {}) = 0
           /\ SumFunctionOnSet(f, S) \in Int
           /\ \A x \in S : SumFunctionOnSet(f, S) = f[x] + SumFunctionOnSet(f, S \ {x})
<1>1. PICK h : /\ Sums(h, f, Order(S), S)
               /\ \A T \in SUBSET S : SumFunctionOnSet(f, T) = h[T]
  BY SumsOf
<1> DEFINE c == Order(S)
           Sound(T) == /\ h[T] \in Int
                       /\ \A x \in T : h[T] = f[x] + h[T \ {x}]
           B == {T \in SUBSET S : ~Sound(T)}
<1>2. B = {}
  <2>1. SUFFICES ASSUME B # {} PROVE FALSE
    OBVIOUS
  <2>2. PICK T \in B : \A U \in SUBSET T : U \in B => U = T
    <3>1. B \subseteq SUBSET S
      OBVIOUS
    <3> HIDE DEF B
    <3> QED
      BY <2>1, <3>1, MinimalSubset
  <2>3. T \in SUBSET S /\ \A U \in SUBSET T : U # T => Sound(U)
    BY <2>2
  <2>4. T # {}
    <3>1. h[{}] = 0
      BY <1>1 DEF Sums
    <3>2. Sound({})
      BY <3>1
    <3> HIDE DEF Sound
    <3> QED
      BY <2>2, <3>2
  <2> DEFINE y == c[T]
  <2>5. y \in T /\ h[T] = f[y] + h[T \ {y}]
    BY <1>1, <2>3, <2>4, OrderChooses DEF Sums, Chooses
  <2>6. f[y] \in Int /\ Sound(T \ {y})
    BY <2>3, <2>5
  <2>7. ASSUME NEW x \in T, x # y PROVE h[T] = f[x] + h[T \ {x}]
    <3>1. Sound(T \ {x}) /\ Sound((T \ {x}) \ {y}) /\ f[x] \in Int
      BY <2>3, <2>5, <2>7
    <3>2. (T \ {x}) \ {y} = (T \ {y}) \ {x}
      OBVIOUS
    <3>3. h[T \ {y}] = f[x] + h[(T \ {y}) \ {x}]
      BY <2>6, <2>7
    <3>4. h[T \ {x}] = f[y] + h[(T \ {x}) \ {y}]
      BY <2>5, <2>7, <3>1
    <3>5. h[(T \ {x}) \ {y}] \in Int
      BY <3>1
    <3>6. h[T] = f[y] + (f[x] + h[(T \ {y}) \ {x}])
      BY <2>5, <3>3
    <3>7. h[T \ {x}] = f[y] + h[(T \ {y}) \ {x}]
      BY <3>2, <3>4
    <3>8. h[(T \ {y}) \ {x}] \in Int
      BY <3>2, <3>5
    <3>9. f[x] \in Int /\ f[y] \in Int
      BY <2>6, <3>1
    <3> QED
      BY <3>6, <3>7, <3>8, <3>9, AddSwapped
  <2>8. h[T] \in Int
    BY <2>5, <2>6
  <2>9. Sound(T)
    BY <2>5, <2>7, <2>8
  <2> QED
    BY <2>2, <2>9
<1>3. Sound(S)
  BY <1>2
<1>4. h[{}] = 0
  BY <1>1 DEF Sums
<1> QED
  BY <1>1, <1>3, <1>4

\* A sum depends on the summands alone.
LEMMA SumOfSame ==
    ASSUME NEW S, IsFiniteSet(S), NEW f, NEW g,
           \A x \in S : f[x] \in Int /\ g[x] = f[x]
    PROVE  SumFunctionOnSet(g, S) = SumFunctionOnSet(f, S)
<1> DEFINE B == {T \in SUBSET S : SumFunctionOnSet(g, T) # SumFunctionOnSet(f, T)}
<1>1. SUFFICES ASSUME B # {} PROVE FALSE
  OBVIOUS
<1>2. PICK T \in B : \A U \in SUBSET T : U \in B => U = T
  <2>1. B \subseteq SUBSET S
    OBVIOUS
  <2> HIDE DEF B
  <2> QED
    BY <1>1, <2>1, MinimalSubset
<1>3. IsFiniteSet(T) /\ T \in SUBSET S
  BY <1>2, FS_Subset
<1>4. T # {}
  <2>1. SumFunctionOnSet(g, {}) = 0 /\ SumFunctionOnSet(f, {}) = 0
    BY SumFacts
  <2> QED
    BY <1>2, <2>1
<1>5. PICK x \in T : TRUE
  BY <1>4
<1>6. T \ {x} \in SUBSET T /\ T \ {x} # T /\ T \ {x} \in SUBSET S
  BY <1>3, <1>5
<1>7. SumFunctionOnSet(g, T \ {x}) = SumFunctionOnSet(f, T \ {x})
  BY <1>2, <1>6
<1>8. /\ SumFunctionOnSet(f, T) = f[x] + SumFunctionOnSet(f, T \ {x})
      /\ SumFunctionOnSet(g, T) = g[x] + SumFunctionOnSet(g, T \ {x})
  BY <1>3, SumFacts
<1> QED
  BY <1>2, <1>3, <1>7, <1>8

LEMMA SumOfMore ==
    ASSUME NEW S, IsFiniteSet(S), NEW f, NEW g, NEW x, x \notin S, f[x] \in Int,
           \A y \in S : g[y] \in Int /\ f[y] = g[y]
    PROVE  SumFunctionOnSet(f, S \cup {x}) = SumFunctionOnSet(g, S) + f[x]
<1>1. IsFiniteSet(S \cup {x}) /\ \A y \in S \cup {x} : f[y] \in Int
  BY FS_AddElement
<1>2. SumFunctionOnSet(f, S \cup {x}) = f[x] + SumFunctionOnSet(f, (S \cup {x}) \ {x})
  BY <1>1, SumFacts
<1>3. (S \cup {x}) \ {x} = S
  OBVIOUS
<1>4. SumFunctionOnSet(f, S) = SumFunctionOnSet(g, S) /\ SumFunctionOnSet(g, S) \in Int
  BY SumOfSame, SumFacts
<1>5. SumFunctionOnSet(f, S \cup {x}) = f[x] + SumFunctionOnSet(g, S)
  BY <1>2, <1>3, <1>4
<1> QED
  BY <1>4, <1>5, AddTurned
-----------------------------------------------------------------------------
(* What each step does to the ledger.                                       *)

Balance == available + frozen + withdrawn

\* An entry is posted under a new key: the spendable balance changes by its
\* delta, the total only for a credit, total_withdrawn only for a settlement.
Posts(e) ==
    /\ ~Used(e.key)
    /\ e \in [key : LedgerKeys, delta : Int]
    /\ ledger' = ledger \cup {e}
    /\ available' = available + e.delta
    /\ Balance' = IF e.key[1] = "credit" THEN Balance + e.delta ELSE Balance
    /\ \/ e.key[1] # "settle" /\ withdrawn' = withdrawn
       \/ \E w \in Withdrawals : /\ e.key = <<"settle", w>> /\ status[w] # "none"
                                 /\ withdrawn' = withdrawn + amount[w]

PostsNothing == UNCHANGED <<available, frozen, withdrawn, ledger>>

LedgerStep == PostsNothing \/ \E e : Posts(e)

\* The sum of a request that exists stays what it is.
AmountsKept ==
    \A w \in Withdrawals :
        status[w] # "none" => status'[w] # "none" /\ amount'[w] = amount[w]

LEMMA BalancesTyped ==
    ASSUME TypeOK
    PROVE  /\ available \in Int /\ frozen \in Int /\ withdrawn \in Int
           /\ \A w \in Withdrawals : amount[w] \in Int
<1>1. Amounts \cup {0} \subseteq Int
  BY AmountsPositive
<1> QED
  BY <1>1 DEF TypeOK, WalletTypeOK

LEMMA ResultPosts ==
    ASSUME TypeOK, NEW w \in Withdrawals, NEW ok \in BOOLEAN, HandleResult(w, ok)
    PROVE  LedgerStep
<1>1. CASE UNCHANGED walletVars
  BY <1>1 DEF LedgerStep, PostsNothing, walletVars
<1>2. CASE status[w] = "paying" /\ Settle(w)
  <2> DEFINE e == [key |-> <<"settle", w>>, delta |-> 0]
  <2>1. e \in [key : LedgerKeys, delta : Int] /\ e.key[1] = "settle"
    <3>1. <<"settle", w>> \in LedgerKeys
      BY KeysTyped
    <3> QED
      BY <3>1
  <2>2. /\ ~Used(e.key) /\ ledger' = ledger \cup {e}
        /\ available' = available /\ frozen' = frozen - amount[w]
        /\ withdrawn' = withdrawn + amount[w]
    BY <1>2 DEF Settle, Post
  <2>3. available' = available + e.delta /\ Balance' = Balance
    BY <2>2, BalancesTyped DEF Balance
  <2>4. e.key = <<"settle", w>> /\ status[w] # "none"
    BY <1>2
  <2> HIDE DEF e
  <2>5. Posts(e)
    BY <2>1, <2>2, <2>3, <2>4 DEF Posts
  <2> QED
    BY <2>5 DEF LedgerStep
<1>3. CASE status[w] = "paying" /\ Refund(w)
  <2> DEFINE e == [key |-> <<"refund", w>>, delta |-> amount[w]]
  <2>1. e \in [key : LedgerKeys, delta : Int] /\ e.key[1] = "refund"
    BY KeysTyped, BalancesTyped
  <2>2. /\ ~Used(e.key) /\ ledger' = ledger \cup {e}
        /\ available' = available + amount[w] /\ frozen' = frozen - amount[w]
        /\ withdrawn' = withdrawn
    BY <1>3 DEF Refund, Unfreeze, Post
  <2>3. available' = available + e.delta /\ Balance' = Balance
    BY <2>2, BalancesTyped DEF Balance
  <2> HIDE DEF e
  <2>4. Posts(e)
    BY <2>1, <2>2, <2>3 DEF Posts
  <2> QED
    BY <2>4 DEF LedgerStep
<1> QED
  BY <1>1, <1>2, <1>3 DEF HandleResult

LEMMA CreditPosts ==
    ASSUME TypeOK, NEW k \in CreditKeys, NEW a \in Amounts,
           Credit(k, a) \/ Decrease(k, a)
    PROVE  LedgerStep
<1>1. a \in Int
  BY AmountsPositive
<1>2. PICK d \in {a, -a} : /\ Post(<<"credit", k>>, d)
                           /\ available' = available + d /\ frozen' = frozen
                           /\ withdrawn' = withdrawn
  BY <1>1 DEF Credit, Decrease
<1> DEFINE e == [key |-> <<"credit", k>>, delta |-> d]
<1>3. e \in [key : LedgerKeys, delta : Int] /\ e.key[1] = "credit"
  BY <1>1, KeysTyped
<1>4. ~Used(e.key) /\ ledger' = ledger \cup {e}
  BY <1>2 DEF Post
<1>5. available' = available + e.delta /\ Balance' = Balance + e.delta
  BY <1>1, <1>2, BalancesTyped DEF Balance
<1> HIDE DEF e
<1>6. Posts(e)
  BY <1>2, <1>3, <1>4, <1>5 DEF Posts
<1> QED
  BY <1>6 DEF LedgerStep

\* Freezing and giving back: what leaves one balance enters the other.
LEMMA MovePosts ==
    ASSUME TypeOK, NEW key \in LedgerKeys, key[1] \notin {"credit", "settle"}, NEW d \in Int,
           Post(key, d), available' = available + d, frozen' = frozen - d,
           withdrawn' = withdrawn
    PROVE  LedgerStep
<1> DEFINE e == [key |-> key, delta |-> d]
<1>1. e \in [key : LedgerKeys, delta : Int] /\ e.key = key
  OBVIOUS
<1>2. ~Used(e.key) /\ ledger' = ledger \cup {e}
  BY DEF Post
<1>3. available' = available + e.delta /\ Balance' = Balance
  BY BalancesTyped DEF Balance
<1> HIDE DEF e
<1>4. Posts(e)
  BY <1>1, <1>2, <1>3 DEF Posts
<1> QED
  BY <1>4 DEF LedgerStep

LEMMA RetryPosts ==
    ASSUME TypeOK, NEW w \in Withdrawals, NEW p \in Payouts, NEW s, CommitRetry(w, p, s)
    PROVE  LedgerStep
<1>1. RetryKey(w, p) \in LedgerKeys /\ RetryKey(w, p)[1] = "retry"
  BY KeysTyped DEF RetryKey
<1>2. -amount[w] \in Int /\ available - amount[w] = available + (-amount[w])
      /\ frozen + amount[w] = frozen - (-amount[w])
  BY BalancesTyped
<1> QED
  BY <1>1, <1>2, MovePosts DEF CommitRetry, Freeze

LEMMA RequestPosts ==
    ASSUME TypeOK, NEW w \in Withdrawals, Request(w)
    PROVE  LedgerStep
<1>1. ASSUME NEW a \in Amounts, Submit(w, a) PROVE LedgerStep
  <2>1. <<"freeze", w>> \in LedgerKeys /\ <<"freeze", w>>[1] = "freeze"
    BY KeysTyped
  <2>2. -a \in Int /\ available - a = available + (-a) /\ frozen + a = frozen - (-a)
    BY AmountsPositive, BalancesTyped
  <2> QED
    BY <1>1, <2>1, <2>2, MovePosts DEF Submit, Freeze
<1>2. ASSUME NEW s, NEW key \in LedgerKeys, key[1] \in {"cancel", "reject"}, GiveBack(w, s, key)
      PROVE  LedgerStep
  BY <1>2, BalancesTyped, MovePosts DEF GiveBack, Unfreeze
<1>3. ASSUME NEW p \in Payouts, ReplayRetry(w, p) PROVE LedgerStep
  BY <1>3, RetryPosts DEF ReplayRetry
<1>4. CASE \/ Approve(w)
           \/ \E a \in Admins, p \in Payouts : StartPayout(a, w, p) \/ StartRetry(a, w, p)
  BY <1>4 DEF Approve, StartPayout, StartRetry, LedgerStep, PostsNothing, walletVars
<1>5. <<"cancel", w>> \in LedgerKeys /\ <<"cancel", w>>[1] = "cancel"
  BY KeysTyped
<1>6. \A rk \in ReviewKeys : <<"reject", rk>> \in LedgerKeys /\ <<"reject", rk>>[1] = "reject"
  BY KeysTyped
<1> QED
  BY <1>1, <1>2, <1>3, <1>4, <1>5, <1>6 DEF Request, Cancel, Reject

LEMMA StepPosts ==
    ASSUME TypeOK, [Next]_vars
    PROVE  LedgerStep
<1>1. ASSUME NEW p \in Payouts, MarkPayout(p) PROVE LedgerStep
  <2>1. owner[p] \in Withdrawals
    BY <1>1 DEF MarkPayout, TypeOK, PayoutTypeOK, HasRow, Open
  <2> QED
    BY <1>1, <2>1, ResultPosts DEF MarkPayout
<1>2. ASSUME NEW a \in Admins, Continue(a) \/ Crash(a)
      PROVE  LedgerStep
  <2>1. CASE \/ ClaimPayout(a) \/ CreateRow(a) \/ CallProvider(a) \/ RecordReply(a)
             \/ UndoClaim(a) \/ RetryRollsBack(a) \/ Crash(a)
    BY <2>1 DEF ClaimPayout, CreateRow, CallProvider, RecordReply, UndoClaim,
                RetryRollsBack, Crash, LedgerStep, PostsNothing, walletVars
  <2>2. CASE SignalRefusal(a)
    <3>1. owner[job[a].p] \in Withdrawals
      BY <2>2, JobTyped DEF SignalRefusal, TypeOK, RowsExist, PayoutTypeOK, Calling
    <3> QED
      BY <2>2, <3>1, ResultPosts DEF SignalRefusal, LedgerStep, PostsNothing, walletVars
  <2>3. CASE RetryCommits(a)
    <3>1. job[a].w \in Withdrawals /\ job[a].p \in Payouts
      BY <2>3, JobTyped DEF RetryCommits, TypeOK
    <3> QED
      BY <2>3, <3>1, RetryPosts DEF RetryCommits
  <2> QED
    BY <1>2, <2>1, <2>2, <2>3 DEF Continue
<1>3. CASE UNCHANGED vars \/ \E p \in Payouts : ProviderSettle(p)
  BY <1>3 DEF ProviderSettle, LedgerStep, PostsNothing, vars, walletVars
<1> QED
  BY <1>1, <1>2, <1>3, CreditPosts, RequestPosts DEF Next, Sync, Callback

LEMMA StepKeepsAmounts ==
    ASSUME TypeOK, [Next]_vars
    PROVE  AmountsKept
<1>1. ASSUME NEW w \in Withdrawals, NEW s \in Statuses \ {"none"}, SetStatus(w, s), UNCHANGED amount
      PROVE  AmountsKept
  BY <1>1 DEF AmountsKept, SetStatus, TypeOK, WalletTypeOK
<1>2. ASSUME UNCHANGED <<status, amount>> PROVE AmountsKept
  BY <1>2 DEF AmountsKept
<1>3. ASSUME NEW w \in Withdrawals, NEW ok \in BOOLEAN, HandleResult(w, ok) PROVE AmountsKept
  BY <1>1, <1>2, <1>3 DEF HandleResult, Settle, Refund, walletVars, Statuses
<1>4. ASSUME NEW p \in Payouts, MarkPayout(p) PROVE AmountsKept
  <2>1. owner[p] \in Withdrawals
    BY <1>4 DEF MarkPayout, TypeOK, PayoutTypeOK, HasRow, Open
  <2> QED
    BY <1>3, <1>4, <2>1 DEF MarkPayout
<1>5. ASSUME NEW w \in Withdrawals, Request(w) PROVE AmountsKept
  <2>1. ASSUME NEW a \in Amounts, Submit(w, a) PROVE AmountsKept
    BY <2>1 DEF Submit, SetStatus, AmountsKept, TypeOK, WalletTypeOK
  <2>2. ASSUME NEW s \in {"cancelled", "rejected"}, NEW key, GiveBack(w, s, key) PROVE AmountsKept
    BY <1>1, <2>2 DEF GiveBack, Statuses
  <2>3. CASE Approve(w) \/ \E p \in Payouts : ReplayRetry(w, p)
    BY <1>1, <2>3 DEF Approve, ReplayRetry, CommitRetry, Statuses
  <2>4. CASE \E a \in Admins, p \in Payouts : StartPayout(a, w, p) \/ StartRetry(a, w, p)
    BY <1>2, <2>4 DEF StartPayout, StartRetry, walletVars
  <2> QED
    BY <1>5, <2>1, <2>2, <2>3, <2>4 DEF Request, Cancel, Reject
<1>6. ASSUME NEW a \in Admins, Continue(a) \/ Crash(a) PROVE AmountsKept
  <2>1. CASE ClaimPayout(a) \/ UndoClaim(a) \/ RetryCommits(a)
    <3>1. job[a].w \in Withdrawals
      BY <2>1, JobTyped DEF ClaimPayout, UndoClaim, RetryCommits, TypeOK
    <3> QED
      BY <1>1, <2>1, <3>1 DEF ClaimPayout, UndoClaim, RetryCommits, CommitRetry, Statuses
  <2>2. CASE SignalRefusal(a)
    <3>1. owner[job[a].p] \in Withdrawals
      BY <2>2, JobTyped DEF SignalRefusal, TypeOK, RowsExist, PayoutTypeOK, Calling
    <3> QED
      BY <1>2, <1>3, <2>2, <3>1 DEF SignalRefusal, walletVars
  <2>3. CASE CreateRow(a) \/ CallProvider(a) \/ RecordReply(a) \/ RetryRollsBack(a) \/ Crash(a)
    BY <1>2, <2>3 DEF CreateRow, CallProvider, RecordReply, RetryRollsBack, Crash, walletVars
  <2> QED
    BY <1>6, <2>1, <2>2, <2>3 DEF Continue
<1>7. CASE \/ UNCHANGED vars
           \/ \E p \in Payouts : ProviderSettle(p)
           \/ \E k \in CreditKeys, a \in Amounts : Credit(k, a) \/ Decrease(k, a)
  BY <1>2, <1>7 DEF ProviderSettle, Credit, Decrease, vars, walletVars
<1> QED
  BY <1>4, <1>5, <1>6, <1>7 DEF Next, Sync, Callback

-----------------------------------------------------------------------------
(* The sums follow each step.                                               *)

\* A request that was settled exists, and entries and settled requests are finite.
LedgerInv ==
    /\ IsFiniteSet(ledger)
    /\ IsFiniteSet(Settled)
    /\ \A w \in Settled : status[w] # "none"

LEMMA SettledAfter ==
    ASSUME TypeOK, NEW e, Posts(e), NEW w \in Withdrawals
    PROVE  w \in Settled' <=> w \in Settled \/ e.key = <<"settle", w>>
BY DEF Posts, Settled, Used

LEMMA StepLedgerInv ==
    ASSUME TypeOK, LedgerInv, [Next]_vars
    PROVE  LedgerInv'
<1>1. AmountsKept /\ LedgerStep
  BY StepKeepsAmounts, StepPosts
<1>2. CASE PostsNothing
  BY <1>1, <1>2 DEF PostsNothing, LedgerInv, Settled, Used, AmountsKept
<1>3. ASSUME NEW e, Posts(e) PROVE LedgerInv'
  <2>1. IsFiniteSet(ledger')
    BY <1>3, FS_AddElement DEF LedgerInv, Posts
  <2>2. CASE e.key[1] # "settle"
    <3>1. Settled' = Settled
      BY <1>3, <2>2, SettledAfter DEF Settled
    <3> QED
      BY <1>1, <2>1, <3>1 DEF LedgerInv, AmountsKept, Settled
  <2>3. ASSUME NEW v \in Withdrawals, e.key = <<"settle", v>>, status[v] # "none"
        PROVE  LedgerInv'
    <3>1. Settled' = Settled \cup {v}
      BY <1>3, <2>3, SettledAfter DEF Settled
    <3>2. IsFiniteSet(Settled')
      BY <3>1, FS_AddElement DEF LedgerInv
    <3> QED
      BY <1>1, <2>1, <2>3, <3>1, <3>2 DEF LedgerInv, AmountsKept, Settled
  <2> QED
    BY <1>3, <2>2, <2>3 DEF Posts
<1> QED
  BY <1>1, <1>2, <1>3 DEF LedgerStep

LEMMA InitLedgerInv == Init => LedgerInv
BY FS_EmptySet DEF Init, LedgerInv, Settled, Used

\* Adding one element to what a function sums up adds its value.
LEMMA SumAdds ==
    ASSUME NEW S, IsFiniteSet(S), NEW x, x \notin S, NEW f, NEW g,
           DOMAIN f = S \cup {x}, DOMAIN g = S, f[x] \in Int,
           \A y \in S : g[y] \in Int /\ f[y] = g[y]
    PROVE  SumFunction(f) = SumFunction(g) + f[x]
BY SumOfMore DEF SumFunction

LEMMA SumOfNothing == ASSUME NEW f, DOMAIN f = {} PROVE SumFunction(f) = 0
BY SumFacts, FS_EmptySet DEF SumFunction

\* The ledger explains the spendable balance after every step: no handler changes it
\* without an entry, and none posts twice.
THEOREM LedgerIsComplete == Spec => []LedgerExplains
<1>1. Init => LedgerExplains
  BY SumOfNothing DEF Init, LedgerExplains
<1>2. TypeOK /\ LedgerInv /\ LedgerExplains /\ [Next]_vars => LedgerExplains'
  <2> SUFFICES ASSUME TypeOK, LedgerInv, LedgerExplains, [Next]_vars PROVE LedgerExplains'
    OBVIOUS
  <2>1. CASE PostsNothing
    BY <2>1 DEF PostsNothing, LedgerExplains
  <2>2. ASSUME NEW e, Posts(e) PROVE LedgerExplains'
    <3> DEFINE f == [x \in ledger |-> x.delta]
               g == [x \in ledger' |-> x.delta]
    <3>1. e \notin ledger /\ ledger' = ledger \cup {e} /\ e.delta \in Int
      BY <2>2 DEF Posts, Used
    <3>2. \A x \in ledger : f[x] \in Int /\ g[x] = f[x]
      BY <3>1 DEF TypeOK, WalletTypeOK
    <3>3. DOMAIN f = ledger /\ DOMAIN g = ledger \cup {e} /\ g[e] = e.delta
      BY <3>1
    <3>4. SumFunction(f) = available /\ available' = available + e.delta
      BY <2>2 DEF LedgerExplains, Posts
    <3> HIDE DEF f, g
    <3>5. SumFunction(g) = SumFunction(f) + e.delta
      BY <3>1, <3>2, <3>3, SumAdds DEF LedgerInv
    <3>6. available' = SumFunction(g)
      BY <3>4, <3>5
    <3> QED
      BY <3>6 DEF LedgerExplains, g
  <2> QED
    BY <2>1, <2>2, StepPosts DEF LedgerStep
<1> QED
  BY <1>1, <1>2, InitLedgerInv, StepLedgerInv, TypeCorrect, PTL DEF Spec

\* What the wallet holds and has paid out is exactly what was credited and adjusted.
THEOREM MoneyConserved == Spec => []Conservation
<1>1. Init => Conservation
  BY SumOfNothing DEF Init, Conservation, Credits
<1>2. TypeOK /\ LedgerInv /\ Conservation /\ [Next]_vars => Conservation'
  <2> SUFFICES ASSUME TypeOK, LedgerInv, Conservation, [Next]_vars PROVE Conservation'
    OBVIOUS
  <2>1. CASE PostsNothing
    BY <2>1 DEF PostsNothing, Conservation, Credits
  <2>2. ASSUME NEW e, Posts(e), e.key[1] # "credit" PROVE Conservation'
    <3>1. Credits' = Credits /\ Balance' = Balance
      BY <2>2 DEF Posts, Credits
    <3> QED
      BY <3>1 DEF Conservation, Balance
  <2>3. ASSUME NEW e, Posts(e), e.key[1] = "credit" PROVE Conservation'
    <3> DEFINE f == [x \in Credits |-> x.delta]
               g == [x \in Credits' |-> x.delta]
    <3>1. e \notin Credits /\ Credits' = Credits \cup {e} /\ e.delta \in Int
      BY <2>3 DEF Posts, Used, Credits
    <3>2. \A x \in Credits : f[x] \in Int /\ g[x] = f[x]
      BY <3>1 DEF TypeOK, WalletTypeOK, Credits
    <3>3. DOMAIN f = Credits /\ DOMAIN g = Credits \cup {e} /\ g[e] = e.delta
      BY <3>1
    <3>4. IsFiniteSet(Credits)
      BY FS_Subset DEF LedgerInv, Credits
    <3>5. SumFunction(f) = Balance /\ Balance' = Balance + e.delta
      BY <2>3 DEF Conservation, Posts, Balance
    <3> HIDE DEF f, g
    <3>6. SumFunction(g) = SumFunction(f) + e.delta
      BY <3>1, <3>2, <3>3, <3>4, SumAdds
    <3>7. Balance' = SumFunction(g)
      BY <3>5, <3>6
    <3> QED
      BY <3>7 DEF Conservation, Balance, g
  <2> QED
    BY <2>1, <2>2, <2>3, StepPosts DEF LedgerStep
<1> QED
  BY <1>1, <1>2, InitLedgerInv, StepLedgerInv, TypeCorrect, PTL DEF Spec

\* total_withdrawn is the sum of the settled requests, each counted once, whatever
\* order results, retries and stale handlers come in.
THEOREM EachWithdrawnOnce == Spec => []WithdrawnOnce
<1>1. Init => WithdrawnOnce
  BY SumOfNothing DEF Init, WithdrawnOnce, Settled, Used
<1>2. TypeOK /\ LedgerInv /\ WithdrawnOnce /\ [Next]_vars => WithdrawnOnce'
  <2> SUFFICES ASSUME TypeOK, LedgerInv, WithdrawnOnce, [Next]_vars PROVE WithdrawnOnce'
    OBVIOUS
  <2> DEFINE f == [x \in Settled |-> amount[x]]
             g == [x \in Settled' |-> amount'[x]]
  <2>1. AmountsKept /\ \A x \in Settled : x \in Withdrawals /\ status[x] # "none"
    BY StepKeepsAmounts DEF LedgerInv, Settled
  <2>2. \A x \in Settled : f[x] \in Int /\ f[x] = amount[x] /\ amount'[x] = amount[x]
    BY <2>1, BalancesTyped DEF AmountsKept
  <2>3. SumFunction(f) = withdrawn
    BY DEF WithdrawnOnce
  <2>4. ASSUME Settled' = Settled, withdrawn' = withdrawn PROVE WithdrawnOnce'
    <3>1. g = f
      BY <2>2, <2>4
    <3> QED
      BY <2>3, <2>4, <3>1 DEF WithdrawnOnce
  <2>5. CASE PostsNothing
    BY <2>4, <2>5 DEF PostsNothing, Settled, Used
  <2>6. ASSUME NEW e, Posts(e), e.key[1] # "settle" PROVE WithdrawnOnce'
    <3>1. Settled' = Settled
      BY <2>6, SettledAfter DEF Settled
    <3> QED
      BY <2>4, <2>6, <3>1 DEF Posts
  <2>7. ASSUME NEW e, Posts(e), NEW v \in Withdrawals, e.key = <<"settle", v>>,
               status[v] # "none", withdrawn' = withdrawn + amount[v]
        PROVE  WithdrawnOnce'
    <3>1. v \notin Settled /\ Settled' = Settled \cup {v}
      BY <2>7, SettledAfter DEF Posts, Settled
    <3>2. amount'[v] = amount[v] /\ amount[v] \in Int
      BY <2>1, <2>7, BalancesTyped DEF AmountsKept
    <3>3. /\ DOMAIN f = Settled /\ DOMAIN g = Settled \cup {v} /\ g[v] = amount[v]
          /\ \A x \in Settled : f[x] \in Int /\ g[x] = f[x]
      BY <2>2, <3>1, <3>2
    <3> HIDE DEF f, g
    <3>4. SumFunction(g) = SumFunction(f) + amount[v]
      BY <3>1, <3>2, <3>3, SumAdds DEF LedgerInv
    <3>5. withdrawn' = SumFunction(g)
      BY <2>3, <2>7, <3>4
    <3> QED
      BY <3>5 DEF WithdrawnOnce, g
  <2>8. ASSUME NEW e, Posts(e), e.key[1] = "settle" PROVE WithdrawnOnce'
    BY <2>7, <2>8 DEF Posts
  <2> QED
    BY <2>5, <2>6, <2>8, StepPosts DEF LedgerStep
<1> QED
  BY <1>1, <1>2, InitLedgerInv, StepLedgerInv, TypeCorrect, PTL DEF Spec
=============================================================================
