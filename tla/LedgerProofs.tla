---------------------------- MODULE LedgerProofs ----------------------------
(***************************************************************************)
(* What the operators of Ledger compute, for any transactions and genesis  *)
(* allocations whose sum is a balance.                                     *)
(*                                                                         *)
(* Sums and folds.  The library defines both as the choice of a function   *)
(* that solves a recursion.  SumsExist and FoldExists show that there is   *)
(* one, from which a sum does not depend on the order (AnyOrder) and a     *)
(* loop is a run of its steps (ReplayLoop, RevalidateLoop).                *)
(*                                                                         *)
(* Money.  The supply is below the word, hence so is what two accounts     *)
(* hold together, and no credit wraps (TransferEffect).                    *)
(*                                                                         *)
(* The pool.  Exact is kept by addTransaction and established by           *)
(* revalidate.  A pool that is exact can be mined from (MinedApplies): half *)
(* way through the block every sender has the nonce and at least the       *)
(* balance that its transactions so far leave it.                          *)
(***************************************************************************)
EXTENDS Ledger, FiniteSetTheorems, WellFoundedInduction, TLAPS

-----------------------------------------------------------------------------
(***************************************************************************)
(* Induction                                                               *)
(***************************************************************************)

\* A set of natural numbers that is not empty has a least one: induction, for
\* provers that do not take a predicate as a parameter.
LEMMA LeastNumber ==
    ASSUME NEW T \in SUBSET Nat, T # {}
    PROVE  \E x \in T : \A y \in T : x <= y
  <1>1. PICK x \in T : \A y \in T : ~ (<<y, x>> \in OpToRel(<, Nat))
    BY NatLessThanWellFounded, WFMin, Zenon
  <1>2. \A y \in T : ~ (y < x)
    BY <1>1 DEF OpToRel
  <1> QED
    BY <1>2

\* A set that holds 0, and n + 1 with every n, holds all naturals.
LEMMA Induction ==
    ASSUME NEW T, 0 \in T, \A n \in Nat : n \in T => n + 1 \in T
    PROVE  Nat \subseteq T
  <1> DEFINE F == Nat \ T
  <1> SUFFICES ASSUME F # {} PROVE FALSE
    OBVIOUS
  <1>1. PICK x \in F : \A y \in F : x <= y
    BY LeastNumber
  <1>2. x # 0 /\ x - 1 \in Nat /\ x - 1 \notin F
    BY <1>1
  <1> QED
    BY <1>1, <1>2

-----------------------------------------------------------------------------
(***************************************************************************)
(* Sums                                                                    *)
(***************************************************************************)

\* What MapThenSumSet computes with: the element it takes out of a set, and
\* the sums of the subsets of S.
Pick(t) == CHOOSE x \in t : TRUE

PartialSums(f, g) ==
    [t \in SUBSET DOMAIN f |->
        IF t = {} THEN 0 ELSE f[Pick(t)] + g[t \ {Pick(t)}]]

\* f gives finitely many things a number.
Summable(f) ==
    /\ IsFiniteSet(DOMAIN f)
    /\ \A x \in DOMAIN f : f[x] \in Nat

\* g sums up f, in whichever order.
IsSum(f, g) ==
    /\ g \in [SUBSET DOMAIN f -> Nat]
    /\ g[{}] = 0
    /\ \A t \in SUBSET DOMAIN f : \A x \in t : g[t] = f[x] + g[t \ {x}]

\* The element that is taken out of a set is one of its elements.
LEMMA PickIn == ASSUME NEW t, t # {} PROVE Pick(t) \in t
  BY DEF Pick

\* The recursion has a solution.
LEMMA SumsExist ==
    ASSUME NEW f, Summable(f)
    PROVE  \E g \in [SUBSET DOMAIN f -> Nat] : g = PartialSums(f, g)
  <1> DEFINE S == DOMAIN f
             Upto(g, n) == \A t \in SUBSET S : Cardinality(t) <= n =>
                               g[t] = PartialSums(f, g)[t]
             T == {n \in Nat : \E g \in [SUBSET S -> Nat] : Upto(g, n)}
  <1>0. /\ IsFiniteSet(S) /\ Cardinality(S) \in Nat
        /\ \A t \in SUBSET S : /\ Cardinality(t) \in Nat
                               /\ Cardinality(t) <= Cardinality(S)
                               /\ Cardinality(t) = 0 <=> t = {}
                               /\ t # {} => /\ Pick(t) \in t
                                            /\ Cardinality(t \ {Pick(t)}) = Cardinality(t) - 1
                                            /\ f[Pick(t)] \in Nat
                                            /\ t \ {Pick(t)} \in SUBSET S
    <2>1. IsFiniteSet(S) /\ Cardinality(S) \in Nat
      BY FS_CardinalityType DEF Summable
    <2> SUFFICES ASSUME NEW t \in SUBSET S
                 PROVE  /\ Cardinality(t) \in Nat
                        /\ Cardinality(t) <= Cardinality(S)
                        /\ Cardinality(t) = 0 <=> t = {}
                        /\ t # {} => /\ Pick(t) \in t
                                     /\ Cardinality(t \ {Pick(t)}) = Cardinality(t) - 1
                                     /\ f[Pick(t)] \in Nat
                                     /\ t \ {Pick(t)} \in SUBSET S
      BY <2>1
    <2>2. IsFiniteSet(t) /\ Cardinality(t) <= Cardinality(S) /\ Cardinality(t) \in Nat
      BY <2>1, FS_Subset, FS_CardinalityType
    <2>3. Cardinality(t) = 0 <=> t = {}
      BY <2>2, FS_EmptySet
    <2>4. t # {} => Pick(t) \in t /\ Cardinality(t \ {Pick(t)}) = Cardinality(t) - 1
      BY <2>2, FS_RemoveElement, PickIn
    <2> QED
      BY <2>1, <2>2, <2>3, <2>4 DEF Summable
  <1>1. 0 \in T
    <2> DEFINE g == [t \in SUBSET S |-> 0]
    <2>1. g \in [SUBSET S -> Nat] /\ g[{}] = 0 /\ PartialSums(f, g)[{}] = 0
      BY DEF PartialSums
    <2>2. ASSUME NEW t \in SUBSET S, Cardinality(t) <= 0
          PROVE  g[t] = PartialSums(f, g)[t]
      <3>1. Cardinality(t) = 0
        <4>1. Cardinality(t) \in Nat
          BY <1>0
        <4> QED
          BY <2>2, <4>1
      <3> QED
        BY <1>0, <2>1, <3>1
    <2> HIDE DEF g
    <2> QED
      BY <2>1, <2>2
  <1>2. ASSUME NEW n \in Nat, n \in T
        PROVE  n + 1 \in T
    <2>1. PICK g \in [SUBSET S -> Nat] : Upto(g, n)
      BY <1>2
    <2> DEFINE h == [t \in SUBSET S |->
                        IF Cardinality(t) = n + 1 THEN PartialSums(f, g)[t] ELSE g[t]]
    <2>2. h \in [SUBSET S -> Nat]
      <3> SUFFICES ASSUME NEW t \in SUBSET S
                   PROVE  PartialSums(f, g)[t] \in Nat
        OBVIOUS
      <3>1. CASE t = {}
        BY <3>1 DEF PartialSums
      <3>2. CASE t # {}
        <4>1. f[Pick(t)] \in Nat /\ g[t \ {Pick(t)}] \in Nat
          BY <1>0, <3>2
        <4> QED
          BY <3>2, <4>1 DEF PartialSums
      <3> QED
        BY <3>1, <3>2
    <2>3. ASSUME NEW t \in SUBSET S, Cardinality(t) <= n + 1
          PROVE  h[t] = PartialSums(f, h)[t]
      <3>1. t # {} => h[t \ {Pick(t)}] = g[t \ {Pick(t)}]
        BY <1>0, <2>3
      <3>2. PartialSums(f, h)[t] = PartialSums(f, g)[t]
        BY <3>1 DEF PartialSums
      <3>3. Cardinality(t) # n + 1 => Cardinality(t) <= n
        <4>1. Cardinality(t) \in Nat
          BY <1>0
        <4> QED
          BY <2>3, <4>1
      <3> QED
        BY <2>1, <3>2, <3>3
    <2> HIDE DEF h
    <2> QED
      BY <2>2, <2>3
  <1> HIDE DEF T
  <1>3. Cardinality(S) \in T
    BY <1>0, <1>1, <1>2, Induction
  <1>4. PICK g \in [SUBSET S -> Nat] : Upto(g, Cardinality(S))
    BY <1>3 DEF T
  <1>5. \A t \in SUBSET S : g[t] = PartialSums(f, g)[t]
    BY <1>0, <1>4
  <1>6. DOMAIN g = SUBSET S /\ DOMAIN PartialSums(f, g) = SUBSET S
    BY DEF PartialSums
  <1>7. g = PartialSums(f, g)
    <2>1. g = [t \in SUBSET S |-> g[t]]
      OBVIOUS
    <2>2. PartialSums(f, g) = [t \in SUBSET S |-> PartialSums(f, g)[t]]
      BY DEF PartialSums
    <2> QED
      BY <1>5, <2>1, <2>2
  <1> QED
    BY <1>7

\* Every solution consists of numbers.
LEMMA SumsNatural ==
    ASSUME NEW f, Summable(f), NEW g, g = PartialSums(f, g)
    PROVE  g \in [SUBSET DOMAIN f -> Nat]
  <1> DEFINE S == DOMAIN f
             T == {n \in Nat : \A t \in SUBSET S : Cardinality(t) = n => g[t] \in Nat}
  <1>0. \A t \in SUBSET S : /\ IsFiniteSet(t) /\ Cardinality(t) \in Nat
                            /\ \A x \in t : Cardinality(t \ {x}) = Cardinality(t) - 1
    BY FS_Subset, FS_CardinalityType, FS_RemoveElement DEF Summable
  <1>1. \A t \in SUBSET S : t # {} => /\ g[t] = f[Pick(t)] + g[t \ {Pick(t)}]
                                      /\ Pick(t) \in t
    BY PickIn DEF PartialSums
  <1>2. g[{}] = 0 /\ g = [t \in SUBSET S |-> g[t]]
    BY DEF PartialSums
  <1>3. 0 \in T
    BY <1>0, <1>2, FS_EmptySet
  <1>4. ASSUME NEW n \in Nat, n \in T
        PROVE  n + 1 \in T
    <2> SUFFICES ASSUME NEW t \in SUBSET S, Cardinality(t) = n + 1
                 PROVE  g[t] \in Nat
      OBVIOUS
    <2>1. t # {}
      BY FS_EmptySet
    <2>2. /\ g[t] = f[Pick(t)] + g[t \ {Pick(t)}] /\ Pick(t) \in t
          /\ t \ {Pick(t)} \in SUBSET S
      BY <1>1, <2>1
    <2>3. Cardinality(t \ {Pick(t)}) = n
      BY <1>0, <2>2
    <2>4. g[t \ {Pick(t)}] \in Nat /\ f[Pick(t)] \in Nat
      BY <1>4, <2>2, <2>3 DEF Summable
    <2> QED
      BY <2>2, <2>4
  <1> HIDE DEF T
  <1>5. Nat \subseteq T
    BY <1>3, <1>4, Induction
  <1>6. \A t \in SUBSET S : g[t] \in Nat
    BY <1>0, <1>5 DEF T
  <1> QED
    BY <1>2, <1>6

\* What it computes does not depend on the order.
LEMMA AnyOrder ==
    ASSUME NEW f, Summable(f), NEW g, g = PartialSums(f, g)
    PROVE  IsSum(f, g)
  <1> DEFINE S == DOMAIN f
             T == {n \in Nat : \A t \in SUBSET S : Cardinality(t) = n =>
                                  \A x \in t : g[t] = f[x] + g[t \ {x}]}
  <1>7. g \in [SUBSET DOMAIN f -> Nat]
    BY SumsNatural
  <1>0. \A t \in SUBSET S : /\ IsFiniteSet(t) /\ Cardinality(t) \in Nat
                            /\ \A x \in t : Cardinality(t \ {x}) = Cardinality(t) - 1
    BY FS_Subset, FS_CardinalityType, FS_RemoveElement DEF Summable
  <1>1. \A t \in SUBSET S : t # {} => /\ g[t] = f[Pick(t)] + g[t \ {Pick(t)}]
                                      /\ Pick(t) \in t
    BY PickIn DEF PartialSums
  <1>2. g[{}] = 0
    BY DEF PartialSums
  <1>3. 0 \in T
    BY <1>0, FS_EmptySet
  <1>4. ASSUME NEW n \in Nat, n \in T
        PROVE  n + 1 \in T
    <2> SUFFICES ASSUME NEW t \in SUBSET S, Cardinality(t) = n + 1, NEW x \in t
                 PROVE  g[t] = f[x] + g[t \ {x}]
      OBVIOUS
    <2> DEFINE p == Pick(t)
    <2>1. p \in t /\ g[t] = f[p] + g[t \ {p}]
      BY <1>1
    <2>2. CASE x = p
      BY <2>1, <2>2
    <2>3. CASE x # p
      <3>1. /\ t \ {p} \in SUBSET S /\ Cardinality(t \ {p}) = n /\ x \in t \ {p}
            /\ t \ {x} \in SUBSET S /\ Cardinality(t \ {x}) = n /\ p \in t \ {x}
        BY <1>0, <2>1, <2>3
      <3>2. g[t \ {p}] = f[x] + g[(t \ {p}) \ {x}]
        BY <1>4, <3>1
      <3>3. g[t \ {x}] = f[p] + g[(t \ {x}) \ {p}]
        BY <1>4, <3>1
      <3>4. (t \ {x}) \ {p} = (t \ {p}) \ {x} /\ (t \ {x}) \ {p} \in SUBSET S
        OBVIOUS
      <3>5. f[x] \in Nat /\ f[p] \in Nat /\ g[(t \ {x}) \ {p}] \in Nat
        BY <1>7, <2>1, <3>4 DEF Summable
      <3>6. /\ g[t] = f[p] + (f[x] + g[(t \ {x}) \ {p}])
            /\ g[t \ {x}] = f[p] + g[(t \ {x}) \ {p}]
        BY <2>1, <3>2, <3>3, <3>4
      <3> HIDE DEF p
      <3> QED
        BY <3>5, <3>6
    <2> QED
      BY <2>2, <2>3
  <1> HIDE DEF T
  <1>5. Nat \subseteq T
    BY <1>3, <1>4, Induction
  <1>6. \A t \in SUBSET S : \A x \in t : g[t] = f[x] + g[t \ {x}]
    BY <1>0, <1>5 DEF T
  <1> QED
    BY <1>7, <1>2, <1>6 DEF IsSum

\* Sums of the same numbers are the same.
LEMMA SumsAgree ==
    ASSUME NEW f, Summable(f), NEW g, IsSum(f, g), NEW f2, NEW g2, IsSum(f2, g2),
           NEW S \in SUBSET DOMAIN f, S \subseteq DOMAIN f2, \A x \in S : f[x] = f2[x]
    PROVE  g[S] = g2[S]
  <1> DEFINE T == {n \in Nat : \A t \in SUBSET S : Cardinality(t) = n => g[t] = g2[t]}
  <1>0. \A t \in SUBSET S : /\ IsFiniteSet(t) /\ Cardinality(t) \in Nat
                            /\ Cardinality(t) = 0 <=> t = {}
                            /\ \A x \in t : Cardinality(t \ {x}) = Cardinality(t) - 1
    <2>1. \A t \in SUBSET S : IsFiniteSet(t)
      BY FS_Subset DEF Summable
    <2> QED
      BY <2>1, FS_CardinalityType, FS_RemoveElement, FS_EmptySet
  <1>1. 0 \in T
    BY <1>0 DEF IsSum
  <1>2. ASSUME NEW n \in Nat, n \in T
        PROVE  n + 1 \in T
    <2> SUFFICES ASSUME NEW t \in SUBSET S, Cardinality(t) = n + 1
                 PROVE  g[t] = g2[t]
      OBVIOUS
    <2>1. PICK x \in t : TRUE
      BY <1>0
    <2>2. t \ {x} \in SUBSET S /\ Cardinality(t \ {x}) = n
      BY <1>0, <2>1
    <2>3. g[t \ {x}] = g2[t \ {x}]
      BY <1>2, <2>2
    <2>4. g[t] = f[x] + g[t \ {x}] /\ g2[t] = f2[x] + g2[t \ {x}]
      BY <2>1 DEF IsSum
    <2> QED
      BY <2>1, <2>3, <2>4
  <1> HIDE DEF T
  <1>3. Nat \subseteq T
    BY <1>1, <1>2, Induction
  <1> QED
    BY <1>0, <1>3 DEF T

\* The amounts of a set of transactions.
Amounts(txs) == MapThenSumSet(LAMBDA tx : tx.amount, txs)

AmountOf(txs) == [tx \in txs |-> tx.amount]

\* MapThenSumSet adds up the amounts ...
LEMMA AmountsSum ==
    ASSUME NEW txs, IsFiniteSet(txs), \A tx \in txs : tx.amount \in Nat
    PROVE  /\ Summable(AmountOf(txs))
           /\ \E g : IsSum(AmountOf(txs), g) /\ Amounts(txs) = g[txs]
  <1> DEFINE f == AmountOf(txs)
             Body(g) == [t \in SUBSET txs |->
                            IF t = {} THEN 0 ELSE Pick(t).amount + g[t \ {Pick(t)}]]
             c == CHOOSE g : g = Body(g)
  <1>1. Amounts(txs) = c[txs]
    BY Zenon DEF Amounts, MapThenSumSet, MapThenFoldSet, Pick
  <1>2. DOMAIN f = txs /\ Summable(f)
    BY DEF Summable, AmountOf
  <1>3. \A g : Body(g) = PartialSums(f, g)
    BY <1>2, PickIn DEF PartialSums, AmountOf
  <1> HIDE DEF f, Body
  <1>4. PICK g \in [SUBSET txs -> Nat] : g = PartialSums(f, g)
    BY <1>2, SumsExist
  <1>5. c = PartialSums(f, c)
    BY <1>3, <1>4, Zenon
  <1> HIDE DEF c
  <1>6. IsSum(f, c)
    BY <1>2, <1>5, AnyOrder
  <1> QED
    BY <1>1, <1>2, <1>6 DEF f

\* ... one by one.
LEMMA AmountsAdd ==
    ASSUME NEW txs, IsFiniteSet(txs), \A tx \in txs : tx.amount \in Nat
    PROVE  /\ Amounts(txs) \in Nat
           /\ txs = {} => Amounts(txs) = 0
           /\ \A tx \in txs : /\ Amounts(txs) = tx.amount + Amounts(txs \ {tx})
                              /\ Amounts(txs \ {tx}) \in Nat
  <1> DEFINE f == AmountOf(txs)
  <1>1. Summable(f) /\ DOMAIN f = txs /\ \A tx \in txs : f[tx] = tx.amount
    BY AmountsSum DEF AmountOf
  <1>2. PICK g : IsSum(f, g) /\ Amounts(txs) = g[txs]
    BY AmountsSum
  <1> HIDE DEF f
  <1>3. g \in [SUBSET txs -> Nat] /\ g[{}] = 0
    BY <1>1, <1>2 DEF IsSum
  <1>4. ASSUME NEW tx \in txs
        PROVE  /\ Amounts(txs) = tx.amount + Amounts(txs \ {tx})
               /\ Amounts(txs \ {tx}) \in Nat
    <2> DEFINE rest == txs \ {tx}
               r == AmountOf(rest)
    <2>1. IsFiniteSet(rest)
      BY FS_RemoveElement
    <2>2. DOMAIN r = rest /\ \A u \in rest : r[u] = f[u]
      BY <1>1 DEF AmountOf
    <2>3. Summable(r) /\ \E h : IsSum(r, h) /\ Amounts(rest) = h[rest]
      BY <2>1, AmountsSum
    <2>4. PICK h : IsSum(r, h) /\ Amounts(rest) = h[rest]
      BY <2>3
    <2> HIDE DEF r
    <2>5. h[rest] = g[rest]
      BY <1>1, <1>2, <2>2, <2>3, <2>4, SumsAgree
    <2>6. g[txs] = tx.amount + g[rest]
      BY <1>1, <1>2 DEF IsSum
    <2> QED
      BY <1>2, <1>3, <2>4, <2>5, <2>6
  <1> QED
    BY <1>2, <1>3, <1>4

\* Growing a set by a transaction.
LEMMA AmountsGrow ==
    ASSUME NEW txs, IsFiniteSet(txs), \A u \in txs : u.amount \in Nat,
           NEW tx, tx \notin txs, tx.amount \in Nat
    PROVE  Amounts(txs \cup {tx}) = tx.amount + Amounts(txs)
  <1> DEFINE more == txs \cup {tx}
  <1>1. IsFiniteSet(more) /\ (\A u \in more : u.amount \in Nat) /\ tx \in more
    BY FS_AddElement
  <1>2. more \ {tx} = txs
    OBVIOUS
  <1> HIDE DEF more
  <1>3. Amounts(more) = tx.amount + Amounts(more \ {tx})
    BY <1>1, AmountsAdd
  <1> QED
    BY <1>2, <1>3 DEF more

\* More transactions cost no less.
LEMMA AmountsMonotone ==
    ASSUME NEW U, IsFiniteSet(U), \A tx \in U : tx.amount \in Nat, NEW Y \in SUBSET U
    PROVE  Amounts(Y) <= Amounts(U)
  <1> DEFINE T == {n \in Nat : \A X \in SUBSET U : Y \subseteq X /\ Cardinality(X) = n =>
                                  Amounts(Y) <= Amounts(X)}
  <1>0. \A X \in SUBSET U : /\ IsFiniteSet(X) /\ Cardinality(X) \in Nat
                            /\ Amounts(X) \in Nat
                            /\ \A x \in X : /\ Amounts(X) = x.amount + Amounts(X \ {x})
                                            /\ Amounts(X \ {x}) \in Nat
                                            /\ Cardinality(X \ {x}) = Cardinality(X) - 1
    <2>1. \A X \in SUBSET U : IsFiniteSet(X)
      BY FS_Subset
    <2> QED
      BY <2>1, FS_CardinalityType, FS_RemoveElement, AmountsAdd
  <1>1. 0 \in T
    <2> SUFFICES ASSUME NEW X \in SUBSET U, Y \subseteq X, Cardinality(X) = 0
                 PROVE  Amounts(Y) <= Amounts(X)
      OBVIOUS
    <2>1. X = {} /\ Y = X
      BY <1>0, FS_EmptySet
    <2> QED
      BY <1>0, <2>1
  <1>2. ASSUME NEW n \in Nat, n \in T
        PROVE  n + 1 \in T
    <2> SUFFICES ASSUME NEW X \in SUBSET U, Y \subseteq X, Cardinality(X) = n + 1
                 PROVE  Amounts(Y) <= Amounts(X)
      OBVIOUS
    <2>1. CASE Y = X
      BY <1>0, <2>1
    <2>2. CASE Y # X
      <3>1. PICK x \in X : x \notin Y
        BY <2>2
      <3>2. X \ {x} \in SUBSET U /\ Y \subseteq X \ {x} /\ Cardinality(X \ {x}) = n
        BY <1>0, <3>1
      <3>3. Amounts(Y) <= Amounts(X \ {x})
        BY <1>2, <3>2
      <3>4. /\ Amounts(X) = x.amount + Amounts(X \ {x}) /\ x.amount \in Nat
            /\ Amounts(X \ {x}) \in Nat /\ Amounts(Y) \in Nat
        BY <1>0, <3>1
      <3> QED
        BY <3>3, <3>4
    <2> QED
      BY <2>1, <2>2
  <1> HIDE DEF T
  <1>3. Nat \subseteq T
    BY <1>1, <1>2, Induction
  <1> QED
    BY <1>0, <1>3 DEF T

-----------------------------------------------------------------------------
(***************************************************************************)
(* Folds                                                                   *)
(***************************************************************************)

\* A list is a function on its positions.
LEMMA ListIsFunction ==
    ASSUME NEW S, NEW s \in Seq(S)
    PROVE  s = [i \in 1..Len(s) |-> s[i]]
  OBVIOUS

\* The greatest element of a set of numbers that are at most n.
LEMMA MaxIn ==
    ASSUME NEW n \in Nat, NEW t \in SUBSET (1..n), t # {}
    PROVE  Max(t) \in t /\ \A y \in t : y <= Max(t)
  <1> DEFINE T == {n - y : y \in t}
  <1>1. T \in SUBSET Nat /\ T # {}
    <2>1. \A y \in t : n - y \in Nat
      OBVIOUS
    <2> QED
      BY <2>1
  <1>2. PICK z \in T : \A w \in T : z <= w
    BY <1>1, LeastNumber
  <1>3. PICK x \in t : z = n - x
    BY <1>2
  <1>4. \A y \in t : x >= y
    <2> SUFFICES ASSUME NEW y \in t PROVE x >= y
      OBVIOUS
    <2>1. n - y \in T
      OBVIOUS
    <2>2. n - x <= n - y
      BY <1>2, <1>3, <2>1
    <2> QED
      BY <2>2
  <1>5. Max(t) \in t /\ \A y \in t : Max(t) >= y
    BY <1>3, <1>4, Zenon DEF Max
  <1> QED
    BY <1>5

\* What FoldLeft computes with: the results for the subsets of the positions.
PartialFolds(n, base, step, g) ==
    [t \in SUBSET (1..n) |->
        IF t = {} THEN base ELSE step[Max(t)][g[t \ {Max(t)}]]]

SolvesFold(n, V, base, step, g) ==
    g \in [SUBSET (1..n) -> V] /\ g = PartialFolds(n, base, step, g)

\* The recursion has a solution.
LEMMA FoldExists ==
    ASSUME NEW n \in Nat, NEW V, NEW base \in V, NEW step \in [1..n -> [V -> V]]
    PROVE  \E g : SolvesFold(n, V, base, step, g)
  <1> DEFINE Upto(g, k) == \A t \in SUBSET (1..k) :
                               g[t] = PartialFolds(n, base, step, g)[t]
             Solved(k) == \E g \in [SUBSET (1..n) -> V] : Upto(g, k)
             T == {k \in Nat : k <= n => Solved(k)}
  <1>1. 0 \in T
    <2> DEFINE g == [t \in SUBSET (1..n) |-> base]
    <2>1. g \in [SUBSET (1..n) -> V] /\ g[{}] = base
      OBVIOUS
    <2>2. PartialFolds(n, base, step, g)[{}] = base
      BY DEF PartialFolds
    <2>3. \A t \in SUBSET (1..0) : t = {}
      OBVIOUS
    <2> HIDE DEF g
    <2>4. Upto(g, 0)
      BY <2>1, <2>2, <2>3
    <2> QED
      BY <2>1, <2>4
  <1>2. ASSUME NEW k \in Nat, k \in T
        PROVE  k + 1 \in T
    <2> HIDE DEF Solved
    <2> SUFFICES ASSUME k + 1 <= n
                 PROVE  Solved(k + 1)
      OBVIOUS
    <2>0. Solved(k)
      BY <1>2
    <2> USE DEF Solved
    <2>1. PICK g \in [SUBSET (1..n) -> V] : Upto(g, k)
      BY <2>0
    <2> DEFINE h == [t \in SUBSET (1..n) |->
                        IF k + 1 \in t THEN step[k + 1][g[t \ {k + 1}]] ELSE g[t]]
    <2>2. h \in [SUBSET (1..n) -> V]
      OBVIOUS
    <2>3. ASSUME NEW t \in SUBSET (1..(k+1))
          PROVE  h[t] = PartialFolds(n, base, step, h)[t]
      <3>0. t \in SUBSET (1..n)
        OBVIOUS
      <3>1. CASE k + 1 \in t
        <4>1. Max(t) = k + 1
          <5>1. Max(t) \in t /\ \A y \in t : y <= Max(t)
            <6>1. k + 1 \in Nat /\ t # {}
              BY <3>1
            <6> QED
              BY <6>1, MaxIn
          <5>2. k + 1 <= Max(t) /\ Max(t) \in 1..(k+1)
            BY <3>1, <5>1
          <5> QED
            BY <5>2
        <4>2. h[t \ {k + 1}] = g[t \ {k + 1}]
          BY <3>0
        <4>3. h[t] = step[k + 1][g[t \ {k + 1}]]
          BY <3>0, <3>1
        <4> HIDE DEF h
        <4> QED
          BY <3>0, <3>1, <4>1, <4>2, <4>3 DEF PartialFolds
      <3>2. CASE k + 1 \notin t
        <4>1. t \in SUBSET (1..k)
          BY <3>2
        <4>2. h[t] = g[t] /\ \A x : h[t \ {x}] = g[t \ {x}]
          BY <3>0, <3>2
        <4>3. g[t] = PartialFolds(n, base, step, g)[t]
          BY <2>1, <4>1
        <4> HIDE DEF h
        <4> QED
          BY <3>0, <4>2, <4>3 DEF PartialFolds
      <3> QED
        BY <3>1, <3>2
    <2> HIDE DEF h
    <2> QED
      BY <2>2, <2>3
  <1> HIDE DEF T, Solved
  <1>3. Solved(n)
    <2>1. n \in T
      BY <1>1, <1>2, Induction
    <2> QED
      BY <2>1 DEF T
  <1>4. PICK g \in [SUBSET (1..n) -> V] : Upto(g, n)
    BY <1>3 DEF Solved
  <1>5. g = [t \in SUBSET (1..n) |-> g[t]]
    OBVIOUS
  <1>6. PartialFolds(n, base, step, g) =
            [t \in SUBSET (1..n) |-> PartialFolds(n, base, step, g)[t]]
    BY DEF PartialFolds
  <1>7. g = PartialFolds(n, base, step, g)
    BY <1>4, <1>5, <1>6
  <1> QED
    BY <1>7 DEF SolvesFold

\* The first k positions are the first k - 1 and the k-th.
LEMMA LastPosition ==
    ASSUME NEW n \in Nat, NEW k \in 1..n
    PROVE  /\ 1..k \in SUBSET (1..n) /\ 1..k # {}
           /\ Max(1..k) = k /\ (1..k) \ {k} = 1..(k-1)
  <1>1. 1..k \in SUBSET (1..n) /\ k \in 1..k /\ (1..k) \ {k} = 1..(k-1)
    OBVIOUS
  <1>2. Max(1..k) \in 1..k /\ \A y \in 1..k : y <= Max(1..k)
    BY <1>1, MaxIn
  <1> QED
    BY <1>1, <1>2

-----------------------------------------------------------------------------
(***************************************************************************)
(* Accounts                                                                *)
(***************************************************************************)

\* The account maps.
Accounts ==
    UNION {[D -> AccountStates] : D \in {E \in SUBSET Address : IsFiniteSet(E)}}

Balances(acc) == [a \in DOMAIN acc |-> acc[a].balance]

\* What an account map consists of.
LEMMA AccountMap ==
    ASSUME NEW acc
    PROVE  acc \in Accounts <=>
              /\ acc = [a \in DOMAIN acc |-> acc[a]]
              /\ DOMAIN acc \subseteq Address /\ IsFiniteSet(DOMAIN acc)
              /\ \A a \in DOMAIN acc : acc[a] \in AccountStates
  <1>1. ASSUME acc \in Accounts
        PROVE  /\ acc = [a \in DOMAIN acc |-> acc[a]]
               /\ DOMAIN acc \subseteq Address /\ IsFiniteSet(DOMAIN acc)
               /\ \A a \in DOMAIN acc : acc[a] \in AccountStates
    <2>1. PICK D \in SUBSET Address : IsFiniteSet(D) /\ acc \in [D -> AccountStates]
      BY <1>1 DEF Accounts
    <2>2. DOMAIN acc = D
      BY <2>1
    <2> QED
      BY <2>1, <2>2
  <1>2. ASSUME /\ acc = [a \in DOMAIN acc |-> acc[a]]
               /\ DOMAIN acc \subseteq Address /\ IsFiniteSet(DOMAIN acc)
               /\ \A a \in DOMAIN acc : acc[a] \in AccountStates
        PROVE  acc \in Accounts
    <2> DEFINE D == DOMAIN acc
    <2>1. acc \in [D -> AccountStates]
      BY <1>2
    <2>2. D \in {E \in SUBSET Address : IsFiniteSet(E)}
      BY <1>2
    <2> HIDE DEF D
    <2> QED
      BY <2>1, <2>2 DEF Accounts
  <1> QED
    BY <1>1, <1>2

\* MapThenSumSet adds up the balances.
LEMMA SupplySum ==
    ASSUME NEW acc \in Accounts
    PROVE  /\ Summable(Balances(acc))
           /\ \E g : IsSum(Balances(acc), g) /\ Supply(acc) = g[DOMAIN acc]
  <1> DEFINE f == Balances(acc)
             S == DOMAIN acc
             Body(g) == [t \in SUBSET S |->
                            IF t = {} THEN 0 ELSE acc[Pick(t)].balance + g[t \ {Pick(t)}]]
             c == CHOOSE g : g = Body(g)
  <1>1. Supply(acc) = c[S]
    BY Zenon DEF Supply, MapThenSumSet, MapThenFoldSet, Pick
  <1>2. DOMAIN f = S /\ Summable(f)
    <2>1. Word \in Nat /\ IsFiniteSet(S) /\ \A a \in S : acc[a] \in AccountStates
      BY AccountMap, LedgerAssumption
    <2> QED
      BY <2>1 DEF Summable, Balances, AccountStates
  <1>3. \A g : Body(g) = PartialSums(f, g)
    BY <1>2, PickIn DEF PartialSums, Balances
  <1> HIDE DEF f, Body
  <1>4. PICK g \in [SUBSET S -> Nat] : g = PartialSums(f, g)
    BY <1>2, SumsExist
  <1>5. c = PartialSums(f, c)
    BY <1>3, <1>4, Zenon
  <1> HIDE DEF c
  <1>6. IsSum(f, c)
    BY <1>2, <1>5, AnyOrder
  <1> QED
    BY <1>1, <1>2, <1>6 DEF f

\* Two accounts hold no more than there is.
LEMMA PartsOfSupply ==
    ASSUME NEW acc \in Accounts, NEW s \in DOMAIN acc, NEW r \in DOMAIN acc, r # s
    PROVE  acc[s].balance + acc[r].balance <= Supply(acc)
  <1> DEFINE f == Balances(acc)
  <1>1. PICK g : IsSum(f, g) /\ Supply(acc) = g[DOMAIN acc]
    BY SupplySum
  <1>2. /\ Summable(f) /\ DOMAIN f = DOMAIN acc
        /\ f[s] = acc[s].balance /\ f[r] = acc[r].balance
    BY SupplySum DEF Balances
  <1> HIDE DEF f
  <1>3. /\ g[DOMAIN acc] = f[s] + g[DOMAIN acc \ {s}]
        /\ g[DOMAIN acc \ {s}] = f[r] + g[(DOMAIN acc \ {s}) \ {r}]
        /\ g[(DOMAIN acc \ {s}) \ {r}] \in Nat
    <2>1. DOMAIN acc \ {s} \in SUBSET DOMAIN f /\ r \in DOMAIN acc \ {s}
          /\ (DOMAIN acc \ {s}) \ {r} \in SUBSET DOMAIN f
      BY <1>2
    <2> QED
      BY <1>1, <1>2, <2>1 DEF IsSum
  <1>4. f[s] \in Nat /\ f[r] \in Nat
    BY <1>2 DEF Summable
  <1> QED
    BY <1>1, <1>2, <1>3, <1>4

\* The account map between debit and credit.
Debited(acc, tx) ==
    [acc EXCEPT ![tx.sender].balance = @ - tx.amount, ![tx.sender].nonce = @ + 1]

\* The debit touches the sender's account only.
LEMMA DebitEffect ==
    ASSUME NEW acc \in Accounts, NEW tx, tx.sender \in DOMAIN acc
    PROVE  /\ DOMAIN Debited(acc, tx) = DOMAIN acc
           /\ Debited(acc, tx)[tx.sender] =
                 [balance |-> acc[tx.sender].balance - tx.amount,
                  nonce   |-> acc[tx.sender].nonce + 1]
           /\ \A a \in DOMAIN acc \ {tx.sender} : Debited(acc, tx)[a] = acc[a]
  <1>1. acc[tx.sender] \in [balance : 0..Word-1, nonce : Nat]
    BY AccountMap DEF AccountStates
  <1>2. acc = [a \in DOMAIN acc |-> acc[a]]
    BY AccountMap
  <1> QED
    BY <1>1, <1>2 DEF Debited

\* A number below the word is what is left of it.
LEMMA ModSmall ==
    ASSUME NEW n \in Nat, n < Word
    PROVE  n % Word = n
  BY LedgerAssumption

\* A valid transfer moves the amount and bumps the sender's nonce: nothing
\* wraps, since no two accounts hold a word together.
LEMMA TransferEffect ==
    ASSUME NEW acc \in Accounts, Supply(acc) < Word, NEW tx \in Txs,
           validateTransaction(acc, tx)
    PROVE  /\ DOMAIN Transfer(acc, tx) = DOMAIN acc \cup {tx.recipient}
           /\ \A a : getNonce(Transfer(acc, tx), a) =
                        getNonce(acc, a) + (IF a = tx.sender THEN 1 ELSE 0)
           /\ \A a : getBalance(Transfer(acc, tx), a) =
                        IF tx.sender = tx.recipient THEN getBalance(acc, a)
                        ELSE IF a = tx.sender THEN getBalance(acc, a) - tx.amount
                        ELSE IF a = tx.recipient THEN getBalance(acc, a) + tx.amount
                        ELSE getBalance(acc, a)
           /\ Transfer(acc, tx) \in Accounts
  <1> DEFINE s == tx.sender
             r == tx.recipient
             m == tx.amount
             d == Debited(acc, tx)
             new == Transfer(acc, tx)
  <1>0. /\ s \in Address /\ r \in Address /\ m \in Nat /\ m < Word
        /\ Word \in Nat \ {0}
    BY TransferAssumption, LedgerAssumption
  <1>1. /\ s \in DOMAIN acc /\ acc[s].balance >= m
        /\ \A a \in DOMAIN acc : /\ acc[a].balance \in Nat /\ acc[a].balance < Word
                                  /\ acc[a].nonce \in Nat
    BY AccountMap, LedgerAssumption DEF validateTransaction, accountExists, AccountStates
  <1>2. /\ DOMAIN d = DOMAIN acc
        /\ d[s].balance = acc[s].balance - m /\ d[s].nonce = acc[s].nonce + 1
        /\ d[s] = [balance |-> acc[s].balance - m, nonce |-> acc[s].nonce + 1]
        /\ \A a \in DOMAIN acc \ {s} : d[a] = acc[a]
    BY <1>1, DebitEffect
  <1>3. /\ DOMAIN new = DOMAIN acc \cup {r}
        /\ new = [a \in DOMAIN new |-> new[a]]
        /\ new[r] = [balance |-> (getBalance(d, r) + m) % Word, nonce |-> getNonce(d, r)]
        /\ \A a \in DOMAIN acc \ {r} : new[a] = d[a]
    <2>1. /\ DOMAIN new = DOMAIN d \cup {r}
          /\ new = [a \in DOMAIN new |-> new[a]]
          /\ new[r] = [balance |-> (getBalance(d, r) + m) % Word, nonce |-> getNonce(d, r)]
          /\ \A a \in DOMAIN d \ {r} : new[a] = d[a]
      BY DEF Transfer, Debited
    <2> HIDE DEF d, new
    <2> QED
      BY <1>2, <2>1
  <1> HIDE DEF d, new
  <1>4. /\ (getBalance(d, r) + m) % Word =
              IF r = s THEN acc[s].balance ELSE getBalance(acc, r) + m
        /\ (IF r = s THEN acc[s].balance ELSE getBalance(acc, r) + m) \in 0..Word-1
    <2>1. CASE r = s
      <3>1. getBalance(d, r) + m = acc[s].balance
        BY <1>0, <1>1, <1>2, <2>1 DEF getBalance, accountExists
      <3> QED
        BY <1>0, <1>1, <2>1, <3>1, ModSmall
    <2>2. CASE r # s /\ r \in DOMAIN acc
      <3>1. getBalance(d, r) = acc[r].balance /\ getBalance(acc, r) = acc[r].balance
        BY <1>2, <2>2 DEF getBalance, accountExists
      <3>2. acc[s].balance + acc[r].balance <= Supply(acc) /\ Supply(acc) \in Int
        <4>1. PICK g : IsSum(Balances(acc), g) /\ Supply(acc) = g[DOMAIN acc]
          BY SupplySum
        <4>2. Supply(acc) \in Nat
          BY <4>1 DEF IsSum, Balances
        <4> QED
          BY <1>1, <2>2, <4>2, PartsOfSupply
      <3>3. acc[r].balance + m < Word /\ acc[r].balance + m \in Nat
        BY <1>0, <1>1, <2>2, <3>2
      <3> QED
        BY <1>0, <2>2, <3>1, <3>3, ModSmall
    <2>3. CASE r # s /\ r \notin DOMAIN acc
      <3>1. getBalance(d, r) = 0 /\ getBalance(acc, r) = 0
        BY <1>2, <2>3 DEF getBalance, accountExists
      <3> QED
        BY <1>0, <2>3, <3>1, ModSmall
    <2> QED
      BY <2>1, <2>2, <2>3
  <1>5. getNonce(d, r) = getNonce(acc, r) + (IF r = s THEN 1 ELSE 0)
    <2>1. r \in DOMAIN acc => acc[r].nonce \in Nat
      BY <1>1
    <2> QED
      BY <1>1, <1>2, <2>1 DEF getNonce, accountExists
  <1>6. ASSUME NEW a
        PROVE  /\ getNonce(new, a) = getNonce(acc, a) + (IF a = s THEN 1 ELSE 0)
               /\ getBalance(new, a) =
                     IF s = r THEN getBalance(acc, a)
                     ELSE IF a = s THEN getBalance(acc, a) - m
                     ELSE IF a = r THEN getBalance(acc, a) + m
                     ELSE getBalance(acc, a)
    <2>1. CASE a = r
      <3>1. getNonce(new, a) = getNonce(d, r) /\ getBalance(new, a) = (getBalance(d, r) + m) % Word
        BY <1>3, <2>1 DEF getNonce, getBalance, accountExists
      <3>2. r = s => getBalance(acc, r) = acc[s].balance
        BY <1>1 DEF getBalance, accountExists
      <3> QED
        BY <1>4, <1>5, <2>1, <3>1, <3>2
    <2>2. CASE a # r /\ a \in DOMAIN acc
      <3>1. /\ getNonce(new, a) = d[a].nonce /\ getBalance(new, a) = d[a].balance
            /\ getNonce(acc, a) = acc[a].nonce /\ getBalance(acc, a) = acc[a].balance
        BY <1>3, <2>2 DEF getNonce, getBalance, accountExists
      <3>2. /\ d[a].nonce = acc[a].nonce + (IF a = s THEN 1 ELSE 0)
            /\ d[a].balance = IF a = s THEN acc[a].balance - m ELSE acc[a].balance
        BY <1>1, <1>2, <2>2
      <3> QED
        BY <2>2, <3>1, <3>2
    <2>3. CASE a # r /\ a \notin DOMAIN acc
      <3>1. /\ getNonce(new, a) = 0 /\ getBalance(new, a) = 0
            /\ getNonce(acc, a) = 0 /\ getBalance(acc, a) = 0
        BY <1>3, <2>3 DEF getNonce, getBalance, accountExists
      <3> QED
        BY <1>1, <2>3, <3>1
    <2> QED
      BY <2>1, <2>2, <2>3
  <1>7. new \in Accounts
    <2>1. DOMAIN new \subseteq Address /\ IsFiniteSet(DOMAIN new)
      BY <1>0, <1>3, AccountMap, FS_AddElement
    <2>2. ASSUME NEW a \in DOMAIN new
          PROVE  new[a] \in AccountStates
      <3>1. CASE a = r
        <4>1. getNonce(d, r) \in Nat
          <5>1. getNonce(acc, r) \in Nat
            BY <1>1 DEF getNonce, accountExists
          <5> QED
            BY <1>5, <5>1
        <4> QED
          BY <1>3, <1>4, <3>1, <4>1 DEF AccountStates
      <3>2. CASE a = s /\ a # r
        <4>1. acc[s].balance - m \in 0..Word-1 /\ acc[s].nonce + 1 \in Nat
          BY <1>0, <1>1
        <4>2. new[a] = [balance |-> acc[s].balance - m, nonce |-> acc[s].nonce + 1]
          BY <1>1, <1>2, <1>3, <3>2
        <4> QED
          BY <4>1, <4>2 DEF AccountStates
      <3>3. CASE a # s /\ a # r
        <4>1. a \in DOMAIN acc /\ new[a] = acc[a]
          BY <1>2, <1>3, <3>3
        <4> QED
          BY <4>1, AccountMap
      <3> QED
        BY <3>1, <3>2, <3>3
    <2> QED
      BY <1>3, <2>1, <2>2, AccountMap
  <1> QED
    BY <1>3, <1>6, <1>7 DEF new

\* A valid transfer neither mints nor burns.
LEMMA TransferKeepsSupply ==
    ASSUME NEW acc \in Accounts, Supply(acc) < Word, NEW tx \in Txs,
           validateTransaction(acc, tx)
    PROVE  Supply(Transfer(acc, tx)) = Supply(acc)
  <1> DEFINE s == tx.sender
             r == tx.recipient
             m == tx.amount
             new == Transfer(acc, tx)
             D == DOMAIN acc
             f == Balances(acc)
             h == Balances(new)
  <1>0. s \in D /\ m \in Nat
    BY TransferAssumption, LedgerAssumption DEF validateTransaction, accountExists
  <1>1. /\ new \in Accounts /\ DOMAIN new = D \cup {r}
        /\ \A a : getBalance(new, a) =
                      IF s = r THEN getBalance(acc, a)
                      ELSE IF a = s THEN getBalance(acc, a) - m
                      ELSE IF a = r THEN getBalance(acc, a) + m
                      ELSE getBalance(acc, a)
    BY TransferEffect, Zenon
  <1> HIDE DEF new
  <1>2. /\ DOMAIN f = D /\ \A a \in D : f[a] = getBalance(acc, a)
        /\ DOMAIN h = D \cup {r} /\ \A a \in D \cup {r} : h[a] = getBalance(new, a)
        /\ r \notin D => getBalance(acc, r) = 0
    BY <1>1 DEF Balances, getBalance, accountExists
  <1>3. Summable(f) /\ Summable(h)
    BY <1>1, SupplySum
  <1>4. PICK g : IsSum(f, g) /\ Supply(acc) = g[D]
    BY SupplySum
  <1>5. PICK k : IsSum(h, k) /\ Supply(new) = k[D \cup {r}]
    BY <1>1, SupplySum
  <1> HIDE DEF f, h
  <1>6. /\ g \in [SUBSET D -> Nat] /\ k \in [SUBSET (D \cup {r}) -> Nat]
        /\ \A t \in SUBSET D : \A x \in t : g[t] = f[x] + g[t \ {x}]
        /\ \A t \in SUBSET (D \cup {r}) : \A x \in t : k[t] = h[x] + k[t \ {x}]
    BY <1>2, <1>4, <1>5 DEF IsSum
  <1>7. ASSUME NEW t \in SUBSET D, s \notin t \/ s = r, r \notin t \/ s = r
        PROVE  g[t] = k[t]
    <2>1. \A x \in t : f[x] = h[x]
      BY <1>1, <1>2, <1>7
    <2> QED
      BY <1>2, <1>3, <1>4, <1>5, <2>1, SumsAgree
  <1>8. CASE s = r
    <2>1. D \cup {r} = D
      BY <1>0, <1>8
    <2> QED
      BY <1>4, <1>5, <1>7, <1>8, <2>1 DEF new
  <1>9. CASE s # r
    <2> DEFINE rest == (D \ {s}) \ {r}
    <2>1. /\ rest \in SUBSET D /\ s \notin rest /\ r \notin rest
          /\ D \ {s} \in SUBSET D /\ (D \cup {r}) \ {s} \in SUBSET (D \cup {r})
          /\ ((D \cup {r}) \ {s}) \ {r} = rest /\ r \in (D \cup {r}) \ {s}
      BY <1>9
    <2>2. k[D \cup {r}] = h[s] + (h[r] + k[rest])
      <3>1. k[D \cup {r}] = h[s] + k[(D \cup {r}) \ {s}]
        BY <1>0, <1>6
      <3>2. k[(D \cup {r}) \ {s}] = h[r] + k[((D \cup {r}) \ {s}) \ {r}]
        BY <1>6, <2>1
      <3> QED
        BY <2>1, <3>1, <3>2
    <2>3. h[s] = f[s] - m /\ h[r] = getBalance(acc, r) + m
      BY <1>0, <1>1, <1>2, <1>9
    <2>4. g[rest] = k[rest] /\ g[rest] \in Nat
      BY <1>6, <1>7, <2>1
    <2>5. f[s] \in Nat /\ g[D] = f[s] + g[D \ {s}]
      BY <1>0, <1>2, <1>3, <1>6 DEF Summable
    <2>6. getBalance(acc, r) \in Nat /\ g[D \ {s}] = getBalance(acc, r) + g[rest]
      <3>1. CASE r \in D
        <4>1. f[r] \in Nat /\ f[r] = getBalance(acc, r)
          BY <1>2, <1>3, <3>1 DEF Summable
        <4>2. r \in D \ {s}
          BY <1>9, <3>1
        <4>3. g[D \ {s}] = f[r] + g[(D \ {s}) \ {r}]
          BY <1>6, <2>1, <4>2
        <4> QED
          BY <4>1, <4>3
      <3>2. CASE r \notin D
        <4>1. rest = D \ {s} /\ getBalance(acc, r) = 0
          BY <1>2, <3>2
        <4> QED
          BY <2>4, <4>1
      <3> QED
        BY <3>1, <3>2
    <2> HIDE DEF rest
    <2>7. k[D \cup {r}] = g[D]
      BY <1>0, <2>2, <2>3, <2>4, <2>5, <2>6
    <2> QED
      BY <1>4, <1>5, <2>7 DEF new
  <1> QED
    BY <1>8, <1>9

\* The account maps with a supply of w.
Funded(w) == {acc \in Accounts : Supply(acc) = w}

\* Transfers stay within them.
LEMMA TransferFunded ==
    ASSUME NEW w, w < Word, NEW acc \in Funded(w), NEW tx \in Txs,
           validateTransaction(acc, tx)
    PROVE  Transfer(acc, tx) \in Funded(w)
  BY TransferEffect, TransferKeepsSupply DEF Funded

GenesisSupply == Supply(GenesisState(GenesisAllocations))

\* The genesis allocations are account states.
LEMMA GenesisAccounts ==
    GenesisState(GenesisAllocations) \in Funded(GenesisSupply) /\ GenesisSupply < Word
  <1> DEFINE g == GenesisState(GenesisAllocations)
             D == DOMAIN GenesisAllocations
  <1>1. /\ DOMAIN g = D /\ g = [a \in DOMAIN g |-> g[a]]
        /\ \A a \in D : g[a] = [balance |-> GenesisAllocations[a], nonce |-> 0]
    BY DEF GenesisState
  <1>2. /\ D \subseteq Address /\ IsFiniteSet(D) /\ GenesisSupply < Word
        /\ \A a \in D : GenesisAllocations[a] \in 0..Word-1
    BY GenesisAssumption DEF GenesisSupply
  <1> HIDE DEF g
  <1>3. \A a \in DOMAIN g : g[a] \in AccountStates
    BY <1>1, <1>2 DEF AccountStates
  <1>4. g \in Accounts
    BY <1>1, <1>2, <1>3, AccountMap
  <1> QED
    BY <1>2, <1>4 DEF Funded, GenesisSupply, g

-----------------------------------------------------------------------------
(***************************************************************************)
(* applyBlock                                                              *)
(***************************************************************************)

\* One transaction of a block, and the states that the loop passes through.
ReplayStep(run, tx) ==
    IF run.ok /\ validateTransaction(run.accounts, tx)
    THEN [ok |-> TRUE, accounts |-> Transfer(run.accounts, tx)]
    ELSE [run EXCEPT !.ok = FALSE]

Runs(w) == [ok : BOOLEAN, accounts : Funded(w)]

IsReplay(run, w, acc, txs) ==
    /\ run \in [0..Len(txs) -> Runs(w)]
    /\ run[0] = [ok |-> TRUE, accounts |-> acc]
    /\ \A k \in 1..Len(txs) : run[k] = ReplayStep(run[k-1], txs[k])

\* A step of the loop keeps the supply.
LEMMA ReplayStepFunded ==
    ASSUME NEW w, w < Word, NEW run \in Runs(w), NEW tx \in Txs
    PROVE  ReplayStep(run, tx) \in Runs(w)
  <1>1. run.accounts \in Funded(w) /\ run = [ok |-> run.ok, accounts |-> run.accounts]
    BY DEF Runs
  <1>2. CASE run.ok /\ validateTransaction(run.accounts, tx)
    <2>1. Transfer(run.accounts, tx) \in Funded(w)
      BY <1>1, <1>2, TransferFunded
    <2> QED
      BY <1>2, <2>1 DEF ReplayStep, Runs
  <1>3. CASE ~ (run.ok /\ validateTransaction(run.accounts, tx))
    <2>1. ReplayStep(run, tx) = [run EXCEPT !.ok = FALSE]
      BY <1>3, Zenon DEF ReplayStep
    <2>2. [run EXCEPT !.ok = FALSE] \in Runs(w)
      BY DEF Runs
    <2> QED
      BY <2>1, <2>2
  <1> QED
    BY <1>2, <1>3

\* The loop of applyBlock, step by step.
LEMMA ReplayLoop ==
    ASSUME NEW w, w < Word, NEW acc \in Funded(w), NEW txs \in Seq(Txs)
    PROVE  \E run : IsReplay(run, w, acc, txs) /\ Replay(acc, txs) = run[Len(txs)]
  <1> DEFINE n == Len(txs)
             base == [ok |-> TRUE, accounts |-> acc]
             Body(g) == [t \in SUBSET DOMAIN txs |->
                            IF t = {} THEN base
                            ELSE ReplayStep(g[t \ {Max(t)}], txs[Max(t)])]
             c == CHOOSE g : g = Body(g)
             step == [i \in 1..n |-> [v \in Runs(w) |-> ReplayStep(v, txs[i])]]
  <1>1. Replay(acc, txs) = c[DOMAIN txs]
    BY Zenon DEF Replay, FoldLeft, MapThenFoldSet, ReplayStep
  <1>2. n \in Nat /\ DOMAIN txs = 1..n /\ \A i \in 1..n : txs[i] \in Txs
    OBVIOUS
  <1>3. base \in Runs(w) /\ step \in [1..n -> [Runs(w) -> Runs(w)]]
    BY <1>2, ReplayStepFunded DEF Runs
  <1> HIDE DEF n, base
  <1>4. PICK g \in [SUBSET (1..n) -> Runs(w)] : g = PartialFolds(n, base, step, g)
    <2> HIDE DEF step, Body, c
    <2>1. n \in Nat
      BY <1>2
    <2>2. base \in Runs(w)
      BY <1>3
    <2>3. step \in [1..n -> [Runs(w) -> Runs(w)]]
      BY <1>3
    <2>4. \E g : SolvesFold(n, Runs(w), base, step, g)
      BY <2>1, <2>2, <2>3, FoldExists, Zenon
    <2> QED
      BY <2>4 DEF SolvesFold
  <1>5. g = Body(g)
    <2>1. ASSUME NEW t \in SUBSET (1..n), t # {}
          PROVE  step[Max(t)][g[t \ {Max(t)}]] = ReplayStep(g[t \ {Max(t)}], txs[Max(t)])
      <3>1. Max(t) \in 1..n
        BY <1>2, <2>1, MaxIn
      <3>2. g[t \ {Max(t)}] \in Runs(w)
        OBVIOUS
      <3> QED
        BY <3>1, <3>2
    <2> HIDE DEF step
    <2>2. PartialFolds(n, base, step, g) = Body(g)
      BY <1>2, <2>1 DEF PartialFolds
    <2> QED
      BY <1>4, <2>2
  <1> HIDE DEF Body, step
  <1>6. c = Body(c)
    BY <1>5, Zenon
  <1> HIDE DEF c
  <1> DEFINE run == [k \in 0..n |-> c[1..k]]
  <1>7. run[0] = base
    <2>1. 1..0 = {} /\ {} \in SUBSET DOMAIN txs /\ 0 \in 0..n
      BY <1>2
    <2>2. c[{}] = base
      BY <1>6, <2>1 DEF Body
    <2> QED
      BY <2>1, <2>2
  <1>8. ASSUME NEW k \in 1..n
        PROVE  run[k] = ReplayStep(run[k-1], txs[k])
    <2>1. /\ 1..k \in SUBSET DOMAIN txs /\ 1..k # {}
          /\ Max(1..k) = k /\ (1..k) \ {k} = 1..(k-1)
      BY <1>2, LastPosition
    <2>2. c[1..k] = ReplayStep(c[1..(k-1)], txs[k])
      BY <1>6, <2>1 DEF Body
    <2>3. run[k] = c[1..k] /\ run[k-1] = c[1..(k-1)]
      BY <1>2
    <2> QED
      BY <2>2, <2>3
  <1>9. run \in [0..n -> Runs(w)]
    <2> DEFINE T == {k \in Nat : k <= n => run[k] \in Runs(w)}
    <2>1. 0 \in T
      BY <1>3, <1>7
    <2>2. ASSUME NEW k \in Nat, k \in T
          PROVE  k + 1 \in T
      <3> HIDE DEF run
      <3> SUFFICES ASSUME k + 1 <= n PROVE run[k + 1] \in Runs(w)
        OBVIOUS
      <3>1. k + 1 \in 1..n /\ run[k] \in Runs(w) /\ (k + 1) - 1 = k
        BY <1>2, <2>2
      <3>2. run[k+1] = ReplayStep(run[k], txs[k+1])
        BY <1>8, <3>1
      <3> QED
        BY <1>2, <3>1, <3>2, ReplayStepFunded
    <2> HIDE DEF T
    <2>3. Nat \subseteq T
      BY <2>1, <2>2, Induction
    <2>4. \A k \in 0..n : run[k] \in Runs(w)
      <3> HIDE DEF run
      <3> QED
        BY <1>2, <2>3 DEF T
    <2> QED
      BY <2>4
  <1>10. Replay(acc, txs) = run[n]
    BY <1>1, <1>2
  <1> HIDE DEF run
  <1> QED
    BY <1>7, <1>8, <1>9, <1>10 DEF IsReplay, n, base

\* applyBlock, too, stays within the account maps of one supply.
LEMMA ApplyFunded ==
    ASSUME NEW w, w < Word, NEW acc \in Funded(w), NEW txs \in Seq(Txs)
    PROVE  applyBlock(acc, txs) \in Funded(w)
  <1>1. PICK run : IsReplay(run, w, acc, txs) /\ Replay(acc, txs) = run[Len(txs)]
    BY ReplayLoop
  <1>2. run[Len(txs)].accounts \in Funded(w)
    BY <1>1 DEF IsReplay, Runs
  <1> QED
    BY <1>1, <1>2 DEF applyBlock

-----------------------------------------------------------------------------
(***************************************************************************)
(* Sorting                                                                 *)
(***************************************************************************)

\* No sender has a nonce twice.
NoTies(txs) ==
    \A t, u \in txs : t.sender = u.sender /\ t.nonce = u.nonce => t = u

Before(txs, tx) == {u \in txs : SenderThenNonce(u, tx)}

InSortOrder(s, txs) ==
    /\ s \in [1..Cardinality(txs) -> txs]
    /\ \A tx \in txs : \E i \in 1..Cardinality(txs) : s[i] = tx
    /\ \A i, j \in 1..Cardinality(txs) : i < j => SenderThenNonce(s[i], s[j])

\* The comparison is a strict total order.
LEMMA TotalOrder ==
    ASSUME NEW txs \in SUBSET Txs, NoTies(txs)
    PROVE  /\ \A t \in txs : ~ SenderThenNonce(t, t)
           /\ \A t, u \in txs : t = u \/ SenderThenNonce(t, u) \/ SenderThenNonce(u, t)
           /\ \A t, u, v \in txs :
                 SenderThenNonce(t, u) /\ SenderThenNonce(u, v) => SenderThenNonce(t, v)
  <1>1. \A t \in txs : t.sender \in Nat /\ t.nonce \in Nat
    BY TransferAssumption, LedgerAssumption
  <1> QED
    BY <1>1 DEF NoTies, SenderThenNonce

\* Sorted sorts.
LEMMA SortedSorts ==
    ASSUME NEW txs \in SUBSET Txs, IsFiniteSet(txs), NoTies(txs)
    PROVE  InSortOrder(Sorted(txs), txs)
  <1> DEFINE n == Cardinality(txs)
             Rank(t) == Cardinality(Before(txs, t))
  <1>0. n \in Nat
    BY FS_CardinalityType
  <1>1. ASSUME NEW t \in txs
        PROVE  /\ IsFiniteSet(Before(txs, t)) /\ Rank(t) \in Nat
               /\ IsFiniteSet(Before(txs, t) \cup {t})
               /\ Cardinality(Before(txs, t) \cup {t}) = Rank(t) + 1
               /\ Before(txs, t) \cup {t} \subseteq txs
    <2>1. IsFiniteSet(Before(txs, t)) /\ t \notin Before(txs, t)
      BY FS_Subset, TotalOrder DEF Before
    <2> QED
      BY <2>1, FS_CardinalityType, FS_AddElement DEF Before
  <1>2. ASSUME NEW t \in txs
        PROVE  Rank(t) \in 0..n-1
    <2>1. Cardinality(Before(txs, t) \cup {t}) <= n
      BY <1>1, FS_Subset
    <2>2. Rank(t) \in Nat /\ Rank(t) + 1 <= n
      BY <1>1, <2>1
    <2> HIDE DEF Rank
    <2> QED
      BY <1>0, <2>2
  <1>3. ASSUME NEW t \in txs, NEW u \in txs, SenderThenNonce(t, u)
        PROVE  Rank(t) < Rank(u)
    <2>1. Before(txs, t) \cup {t} \subseteq Before(txs, u)
      BY <1>3, TotalOrder DEF Before
    <2>2. Cardinality(Before(txs, t) \cup {t}) <= Cardinality(Before(txs, u))
      BY <1>1, <2>1, FS_Subset
    <2>3. Rank(t) \in Nat /\ Rank(u) \in Nat /\ Rank(t) + 1 <= Rank(u)
      BY <1>1, <2>2
    <2> HIDE DEF Rank
    <2> QED
      BY <2>3
  <1> HIDE DEF Rank
  <1> DEFINE f == [t \in txs |-> Rank(t) + 1]
  <1>4. \A t, u \in txs : Rank(t) = Rank(u) => t = u
    <2> SUFFICES ASSUME NEW t \in txs, NEW u \in txs, Rank(t) = Rank(u), t # u
                 PROVE  FALSE
      OBVIOUS
    <2>1. Rank(t) < Rank(u) \/ Rank(u) < Rank(t)
      BY <1>3, TotalOrder
    <2> QED
      BY <1>2, <2>1
  <1>5. \A i \in 1..n : \E t \in txs : Rank(t) = i - 1
    <2>1. f \in Injection(txs, 1..n)
      <3>1. \A t \in txs : Rank(t) + 1 \in 1..n
        BY <1>0, <1>2
      <3>2. \A t, u \in txs : Rank(t) + 1 = Rank(u) + 1 => t = u
        BY <1>2, <1>4
      <3> QED
        BY <3>1, <3>2 DEF Injection, IsInjective
    <2>2. IsFiniteSet(1..n) /\ Cardinality(1..n) = n
      BY <1>0, FS_Interval
    <2>3. f \in Surjection(txs, 1..n)
      <3> HIDE DEF f
      <3> QED
        BY <2>1, <2>2, FS_Injection
    <2>4. \A i \in 1..n : \E t \in txs : f[t] = i
      <3> HIDE DEF f
      <3> QED
        BY <2>3 DEF Surjection
    <2> QED
      BY <1>2, <2>4
  <1>6. ASSUME NEW i \in 1..n
        PROVE  Sorted(txs)[i] \in txs /\ Rank(Sorted(txs)[i]) = i - 1
    <2>1. Sorted(txs)[i] = CHOOSE t \in txs : Rank(t) = i - 1
      BY DEF Sorted, Rank, Before
    <2> QED
      BY <1>5, <2>1
  <1>7. Sorted(txs) \in [1..n -> txs]
    BY <1>6 DEF Sorted
  <1>8. \A t \in txs : \E i \in 1..n : Sorted(txs)[i] = t
    <2> SUFFICES ASSUME NEW t \in txs
                 PROVE  \E i \in 1..n : Sorted(txs)[i] = t
      OBVIOUS
    <2>1. Rank(t) + 1 \in 1..n /\ (Rank(t) + 1) - 1 = Rank(t)
      BY <1>0, <1>2
    <2>2. Sorted(txs)[Rank(t) + 1] = t
      BY <1>4, <1>6, <2>1
    <2> QED
      BY <2>1, <2>2
  <1>9. ASSUME NEW i \in 1..n, NEW j \in 1..n, i < j
        PROVE  SenderThenNonce(Sorted(txs)[i], Sorted(txs)[j])
    <2>1. /\ Sorted(txs)[i] \in txs /\ Rank(Sorted(txs)[i]) = i - 1
          /\ Sorted(txs)[j] \in txs /\ Rank(Sorted(txs)[j]) = j - 1
      BY <1>6
    <2>2. Rank(Sorted(txs)[i]) < Rank(Sorted(txs)[j])
      BY <1>0, <1>9, <2>1
    <2>3. /\ Sorted(txs)[i] # Sorted(txs)[j]
          /\ ~ (Rank(Sorted(txs)[j]) < Rank(Sorted(txs)[i]))
      BY <1>2, <2>1, <2>2
    <2> QED
      BY <1>3, <2>1, <2>3, TotalOrder
  <1> QED
    BY <1>7, <1>8, <1>9 DEF InSortOrder

\* Verified transactions of one hash are one transaction.
LEMMA HashIdentifies ==
    ASSUME NEW t \in Txs, NEW u \in Txs, verifyTransaction(t), verifyTransaction(u),
           t.hash = u.hash
    PROVE  t = u
  <1>1. /\ t.sender = u.sender /\ t.recipient = u.recipient /\ t.amount = u.amount
        /\ t.nonce = u.nonce /\ t.timestamp = u.timestamp
        /\ t.senderPublicKey = u.senderPublicKey
    BY DEF verifyTransaction, computeTransactionHash
  <1>2. t.signature = u.signature
    BY <1>1 DEF verifyTransaction, verify
  <1> QED
    BY <1>1, <1>2, TransactionShape

-----------------------------------------------------------------------------
(***************************************************************************)
(* The pool                                                                *)
(***************************************************************************)

Maps(V) == UNION {[D -> V] : D \in SUBSET Address}

Pools ==
    [pending  : {txs \in SUBSET Txs : IsFiniteSet(txs)},
     nonces   : Maps(Nat),
     balances : Maps(0..Word-1)]

PendingBy(p, a) == {tx \in p.pending : tx.sender = a}

\* The caches of a pool are exact, and the pending transactions of a sender
\* have the nonces that follow on the confirmed one, each once.
Exact(p, acc) ==
    /\ p \in Pools
    /\ \A tx \in p.pending : verifyTransaction(tx)
    /\ NoTies(p.pending)
    /\ DOMAIN p.nonces = {tx.sender : tx \in p.pending}
    /\ DOMAIN p.balances = DOMAIN p.nonces
    /\ \A a \in DOMAIN p.nonces :
          /\ a \in DOMAIN acc
          /\ p.nonces[a] = getNonce(acc, a) + Cardinality(PendingBy(p, a))
          /\ p.balances[a] = getBalance(acc, a) - Amounts(PendingBy(p, a))
          /\ {tx.nonce : tx \in PendingBy(p, a)} = getNonce(acc, a)..p.nonces[a]-1

\* What a map consists of.
LEMMA MapParts ==
    ASSUME NEW V, NEW f
    PROVE  f \in Maps(V) <=> /\ f = [a \in DOMAIN f |-> f[a]]
                             /\ DOMAIN f \subseteq Address
                             /\ \A a \in DOMAIN f : f[a] \in V
  <1>1. ASSUME f \in Maps(V)
        PROVE  /\ f = [a \in DOMAIN f |-> f[a]]
               /\ DOMAIN f \subseteq Address
               /\ \A a \in DOMAIN f : f[a] \in V
    <2>1. PICK D \in SUBSET Address : f \in [D -> V]
      BY <1>1 DEF Maps
    <2>2. DOMAIN f = D
      BY <2>1
    <2> QED
      BY <2>1, <2>2
  <1>2. ASSUME /\ f = [a \in DOMAIN f |-> f[a]]
               /\ DOMAIN f \subseteq Address
               /\ \A a \in DOMAIN f : f[a] \in V
        PROVE  f \in Maps(V)
    <2> DEFINE D == DOMAIN f
    <2>1. f \in [D -> V] /\ D \in SUBSET Address
      BY <1>2
    <2> HIDE DEF D
    <2> QED
      BY <2>1 DEF Maps
  <1> QED
    BY <1>1, <1>2

\* Put sets one value of a map.
LEMMA PutMap ==
    ASSUME NEW V, NEW f \in Maps(V), NEW a \in Address, NEW v \in V
    PROVE  /\ Put(f, a, v) \in Maps(V)
           /\ DOMAIN Put(f, a, v) = DOMAIN f \cup {a}
           /\ Put(f, a, v)[a] = v
           /\ \A b \in DOMAIN f \ {a} : Put(f, a, v)[b] = f[b]
  <1> DEFINE q == Put(f, a, v)
  <1>1. /\ DOMAIN q = DOMAIN f \cup {a} /\ q = [b \in DOMAIN q |-> q[b]]
        /\ q[a] = v /\ \A b \in DOMAIN f \ {a} : q[b] = f[b]
    BY DEF Put
  <1>2. DOMAIN f \subseteq Address /\ \A b \in DOMAIN f : f[b] \in V
    BY MapParts
  <1> HIDE DEF q
  <1>3. DOMAIN q \subseteq Address /\ \A b \in DOMAIN q : q[b] \in V
    BY <1>1, <1>2
  <1>4. q \in Maps(V)
    BY <1>1, <1>3, MapParts
  <1> QED
    BY <1>1, <1>4 DEF q

\* The confirmed state of any address.
LEMMA Confirmed ==
    ASSUME NEW acc \in Accounts, NEW a
    PROVE  getNonce(acc, a) \in Nat /\ getBalance(acc, a) \in 0..Word-1
  BY AccountMap, LedgerAssumption DEF getNonce, getBalance, accountExists, AccountStates

\* The fields of a transaction.
LEMMA TransferTyped ==
    \A tx \in Txs : /\ tx.sender \in Address /\ tx.sender \in Nat
                    /\ tx.amount \in Nat /\ tx.nonce \in Nat
  <1> SUFFICES ASSUME NEW tx \in Txs
               PROVE  /\ tx.sender \in Address /\ tx.sender \in Nat
                      /\ tx.amount \in Nat /\ tx.nonce \in Nat
    OBVIOUS
  <1>1. /\ tx.sender \in Address /\ tx.amount \in 0..Word-1 /\ tx.nonce \in Nat
    BY TransferAssumption
  <1>2. Address \subseteq Nat /\ Word \in Nat
    BY LedgerAssumption
  <1>3. tx.amount \in Nat
    BY <1>1, <1>2
  <1>4. tx.sender \in Nat
    BY <1>1, <1>2, Zenon
  <1> QED
    BY <1>1, <1>3, <1>4

\* The pending transactions of a sender are finitely many, with typed fields.
LEMMA PendingTyped ==
    ASSUME NEW p \in Pools, NEW a
    PROVE  /\ IsFiniteSet(PendingBy(p, a)) /\ Cardinality(PendingBy(p, a)) \in Nat
           /\ PendingBy(p, a) \subseteq Txs /\ p.pending \subseteq Txs
           /\ \A tx \in PendingBy(p, a) : tx.amount \in Nat /\ tx.nonce \in Nat
           /\ Amounts(PendingBy(p, a)) \in Nat
  <1>1. p.pending \subseteq Txs /\ IsFiniteSet(p.pending)
    BY DEF Pools
  <1>2. PendingBy(p, a) \subseteq p.pending
    BY DEF PendingBy
  <1>3. IsFiniteSet(PendingBy(p, a)) /\ Cardinality(PendingBy(p, a)) \in Nat
    BY <1>1, <1>2, FS_Subset, FS_CardinalityType
  <1>4. \A tx \in Txs : tx.amount \in Nat /\ tx.nonce \in Nat
    BY TransferTyped
  <1>5. Amounts(PendingBy(p, a)) \in Nat
    BY <1>1, <1>2, <1>3, <1>4, AmountsAdd
  <1> QED
    BY <1>1, <1>2, <1>3, <1>4, <1>5

\* The pending view of any address, in the caches or not.
LEMMA PendingView ==
    ASSUME NEW acc \in Accounts, NEW p, Exact(p, acc), NEW a
    PROVE  /\ getPendingNonce(p, acc, a) = getNonce(acc, a) + Cardinality(PendingBy(p, a))
           /\ getPendingBalance(p, acc, a) = getBalance(acc, a) - Amounts(PendingBy(p, a))
           /\ {tx.nonce : tx \in PendingBy(p, a)} =
                  getNonce(acc, a)..getPendingNonce(p, acc, a)-1
           /\ getPendingNonce(p, acc, a) \in Nat
           /\ getPendingBalance(p, acc, a) \in 0..Word-1
  <1>0. /\ p \in Pools /\ getNonce(acc, a) \in Nat /\ getBalance(acc, a) \in 0..Word-1
        /\ Word \in Nat
    BY Confirmed, LedgerAssumption DEF Exact
  <1>1. CASE a \in DOMAIN p.nonces
    <2>1. /\ getPendingNonce(p, acc, a) = p.nonces[a]
          /\ getPendingBalance(p, acc, a) = p.balances[a]
      BY <1>1 DEF Exact, getPendingNonce, getPendingBalance
    <2>2. /\ p.nonces[a] = getNonce(acc, a) + Cardinality(PendingBy(p, a))
          /\ p.balances[a] = getBalance(acc, a) - Amounts(PendingBy(p, a))
          /\ {tx.nonce : tx \in PendingBy(p, a)} = getNonce(acc, a)..p.nonces[a]-1
          /\ a \in DOMAIN p.balances
      BY <1>1 DEF Exact
    <2>3. p.nonces \in Maps(Nat) /\ p.balances \in Maps(0..Word-1)
      BY <1>0 DEF Pools
    <2>4. p.nonces[a] \in Nat /\ p.balances[a] \in 0..Word-1
      BY <1>1, <2>2, <2>3, MapParts
    <2> QED
      BY <2>1, <2>2, <2>4
  <1>2. CASE a \notin DOMAIN p.nonces
    <2>1. PendingBy(p, a) = {}
      BY <1>2 DEF Exact, PendingBy
    <2>2. Cardinality(PendingBy(p, a)) = 0 /\ Amounts(PendingBy(p, a)) = 0
      BY <1>0, <2>1, FS_EmptySet, AmountsAdd, PendingTyped
    <2>3. /\ getPendingNonce(p, acc, a) = getNonce(acc, a)
          /\ getPendingBalance(p, acc, a) = getBalance(acc, a)
      BY <1>2 DEF Exact, getPendingNonce, getPendingBalance
    <2>4. {tx.nonce : tx \in PendingBy(p, a)} = {} /\ getNonce(acc, a)..getNonce(acc, a)-1 = {}
      BY <1>0, <2>1
    <2>5. {tx.nonce : tx \in PendingBy(p, a)} =
              getNonce(acc, a)..getPendingNonce(p, acc, a)-1
      BY <2>3, <2>4, Zenon
    <2>6. /\ getPendingNonce(p, acc, a) = getNonce(acc, a) + Cardinality(PendingBy(p, a))
          /\ getPendingBalance(p, acc, a) = getBalance(acc, a) - Amounts(PendingBy(p, a))
      BY <1>0, <2>2, <2>3
    <2> QED
      BY <1>0, <2>3, <2>5, <2>6
  <1> QED
    BY <1>1, <1>2

\* addTransaction keeps the caches exact, whether it takes the transaction or
\* not.
LEMMA AddExact ==
    ASSUME NEW acc \in Accounts, NEW p, Exact(p, acc), NEW tx \in Txs
    PROVE  Exact(addTransaction(p, acc, tx), acc)
  <1>1. CASE ~ Admissible(p, acc, tx)
    BY <1>1 DEF addTransaction
  <1>2. CASE Admissible(p, acc, tx)
    <2> DEFINE a == tx.sender
               N == getPendingNonce(p, acc, a)
               B == getPendingBalance(p, acc, a)
               q == addTransaction(p, acc, tx)
    <2>1. /\ q.pending = p.pending \cup {tx}
          /\ q.nonces = Put(p.nonces, a, tx.nonce + 1)
          /\ q.balances = Put(p.balances, a, B - tx.amount)
          /\ q = [pending |-> q.pending, nonces |-> q.nonces, balances |-> q.balances]
      BY <1>2 DEF addTransaction
    <2>2. verifyTransaction(tx) /\ a \in DOMAIN acc /\ tx.nonce = N /\ B >= tx.amount
      BY <1>2 DEF Admissible, accountExists
    <2> HIDE DEF q
    <2>3. /\ p \in Pools /\ a \in Address /\ tx.amount \in Nat /\ tx.nonce \in Nat
          /\ p.nonces \in Maps(Nat) /\ p.balances \in Maps(0..Word-1) /\ Word \in Nat
          /\ p.pending \subseteq Txs /\ IsFiniteSet(p.pending)
      BY TransferAssumption, LedgerAssumption DEF Exact, Pools
    <2>4. /\ N = getNonce(acc, a) + Cardinality(PendingBy(p, a))
          /\ B = getBalance(acc, a) - Amounts(PendingBy(p, a))
          /\ {u.nonce : u \in PendingBy(p, a)} = getNonce(acc, a)..N-1
          /\ N \in Nat /\ B \in 0..Word-1
      BY PendingView
    <2>5. getNonce(acc, a) \in Nat /\ getBalance(acc, a) \in 0..Word-1
      BY Confirmed
    <2> HIDE DEF N, B
    <2>6. tx.nonce + 1 \in Nat /\ B - tx.amount \in 0..Word-1
      BY <2>2, <2>3, <2>4
    <2>7. /\ q.nonces \in Maps(Nat) /\ q.balances \in Maps(0..Word-1)
          /\ DOMAIN q.nonces = DOMAIN p.nonces \cup {a}
          /\ DOMAIN q.balances = DOMAIN p.balances \cup {a}
          /\ q.nonces[a] = N + 1 /\ q.balances[a] = B - tx.amount
          /\ \A b \in DOMAIN p.nonces \ {a} : q.nonces[b] = p.nonces[b]
          /\ \A b \in DOMAIN p.balances \ {a} : q.balances[b] = p.balances[b]
      <3>1. /\ q.nonces \in Maps(Nat)
            /\ DOMAIN q.nonces = DOMAIN p.nonces \cup {a}
            /\ q.nonces[a] = tx.nonce + 1
            /\ \A b \in DOMAIN p.nonces \ {a} : q.nonces[b] = p.nonces[b]
        <4>1. Put(p.nonces, a, tx.nonce + 1) \in Maps(Nat)
          BY <2>3, <2>6, PutMap
        <4> QED
          BY <2>1, <4>1 DEF Put
      <3>2. /\ q.balances \in Maps(0..Word-1)
            /\ DOMAIN q.balances = DOMAIN p.balances \cup {a}
            /\ q.balances[a] = B - tx.amount
            /\ \A b \in DOMAIN p.balances \ {a} : q.balances[b] = p.balances[b]
        <4>1. Put(p.balances, a, B - tx.amount) \in Maps(0..Word-1)
          BY <2>3, <2>6, PutMap
        <4> QED
          BY <2>1, <4>1 DEF Put
      <3> QED
        BY <2>2, <3>1, <3>2
    <2>8. q \in Pools
      <3>1. q.pending \subseteq Txs /\ IsFiniteSet(q.pending)
        BY <2>1, <2>3, FS_AddElement
      <3> QED
        BY <2>1, <2>7, <3>1 DEF Pools
    <2>9. \A u \in PendingBy(p, a) : u.nonce # tx.nonce
      <3>1. \A k \in getNonce(acc, a)..N-1 : k # N
        BY <2>4, <2>5
      <3> QED
        BY <2>2, <2>4, <3>1
    <2>10. NoTies(q.pending)
      BY <2>1, <2>9 DEF NoTies, Exact, PendingBy
    <2>11. \A u \in q.pending : verifyTransaction(u)
      BY <2>1, <2>2 DEF Exact
    <2>12. /\ DOMAIN q.nonces = {u.sender : u \in q.pending}
           /\ DOMAIN q.balances = DOMAIN q.nonces
      <3>1. /\ DOMAIN p.nonces = {u.sender : u \in p.pending}
            /\ DOMAIN p.balances = DOMAIN p.nonces
        BY Zenon DEF Exact
      <3>2. {u.sender : u \in p.pending \cup {tx}} =
                {u.sender : u \in p.pending} \cup {tx.sender}
        BY Zenon
      <3>3. DOMAIN q.balances = DOMAIN q.nonces
        BY <2>7, <3>1, Zenon
      <3> QED
        BY <2>1, <2>7, <3>1, <3>2, <3>3, Zenon
    <2>13. ASSUME NEW b \in DOMAIN q.nonces
           PROVE  /\ b \in DOMAIN acc
                  /\ q.nonces[b] = getNonce(acc, b) + Cardinality(PendingBy(q, b))
                  /\ q.balances[b] = getBalance(acc, b) - Amounts(PendingBy(q, b))
                  /\ {u.nonce : u \in PendingBy(q, b)} = getNonce(acc, b)..q.nonces[b]-1
      <3>1. CASE b = a
        <4>1. PendingBy(q, a) = PendingBy(p, a) \cup {tx} /\ tx \notin PendingBy(p, a)
          BY <2>1, <2>9 DEF PendingBy
        <4>2. /\ IsFiniteSet(PendingBy(p, a)) /\ Cardinality(PendingBy(p, a)) \in Nat
              /\ Amounts(PendingBy(p, a)) \in Nat
              /\ \A u \in PendingBy(p, a) : u.amount \in Nat
          BY <2>3, PendingTyped
        <4>3. Cardinality(PendingBy(q, a)) = Cardinality(PendingBy(p, a)) + 1
          BY <4>1, <4>2, FS_AddElement
        <4>4. Amounts(PendingBy(q, a)) = tx.amount + Amounts(PendingBy(p, a))
          BY <2>3, <4>1, <4>2, AmountsGrow
        <4>5. q.nonces[a] = getNonce(acc, a) + Cardinality(PendingBy(q, a))
          BY <2>4, <2>5, <2>7, <4>2, <4>3
        <4>6. q.balances[a] = getBalance(acc, a) - Amounts(PendingBy(q, a))
          BY <2>3, <2>4, <2>5, <2>7, <4>2, <4>4
        <4>7. {u.nonce : u \in PendingBy(q, a)} = getNonce(acc, a)..q.nonces[a]-1
          <5>1. {u.nonce : u \in PendingBy(q, a)} = {u.nonce : u \in PendingBy(p, a)} \cup {N}
            BY <2>2, <4>1
          <5>2. getNonce(acc, a) <= N
            BY <2>4, <2>5, <4>2
          <5>3. (getNonce(acc, a)..N-1) \cup {N} = getNonce(acc, a)..(N+1)-1
            BY <2>4, <2>5, <5>2
          <5> QED
            BY <2>4, <2>7, <5>1, <5>3
        <4> QED
          BY <2>2, <3>1, <4>5, <4>6, <4>7
      <3>2. CASE b # a
        <4>1. PendingBy(q, b) = PendingBy(p, b)
          BY <2>1, <3>2 DEF PendingBy
        <4>2. /\ b \in DOMAIN p.nonces /\ b \in DOMAIN p.balances
              /\ q.nonces[b] = p.nonces[b] /\ q.balances[b] = p.balances[b]
          BY <2>7, <2>13, <3>2 DEF Exact
        <4> QED
          BY <4>1, <4>2 DEF Exact
      <3> QED
        BY <3>1, <3>2
    <2>14. Exact(q, acc)
      BY <2>8, <2>10, <2>11, <2>12, <2>13 DEF Exact
    <2> QED
      BY <2>14 DEF q
  <1> QED
    BY <1>1, <1>2

\* Nothing is pending in an empty pool.
LEMMA EmptyExact ==
    ASSUME NEW acc
    PROVE  Exact(EmptyMempool, acc)
  <1>1. /\ EmptyMempool.pending = {} /\ EmptyMempool.nonces = << >>
        /\ EmptyMempool.balances = << >> /\ DOMAIN << >> = {}
    BY DEF EmptyMempool
  <1>2. << >> \in Maps(Nat) /\ << >> \in Maps(0..Word-1)
    <2>1. << >> = [a \in DOMAIN << >> |-> << >>[a]] /\ DOMAIN << >> = {}
      OBVIOUS
    <2> QED
      BY <2>1, MapParts
  <1>3. EmptyMempool \in Pools
    BY <1>2, FS_EmptySet DEF Pools, EmptyMempool
  <1> QED
    BY <1>1, <1>3 DEF Exact, NoTies

ExactPools(acc) == {p \in Pools : Exact(p, acc)}

IsRevalidation(run, acc, txs) ==
    /\ run \in [0..Cardinality(txs) -> ExactPools(acc)]
    /\ run[0] = EmptyMempool
    /\ \A k \in 1..Cardinality(txs) :
          run[k] = addTransaction(run[k-1], acc, Sorted(txs)[k])

\* The loop of revalidate, step by step.
LEMMA RevalidateLoop ==
    ASSUME NEW acc \in Accounts, NEW p \in Pools, NoTies(p.pending)
    PROVE  \E run : /\ IsRevalidation(run, acc, p.pending)
                   /\ revalidate(p, acc) = run[Cardinality(p.pending)]
  <1> DEFINE txs == Sorted(p.pending)
             n == Cardinality(p.pending)
             V == ExactPools(acc)
             base == EmptyMempool
             Body(g) == [t \in SUBSET DOMAIN txs |->
                            IF t = {} THEN base
                            ELSE addTransaction(g[t \ {Max(t)}], acc, txs[Max(t)])]
             c == CHOOSE g : g = Body(g)
             step == [i \in 1..n |-> [v \in V |-> addTransaction(v, acc, txs[i])]]
  <1>1. revalidate(p, acc) = c[DOMAIN txs]
    BY Zenon DEF revalidate, FoldLeft, MapThenFoldSet
  <1>2. n \in Nat /\ DOMAIN txs = 1..n /\ \A i \in 1..n : txs[i] \in Txs
    <2>1. p.pending \subseteq Txs /\ IsFiniteSet(p.pending)
      BY DEF Pools
    <2>2. InSortOrder(txs, p.pending)
      BY <2>1, SortedSorts
    <2> HIDE DEF txs
    <2> QED
      BY <2>1, <2>2, FS_CardinalityType DEF InSortOrder
  <1> HIDE DEF n, txs
  <1>3. /\ base \in V /\ step \in [1..n -> [V -> V]]
        /\ \A v \in V, i \in 1..n : addTransaction(v, acc, txs[i]) \in V
    <2>1. base \in V
      BY EmptyExact DEF ExactPools, Exact
    <2>2. \A v \in V, i \in 1..n : addTransaction(v, acc, txs[i]) \in V
      BY <1>2, AddExact DEF ExactPools, Exact
    <2> HIDE DEF V
    <2> QED
      BY <2>1, <2>2
  <1> HIDE DEF base, V
  <1>4. PICK g \in [SUBSET (1..n) -> V] : g = PartialFolds(n, base, step, g)
    <2> HIDE DEF step, Body, c
    <2>1. n \in Nat
      BY <1>2
    <2>2. base \in V
      BY <1>3
    <2>3. step \in [1..n -> [V -> V]]
      BY <1>3
    <2>4. \E g : SolvesFold(n, V, base, step, g)
      BY <2>1, <2>2, <2>3, FoldExists, Zenon
    <2> QED
      BY <2>4 DEF SolvesFold
  <1>5. g = Body(g)
    <2>1. ASSUME NEW t \in SUBSET (1..n), t # {}
          PROVE  step[Max(t)][g[t \ {Max(t)}]] =
                     addTransaction(g[t \ {Max(t)}], acc, txs[Max(t)])
      <3>1. Max(t) \in 1..n
        BY <1>2, <2>1, MaxIn
      <3>2. g[t \ {Max(t)}] \in V
        OBVIOUS
      <3> QED
        BY <3>1, <3>2
    <2> HIDE DEF step
    <2>2. PartialFolds(n, base, step, g) = Body(g)
      BY <1>2, <2>1 DEF PartialFolds
    <2> QED
      BY <1>4, <2>2
  <1> HIDE DEF Body, step
  <1>6. c = Body(c)
    BY <1>5, Zenon
  <1> HIDE DEF c
  <1> DEFINE run == [k \in 0..n |-> c[1..k]]
  <1>7. run[0] = base
    <2>1. 1..0 = {} /\ {} \in SUBSET DOMAIN txs /\ 0 \in 0..n
      BY <1>2
    <2>2. c[{}] = base
      BY <1>6, <2>1 DEF Body
    <2> QED
      BY <2>1, <2>2
  <1>8. ASSUME NEW k \in 1..n
        PROVE  run[k] = addTransaction(run[k-1], acc, txs[k])
    <2>1. /\ 1..k \in SUBSET DOMAIN txs /\ 1..k # {}
          /\ Max(1..k) = k /\ (1..k) \ {k} = 1..(k-1)
      BY <1>2, LastPosition
    <2>2. c[1..k] = addTransaction(c[1..(k-1)], acc, txs[k])
      BY <1>6, <2>1 DEF Body
    <2>3. run[k] = c[1..k] /\ run[k-1] = c[1..(k-1)]
      BY <1>2
    <2> QED
      BY <2>2, <2>3
  <1>9. run \in [0..n -> V]
    <2> DEFINE T == {k \in Nat : k <= n => run[k] \in V}
    <2>1. 0 \in T
      BY <1>3, <1>7
    <2>2. ASSUME NEW k \in Nat, k \in T
          PROVE  k + 1 \in T
      <3> HIDE DEF run
      <3> SUFFICES ASSUME k + 1 <= n PROVE run[k + 1] \in V
        OBVIOUS
      <3>1. k + 1 \in 1..n /\ run[k] \in V /\ (k + 1) - 1 = k
        BY <1>2, <2>2
      <3>2. run[k+1] = addTransaction(run[k], acc, txs[k+1])
        BY <1>8, <3>1
      <3> QED
        BY <1>3, <3>1, <3>2
    <2> HIDE DEF T
    <2>3. Nat \subseteq T
      BY <2>1, <2>2, Induction
    <2>4. \A k \in 0..n : run[k] \in V
      <3> HIDE DEF run
      <3> QED
        BY <1>2, <2>3 DEF T
    <2> QED
      BY <2>4
  <1>10. revalidate(p, acc) = run[n]
    BY <1>1, <1>2
  <1> HIDE DEF run
  <1> QED
    BY <1>7, <1>8, <1>9, <1>10 DEF IsRevalidation, n, base, V, txs

\* After revalidate the caches are exact for the accounts it was given.
LEMMA RevalidateExact ==
    ASSUME NEW acc \in Accounts, NEW p \in Pools, NoTies(p.pending)
    PROVE  Exact(revalidate(p, acc), acc)
  <1>1. PICK run : /\ IsRevalidation(run, acc, p.pending)
                   /\ revalidate(p, acc) = run[Cardinality(p.pending)]
    BY RevalidateLoop
  <1>2. Cardinality(p.pending) \in Nat
    BY FS_CardinalityType DEF Pools
  <1> QED
    BY <1>1, <1>2 DEF IsRevalidation, ExactPools

\* The pool without the transactions of a block.
LEMMA MinedRemoved ==
    ASSUME NEW p \in Pools, NoTies(p.pending), NEW txs
    PROVE  LET q == removeMinedTransactions(p, txs)
           IN  /\ q \in Pools /\ NoTies(q.pending)
               /\ q.pending = {u \in p.pending : \A i \in DOMAIN txs : txs[i].hash # u.hash}
  <1> DEFINE q == removeMinedTransactions(p, txs)
             T == {u \in p.pending : \A i \in DOMAIN txs : txs[i].hash # u.hash}
  <1>1. T \subseteq p.pending /\ p.pending \subseteq Txs /\ IsFiniteSet(T)
    BY FS_Subset DEF Pools
  <1>2. q = [p EXCEPT !.pending = T]
    BY Zenon DEF removeMinedTransactions
  <1> HIDE DEF T, q
  <1>3. T \in {E \in SUBSET Txs : IsFiniteSet(E)}
    BY <1>1
  <1>4. q \in Pools /\ q.pending = T
    BY <1>2, <1>3 DEF Pools
  <1>5. NoTies(T)
    BY <1>1 DEF NoTies
  <1> QED
    BY <1>4, <1>5 DEF T, q

\* What the node mines is from its pool, in order.
LEMMA Mined ==
    ASSUME NEW p \in Pools, NoTies(p.pending), NEW k \in Nat
    PROVE  LET s == getTransactionsForBlock(p, k)
           IN  /\ s \in Seq(Txs) /\ Len(s) <= Cardinality(p.pending)
               /\ \A i \in 1..Len(s) : s[i] = Sorted(p.pending)[i] /\ s[i] \in p.pending
  <1> DEFINE sorted == Sorted(p.pending)
             n == Cardinality(p.pending)
  <1>1. InSortOrder(sorted, p.pending) /\ n \in Nat /\ p.pending \subseteq Txs
    BY SortedSorts, FS_CardinalityType DEF Pools
  <1> HIDE DEF sorted, n
  <1>2. /\ sorted \in Seq(Txs) /\ Len(sorted) = n
        /\ \A i \in 1..n : sorted[i] \in p.pending
    BY <1>1 DEF InSortOrder, n
  <1>3. CASE n > k
    <2>1. /\ SubSeq(sorted, 1, k) \in Seq(Txs) /\ Len(SubSeq(sorted, 1, k)) = k
          /\ \A i \in 1..k : SubSeq(sorted, 1, k)[i] = sorted[i]
      BY <1>1, <1>2, <1>3
    <2>2. getTransactionsForBlock(p, k) = SubSeq(sorted, 1, k)
      BY <1>2, <1>3 DEF getTransactionsForBlock, sorted
    <2> QED
      BY <1>1, <1>2, <1>3, <2>1, <2>2 DEF sorted, n
  <1>4. CASE ~ (n > k)
    <2>1. getTransactionsForBlock(p, k) = sorted
      BY <1>2, <1>4 DEF getTransactionsForBlock, sorted
    <2> QED
      BY <1>1, <1>2, <2>1 DEF sorted, n
  <1> QED
    BY <1>3, <1>4

-----------------------------------------------------------------------------
(***************************************************************************)
(* What the node mines applies                                             *)
(***************************************************************************)

\* The transactions of a among the first i of s.
Spent(s, i, a) == {tx \in {s[j] : j \in 1..i} : tx.sender = a}

\* Half way through a block from the pool: no check has failed, and every
\* sender has used the nonces from its confirmed one on and spent no more than
\* its transactions so far say.
HalfWay(r, s, i, acc) ==
    /\ r.ok
    /\ DOMAIN acc \subseteq DOMAIN r.accounts
    /\ \A a \in Address :
          /\ {tx.nonce : tx \in Spent(s, i, a)} = getNonce(acc, a)..getNonce(r.accounts, a)-1
          /\ getNonce(acc, a) <= getNonce(r.accounts, a)
          /\ getBalance(r.accounts, a) >= getBalance(acc, a) - Amounts(Spent(s, i, a))

\* The next transaction is new and payable.
LEMMA NextIsValid ==
    ASSUME NEW w, w < Word, NEW acc \in Funded(w), NEW p, Exact(p, acc),
           NEW i \in Nat, i + 1 \in 1..Cardinality(p.pending),
           NEW r \in Runs(w), HalfWay(r, Sorted(p.pending), i, acc)
    PROVE  LET tx == Sorted(p.pending)[i+1]
           IN  /\ tx \in p.pending /\ tx \notin Spent(Sorted(p.pending), i, tx.sender)
               /\ validateTransaction(r.accounts, tx)
  <1> DEFINE s == Sorted(p.pending)
             n == Cardinality(p.pending)
             tx == s[i+1]
             a == tx.sender
  <1>0. /\ p \in Pools /\ acc \in Accounts /\ r.accounts \in Accounts
        /\ n \in Nat /\ p.pending \subseteq Txs /\ NoTies(p.pending)
        /\ InSortOrder(s, p.pending)
    BY SortedSorts, FS_CardinalityType DEF Exact, Pools, Funded, Runs
  <1> HIDE DEF s
  <1>1. /\ tx \in p.pending /\ tx \in PendingBy(p, a) /\ a \in Address
        /\ tx.nonce \in Nat /\ tx.amount \in Nat
    <2>1. tx \in p.pending
      BY <1>0 DEF InSortOrder
    <2>2. tx \in Txs
      BY <1>0, <2>1
    <2> QED
      BY <2>1, <2>2, TransferAssumption, LedgerAssumption DEF PendingBy
  <1>2. ASSUME NEW u \in p.pending, SenderThenNonce(u, tx)
        PROVE  \E j \in 1..i : s[j] = u
    <2>1. PICK j \in 1..n : s[j] = u
      BY <1>0 DEF InSortOrder
    <2>2. ~ SenderThenNonce(tx, u) /\ u # tx
      BY <1>0, <1>1, <1>2, TotalOrder
    <2>3. j # i + 1 /\ ~ (i + 1 < j)
      BY <1>0, <2>1, <2>2 DEF InSortOrder
    <2>4. j \in 1..i
      BY <1>0, <2>3
    <2> QED
      BY <2>1, <2>4
  <1>3. tx \notin Spent(s, i, a)
    <2> SUFFICES ASSUME NEW j \in 1..i, s[j] = tx
                 PROVE  FALSE
      BY DEF Spent
    <2>1. j \in 1..n /\ j < i + 1
      BY <1>0
    <2>2. SenderThenNonce(s[j], tx)
      BY <1>0, <2>1 DEF InSortOrder
    <2> QED
      BY <1>0, <1>1, <2>2, TotalOrder
  <1>4. Spent(s, i, a) \subseteq PendingBy(p, a)
    <2>1. \A j \in 1..i : j \in 1..n
      BY <1>0
    <2> QED
      BY <1>0, <2>1 DEF Spent, PendingBy, InSortOrder
  <1> DEFINE m0 == getNonce(acc, a)
             m == getNonce(r.accounts, a)
  <1>5. /\ m0 \in Nat /\ m \in Nat /\ m0 <= m
        /\ {u.nonce : u \in Spent(s, i, a)} = m0..m-1
    BY <1>0, <1>1, Confirmed DEF HalfWay, s
  <1>6. /\ {u.nonce : u \in PendingBy(p, a)} = m0..getPendingNonce(p, acc, a)-1
        /\ getPendingNonce(p, acc, a) \in Nat
    BY <1>0, PendingView
  <1> HIDE DEF m0, m, a, tx
  <1>7. tx.nonce = m
    <2>1. tx.nonce \in m0..getPendingNonce(p, acc, a)-1
      BY <1>1, <1>6
    <2>2. tx.nonce \notin m0..m-1
      <3> SUFFICES ASSUME NEW u \in Spent(s, i, a), u.nonce = tx.nonce
                   PROVE  FALSE
        BY <1>5
      <3>1. u \in p.pending /\ u.sender = tx.sender
        BY <1>4 DEF PendingBy, a
      <3>2. u = tx
        BY <1>0, <1>1, <3>1 DEF NoTies
      <3> QED
        BY <1>3, <3>2
    <2>3. ~ (tx.nonce > m)
      <3> SUFFICES ASSUME tx.nonce > m
                   PROVE  FALSE
        OBVIOUS
      <3>1. m \in m0..getPendingNonce(p, acc, a)-1
        BY <1>1, <1>5, <1>6, <2>1
      <3>2. PICK u \in PendingBy(p, a) : u.nonce = m
        BY <1>6, <3>1
      <3>3. u \in p.pending /\ u.sender = tx.sender
        BY DEF PendingBy, a
      <3>4. SenderThenNonce(u, tx)
        BY <3>2, <3>3, <1>5, <1>1 DEF SenderThenNonce
      <3>5. u \in Spent(s, i, a)
        BY <1>2, <3>3, <3>4 DEF Spent, a
      <3>6. m \in m0..m-1
        BY <1>5, <3>2, <3>5
      <3> QED
        BY <1>5, <3>6
    <2> QED
      BY <1>1, <1>5, <1>6, <2>1, <2>2, <2>3
  <1>8. getBalance(r.accounts, a) >= tx.amount
    <2> DEFINE D == Spent(s, i, a)
    <2>1. /\ IsFiniteSet(PendingBy(p, a)) /\ PendingBy(p, a) \subseteq Txs
          /\ \A u \in PendingBy(p, a) : u.amount \in Nat
      BY <1>0, PendingTyped
    <2>2. IsFiniteSet(D) /\ \A u \in D : u.amount \in Nat
      BY <1>4, <2>1, FS_Subset
    <2>3. Amounts(D \cup {tx}) = tx.amount + Amounts(D) /\ Amounts(D) \in Nat
      BY <1>1, <1>3, <2>2, AmountsGrow, AmountsAdd
    <2>4. Amounts(D \cup {tx}) <= Amounts(PendingBy(p, a))
      BY <1>1, <1>4, <2>1, AmountsMonotone
    <2>5. /\ getPendingBalance(p, acc, a) = getBalance(acc, a) - Amounts(PendingBy(p, a))
          /\ getPendingBalance(p, acc, a) \in 0..Word-1
          /\ Amounts(PendingBy(p, a)) \in Nat
      BY <1>0, PendingView, PendingTyped
    <2>6. getBalance(r.accounts, a) >= getBalance(acc, a) - Amounts(D)
      BY <1>1 DEF HalfWay, s
    <2>7. /\ getBalance(acc, a) \in Int /\ getBalance(r.accounts, a) \in Int /\ Word \in Nat
      BY <1>0, Confirmed, LedgerAssumption
    <2>8. getBalance(acc, a) - Amounts(PendingBy(p, a)) >= 0
      BY <2>5, <2>7
    <2> HIDE DEF D
    <2>9. getBalance(acc, a) - Amounts(D) >= tx.amount
      BY <1>1, <2>3, <2>4, <2>5, <2>7, <2>8
    <2> QED
      BY <1>1, <2>3, <2>6, <2>7, <2>9
  <1>9. a \in DOMAIN r.accounts
    <2>1. a \in DOMAIN p.nonces
      BY <1>1 DEF Exact, a
    <2> QED
      BY <2>1 DEF Exact, HalfWay
  <1>10. validateTransaction(r.accounts, tx)
    BY <1>7, <1>8, <1>9 DEF validateTransaction, accountExists, getNonce, getBalance, m, a
  <1> QED
    BY <1>1, <1>3, <1>10 DEF tx, s, a

\* Before the first transaction.
LEMMA HalfWayStart ==
    ASSUME NEW acc \in Accounts, NEW s
    PROVE  HalfWay([ok |-> TRUE, accounts |-> acc], s, 0, acc)
  <1> DEFINE r == [ok |-> TRUE, accounts |-> acc]
  <1>1. r.ok /\ r.accounts = acc
    OBVIOUS
  <1> HIDE DEF r
  <1>2. ASSUME NEW a \in Address
        PROVE  /\ {tx.nonce : tx \in Spent(s, 0, a)} = getNonce(acc, a)..getNonce(acc, a)-1
               /\ getNonce(acc, a) <= getNonce(acc, a)
               /\ getBalance(acc, a) >= getBalance(acc, a) - Amounts(Spent(s, 0, a))
    <2>1. Spent(s, 0, a) = {}
      BY DEF Spent
    <2>2. getNonce(acc, a) \in Nat /\ getBalance(acc, a) \in 0..Word-1 /\ Word \in Nat
      BY Confirmed, LedgerAssumption
    <2>3. Amounts({}) = 0
      BY FS_EmptySet, AmountsAdd
    <2>4. {tx.nonce : tx \in {}} = {} /\ getNonce(acc, a)..getNonce(acc, a)-1 = {}
      BY <2>2
    <2>5. {tx.nonce : tx \in Spent(s, 0, a)} = getNonce(acc, a)..getNonce(acc, a)-1
      BY <2>1, <2>4, Zenon
    <2>6. /\ getNonce(acc, a) <= getNonce(acc, a)
          /\ getBalance(acc, a) >= getBalance(acc, a) - Amounts(Spent(s, 0, a))
      BY <2>1, <2>2, <2>3
    <2> QED
      BY <2>5, <2>6
  <1>3. HalfWay(r, s, 0, acc)
    BY <1>1, <1>2 DEF HalfWay
  <1> QED
    BY <1>3 DEF r

\* One transaction further.
LEMMA HalfWayStep ==
    ASSUME NEW w, w < Word, NEW acc \in Funded(w), NEW p, Exact(p, acc),
           NEW i \in Nat, i + 1 \in 1..Cardinality(p.pending),
           NEW r \in Runs(w), HalfWay(r, Sorted(p.pending), i, acc)
    PROVE  HalfWay(ReplayStep(r, Sorted(p.pending)[i+1]), Sorted(p.pending), i + 1, acc)
  <1> DEFINE s == Sorted(p.pending)
             n == Cardinality(p.pending)
             tx == s[i+1]
             r2 == ReplayStep(r, tx)
  <1>0. /\ p \in Pools /\ acc \in Accounts /\ r.accounts \in Accounts
        /\ Supply(r.accounts) < Word
        /\ n \in Nat /\ p.pending \subseteq Txs /\ NoTies(p.pending)
        /\ InSortOrder(s, p.pending)
    BY SortedSorts, FS_CardinalityType DEF Exact, Pools, Funded, Runs
  <1>1. /\ tx \in p.pending /\ tx \notin Spent(s, i, tx.sender)
        /\ validateTransaction(r.accounts, tx)
    BY NextIsValid
  <1>2. r.ok
    BY DEF HalfWay
  <1>3. r2.ok /\ r2.accounts = Transfer(r.accounts, tx)
    BY <1>1, <1>2 DEF ReplayStep
  <1> HIDE DEF s, r2
  <1>4. /\ tx \in Txs /\ tx.amount \in Nat /\ tx.nonce \in Nat
        /\ tx.nonce = getNonce(r.accounts, tx.sender)
    BY <1>0, <1>1, TransferAssumption, LedgerAssumption
    DEF validateTransaction, getNonce, accountExists
  <1>5. /\ DOMAIN r2.accounts = DOMAIN r.accounts \cup {tx.recipient}
        /\ \A a : getNonce(r2.accounts, a) =
                     getNonce(r.accounts, a) + (IF a = tx.sender THEN 1 ELSE 0)
        /\ \A a : getBalance(r2.accounts, a) =
                     IF tx.sender = tx.recipient THEN getBalance(r.accounts, a)
                     ELSE IF a = tx.sender THEN getBalance(r.accounts, a) - tx.amount
                     ELSE IF a = tx.recipient THEN getBalance(r.accounts, a) + tx.amount
                     ELSE getBalance(r.accounts, a)
    <2> HIDE DEF tx
    <2>1. PICK was \in Accounts : was = r.accounts
      BY <1>0
    <2>2. Supply(was) < Word /\ validateTransaction(was, tx) /\ tx \in Txs
      BY <1>0, <1>1, <1>4, <2>1
    <2>3. PICK now : now = Transfer(was, tx)
      OBVIOUS
    <2>4. /\ DOMAIN now = DOMAIN was \cup {tx.recipient}
          /\ \A a : getNonce(now, a) = getNonce(was, a) + (IF a = tx.sender THEN 1 ELSE 0)
          /\ \A a : getBalance(now, a) =
                       IF tx.sender = tx.recipient THEN getBalance(was, a)
                       ELSE IF a = tx.sender THEN getBalance(was, a) - tx.amount
                       ELSE IF a = tx.recipient THEN getBalance(was, a) + tx.amount
                       ELSE getBalance(was, a)
      BY <2>2, <2>3, TransferEffect, Zenon
    <2>5. r2.accounts = now
      BY <1>3, <2>1, <2>3
    <2> QED
      BY <2>1, <2>4, <2>5, Zenon
  <1> HIDE DEF tx
  <1>6. ASSUME NEW a \in Address
        PROVE  /\ {t.nonce : t \in Spent(s, i + 1, a)} =
                      getNonce(acc, a)..getNonce(r2.accounts, a)-1
               /\ getNonce(acc, a) <= getNonce(r2.accounts, a)
               /\ getBalance(r2.accounts, a) >=
                      getBalance(acc, a) - Amounts(Spent(s, i + 1, a))
    <2> DEFINE D == Spent(s, i, a)
               E == Spent(s, i + 1, a)
               m0 == getNonce(acc, a)
               m == getNonce(r.accounts, a)
               b0 == getBalance(acc, a)
               b == getBalance(r.accounts, a)
    <2>1. /\ {t.nonce : t \in D} = m0..m-1 /\ m0 <= m /\ b >= b0 - Amounts(D)
      BY DEF HalfWay, s
    <2>2. m0 \in Nat /\ m \in Nat /\ b0 \in Int /\ b \in Int
      BY <1>0, Confirmed, LedgerAssumption
    <2>3. E = IF a = tx.sender THEN D \cup {tx} ELSE D
      <3>1. 1..(i+1) = (1..i) \cup {i+1}
        OBVIOUS
      <3> QED
        BY <3>1 DEF Spent, tx
    <2>4. IsFiniteSet(D) /\ (\A t \in D : t.amount \in Nat) /\ Amounts(D) \in Nat
      <3>1. \A j \in 1..i : j \in 1..n
        BY <1>0
      <3>2. D \subseteq PendingBy(p, a)
        BY <1>0, <3>1 DEF Spent, PendingBy, InSortOrder
      <3>3. IsFiniteSet(D) /\ (\A t \in D : t.amount \in Nat)
        BY <1>0, <3>2, PendingTyped, FS_Subset
      <3> QED
        BY <3>3, AmountsAdd
    <2> HIDE DEF D, E, m0, m, b0, b
    <2>5. CASE a = tx.sender
      <3>1. E = D \cup {tx} /\ tx \notin D
        BY <1>1, <2>3, <2>5 DEF D
      <3>2. Amounts(E) = tx.amount + Amounts(D)
        BY <1>4, <2>4, <3>1, AmountsGrow
      <3>3. getNonce(r2.accounts, a) = m + 1 /\ tx.nonce = m
        BY <1>4, <1>5, <2>5 DEF m
      <3>4. {t.nonce : t \in E} = m0..(m+1)-1
        <4>1. {t.nonce : t \in E} = {t.nonce : t \in D} \cup {tx.nonce}
          BY <3>1
        <4>2. (m0..m-1) \cup {m} = m0..(m+1)-1
          BY <2>1, <2>2
        <4> QED
          BY <2>1, <3>3, <4>1, <4>2
      <3>5. getBalance(r2.accounts, a) >= b - tx.amount /\ getBalance(r2.accounts, a) \in Int
        BY <1>4, <1>5, <2>2, <2>5 DEF b
      <3>6. getBalance(r2.accounts, a) >= b0 - Amounts(E)
        BY <1>4, <2>1, <2>2, <2>4, <3>2, <3>5
      <3> QED
        BY <2>1, <2>2, <3>3, <3>4, <3>6 DEF E, m0, b0
    <2>6. CASE a # tx.sender
      <3>1. E = D /\ getNonce(r2.accounts, a) = m
        BY <1>5, <2>2, <2>3, <2>6 DEF m
      <3>2. getBalance(r2.accounts, a) >= b /\ getBalance(r2.accounts, a) \in Int
        BY <1>4, <1>5, <2>2, <2>6 DEF b
      <3>3. getBalance(r2.accounts, a) >= b0 - Amounts(E)
        BY <2>1, <2>2, <2>4, <3>1, <3>2
      <3> QED
        BY <2>1, <3>1, <3>3 DEF E, m0, b0
    <2> QED
      BY <2>5, <2>6
  <1>7. DOMAIN acc \subseteq DOMAIN r2.accounts
    BY <1>5 DEF HalfWay
  <1>8. HalfWay(r2, s, i + 1, acc)
    BY <1>3, <1>6, <1>7 DEF HalfWay
  <1> QED
    BY <1>8 DEF r2, s, tx

\* A block cut from the pool, wherever the cap falls, goes through.
LEMMA MinedApplies ==
    ASSUME NEW w, w < Word, NEW acc \in Funded(w), NEW p, Exact(p, acc), NEW k \in Nat
    PROVE  BlockApplies(acc, getTransactionsForBlock(p, k))
  <1> DEFINE s == getTransactionsForBlock(p, k)
             sorted == Sorted(p.pending)
             n == Len(s)
  <1>0. p \in Pools /\ NoTies(p.pending) /\ acc \in Accounts
    BY DEF Exact, Funded
  <1>1. /\ s \in Seq(Txs) /\ n <= Cardinality(p.pending) /\ Cardinality(p.pending) \in Nat
        /\ \A i \in 1..n : s[i] = sorted[i]
    BY <1>0, Mined, FS_CardinalityType DEF Pools
  <1> HIDE DEF s
  <1>2. PICK run : IsReplay(run, w, acc, s) /\ Replay(acc, s) = run[n]
    BY <1>1, ReplayLoop
  <1>3. /\ n \in Nat /\ run \in [0..n -> Runs(w)]
        /\ run[0] = [ok |-> TRUE, accounts |-> acc]
        /\ \A i \in 1..n : run[i] = ReplayStep(run[i-1], s[i])
    BY <1>1, <1>2 DEF IsReplay
  <1> HIDE DEF n, sorted
  <1> DEFINE T == {i \in Nat : i <= n => HalfWay(run[i], sorted, i, acc)}
  <1>4. 0 \in T
    BY <1>0, <1>3, HalfWayStart
  <1>5. ASSUME NEW i \in Nat, i \in T
        PROVE  i + 1 \in T
    <2> SUFFICES ASSUME i + 1 <= n PROVE HalfWay(run[i+1], sorted, i + 1, acc)
      OBVIOUS
    <2>1. /\ i + 1 \in 1..n /\ (i + 1) - 1 = i /\ i \in 0..n
          /\ i + 1 \in 1..Cardinality(p.pending) /\ HalfWay(run[i], sorted, i, acc)
      <3>1. HalfWay(run[i], sorted, i, acc)
        BY <1>3, <1>5
      <3>2. n \in Nat /\ Cardinality(p.pending) \in Nat /\ n <= Cardinality(p.pending)
        BY <1>1, <1>3
      <3>3. i + 1 \in 1..n /\ (i + 1) - 1 = i /\ i \in 0..n
        BY <3>2
      <3>4. i + 1 \in 1..Cardinality(p.pending)
        BY <3>2
      <3> QED
        BY <3>1, <3>3, <3>4
    <2>2. run[i+1] = ReplayStep(run[i], sorted[i+1]) /\ run[i] \in Runs(w)
      BY <1>1, <1>3, <2>1
    <2> QED
      BY <2>1, <2>2, HalfWayStep DEF sorted
  <1> HIDE DEF T
  <1>6. n \in T
    BY <1>3, <1>4, <1>5, Induction
  <1>7. run[n].ok
    BY <1>3, <1>6 DEF T, HalfWay
  <1> QED
    BY <1>2, <1>7 DEF BlockApplies, s

=============================================================================
