--------------------------- MODULE MempoolProofs ---------------------------
(***************************************************************************)
(* Money and nonces: proofs about Mempool, for any transactions, blocks    *)
(* and genesis allocations whose sum is a balance.  MempoolInv is the      *)
(* inductive invariant; the lemmas of LedgerProofs say what each operation *)
(* does to it.                                                             *)
(***************************************************************************)
EXTENDS Mempool, LedgerProofs

-----------------------------------------------------------------------------
(***************************************************************************)
(* The transactions that took effect                                       *)
(***************************************************************************)

\* Executed for any chain, one block of it, and the states in between.
ExecutedBy(bs) ==
    FoldLeft(LAMBDA run, txs :
                [accounts |-> applyBlock(run.accounts, txs),
                 done     |-> IF BlockApplies(run.accounts, txs)
                              THEN run.done \o txs ELSE run.done],
             [accounts |-> GenesisState(GenesisAllocations), done |-> << >>],
             bs)

ExecuteBlock(run, txs) ==
    [accounts |-> applyBlock(run.accounts, txs),
     done     |-> IF BlockApplies(run.accounts, txs) THEN run.done \o txs ELSE run.done]

AtGenesis == [accounts |-> GenesisState(GenesisAllocations), done |-> << >>]

Executions == [accounts : Funded(GenesisSupply), done : Seq(Txs)]

IsExecution(run, bs) ==
    /\ run \in [0..Len(bs) -> Executions]
    /\ run[0] = AtGenesis
    /\ \A k \in 1..Len(bs) : run[k] = ExecuteBlock(run[k-1], bs[k])

\* A block keeps supply and types.
LEMMA ExecuteTyped ==
    ASSUME NEW run \in Executions, NEW txs \in Seq(Txs)
    PROVE  ExecuteBlock(run, txs) \in Executions
  <1>1. run.accounts \in Funded(GenesisSupply) /\ run.done \in Seq(Txs)
    BY DEF Executions
  <1>2. applyBlock(run.accounts, txs) \in Funded(GenesisSupply)
    BY <1>1, GenesisAccounts, ApplyFunded
  <1>3. run.done \o txs \in Seq(Txs)
    BY <1>1
  <1>4. (IF BlockApplies(run.accounts, txs) THEN run.done \o txs ELSE run.done) \in Seq(Txs)
    BY <1>1, <1>3, Zenon
  <1> QED
    BY <1>2, <1>4 DEF ExecuteBlock, Executions

\* The replay of a chain, block by block.
LEMMA ExecutionLoop ==
    ASSUME NEW bs \in Seq(Seq(Txs))
    PROVE  \E run : IsExecution(run, bs) /\ ExecutedBy(bs) = run[Len(bs)]
  <1> DEFINE n == Len(bs)
             V == Executions
             base == AtGenesis
             Body(g) == [t \in SUBSET DOMAIN bs |->
                            IF t = {} THEN base
                            ELSE ExecuteBlock(g[t \ {Max(t)}], bs[Max(t)])]
             c == CHOOSE g : g = Body(g)
             step == [i \in 1..n |-> [v \in V |-> ExecuteBlock(v, bs[i])]]
  <1>1. ExecutedBy(bs) = c[DOMAIN bs]
    BY Zenon DEF ExecutedBy, FoldLeft, MapThenFoldSet, ExecuteBlock, AtGenesis
  <1>2. n \in Nat /\ DOMAIN bs = 1..n /\ \A i \in 1..n : bs[i] \in Seq(Txs)
    OBVIOUS
  <1> HIDE DEF n
  <1>3. /\ base \in V /\ step \in [1..n -> [V -> V]]
        /\ \A v \in V, i \in 1..n : ExecuteBlock(v, bs[i]) \in V
    <2>1. base \in V
      <3>1. << >> \in Seq(Txs)
        OBVIOUS
      <3> QED
        BY <3>1, GenesisAccounts DEF AtGenesis, Executions
    <2>2. \A v \in V, i \in 1..n : ExecuteBlock(v, bs[i]) \in V
      BY <1>2, ExecuteTyped
    <2> HIDE DEF V
    <2> QED
      BY <2>1, <2>2
  <1> HIDE DEF base, V
  <1>4. PICK g \in [SUBSET (1..n) -> V] : g = PartialFolds(n, base, step, g)
    <2> HIDE DEF step, Body, c
    <2>1. n \in Nat
      BY <1>2
    <2>2. base \in V
      BY <1>3
    <2>3. step \in [1..n -> [V -> V]]
      BY <1>3
    <2>4. \E g : SolvesFold(n, V, base, step, g)
      BY <2>1, <2>2, <2>3, FoldExists, Zenon
    <2> QED
      BY <2>4 DEF SolvesFold
  <1>5. g = Body(g)
    <2>1. ASSUME NEW t \in SUBSET (1..n), t # {}
          PROVE  step[Max(t)][g[t \ {Max(t)}]] = ExecuteBlock(g[t \ {Max(t)}], bs[Max(t)])
      <3>1. Max(t) \in 1..n
        BY <1>2, <2>1, MaxIn
      <3>2. g[t \ {Max(t)}] \in V
        OBVIOUS
      <3> QED
        BY <3>1, <3>2
    <2> HIDE DEF step
    <2>2. PartialFolds(n, base, step, g) = Body(g)
      BY <1>2, <2>1 DEF PartialFolds
    <2> QED
      BY <1>4, <2>2
  <1> HIDE DEF Body, step
  <1>6. c = Body(c)
    BY <1>5, Zenon
  <1> HIDE DEF c
  <1> DEFINE run == [k \in 0..n |-> c[1..k]]
  <1>7. run[0] = base
    <2>1. 1..0 = {} /\ {} \in SUBSET DOMAIN bs /\ 0 \in 0..n
      BY <1>2
    <2>2. c[{}] = base
      BY <1>6, <2>1 DEF Body
    <2> QED
      BY <2>1, <2>2
  <1>8. ASSUME NEW k \in 1..n
        PROVE  run[k] = ExecuteBlock(run[k-1], bs[k])
    <2>1. /\ 1..k \in SUBSET DOMAIN bs /\ 1..k # {}
          /\ Max(1..k) = k /\ (1..k) \ {k} = 1..(k-1)
      BY <1>2, LastPosition
    <2>2. c[1..k] = ExecuteBlock(c[1..(k-1)], bs[k])
      BY <1>6, <2>1 DEF Body
    <2>3. run[k] = c[1..k] /\ run[k-1] = c[1..(k-1)]
      BY <1>2
    <2> QED
      BY <2>2, <2>3
  <1>9. run \in [0..n -> V]
    <2> DEFINE T == {k \in Nat : k <= n => run[k] \in V}
    <2>1. 0 \in T
      BY <1>3, <1>7
    <2>2. ASSUME NEW k \in Nat, k \in T
          PROVE  k + 1 \in T
      <3> HIDE DEF run
      <3> SUFFICES ASSUME k + 1 <= n PROVE run[k + 1] \in V
        OBVIOUS
      <3>1. k + 1 \in 1..n /\ run[k] \in V /\ (k + 1) - 1 = k
        BY <1>2, <2>2
      <3>2. run[k+1] = ExecuteBlock(run[k], bs[k+1])
        BY <1>8, <3>1
      <3> QED
        BY <1>3, <3>1, <3>2
    <2> HIDE DEF T
    <2>3. Nat \subseteq T
      BY <2>1, <2>2, Induction
    <2>4. \A k \in 0..n : run[k] \in V
      <3> HIDE DEF run
      <3> QED
        BY <1>2, <2>3 DEF T
    <2> QED
      BY <2>4
  <1>10. ExecutedBy(bs) = run[n]
    BY <1>1, <1>2
  <1> HIDE DEF run
  <1> QED
    BY <1>7, <1>8, <1>9, <1>10 DEF IsExecution, n, base, V

\* The empty chain is at genesis.
LEMMA ExecutedNone == ExecutedBy(<< >>) = AtGenesis
  <1>1. << >> \in Seq(Seq(Txs)) /\ Len(<< >>) = 0
    OBVIOUS
  <1>2. PICK run : IsExecution(run, << >>) /\ ExecutedBy(<< >>) = run[Len(<< >>)]
    BY <1>1, ExecutionLoop
  <1> QED
    BY <1>1, <1>2 DEF IsExecution

\* A longer chain is the shorter one with one more block.
LEMMA ExecutedOneMore ==
    ASSUME NEW bs \in Seq(Seq(Txs)), NEW txs \in Seq(Txs)
    PROVE  /\ ExecutedBy(bs) \in Executions
           /\ ExecutedBy(Append(bs, txs)) = ExecuteBlock(ExecutedBy(bs), txs)
  <1> DEFINE n == Len(bs)
             more == Append(bs, txs)
  <1>1. /\ n \in Nat /\ more \in Seq(Seq(Txs)) /\ Len(more) = n + 1
        /\ more[n+1] = txs /\ \A k \in 1..n : more[k] = bs[k]
    OBVIOUS
  <1> HIDE DEF more
  <1>2. PICK run : IsExecution(run, bs) /\ ExecutedBy(bs) = run[n]
    BY ExecutionLoop
  <1>3. PICK run2 : IsExecution(run2, more) /\ ExecutedBy(more) = run2[n + 1]
    BY <1>1, ExecutionLoop
  <1>4. /\ run \in [0..n -> Executions] /\ run[0] = AtGenesis /\ run2[0] = AtGenesis
        /\ \A k \in 1..n : run[k] = ExecuteBlock(run[k-1], bs[k])
        /\ \A k \in 1..(n+1) : run2[k] = ExecuteBlock(run2[k-1], more[k])
    BY <1>1, <1>2, <1>3 DEF IsExecution
  <1> HIDE DEF n
  <1> DEFINE T == {k \in Nat : k <= n => run2[k] = run[k]}
  <1>5. 0 \in T
    BY <1>4
  <1>6. ASSUME NEW k \in Nat, k \in T
        PROVE  k + 1 \in T
    <2> SUFFICES ASSUME k + 1 <= n PROVE run2[k+1] = run[k+1]
      OBVIOUS
    <2>1. /\ k + 1 \in 1..n /\ k + 1 \in 1..(n+1) /\ (k + 1) - 1 = k
          /\ run2[k] = run[k]
      BY <1>1, <1>6
    <2> QED
      BY <1>1, <1>4, <2>1
  <1> HIDE DEF T
  <1>7. n \in T
    BY <1>1, <1>5, <1>6, Induction
  <1>8. run2[n] = run[n] /\ n + 1 \in 1..(n+1) /\ (n + 1) - 1 = n /\ n \in 0..n
    BY <1>1, <1>7 DEF T
  <1>9. run2[n+1] = ExecuteBlock(run[n], txs) /\ run[n] \in Executions
    BY <1>1, <1>4, <1>8
  <1> QED
    BY <1>2, <1>3, <1>9 DEF more

\* The nonces of every sender in done run from 0 to the present one.
InOrder(done, acc) ==
    \A a \in Address :
        LET mine == {i \in DOMAIN done : done[i].sender = a}
        IN  /\ {done[i].nonce : i \in mine} = 0..getNonce(acc, a)-1
            /\ \A i, j \in mine : i < j => done[i].nonce < done[j].nonce

\* Nothing is done at genesis.
LEMMA GenesisInOrder == InOrder(<< >>, GenesisState(GenesisAllocations))
  <1> SUFFICES ASSUME NEW a \in Address
               PROVE  getNonce(GenesisState(GenesisAllocations), a) = 0
    BY DEF InOrder
  <1> QED
    BY DEF getNonce, accountExists, GenesisState

\* A valid transaction takes the next nonce of its sender.
LEMMA OneMoreInOrder ==
    ASSUME NEW acc \in Accounts, Supply(acc) < Word, NEW tx \in Txs,
           validateTransaction(acc, tx),
           NEW m \in Nat, NEW f, DOMAIN f = 1..m, NEW g, DOMAIN g = 1..(m+1),
           \A i \in 1..m : g[i] = f[i], g[m+1] = tx, InOrder(f, acc)
    PROVE  InOrder(g, Transfer(acc, tx))
  <1>1. PICK now : now = Transfer(acc, tx)
    OBVIOUS
  <1>2. \A a : getNonce(now, a) = getNonce(acc, a) + (IF a = tx.sender THEN 1 ELSE 0)
    <2>1. \A a : getNonce(Transfer(acc, tx), a) =
                    getNonce(acc, a) + (IF a = tx.sender THEN 1 ELSE 0)
      BY TransferEffect
    <2> QED
      BY <1>1, <2>1
  <1>3. tx.nonce = getNonce(acc, tx.sender)
    BY DEF validateTransaction, getNonce, accountExists
  <1>4. ASSUME NEW a \in Address
        PROVE  LET mine == {i \in DOMAIN g : g[i].sender = a}
               IN  /\ {g[i].nonce : i \in mine} = 0..getNonce(now, a)-1
                   /\ \A i, j \in mine : i < j => g[i].nonce < g[j].nonce
    <2> DEFINE old == {i \in DOMAIN f : f[i].sender = a}
               mine == {i \in DOMAIN g : g[i].sender = a}
               N == getNonce(acc, a)
    <2>1. /\ {f[i].nonce : i \in old} = 0..N-1 /\ N \in Nat
          /\ \A i, j \in old : i < j => f[i].nonce < f[j].nonce
      BY Confirmed DEF InOrder
    <2>2. 1..(m+1) = (1..m) \cup {m+1} /\ m + 1 \notin 1..m
      OBVIOUS
    <2>3. /\ \A i \in old : i \in 1..m /\ g[i] = f[i]
          /\ mine = IF tx.sender = a THEN old \cup {m+1} ELSE old
      BY <2>2
    <2> HIDE DEF old, mine, N
    <2>4. CASE tx.sender = a
      <3>1. mine = old \cup {m+1} /\ g[m+1].nonce = N /\ getNonce(now, a) = N + 1
        BY <1>2, <1>3, <2>3, <2>4 DEF N
      <3>2. {g[i].nonce : i \in mine} = {f[i].nonce : i \in old} \cup {N}
        BY <2>3, <3>1
      <3>3. (0..N-1) \cup {N} = 0..(N+1)-1
        BY <2>1
      <3>4. {g[i].nonce : i \in mine} = 0..getNonce(now, a)-1
        BY <2>1, <3>1, <3>2, <3>3
      <3>5. \A i \in old : f[i].nonce \in 0..N-1
        BY <2>1
      <3>6. \A i, j \in mine : i < j => g[i].nonce < g[j].nonce
        BY <2>1, <2>3, <3>1, <3>5
      <3> QED
        BY <3>4, <3>6 DEF mine
    <2>5. CASE tx.sender # a
      <3>1. mine = old /\ getNonce(now, a) = N
        BY <1>2, <2>1, <2>3, <2>5 DEF N
      <3>2. {g[i].nonce : i \in mine} = {f[i].nonce : i \in old}
        BY <2>3, <3>1
      <3>3. {g[i].nonce : i \in mine} = 0..getNonce(now, a)-1
        BY <2>1, <3>1, <3>2
      <3>4. \A i, j \in mine : i < j => g[i].nonce < g[j].nonce
        BY <2>1, <2>3, <3>1
      <3> QED
        BY <3>3, <3>4 DEF mine
    <2> QED
      BY <2>4, <2>5
  <1>5. InOrder(g, now)
    BY <1>4 DEF InOrder
  <1> QED
    BY <1>1, <1>5

\* So does a block that applies, with all its transactions.
LEMMA BlockInOrder ==
    ASSUME NEW w, w < Word, NEW acc \in Funded(w), NEW txs \in Seq(Txs),
           BlockApplies(acc, txs), NEW done \in Seq(Txs), InOrder(done, acc)
    PROVE  InOrder(done \o txs, applyBlock(acc, txs))
  <1> DEFINE n == Len(txs)
             m == Len(done)
             all(k) == [i \in 1..(m+k) |-> IF i <= m THEN done[i] ELSE txs[i-m]]
  <1>1. PICK run : IsReplay(run, w, acc, txs) /\ Replay(acc, txs) = run[n]
    BY ReplayLoop
  <1>2. /\ n \in Nat /\ m \in Nat /\ run \in [0..n -> Runs(w)]
        /\ run[0] = [ok |-> TRUE, accounts |-> acc]
        /\ \A k \in 1..n : run[k] = ReplayStep(run[k-1], txs[k])
        /\ \A k \in 1..n : txs[k] \in Txs
    BY <1>1 DEF IsReplay
  <1>3. all(0) = done /\ all(n) = done \o txs
    <2>1. done = [i \in 1..m |-> done[i]] /\ m + 0 = m /\ \A i \in 1..m : i <= m
      OBVIOUS
    <2>2. all(0) = [i \in 1..m |-> done[i]]
      BY <2>1
    <2>3. done \o txs = [i \in 1..(m+n) |-> (done \o txs)[i]]
      <3>0. done \o txs \in Seq(Txs)
        OBVIOUS
      <3>1. done \o txs = [i \in 1..Len(done \o txs) |-> (done \o txs)[i]]
        BY <3>0, ListIsFunction, Zenon
      <3>2. Len(done \o txs) = m + n
        OBVIOUS
      <3> QED
        BY <3>1, <3>2, Zenon
    <2>4. \A i \in 1..(m+n) : (done \o txs)[i] = IF i <= m THEN done[i] ELSE txs[i-m]
      OBVIOUS
    <2>5. all(n) = done \o txs
      BY <2>3, <2>4
    <2> QED
      BY <2>1, <2>2, <2>5
  <1> HIDE DEF n, m
  <1> DEFINE T == {k \in Nat : k <= n /\ run[k].ok => InOrder(all(k), run[k].accounts)}
  <1>4. 0 \in T
    <2> HIDE DEF all
    <2> QED
      BY <1>2, <1>3
  <1>5. ASSUME NEW k \in Nat, k \in T
        PROVE  k + 1 \in T
    <2> SUFFICES ASSUME k + 1 <= n, run[k+1].ok
                 PROVE  InOrder(all(k+1), run[k+1].accounts)
      OBVIOUS
    <2>1. k + 1 \in 1..n /\ (k + 1) - 1 = k /\ k \in 0..n /\ k <= n
      BY <1>2
    <2>2. /\ run[k+1] = ReplayStep(run[k], txs[k+1]) /\ txs[k+1] \in Txs
          /\ run[k] \in Runs(w)
      BY <1>2, <2>1
    <2>3. run[k].ok /\ validateTransaction(run[k].accounts, txs[k+1])
      <3>1. SUFFICES ASSUME ~ (run[k].ok /\ validateTransaction(run[k].accounts, txs[k+1]))
                     PROVE  FALSE
        OBVIOUS
      <3>2. run[k+1] = [run[k] EXCEPT !.ok = FALSE]
        BY <2>2, <3>1, Zenon DEF ReplayStep
      <3>3. [run[k] EXCEPT !.ok = FALSE].ok = FALSE
        BY <2>2 DEF Runs
      <3> QED
        BY <3>2, <3>3
    <2>4. run[k+1].accounts = Transfer(run[k].accounts, txs[k+1])
      BY <2>2, <2>3 DEF ReplayStep
    <2>5. run[k].accounts \in Accounts /\ Supply(run[k].accounts) < Word
      BY <2>2 DEF Runs, Funded
    <2>6. InOrder(all(k), run[k].accounts)
      BY <1>5, <2>1, <2>3
    <2>7. /\ DOMAIN all(k) = 1..(m+k) /\ DOMAIN all(k+1) = 1..((m+k)+1) /\ m + k \in Nat
          /\ \A i \in 1..(m+k) : all(k+1)[i] = all(k)[i]
          /\ all(k+1)[(m+k)+1] = txs[k+1]
      BY <1>2
    <2> HIDE DEF all
    <2>8. PICK was : was = run[k].accounts
      OBVIOUS
    <2>9. InOrder(all(k+1), Transfer(was, txs[k+1]))
      BY <2>2, <2>3, <2>5, <2>6, <2>7, <2>8, OneMoreInOrder
    <2> QED
      BY <2>4, <2>8, <2>9
  <1> HIDE DEF T
  <1>6. n \in T
    BY <1>2, <1>4, <1>5, Induction
  <1>7. run[n].ok /\ applyBlock(acc, txs) = run[n].accounts
    BY <1>1 DEF BlockApplies, applyBlock
  <1> HIDE DEF all
  <1>8. n <= n
    BY <1>2
  <1>9. InOrder(all(n), run[n].accounts)
    BY <1>6, <1>7, <1>8, Zenon DEF T
  <1> QED
    BY <1>3, <1>7, <1>9

-----------------------------------------------------------------------------
(***************************************************************************)
(* What a block evicts                                                     *)
(***************************************************************************)

\* The pending transactions of tx's sender from the confirmed nonce up to tx.
UpTo(P, acc, tx) ==
    {u \in P : /\ u.sender = tx.sender
               /\ getNonce(acc, u.sender) <= u.nonce
               /\ u.nonce <= tx.nonce}

\* What it takes to be serviceable.
LEMMA ServiceableIff ==
    ASSUME NEW P, NEW acc, NEW tx
    PROVE  tx \in Serviceable(P, acc) <=>
              /\ tx \in P /\ tx.sender \in DOMAIN acc
              /\ {u.nonce : u \in UpTo(P, acc, tx)} = getNonce(acc, tx.sender)..tx.nonce
              /\ tx.nonce >= getNonce(acc, tx.sender)
              /\ Amounts(UpTo(P, acc, tx)) <= getBalance(acc, tx.sender)
  BY Zenon DEF Serviceable, UpTo, Amounts, accountExists

\* With a transaction, its predecessors are serviceable.
LEMMA PredecessorsServiceable ==
    ASSUME NEW acc \in Accounts, NEW P \in SUBSET Txs, IsFiniteSet(P),
           NEW tx \in Serviceable(P, acc), NEW u \in UpTo(P, acc, tx)
    PROVE  u \in Serviceable(P, acc)
  <1> DEFINE a == tx.sender
             N == getNonce(acc, a)
             U == UpTo(P, acc, tx)
             W == UpTo(P, acc, u)
  <1>1. /\ {v.nonce : v \in U} = N..tx.nonce /\ Amounts(U) <= getBalance(acc, a)
        /\ a \in DOMAIN acc
    BY ServiceableIff
  <1>2. /\ u \in P /\ u.sender = a /\ N <= u.nonce /\ u.nonce <= tx.nonce
    BY DEF UpTo
  <1>3. /\ \A v \in P : v.nonce \in Nat /\ v.amount \in Nat
        /\ N \in Nat /\ getBalance(acc, a) \in Int /\ tx.nonce \in Nat
    BY ServiceableIff, Confirmed, TransferAssumption, LedgerAssumption
  <1>4. U \subseteq P /\ W = {v \in U : v.nonce <= u.nonce}
    <2>1. \A v \in P : v.nonce <= u.nonce => v.nonce <= tx.nonce
      BY <1>2, <1>3
    <2> QED
      BY <1>2, <2>1 DEF UpTo
  <1> HIDE DEF U, W, N, a
  <1>5. {v.nonce : v \in W} = N..u.nonce
    <2>1. ASSUME NEW k \in N..u.nonce
          PROVE  \E v \in W : v.nonce = k
      <3>1. k \in N..tx.nonce
        BY <1>2, <1>3
      <3>2. PICK v \in U : v.nonce = k
        BY <1>1, <3>1
      <3> QED
        BY <1>4, <3>2
    <2>2. ASSUME NEW v \in W
          PROVE  v.nonce \in N..u.nonce
      <3>1. v \in U /\ v.nonce <= u.nonce
        BY <1>4
      <3>2. v.nonce \in N..tx.nonce
        BY <1>1, <3>1
      <3> QED
        BY <1>2, <1>3, <3>1, <3>2
    <2> QED
      BY <2>1, <2>2
  <1>6. Amounts(W) <= Amounts(U) /\ Amounts(W) \in Nat /\ Amounts(U) \in Nat
    <2>1. IsFiniteSet(U) /\ IsFiniteSet(W) /\ W \subseteq U
          /\ (\A v \in U : v.amount \in Nat) /\ (\A v \in W : v.amount \in Nat)
      BY <1>3, <1>4, FS_Subset
    <2> QED
      BY <2>1, AmountsMonotone, AmountsAdd
  <1>7. Amounts(W) <= getBalance(acc, a)
    BY <1>1, <1>3, <1>6
  <1> QED
    BY <1>1, <1>2, <1>3, <1>5, <1>7, ServiceableIff DEF W, N

\* Among the saved transactions, those offered so far that are serviceable.
KeptSoFar(P, acc, k) == {Sorted(P)[j] : j \in 1..k} \cap Serviceable(P, acc)

\* The next one is taken exactly when it is serviceable.
LEMMA TakenIffServiceable ==
    ASSUME NEW acc \in Accounts, NEW P \in SUBSET Txs, IsFiniteSet(P), NoTies(P),
           \A u \in P : verifyTransaction(u),
           NEW k \in Nat, k + 1 \in 1..Cardinality(P),
           NEW p, Exact(p, acc), p.pending = KeptSoFar(P, acc, k)
    PROVE  Admissible(p, acc, Sorted(P)[k+1]) <=> Sorted(P)[k+1] \in Serviceable(P, acc)
  <1> DEFINE s == Sorted(P)
             n == Cardinality(P)
             S == Serviceable(P, acc)
             tx == s[k+1]
             a == tx.sender
             N == getNonce(acc, a)
             M == getPendingNonce(p, acc, a)
             B == getPendingBalance(p, acc, a)
             mine == PendingBy(p, a)
             U == UpTo(P, acc, tx)
  <1>0. n \in Nat /\ InSortOrder(s, P) /\ p \in Pools
    BY FS_CardinalityType, SortedSorts DEF Exact
  <1> HIDE DEF s, S
  <1>1. /\ tx \in P /\ tx \in Txs /\ a \in Address /\ verifyTransaction(tx)
        /\ \A u \in P : u.nonce \in Nat /\ u.amount \in Nat /\ u.sender \in Nat
    <2>1. tx \in P
      BY <1>0 DEF InSortOrder
    <2>2. \A u \in P : u.nonce \in Nat /\ u.amount \in Nat /\ u.sender \in Nat
      <3>1. \A u \in Txs : u.nonce \in Nat /\ u.amount \in Nat /\ u.sender \in Nat
        BY TransferTyped, Zenon
      <3> QED
        BY <3>1
    <2>3. tx \in Txs /\ verifyTransaction(tx)
      BY <2>1
    <2>4. a \in Address
      BY <2>3, TransferAssumption
    <2> QED
      BY <2>1, <2>2, <2>3, <2>4
  <1>2. /\ M = N + Cardinality(mine) /\ B = getBalance(acc, a) - Amounts(mine)
        /\ {u.nonce : u \in mine} = N..M-1 /\ M \in Nat /\ B \in Int
        /\ N \in Nat /\ getBalance(acc, a) \in Int /\ Cardinality(mine) \in Nat
        /\ IsFiniteSet(mine) /\ Amounts(mine) \in Nat
    BY <1>0, PendingView, PendingTyped, Confirmed, LedgerAssumption
  <1>3. ASSUME NEW u \in P
        PROVE  SenderThenNonce(u, tx) <=> \E j \in 1..k : s[j] = u
    <2>1. ASSUME SenderThenNonce(u, tx)
          PROVE  \E j \in 1..k : s[j] = u
      <3>1. PICK j \in 1..n : s[j] = u
        BY <1>0 DEF InSortOrder
      <3>2. ~ SenderThenNonce(tx, u) /\ u # tx
        BY <1>1, <2>1, TotalOrder
      <3>3. j # k + 1 /\ ~ (k + 1 < j)
        BY <1>0, <3>1, <3>2 DEF InSortOrder
      <3>4. j \in 1..k
        BY <1>0, <3>3
      <3> QED
        BY <3>1, <3>4
    <2>2. ASSUME NEW j \in 1..k, s[j] = u
          PROVE  SenderThenNonce(u, tx)
      <3>1. j \in 1..n /\ j < k + 1
        BY <1>0
      <3> QED
        BY <1>0, <2>2, <3>1 DEF InSortOrder
    <2> QED
      BY <2>1, <2>2
  <1>4. /\ p.pending = {u \in P : SenderThenNonce(u, tx) /\ u \in S}
        /\ tx \notin p.pending
    <2>1. S \subseteq P
      BY DEF Serviceable, S
    <2>2. p.pending = {s[j] : j \in 1..k} \cap S
      BY DEF KeptSoFar, s, S
    <2>3. ~ SenderThenNonce(tx, tx)
      BY <1>1, TotalOrder
    <2> QED
      BY <1>3, <2>1, <2>2, <2>3
  <1> HIDE DEF tx, a
  <1>5. mine = {u \in P : u.sender = a /\ u.nonce < tx.nonce /\ u \in S}
    BY <1>1, <1>4 DEF PendingBy, SenderThenNonce, a
  <1>6. ASSUME NEW u \in mine
        PROVE  u \in U /\ u # tx
    <2>1. u \in P /\ u.sender = a /\ u.nonce < tx.nonce /\ u \in S
      BY <1>5
    <2>2. u.nonce >= getNonce(acc, u.sender)
      BY <2>1, ServiceableIff DEF S
    <2> QED
      BY <1>1, <1>2, <2>1, <2>2 DEF UpTo, a
  <1> HIDE DEF N, M, B, mine
  <1>7. ASSUME tx \in S
        PROVE  Admissible(p, acc, tx)
    <2>1. /\ a \in DOMAIN acc /\ {u.nonce : u \in U} = N..tx.nonce /\ tx.nonce >= N
          /\ Amounts(U) <= getBalance(acc, a)
      BY <1>7, ServiceableIff DEF S, N, a
    <2>2. U = mine \cup {tx} /\ tx \notin mine
      <3>1. ASSUME NEW u \in U, u # tx
            PROVE  u \in mine
        <4>1. u \in P /\ u.sender = a /\ u.nonce <= tx.nonce
          BY DEF UpTo, a
        <4>2. u.nonce # tx.nonce
          BY <1>1, <3>1, <4>1 DEF NoTies, a
        <4>3. u \in S
          BY <1>7, PredecessorsServiceable DEF S
        <4> QED
          BY <1>1, <1>5, <4>1, <4>2, <4>3
      <3>2. tx \in U
        BY <1>1, <2>1 DEF UpTo, N, a
      <3> QED
        BY <1>6, <3>1, <3>2
    <2> HIDE DEF U
    <2>3. M = tx.nonce
      <3>1. {u.nonce : u \in mine} = N..(tx.nonce - 1)
        <4>1. ASSUME NEW i \in N..(tx.nonce - 1)
              PROVE  \E u \in mine : u.nonce = i
          <5>1. i \in N..tx.nonce /\ i # tx.nonce
            BY <1>1, <1>2
          <5>2. PICK u \in U : u.nonce = i
            BY <2>1, <5>1
          <5> QED
            BY <2>2, <5>1, <5>2
        <4>2. ASSUME NEW u \in mine
              PROVE  u.nonce \in N..(tx.nonce - 1)
          <5>1. u.nonce \in N..tx.nonce
            BY <2>1, <2>2
          <5>2. u.nonce < tx.nonce
            BY <1>5
          <5> QED
            BY <1>1, <1>2, <5>1, <5>2
        <4> QED
          BY <4>1, <4>2
      <3>2. N..(tx.nonce - 1) = N..M-1 /\ M >= N /\ tx.nonce \in Nat
        <4>1. N..(tx.nonce - 1) = N..M-1
          BY <1>2, <3>1, Zenon
        <4>2. M >= N /\ tx.nonce \in Nat
          BY <1>1, <1>2
        <4> QED
          BY <4>1, <4>2
      <3>3. ~ (M < tx.nonce)
        <4> SUFFICES ASSUME M < tx.nonce PROVE FALSE
          OBVIOUS
        <4>1. M \in N..(tx.nonce - 1) /\ M \notin N..M-1
          BY <1>2, <3>2
        <4> QED
          BY <3>2, <4>1
      <3>4. ~ (tx.nonce < M)
        <4> SUFFICES ASSUME tx.nonce < M PROVE FALSE
          OBVIOUS
        <4>1. tx.nonce \in N..M-1 /\ tx.nonce \notin N..(tx.nonce - 1)
          BY <1>2, <2>1, <3>2
        <4> QED
          BY <3>2, <4>1
      <3> QED
        BY <1>2, <3>2, <3>3, <3>4
    <2>4. B >= tx.amount
      <3>1. \A u \in mine : u.amount \in Nat
        BY <1>1, <1>5
      <3>2. Amounts(U) = tx.amount + Amounts(mine) /\ tx.amount \in Nat
        BY <1>1, <1>2, <2>2, <3>1, AmountsGrow
      <3> QED
        BY <1>2, <2>1, <3>2
    <2>5. \A u \in p.pending : u.hash # tx.hash
      BY <1>1, <1>4, HashIdentifies
    <2> QED
      BY <1>1, <2>1, <2>3, <2>4, <2>5 DEF Admissible, accountExists, M, B, a
  <1>8. ASSUME Admissible(p, acc, tx)
        PROVE  tx \in S
    <2>1. a \in DOMAIN acc /\ tx.nonce = M /\ B >= tx.amount
      BY <1>8 DEF Admissible, accountExists, M, B, a
    <2>2. U = mine \cup {tx} /\ tx \notin mine
      <3>1. ASSUME NEW u \in U, u # tx
            PROVE  u \in mine
        <4>1. u \in P /\ u.sender = a /\ N <= u.nonce /\ u.nonce <= tx.nonce
          BY DEF UpTo, N, a
        <4>2. u.nonce # tx.nonce
          BY <1>1, <3>1, <4>1 DEF NoTies, a
        <4>3. u.nonce \in N..M-1
          BY <1>1, <1>2, <2>1, <4>1, <4>2
        <4>4. PICK v \in mine : v.nonce = u.nonce
          BY <1>2, <4>3
        <4>5. v \in P /\ v.sender = a
          BY <1>5
        <4>6. v = u
          BY <4>1, <4>4, <4>5 DEF NoTies
        <4> QED
          BY <4>6
      <3>2. tx \in U
        BY <1>1, <1>2, <2>1 DEF UpTo, N, a
      <3> QED
        BY <1>6, <3>1, <3>2
    <2> HIDE DEF U
    <2>3. {u.nonce : u \in U} = N..tx.nonce /\ tx.nonce >= N
      <3>1. {u.nonce : u \in U} = {u.nonce : u \in mine} \cup {tx.nonce}
        BY <2>2
      <3>2. (N..M-1) \cup {M} = N..M /\ M >= N
        BY <1>2
      <3> QED
        BY <1>2, <2>1, <3>1, <3>2
    <2>4. Amounts(U) <= getBalance(acc, a)
      <3>1. \A u \in mine : u.amount \in Nat
        BY <1>1, <1>5
      <3>2. Amounts(U) = tx.amount + Amounts(mine) /\ tx.amount \in Nat
        BY <1>1, <1>2, <2>2, <3>1, AmountsGrow
      <3> QED
        BY <1>2, <2>1, <3>2
    <2> QED
      BY <1>1, <2>1, <2>3, <2>4, ServiceableIff DEF U, S, N, a
  <1> QED
    BY <1>7, <1>8 DEF tx, s, S

\* revalidate keeps the serviceable transactions and no others.
LEMMA RevalidateKeeps ==
    ASSUME NEW acc \in Accounts, NEW p \in Pools, NoTies(p.pending),
           \A u \in p.pending : verifyTransaction(u)
    PROVE  revalidate(p, acc).pending = Serviceable(p.pending, acc)
  <1> DEFINE P == p.pending
             n == Cardinality(P)
             S == Serviceable(P, acc)
  <1>1. P \in SUBSET Txs /\ IsFiniteSet(P) /\ n \in Nat
    BY FS_CardinalityType DEF Pools
  <1>2. PICK run : IsRevalidation(run, acc, P) /\ revalidate(p, acc) = run[n]
    BY RevalidateLoop
  <1>3. /\ run[0] = EmptyMempool
        /\ \A k \in 0..n : Exact(run[k], acc)
        /\ \A k \in 1..n : run[k] = addTransaction(run[k-1], acc, Sorted(P)[k])
    BY <1>1, <1>2 DEF IsRevalidation, ExactPools
  <1>4. InSortOrder(Sorted(P), P)
    BY <1>1, SortedSorts
  <1> HIDE DEF P, n, S
  <1> DEFINE T == {k \in Nat : k <= n => run[k].pending = KeptSoFar(P, acc, k)}
  <1>5. 0 \in T
    BY <1>3 DEF EmptyMempool, KeptSoFar
  <1>6. ASSUME NEW k \in Nat, k \in T
        PROVE  k + 1 \in T
    <2> SUFFICES ASSUME k + 1 <= n
                 PROVE  run[k+1].pending = KeptSoFar(P, acc, k + 1)
      OBVIOUS
    <2>1. /\ k + 1 \in 1..n /\ (k + 1) - 1 = k /\ k \in 0..n
          /\ run[k].pending = KeptSoFar(P, acc, k)
      BY <1>1, <1>6
    <2> DEFINE tx == Sorted(P)[k+1]
    <2>2. run[k+1] = addTransaction(run[k], acc, tx) /\ Exact(run[k], acc)
      BY <1>3, <2>1
    <2>3. Admissible(run[k], acc, tx) <=> tx \in S
      BY <1>1, <2>1, <2>2, TakenIffServiceable DEF P, S, n
    <2>4. {Sorted(P)[j] : j \in 1..(k+1)} = {Sorted(P)[j] : j \in 1..k} \cup {tx}
      <3>1. 1..(k+1) = (1..k) \cup {k+1}
        OBVIOUS
      <3> QED
        BY <3>1
    <2>5. KeptSoFar(P, acc, k + 1) =
              KeptSoFar(P, acc, k) \cup (IF tx \in S THEN {tx} ELSE {})
      BY <2>4 DEF KeptSoFar, S
    <2> HIDE DEF tx
    <2>6. CASE tx \in S
      <3>1. run[k+1].pending = run[k].pending \cup {tx}
        BY <2>2, <2>3, <2>6 DEF addTransaction
      <3> QED
        BY <2>1, <2>5, <2>6, <3>1
    <2>7. CASE tx \notin S
      <3>1. run[k+1] = run[k]
        BY <2>2, <2>3, <2>7 DEF addTransaction
      <3> QED
        BY <2>1, <2>5, <2>7, <3>1
    <2> QED
      BY <2>6, <2>7
  <1> HIDE DEF T
  <1>7. n \in T
    BY <1>1, <1>5, <1>6, Induction
  <1>8. run[n].pending = KeptSoFar(P, acc, n)
    BY <1>1, <1>7 DEF T
  <1>9. KeptSoFar(P, acc, n) = S
    <2>1. S \subseteq P
      BY DEF S, Serviceable
    <2>2. P \subseteq {Sorted(P)[j] : j \in 1..n}
      BY <1>4 DEF InSortOrder, n
    <2> QED
      BY <2>1, <2>2 DEF KeptSoFar, S
  <1> QED
    BY <1>2, <1>8, <1>9 DEF S, P

\* removeMinedTransactions takes exactly the block's transactions from the pool.
LEMMA MinedByHash ==
    ASSUME NEW P \in SUBSET Txs, \A u \in P : verifyTransaction(u),
           NEW txs \in Seq(Txs), \A i \in DOMAIN txs : verifyTransaction(txs[i])
    PROVE  {u \in P : \A i \in DOMAIN txs : txs[i].hash # u.hash} = P \ ToSet(txs)
  <1>1. \A i \in DOMAIN txs : txs[i] \in Txs
    OBVIOUS
  <1>2. ToSet(txs) = {txs[i] : i \in DOMAIN txs}
    BY DEF ToSet
  <1>3. \A u \in P : \A i \in DOMAIN txs : txs[i].hash = u.hash <=> txs[i] = u
    BY <1>1, HashIdentifies
  <1> QED
    BY <1>2, <1>3

-----------------------------------------------------------------------------
(***************************************************************************)
(* The state machine                                                       *)
(***************************************************************************)

MempoolInv ==
    /\ accounts \in Funded(GenesisSupply)
    /\ Exact(pool, accounts)
    /\ blocks \in Seq(Seq(Txs))
    /\ ExecutedBy(blocks).accounts = accounts
    /\ InOrder(ExecutedBy(blocks).done, accounts)

\* What every accepted block does to the invariant.
LEMMA BlockStep ==
    ASSUME MempoolInv, NEW txs \in Seq(Txs), BlockAccepted(txs)
    PROVE  MempoolInv'
  <1>0. /\ accounts \in Funded(GenesisSupply) /\ GenesisSupply < Word
        /\ Exact(pool, accounts) /\ blocks \in Seq(Seq(Txs))
    BY GenesisAccounts DEF MempoolInv
  <1>1. /\ blocks' = Append(blocks, txs) /\ accounts' = applyBlock(accounts, txs)
        /\ pool' = revalidate(removeMinedTransactions(pool, txs), accounts')
    BY DEF BlockAccepted
  <1>2. accounts' \in Funded(GenesisSupply)
    BY <1>0, <1>1, ApplyFunded
  <1>3. Exact(pool', accounts')
    <2>1. pool \in Pools /\ NoTies(pool.pending)
      BY <1>0 DEF Exact
    <2>2. PICK q : q = removeMinedTransactions(pool, txs)
      OBVIOUS
    <2>3. q \in Pools /\ NoTies(q.pending)
      BY <2>1, <2>2, MinedRemoved
    <2>4. PICK acc \in Accounts : acc = accounts'
      BY <1>2 DEF Funded
    <2>5. Exact(revalidate(q, acc), acc)
      BY <2>3, RevalidateExact
    <2> QED
      BY <1>1, <2>2, <2>4, <2>5
  <1>4. blocks' \in Seq(Seq(Txs))
    BY <1>0, <1>1
  <1>5. /\ ExecutedBy(blocks').accounts = accounts'
        /\ InOrder(ExecutedBy(blocks').done, accounts')
    <2>1. PICK e : e = ExecutedBy(blocks)
      OBVIOUS
    <2>2. e \in Executions /\ ExecutedBy(blocks') = ExecuteBlock(e, txs)
      BY <1>0, <1>1, <2>1, ExecutedOneMore
    <2>3. e.accounts = accounts /\ InOrder(e.done, accounts) /\ e.done \in Seq(Txs)
      BY <2>1, <2>2 DEF MempoolInv, Executions
    <2>4. PICK new : new = ExecutedBy(blocks')
      OBVIOUS
    <2>5. /\ new.accounts = applyBlock(accounts, txs)
          /\ new.done = IF BlockApplies(accounts, txs) THEN e.done \o txs ELSE e.done
      BY <2>2, <2>3, <2>4 DEF ExecuteBlock
    <2>6. CASE BlockApplies(accounts, txs)
      <3>1. InOrder(e.done \o txs, applyBlock(accounts, txs))
        BY <1>0, <2>3, <2>6, BlockInOrder
      <3> QED
        BY <1>1, <2>4, <2>5, <2>6, <3>1
    <2>7. CASE ~ BlockApplies(accounts, txs)
      BY <1>1, <2>3, <2>4, <2>5, <2>7 DEF applyBlock
    <2> QED
      BY <2>6, <2>7
  <1> QED
    BY <1>2, <1>3, <1>4, <1>5 DEF MempoolInv

\* What an accepted block of verified transactions evicts.
LEMMA BlockEvicts ==
    ASSUME MempoolInv, NEW txs \in Seq(Txs), BlockAccepted(txs),
           \A i \in DOMAIN txs : verifyTransaction(txs[i])
    PROVE  pool'.pending =
              Serviceable(pool.pending \ ToSet(Last(blocks')), accounts')
  <1>0. /\ accounts \in Funded(GenesisSupply) /\ GenesisSupply < Word
        /\ blocks \in Seq(Seq(Txs)) /\ pool \in Pools /\ NoTies(pool.pending)
        /\ pool.pending \in SUBSET Txs /\ \A u \in pool.pending : verifyTransaction(u)
    BY GenesisAccounts DEF MempoolInv, Exact, Pools
  <1>1. /\ blocks' = Append(blocks, txs) /\ accounts' = applyBlock(accounts, txs)
        /\ pool' = revalidate(removeMinedTransactions(pool, txs), accounts')
    BY DEF BlockAccepted
  <1>2. Last(blocks') = txs
    BY <1>0, <1>1 DEF Last
  <1>3. PICK acc \in Accounts : acc = accounts'
    BY <1>0, <1>1, ApplyFunded DEF Funded
  <1>4. PICK q : q = removeMinedTransactions(pool, txs)
    OBVIOUS
  <1>5. /\ q \in Pools /\ NoTies(q.pending)
        /\ q.pending = {u \in pool.pending : \A i \in DOMAIN txs : txs[i].hash # u.hash}
    BY <1>0, <1>4, MinedRemoved
  <1>6. q.pending = pool.pending \ ToSet(txs)
    BY <1>0, <1>5, MinedByHash
  <1>7. revalidate(q, acc).pending = Serviceable(q.pending, acc)
    <2>1. \A u \in q.pending : verifyTransaction(u)
      BY <1>0, <1>6
    <2> QED
      BY <1>5, <2>1, RevalidateKeeps
  <1> QED
    BY <1>1, <1>2, <1>3, <1>4, <1>6, <1>7

\* The blocks of other authorities are lists of transactions.
LEMMA PeerBlockTyped ==
    ASSUME NEW txs \in PeerBlocks
    PROVE  txs \in Seq(Txs)
  BY MempoolAssumption DEF PeerBlocks, SeqOf

\* The invariant holds in every reachable state.
LEMMA MempoolAlways == Spec => []MempoolInv
  <1>1. Init => MempoolInv
    <2> SUFFICES ASSUME Init PROVE MempoolInv
      OBVIOUS
    <2>1. /\ accounts = GenesisState(GenesisAllocations) /\ pool = EmptyMempool
          /\ blocks = << >>
      BY DEF Init
    <2>2. ExecutedBy(blocks) = AtGenesis
      BY <2>1, ExecutedNone
    <2>3. /\ ExecutedBy(blocks).accounts = accounts
          /\ InOrder(ExecutedBy(blocks).done, accounts)
      BY <2>1, <2>2, GenesisInOrder DEF AtGenesis
    <2> QED
      BY <2>1, <2>3, GenesisAccounts, EmptyExact DEF MempoolInv
  <1>2. ASSUME MempoolInv, [Next]_vars
        PROVE  MempoolInv'
    <2>0. /\ accounts \in Accounts /\ Exact(pool, accounts) /\ blocks \in Seq(Seq(Txs))
          /\ pool \in Pools /\ NoTies(pool.pending)
      BY <1>2 DEF MempoolInv, Funded, Exact
    <2>1. CASE UNCHANGED vars
      BY <1>2, <2>1 DEF MempoolInv, vars
    <2>2. ASSUME NEW tx \in Txs, Submit(tx)
          PROVE  MempoolInv'
      <3>1. /\ pool' = addTransaction(pool, accounts, tx)
            /\ accounts' = accounts /\ blocks' = blocks
        BY <2>2 DEF Submit
      <3>2. Exact(addTransaction(pool, accounts, tx), accounts)
        BY <2>0, AddExact
      <3> QED
        BY <1>2, <3>1, <3>2 DEF MempoolInv
    <2>3. CASE Produce
      <3>1. getTransactionsForBlock(pool, MaxTxsPerBlock) \in Seq(Txs)
        BY <2>0, Mined, MempoolAssumption
      <3> QED
        BY <1>2, <2>3, <3>1, BlockStep DEF Produce
    <2>4. ASSUME NEW txs \in PeerBlocks, AcceptPeerBlock(txs)
          PROVE  MempoolInv'
      BY <1>2, <2>4, PeerBlockTyped, BlockStep DEF AcceptPeerBlock
    <2> QED
      BY <1>2, <2>1, <2>2, <2>3, <2>4 DEF Next
  <1> QED
    BY <1>1, <1>2, PTL DEF Spec

\* Accounts, pool and chain are what the code takes them for.
THEOREM MempoolTyped == Spec => []TypeOK
  <1>1. MempoolInv => TypeOK
    <2> SUFFICES ASSUME MempoolInv PROVE TypeOK
      OBVIOUS
    <2>1. /\ DOMAIN accounts \subseteq Address
          /\ \A a \in DOMAIN accounts : accounts[a] \in AccountStates
      BY AccountMap DEF MempoolInv, Funded
    <2>2. /\ pool.pending \subseteq Txs /\ DOMAIN pool.balances = DOMAIN pool.nonces
          /\ pool.nonces \in Maps(Nat) /\ pool.balances \in Maps(0..Word-1)
      BY DEF MempoolInv, Exact, Pools
    <2>3. /\ DOMAIN pool.nonces \subseteq Address
          /\ \A a \in DOMAIN pool.nonces :
                pool.nonces[a] \in Nat /\ pool.balances[a] \in 0..Word-1
      BY <2>2, MapParts
    <2>4. \A i \in DOMAIN blocks : blocks[i] \in Seq(Txs)
      BY DEF MempoolInv
    <2> QED
      BY <2>1, <2>2, <2>3, <2>4 DEF TypeOK
  <1> QED
    BY MempoolAlways, <1>1, PTL

\* StateManager::applyBlock neither mints nor burns money, whatever is in the
\* blocks and whether or not they apply.
THEOREM MoneyKept == Spec => []SupplyConserved
  <1>1. MempoolInv => SupplyConserved
    BY DEF MempoolInv, Funded, SupplyConserved, GenesisSupply
  <1> QED
    BY MempoolAlways, <1>1, PTL

\* pendingNonces_ and pendingBalances_ of the Mempool agree with pending_ and the
\* confirmed accounts after any sequence of submissions and blocks.
THEOREM CachesExact == Spec => []PendingViewExact
  <1>1. MempoolInv => PendingViewExact
    BY DEF MempoolInv, Exact, PendingViewExact, PendingOf, PendingBy, Amounts
  <1> QED
    BY MempoolAlways, <1>1, PTL

\* "This ordering ensures the block's transactions can be applied sequentially
\* by the StateManager without failures" (Mempool::getTransactionsForBlock):
\* whatever the cap cuts off, what the node would mine now applies.
THEOREM MinedBlocksApply == Spec => []PoolExecutable
  <1>1. MempoolInv => PoolExecutable
    <2> SUFFICES ASSUME MempoolInv, NEW k \in 0..Cardinality(pool.pending)
                 PROVE  BlockApplies(accounts, getTransactionsForBlock(pool, k))
      BY DEF PoolExecutable
    <2>1. k \in Nat
      OBVIOUS
    <2>2. accounts \in Funded(GenesisSupply) /\ Exact(pool, accounts)
      BY DEF MempoolInv
    <2> QED
      BY <2>1, <2>2, GenesisAccounts, MinedApplies
  <1> QED
    BY MempoolAlways, <1>1, PTL

\* No transfer takes effect twice: on the way from genesis every sender spends
\* each nonce once and in order, and the accounts that StateManager::applyBlock
\* left the node with are those a replay of its chain from genesis yields.
THEOREM NoncesSpentOnce == Spec => []SpentOnce
  <1>1. MempoolInv => SpentOnce
    <2>1. Executed = ExecutedBy(blocks)
      BY Zenon DEF Executed, ExecutedBy
    <2> QED
      BY <2>1, Zenon DEF MempoolInv, SpentOnce, InOrder
  <1> QED
    BY MempoolAlways, <1>1, PTL

\* A block evicts exactly the pending transactions that the new accounts can no
\* longer serve: Mempool::revalidate, after Mempool::removeMinedTransactions,
\* loses none that is still good and leaves none that is dead.
THEOREM OnlyTheDeadEvicted == Spec => EvictsExactlyTheDead
  <1>1. ASSUME MempoolInv, [Next]_vars
        PROVE  [blocks' # blocks =>
                   pool'.pending =
                       Serviceable(pool.pending \ ToSet(Last(blocks')), accounts')]_vars
    <2>1. CASE UNCHANGED vars
      BY <2>1
    <2>2. ASSUME NEW tx \in Txs, Submit(tx)
          PROVE  blocks' = blocks
      BY <2>2 DEF Submit
    <2>3. ASSUME Produce
          PROVE  pool'.pending =
                     Serviceable(pool.pending \ ToSet(Last(blocks')), accounts')
      <3>1. PICK txs : txs = getTransactionsForBlock(pool, MaxTxsPerBlock)
        OBVIOUS
      <3>2. /\ pool \in Pools /\ NoTies(pool.pending)
            /\ \A u \in pool.pending : verifyTransaction(u)
        BY <1>1 DEF MempoolInv, Exact
      <3>3. txs \in Seq(Txs) /\ \A i \in 1..Len(txs) : txs[i] \in pool.pending
        BY <3>1, <3>2, Mined, MempoolAssumption
      <3>4. \A i \in DOMAIN txs : verifyTransaction(txs[i])
        BY <3>2, <3>3
      <3>5. BlockAccepted(txs)
        BY <2>3, <3>1 DEF Produce
      <3> QED
        BY <1>1, <3>3, <3>4, <3>5, BlockEvicts
    <2>4. ASSUME NEW txs \in PeerBlocks, AcceptPeerBlock(txs)
          PROVE  pool'.pending =
                     Serviceable(pool.pending \ ToSet(Last(blocks')), accounts')
      BY <1>1, <2>4, PeerBlockTyped, BlockEvicts DEF AcceptPeerBlock
    <2> QED
      BY <1>1, <2>1, <2>2, <2>3, <2>4 DEF Next
  <1> QED
    BY MempoolAlways, <1>1, PTL DEF Spec, EvictsExactlyTheDead

=============================================================================
