------------------------- MODULE NodeProcessProofs -------------------------
(***************************************************************************)
(* The safety invariants of NodeProcess for any number of worker threads,  *)
(* clients, peers and transactions: main, HTTP, worker and io threads keep *)
(* the order in which a node is started and taken apart, and the text of a *)
(* rejection that a client gets is not older than its own rejection.       *)
(***************************************************************************)
EXTENDS NodeProcess, TLAPS

\* What the locks stand for: who is inside a critical section that takes more
\* than one step.
LocksHeld ==
    /\ mutex = "main" <=> main = "producing"
    /\ mutex = "io" <=> io = "handling"
    /\ peersLock = "main" <=> main = "clearPeers"

\* Workers only run between listen() and its return.
WorkersServed ==
    http \notin {"listening", "draining"} => \A w \in Worker : worker[w] = Idle

\* The phases of the main thread, and which of the other threads are there.
Phases ==
    /\ main \in {"create", "started"} => http = "none"
    /\ main = "create" => io = "none"
    /\ main \in {"closePeers", "clearPeers", "stopIo", "joinIo"} => http = "finished"
    /\ main = "exit" => http \in {"none", "finished"} /\ io \in {"none", "finished"}

\* A worker between the two critical sections of a rejection: lastError_ holds
\* the worker's own reason or that of a rejection since.
RejectionOpen ==
    \A w \in Worker : worker[w].at = "rejected" => lastError \in worker[w].reasons

ProcessInv ==
    TypeOK /\ LocksHeld /\ WorkersServed /\ Phases /\ RejectionOpen /\ ErrorIsOwnOrLater

-----------------------------------------------------------------------------
(***************************************************************************)
(* What a worker's state consists of                                       *)
(***************************************************************************)

\* A worker that was called has a request, and one that was rejected has
\* reasons besides.
LEMMA StateFields ==
    ASSUME NEW s \in WorkerState
    PROVE  /\ s.at # "idle" => s.req \in Request
           /\ s.at = "rejected" => s.reasons \in SUBSET Texts
BY DEF WorkerState

\* The states that the steps of a worker construct are states of a worker.
LEMMA StatesBuilt ==
    ASSUME NEW r \in Request
    PROVE  /\ Idle \in WorkerState
           /\ [at |-> "called", req |-> r] \in WorkerState
           /\ [at |-> "broadcast", req |-> r] \in WorkerState
           /\ \A result \in {"result", "accepted", "error"} :
                 [at |-> "replied", req |-> r, result |-> result] \in WorkerState
           /\ \A R \in SUBSET Texts :
                 [at |-> "rejected", req |-> r, reasons |-> R] \in WorkerState
           /\ \A R \in SUBSET Texts, t \in Texts :
                 [at |-> "replied", req |-> r, result |-> "rejected", reasons |-> R,
                  text |-> t] \in WorkerState
BY DEF WorkerState, Idle

\* A transaction that is accepted is a valid one, and a rejection has a text.
LEMMA VerdictType ==
    ASSUME NEW tx
    PROVE  /\ Verdict(tx) = "accepted" => tx \in Valid
           /\ Verdict(tx) # "accepted" => Verdict(tx) \in Texts
BY DEF Verdict, Texts

-----------------------------------------------------------------------------
(***************************************************************************)
(* The threads that leave the workers alone                                *)
(***************************************************************************)

\* A step that changes neither a worker nor lastError_ disturbs no rejection.
LEMMA RejectionsAlone ==
    ASSUME RejectionOpen, ErrorIsOwnOrLater, UNCHANGED <<worker, lastError>>
    PROVE  RejectionOpen' /\ ErrorIsOwnOrLater'
BY DEF RejectionOpen, ErrorIsOwnOrLater

\* The main thread, from runNode to its return.
LEMMA MainKeeps ==
    ASSUME ProcessInv, MainThread
    PROVE  ProcessInv'
<1> USE DEF ProcessInv
<1>1. UNCHANGED <<worker, lastError>>
  BY DEF MainThread, RefuseStart, StartNode, StartRpc, InstallHandlers, ProduceBegin, ProduceNothing, ProduceEnd, BroadcastBlock, LeaveLoop, StopRpc, JoinRpc, ClosePeers, ClearPeers, StopIo, JoinIo, rpc, node, net
<1>2. RejectionOpen' /\ ErrorIsOwnOrLater'
  BY <1>1, RejectionsAlone
<1>3. CASE RefuseStart
  BY <1>1, <1>2, <1>3 DEF RefuseStart, TypeOK, LocksHeld, WorkersServed, Phases, rpc, node, net
<1>4. CASE StartNode
  BY <1>1, <1>2, <1>4 DEF StartNode, TypeOK, LocksHeld, WorkersServed, Phases, rpc, node, net
<1>5. CASE StartRpc
  BY <1>1, <1>2, <1>5 DEF StartRpc, TypeOK, LocksHeld, WorkersServed, Phases, rpc, node, net
<1>6. CASE InstallHandlers
  BY <1>1, <1>2, <1>6 DEF InstallHandlers, TypeOK, LocksHeld, WorkersServed, Phases, rpc, node, net
<1>7. CASE ProduceBegin
  BY <1>1, <1>2, <1>7 DEF ProduceBegin, TypeOK, LocksHeld, WorkersServed, Phases, rpc, node, net
<1>8. CASE ProduceNothing
  BY <1>1, <1>2, <1>8 DEF ProduceNothing, TypeOK, LocksHeld, WorkersServed, Phases, rpc, node, net
<1>9. CASE ProduceEnd
  BY <1>1, <1>2, <1>9 DEF ProduceEnd, TypeOK, LocksHeld, WorkersServed, Phases, rpc, node, net
<1>10. CASE BroadcastBlock
  BY <1>1, <1>2, <1>10 DEF BroadcastBlock, TypeOK, LocksHeld, WorkersServed, Phases, rpc, node, net
<1>11. CASE LeaveLoop
  BY <1>1, <1>2, <1>11 DEF LeaveLoop, TypeOK, LocksHeld, WorkersServed, Phases, rpc, node, net
<1>12. CASE StopRpc
  BY <1>1, <1>2, <1>12 DEF StopRpc, TypeOK, LocksHeld, WorkersServed, Phases, rpc, node, net
<1>13. CASE JoinRpc
  BY <1>1, <1>2, <1>13 DEF JoinRpc, TypeOK, LocksHeld, WorkersServed, Phases, rpc, node, net
<1>14. CASE ClosePeers
  BY <1>1, <1>2, <1>14 DEF ClosePeers, TypeOK, LocksHeld, WorkersServed, Phases, rpc, node, net
<1>15. CASE ClearPeers
  BY <1>1, <1>2, <1>15 DEF ClearPeers, TypeOK, LocksHeld, WorkersServed, Phases, rpc, node, net
<1>16. CASE StopIo
  BY <1>1, <1>2, <1>16 DEF StopIo, TypeOK, LocksHeld, WorkersServed, Phases, rpc, node, net
<1>17. CASE JoinIo
  BY <1>1, <1>2, <1>17 DEF JoinIo, TypeOK, LocksHeld, WorkersServed, Phases, rpc, node, net
<1>18. QED
  BY <1>3, <1>4, <1>5, <1>6, <1>7, <1>8, <1>9, <1>10, <1>11, <1>12, <1>13, <1>14, <1>15, <1>16, <1>17 DEF MainThread

\* A signal only clears g_running.
LEMMA SignalKeeps ==
    ASSUME ProcessInv, Signal
    PROVE  ProcessInv'
<1>1. RejectionOpen' /\ ErrorIsOwnOrLater'
  BY RejectionsAlone DEF ProcessInv, Signal, rpc, node
<1>2. running' \in BOOLEAN /\ UNCHANGED <<main, rpc, mutex, peersLock, node, net>>
  BY DEF Signal
<1>3. QED
  BY <1>1, <1>2 DEF ProcessInv, TypeOK, LocksHeld, WorkersServed, Phases, rpc, node, net

\* The thread of RpcServer::start: listen() returns only without workers.
LEMMA HttpKeeps ==
    ASSUME ProcessInv, HttpThread
    PROVE  ProcessInv'
<1> USE DEF ProcessInv
<1>1. RejectionOpen' /\ ErrorIsOwnOrLater'
  BY RejectionsAlone DEF HttpThread, Listen, Drained, node
<1>2. CASE Listen
  BY <1>1, <1>2 DEF Listen, TypeOK, LocksHeld, WorkersServed, Phases, node, net
<1>3. CASE Drained
  BY <1>1, <1>3 DEF Drained, TypeOK, LocksHeld, WorkersServed, Phases, node, net
<1>4. QED
  BY <1>2, <1>3 DEF HttpThread

\* The io_context thread: the accept loop, the sessions and their handlers.
LEMMA IoKeeps ==
    ASSUME ProcessInv, IoThread
    PROVE  ProcessInv'
<1> USE DEF ProcessInv
<1>1. UNCHANGED <<worker, lastError>>
  BY DEF IoThread, AcceptPeer, DisconnectPeer, AcceptError, Greet, HandleBegin, HandleEnd, Forward, RemovePeer, IoFinish, rpc, node, net
<1>2. RejectionOpen' /\ ErrorIsOwnOrLater'
  BY <1>1, RejectionsAlone
<1>3. ASSUME NEW p \in Peer, AcceptPeer(p)
      PROVE  ProcessInv'
  BY <1>1, <1>2, <1>3 DEF AcceptPeer, Takes, TypeOK, LocksHeld, WorkersServed, Phases, rpc, node
<1>4. ASSUME NEW p \in Peer, DisconnectPeer(p)
      PROVE  ProcessInv'
  BY <1>1, <1>2, <1>4 DEF DisconnectPeer, Takes, TypeOK, LocksHeld, WorkersServed, Phases, rpc, node
<1>5. CASE AcceptError
  BY <1>1, <1>2, <1>5 DEF AcceptError, Takes, TypeOK, LocksHeld, WorkersServed, Phases, rpc, node
<1>6. CASE Greet
  BY <1>1, <1>2, <1>6 DEF Greet, Takes, TypeOK, LocksHeld, WorkersServed, Phases, rpc, node
<1>7. CASE HandleBegin
  BY <1>1, <1>2, <1>7 DEF HandleBegin, Takes, TypeOK, LocksHeld, WorkersServed, Phases, rpc, node
<1>8. CASE HandleEnd
  BY <1>1, <1>2, <1>8, ProcessAssumption DEF HandleEnd, Takes, TypeOK, LocksHeld, WorkersServed, Phases, rpc, node
<1>9. CASE Forward
  BY <1>1, <1>2, <1>9 DEF Forward, Takes, TypeOK, LocksHeld, WorkersServed, Phases, rpc, node
<1>10. CASE RemovePeer
  BY <1>1, <1>2, <1>10 DEF RemovePeer, Takes, TypeOK, LocksHeld, WorkersServed, Phases, rpc, node
<1>11. CASE IoFinish
  BY <1>1, <1>2, <1>11 DEF IoFinish, Takes, TypeOK, LocksHeld, WorkersServed, Phases, rpc, node
<1>12. QED
  BY <1>3, <1>4, <1>5, <1>6, <1>7, <1>8, <1>9, <1>10, <1>11 DEF IoThread

-----------------------------------------------------------------------------
(***************************************************************************)
(* The workers                                                             *)
(***************************************************************************)

\* A worker that goes on as s, and neither becomes rejected by it nor answers
\* with a text that is not among its reasons.
LEMMA GoesKeeps ==
    ASSUME ProcessInv, NEW w \in Worker, NEW s \in WorkerState, Goes(w, s),
           worker[w].at # "idle",
           lastError' = lastError, pool' \subseteq Tx, mined' \subseteq Tx,
           s.at # "rejected",
           s.at = "replied" /\ s.result = "rejected" => s.text \in s.reasons
    PROVE  ProcessInv'
<1> USE DEF ProcessInv
<1>1. TypeOK' /\ LocksHeld' /\ Phases'
  BY DEF Goes, TypeOK, LocksHeld, Phases, net
<1>2. WorkersServed'
  BY DEF Goes, WorkersServed, TypeOK, Idle
<1>3. \A u \in Worker : worker'[u] = IF u = w THEN s ELSE worker[u]
  BY DEF Goes, TypeOK
<1>4. RejectionOpen'
  BY <1>3 DEF RejectionOpen
<1>5. ErrorIsOwnOrLater'
  BY <1>3 DEF ErrorIsOwnOrLater
<1>6. QED
  BY <1>1, <1>2, <1>4, <1>5

\* A request is taken while the server listens.
LEMMA ArriveKeeps ==
    ASSUME ProcessInv, NEW w \in Worker, NEW r \in Request, Arrive(w, r)
    PROVE  ProcessInv'
<1> USE DEF ProcessInv
<1> DEFINE s == [at |-> "called", req |-> r]
<1>1. s \in WorkerState
  BY StatesBuilt
<1>2. \A u \in Worker : worker'[u] = IF u = w THEN s ELSE worker[u]
  BY DEF Arrive, TypeOK
<1>3. TypeOK'
  BY <1>1, ProcessAssumption DEF Arrive, TypeOK, node, net
<1>4. LocksHeld' /\ Phases' /\ WorkersServed'
  BY DEF Arrive, LocksHeld, Phases, WorkersServed, node, net
<1>5. RejectionOpen' /\ ErrorIsOwnOrLater'
  BY <1>2 DEF RejectionOpen, ErrorIsOwnOrLater, Arrive, node
<1>6. QED
  BY <1>3, <1>4, <1>5

\* The critical section that rejects: lastError_ is this worker's from now on,
\* and a later one for all others that wait for their text.
LEMMA RejectKeeps ==
    ASSUME ProcessInv, NEW w \in Worker, RejectTransaction(w)
    PROVE  ProcessInv'
<1> USE DEF ProcessInv
<1> DEFINE v == Verdict(worker[w].req.tx)
           s == [at |-> "rejected", req |-> worker[w].req, reasons |-> {v}]
           later(u) == [worker[u] EXCEPT !.reasons = @ \cup {v}]
<1>1. v \in Texts /\ lastError' = v
  BY VerdictType DEF RejectTransaction
<1>2. worker[w] \in WorkerState /\ worker[w].at = "called"
  BY DEF RejectTransaction, Calls, TypeOK
<1>3. s \in WorkerState
  BY <1>1, <1>2, StateFields, StatesBuilt
<1>4. \A u \in Worker : worker[u].at = "rejected" =>
          later(u) \in WorkerState
  BY <1>1 DEF TypeOK, WorkerState
<1>5. worker' = [u \in Worker |->
          IF u = w THEN s
          ELSE IF worker[u].at = "rejected" THEN later(u)
          ELSE worker[u]]
  BY DEF RejectTransaction, Rejected
<1>6. worker' \in [Worker -> WorkerState]
  BY <1>3, <1>4, <1>5 DEF TypeOK
<1>7. TypeOK'
  BY <1>1, <1>6 DEF RejectTransaction, TypeOK, net
<1>8. LocksHeld' /\ Phases'
  BY DEF RejectTransaction, LocksHeld, Phases, net
<1>9. WorkersServed'
  BY <1>2 DEF RejectTransaction, WorkersServed, Idle
<1>10. \A u \in Worker : worker'[u].at = "rejected" => v \in worker'[u].reasons
  <2> SUFFICES ASSUME NEW u \in Worker, worker'[u].at = "rejected", u # w
               PROVE  v \in worker'[u].reasons
    BY <1>5
  <2>1. worker[u].at = "rejected"
    BY <1>5
  <2>2. worker'[u] = later(u)
    BY <1>5, <2>1
  <2>3. QED
    BY <2>1, <2>2 DEF TypeOK, WorkerState
<1>11. RejectionOpen'
  BY <1>1, <1>10 DEF RejectionOpen
<1>12. \A u \in Worker : worker'[u].at = "replied" => worker'[u] = worker[u]
  <2> SUFFICES ASSUME NEW u \in Worker, worker'[u].at = "replied"
               PROVE  worker'[u] = worker[u]
    OBVIOUS
  <2>1. CASE u = w
    BY <1>5, <2>1
  <2>2. CASE u # w /\ worker[u].at = "rejected"
    BY <1>5, <2>2 DEF TypeOK, WorkerState
  <2>3. CASE u # w /\ worker[u].at # "rejected"
    BY <1>5, <2>3
  <2>4. QED
    BY <2>1, <2>2, <2>3
<1>13. ErrorIsOwnOrLater'
  BY <1>12 DEF ErrorIsOwnOrLater
<1>14. QED
  BY <1>7, <1>8, <1>9, <1>11, <1>13

\* handleSubmitTransaction reads the text: it is one of the worker's reasons.
LEMMA GetLastErrorKeeps ==
    ASSUME ProcessInv, NEW w \in Worker, GetLastError(w)
    PROVE  ProcessInv'
<1> DEFINE s == [at |-> "replied", req |-> worker[w].req, result |-> "rejected",
                 reasons |-> worker[w].reasons, text |-> lastError]
<1>1. worker[w] \in WorkerState /\ worker[w].at = "rejected"
  BY DEF ProcessInv, TypeOK, GetLastError
<1>2. lastError \in worker[w].reasons
  BY <1>1 DEF ProcessInv, RejectionOpen
<1>3. s \in WorkerState
  BY <1>1, <1>2, StateFields, StatesBuilt
<1>4. Goes(w, s) /\ UNCHANGED node
  BY DEF GetLastError
<1>5. s.text \in s.reasons
  BY <1>2
<1> HIDE DEF s
<1>6. s.at # "rejected"
  BY DEF s
<1>7. pool' \subseteq Tx /\ mined' \subseteq Tx /\ lastError' = lastError
  BY <1>4 DEF ProcessInv, TypeOK, node
<1>8. QED
  BY <1>1, <1>3, <1>4, <1>5, <1>6, <1>7, GoesKeeps

\* The other steps of a worker.
LEMMA WorkerKeeps ==
    ASSUME ProcessInv, NEW w \in Worker, WorkerThread(w)
    PROVE  ProcessInv'
<1> DEFINE Built(result) == [at |-> "replied", req |-> worker[w].req, result |-> result]
<1>0. worker[w] \in WorkerState /\ pool \subseteq Tx /\ mined \subseteq Tx
  BY DEF ProcessInv, TypeOK
<1>1. ASSUME NEW result \in {"result", "accepted", "error"}, Replies(w, result),
             worker[w].at # "idle", UNCHANGED node
      PROVE  ProcessInv'
  <2>1. Built(result) \in WorkerState
    BY <1>0, <1>1, StateFields, StatesBuilt
  <2>2. Goes(w, Built(result)) /\ pool' \subseteq Tx /\ mined' \subseteq Tx
        /\ lastError' = lastError
    BY <1>0, <1>1 DEF Replies, node
  <2>3. Built(result).at = "replied" /\ Built(result).result # "rejected"
    BY <1>1
  <2> HIDE DEF Built
  <2>4. QED
    BY <1>1, <2>1, <2>2, <2>3, GoesKeeps
<1>2. CASE Refuse(w) \/ Query(w) \/ CountPeers(w) \/ BroadcastTx(w)
  BY <1>1, <1>2 DEF Refuse, Query, CountPeers, BroadcastTx, Calls
<1>3. CASE AcceptTransaction(w)
  <2> DEFINE s == [at |-> "broadcast", req |-> worker[w].req]
  <2>1. worker[w].at = "called" /\ Goes(w, s) /\ UNCHANGED <<mined, lastError>>
    BY <1>3 DEF AcceptTransaction, Calls
  <2>2. pool' \subseteq Tx
    BY <1>0, <1>3, VerdictType, ProcessAssumption DEF AcceptTransaction
  <2>3. s \in WorkerState /\ s.at = "broadcast"
    BY <1>0, <2>1, StateFields, StatesBuilt
  <2> HIDE DEF s
  <2>4. QED
    BY <1>0, <2>1, <2>2, <2>3, GoesKeeps
<1>4. CASE Done(w)
  <2>1. Idle \in WorkerState /\ Idle.at = "idle"
    BY DEF Idle, WorkerState
  <2>2. Goes(w, Idle) /\ worker[w].at = "replied" /\ UNCHANGED node
    BY <1>4 DEF Done
  <2>3. QED
    BY <1>0, <2>1, <2>2, GoesKeeps DEF node
<1>5. QED
  BY <1>2, <1>3, <1>4, RejectKeeps, GetLastErrorKeeps DEF WorkerThread

-----------------------------------------------------------------------------
(***************************************************************************)
(* The theorems                                                            *)
(***************************************************************************)

\* Every thread's every step keeps the invariant.
LEMMA ProcessInvariant == Spec => []ProcessInv
<1>1. Init => ProcessInv
  <2> SUFFICES ASSUME Init PROVE ProcessInv
    OBVIOUS
  <2>1. \A w \in Worker : worker[w] = Idle /\ worker[w].at = "idle"
    BY DEF Init, Idle
  <2>2. Idle \in WorkerState
    BY DEF Idle, WorkerState
  <2>3. worker \in [Worker -> WorkerState] /\ requests \in 0..MaxRequests
    BY <2>2, ProcessAssumption DEF Init
  <2>4. running \in BOOLEAN /\ ioStopped \in BOOLEAN /\ accepting \in BOOLEAN
    BY Zenon DEF Init
  <2>5. TypeOK
    BY <2>3, <2>4, Zenon DEF Init, TypeOK
  <2>6. QED
    BY <2>1, <2>5 DEF Init, ProcessInv, LocksHeld, WorkersServed, Phases, RejectionOpen,
                      ErrorIsOwnOrLater
<1>2. ProcessInv /\ [Next]_vars => ProcessInv'
  <2> SUFFICES ASSUME ProcessInv, [Next]_vars PROVE ProcessInv'
    OBVIOUS
  <2>1. CASE UNCHANGED vars
    BY <2>1 DEF vars, rpc, node, net, ProcessInv, TypeOK, LocksHeld, WorkersServed, Phases,
                RejectionOpen, ErrorIsOwnOrLater
  <2>2. QED
    BY <2>1, MainKeeps, SignalKeeps, HttpKeeps, WorkerKeeps, ArriveKeeps, IoKeeps DEF Next
<1>3. QED
  BY <1>1, <1>2, PTL DEF Spec

\* Every thread is in one of its states, and a client that is rejected always
\* gets a text: lastError_ is set when getLastError reads it.
THEOREM ProcessTyped == Spec => []TypeOK
BY ProcessInvariant, PTL DEF ProcessInv

\* Once runNode takes the node apart no worker is inside a request, and no
\* thread is left at the exit.
THEOREM NodeOutlives == Spec => []NodeOutlivesCallers
<1>1. ProcessInv => NodeOutlivesCallers
  BY DEF ProcessInv, NodeOutlivesCallers, Phases, WorkersServed, LocksHeld, TypeOK
<1>2. QED
  BY <1>1, ProcessInvariant, PTL

\* The text that a rejected client gets is the reason of its own rejection, or of
\* one that came between its two critical sections, where the race of
\* rpc_server.cpp is: never an older one, and never none.
THEOREM ErrorsAreOwnOrLater == Spec => []ErrorIsOwnOrLater
BY ProcessInvariant, PTL DEF ProcessInv

=============================================================================
