---------------------------- MODULE NodeProcess ----------------------------
(***************************************************************************)
(* One titancore_node process from runNode to its exit: the main thread of *)
(* main.cpp, the HTTP thread and the worker threads of rpc/rpc_server.cpp, *)
(* the io_context thread of net/network_manager.cpp, and the two locks     *)
(* that they share, Node::mutex_ and NetworkManager::peersMutex_.          *)
(*                                                                         *)
(* What the node computes is the matter of TitanNet; here a transaction is *)
(* valid or not, a block takes all that is pending, and the questions are  *)
(* who may still call whom while the process starts and stops, and what a  *)
(* client is told.  A step is a critical section, or the code between two. *)
(* httplib is modelled by how the code uses it: is_running() is true while *)
(* listen() accepts; stop() makes it take no more, and listen() returns    *)
(* when the workers are done; a worker runs one handler at a time.         *)
(***************************************************************************)
EXTENDS Naturals

CONSTANTS
    Worker,       \* worker threads of the HTTP server
    Peer,         \* nodes that connect to this one
    Tx,           \* transactions that clients submit
    Valid,        \* those with a good signature and sufficient funds
    Malformed,    \* kinds of requests that reach no method of the node
    EarlySignal,  \* whether the signal may precede listen()
    MaxRequests,  \* bound: requests in all
    None          \* no transaction, no text

ASSUME ProcessAssumption ==
    /\ Valid \subseteq Tx
    /\ None \notin Tx
    /\ EarlySignal \in BOOLEAN
    /\ MaxRequests \in Nat

VARIABLES
    main,       \* where the main thread is
    running,    \* g_running
    http,       \* the thread of RpcServer::start and its server
    worker,     \* where each worker is
    requests,   \* requests so far
    mutex,      \* holder of Node::mutex_ between two steps
    peersLock,  \* holder of peersMutex_ between two steps
    pool,       \* transactions in the mempool
    mined,      \* transactions in blocks
    lastError,  \* Node::lastError_
    io,         \* where the io_context thread is
    ioStopped,  \* ioContext_.stop() was called
    accepting,  \* an async_accept is outstanding
    sessions,   \* connected PeerSessions
    peers       \* NetworkManager::peers_

node == <<pool, mined, lastError>>
net == <<io, ioStopped, accepting, sessions, peers>>
rpc == <<http, worker, requests>>
vars == <<main, running, rpc, mutex, peersLock, node, net>>

Texts == {"duplicate", "invalid", "nonce"}

\* Requests: malformed ones, queries under either lock, submissions.
Request ==
    [call : Malformed \cup {"query", "getPeerCount"}]
    \cup [call : {"submitTransaction"}, tx : Tx]

\* A worker between requests, before its call into the node, between
\* addTransaction and broadcast or getLastError, and with its answer.  The code
\* does not keep the reasons: those of this worker's rejection and of the others
\* between it and getLastError.
WorkerState ==
    [at : {"idle"}]
    \cup [at : {"called", "broadcast"}, req : Request]
    \cup [at : {"rejected"}, req : Request, reasons : SUBSET Texts]
    \cup [at : {"replied"}, req : Request, result : {"result", "accepted", "error"}]
    \cup [at : {"replied"}, req : Request, result : {"rejected"},
          reasons : SUBSET Texts, text : Texts]

Idle == [at |-> "idle"]

Init ==
    /\ main = "create"
    /\ running = TRUE
    /\ http = "none"
    /\ worker = [w \in Worker |-> Idle]
    /\ requests = 0
    /\ mutex = "free" /\ peersLock = "free"
    /\ pool = {} /\ mined = {} /\ lastError = None
    /\ io = "none" /\ ioStopped = FALSE /\ accepting = FALSE
    /\ sessions = {} /\ peers = {}

-----------------------------------------------------------------------------
(***************************************************************************)
(* The main thread                                                         *)
(***************************************************************************)

\* runNode gives up: the index or the key does not fit the genesis file, or
\* a constructor throws.
RefuseStart ==
    /\ main = "create"
    /\ main' = "exit"
    /\ UNCHANGED <<running, rpc, mutex, peersLock, node, net>>

\* The Node constructor and node->start(): the accept loop and its thread.
StartNode ==
    /\ main = "create"
    /\ main' = "started"
    /\ io' = "idle"
    /\ accepting' = TRUE
    /\ UNCHANGED <<running, rpc, mutex, peersLock, node, ioStopped, sessions, peers>>

\* rpcServer.start(): the thread that will call listen().
StartRpc ==
    /\ main = "started"
    /\ main' = "serving"
    /\ http' = "spawned"
    /\ UNCHANGED <<running, worker, requests, mutex, peersLock, node, net>>

\* connectToPeer for every peer, which only posts, and std::signal.
InstallHandlers ==
    /\ main = "serving"
    /\ main' = "loop"
    /\ UNCHANGED <<running, rpc, mutex, peersLock, node, net>>

\* signalHandler; before it is installed a signal ends the process.
Signal ==
    /\ running /\ main \notin {"create", "started", "serving", "exit"}
    /\ EarlySignal \/ http # "spawned"
    /\ running' = FALSE
    /\ UNCHANGED <<main, rpc, mutex, peersLock, node, net>>

\* produceBlock takes the mutex ...
ProduceBegin ==
    /\ main = "loop" /\ running /\ mutex = "free"
    /\ mutex' = "main"
    /\ main' = "producing"
    /\ UNCHANGED <<running, rpc, peersLock, node, net>>

\* ... finds that it is not our turn ...
ProduceNothing ==
    /\ main = "producing"
    /\ mutex' = "free"
    /\ main' = "loop"
    /\ UNCHANGED <<running, rpc, peersLock, node, net>>

\* ... or makes a block of what is pending and broadcasts it afterwards.
ProduceEnd ==
    /\ main = "producing"
    /\ mutex' = "free"
    /\ mined' = mined \cup pool
    /\ pool' = {}
    /\ main' = "broadcast"
    /\ UNCHANGED <<running, rpc, peersLock, lastError, net>>

BroadcastBlock ==
    /\ main = "broadcast" /\ peersLock = "free"
    /\ main' = "loop"
    /\ UNCHANGED <<running, rpc, mutex, peersLock, node, net>>

LeaveLoop ==
    /\ main = "loop" /\ ~ running
    /\ main' = "stopRpc"
    /\ UNCHANGED <<running, rpc, mutex, peersLock, node, net>>

\* RpcServer::stop stops the server if is_running() ...
StopRpc ==
    /\ main = "stopRpc"
    /\ http' = IF http = "listening" THEN "draining" ELSE http
    /\ main' = "joinRpc"
    /\ UNCHANGED <<running, worker, requests, mutex, peersLock, node, net>>

\* Mutant: the HTTP thread is not joined.
JoinRpc_Detached ==
    /\ main = "joinRpc"
    /\ main' = "closePeers"
    /\ UNCHANGED <<running, rpc, mutex, peersLock, node, net>>

\* ... and joins its thread.
JoinRpc ==
    /\ main = "joinRpc" /\ http = "finished"
    /\ main' = "closePeers"
    /\ UNCHANGED <<running, rpc, mutex, peersLock, node, net>>

\* node.reset(): NetworkManager::stop closes the peers under its lock ...
ClosePeers ==
    /\ main = "closePeers" /\ peersLock = "free"
    /\ peersLock' = "main"
    /\ main' = "clearPeers"
    /\ UNCHANGED <<running, rpc, mutex, node, net>>

\* Mutant: the lock is held until stop() returns.
ClearPeers_Locked ==
    /\ main = "clearPeers"
    /\ peers' = {}
    /\ main' = "stopIo"
    /\ UNCHANGED <<running, rpc, mutex, peersLock, node, io, ioStopped, accepting,
                   sessions>>

\* ... clears the list and releases the lock ...
ClearPeers ==
    /\ main = "clearPeers"
    /\ peers' = {}
    /\ peersLock' = "free"
    /\ main' = "stopIo"
    /\ UNCHANGED <<running, rpc, mutex, node, io, ioStopped, accepting, sessions>>

\* ... stops the io_context ...
StopIo ==
    /\ main = "stopIo"
    /\ ioStopped' = TRUE
    /\ main' = "joinIo"
    /\ UNCHANGED <<running, rpc, mutex, peersLock, node, io, accepting, sessions, peers>>

\* ... and joins its thread; then the parts of the node are destroyed.
JoinIo ==
    /\ main = "joinIo" /\ io = "finished"
    /\ main' = "exit"
    /\ sessions' = {} /\ peers' = {}
    /\ UNCHANGED <<running, rpc, mutex, peersLock, node, io, ioStopped, accepting>>

MainThread ==
    \/ RefuseStart \/ StartNode \/ StartRpc \/ InstallHandlers
    \/ ProduceBegin \/ ProduceNothing \/ ProduceEnd \/ BroadcastBlock \/ LeaveLoop
    \/ StopRpc \/ JoinRpc \/ ClosePeers \/ ClearPeers \/ StopIo \/ JoinIo

-----------------------------------------------------------------------------
(***************************************************************************)
(* The HTTP thread and its workers                                         *)
(***************************************************************************)

\* server_->listen() binds the port and serves, or fails at once.
Listen ==
    /\ http = "spawned"
    /\ http' \in {"listening", "finished"}
    /\ UNCHANGED <<main, running, worker, requests, mutex, peersLock, node, net>>

\* listen() returns when the workers have finished.
Drained ==
    /\ http = "draining" /\ \A w \in Worker : worker[w] = Idle
    /\ http' = "finished"
    /\ UNCHANGED <<main, running, worker, requests, mutex, peersLock, node, net>>

\* A client posts a request to /rpc.
Arrive(w, r) ==
    /\ http = "listening" /\ worker[w] = Idle /\ requests < MaxRequests
    /\ worker' = [worker EXCEPT ![w] = [at |-> "called", req |-> r]]
    /\ requests' = requests + 1
    /\ UNCHANGED <<main, running, http, mutex, peersLock, node, net>>

\* Worker w goes on as s.
Goes(w, s) ==
    /\ worker' = [worker EXCEPT ![w] = s]
    /\ UNCHANGED <<main, running, http, requests, mutex, peersLock, net>>

Replies(w, result) ==
    Goes(w, [at |-> "replied", req |-> worker[w].req, result |-> result])

Calls(w, call) == worker[w].at = "called" /\ worker[w].req.call \in call

\* handleRpc and dispatch answer with an error of their own: a body that does
\* not parse, no method or an unknown one, parameters that are missing or do
\* not convert.
Refuse(w) ==
    /\ Calls(w, Malformed)
    /\ Replies(w, "error")
    /\ UNCHANGED node

\* getBalance, getNonce, getChainHeight, getBlockByIndex, getMempoolSize: one
\* critical section of the node.
Query(w) ==
    /\ Calls(w, {"query"}) /\ mutex = "free"
    /\ Replies(w, "result")
    /\ UNCHANGED node

\* getPeerCount only takes the lock of the peers.
CountPeers(w) ==
    /\ Calls(w, {"getPeerCount"}) /\ peersLock = "free"
    /\ Replies(w, "result")
    /\ UNCHANGED node

\* Mempool::addTransaction as far as its verdict goes.
Verdict(tx) ==
    CASE tx \notin Valid -> "invalid"
      [] tx \in Valid /\ tx \in pool -> "duplicate"
      [] tx \in Valid /\ tx \notin pool /\ tx \in mined -> "nonce"
      [] OTHER -> "accepted"

\* Mutant: the text of an earlier rejection is cleared.
AcceptTransaction_Clears(w) ==
    /\ Calls(w, {"submitTransaction"}) /\ mutex = "free"
    /\ Verdict(worker[w].req.tx) = "accepted"
    /\ pool' = pool \cup {worker[w].req.tx}
    /\ lastError' = None
    /\ Goes(w, [at |-> "broadcast", req |-> worker[w].req])
    /\ UNCHANGED mined

\* submitTransaction: the critical section accepts ...
AcceptTransaction(w) ==
    /\ Calls(w, {"submitTransaction"}) /\ mutex = "free"
    /\ Verdict(worker[w].req.tx) = "accepted"
    /\ pool' = pool \cup {worker[w].req.tx}
    /\ Goes(w, [at |-> "broadcast", req |-> worker[w].req])
    /\ UNCHANGED <<mined, lastError>>

\* Worker w is rejected because of v, while others wait for their text.
Rejected(w, v) ==
    worker' = [u \in Worker |->
        IF u = w
        THEN [at |-> "rejected", req |-> worker[w].req, reasons |-> {v}]
        ELSE IF worker[u].at = "rejected" THEN [worker[u] EXCEPT !.reasons = @ \cup {v}]
        ELSE worker[u]]

\* Mutants: the early return leaves the mutex locked; lastError_ is not set.
RejectTransaction_Locked(w) ==
    LET v == Verdict(worker[w].req.tx) IN
    /\ Calls(w, {"submitTransaction"}) /\ mutex = "free"
    /\ v # "accepted"
    /\ lastError' = v
    /\ mutex' = "rpc"
    /\ Rejected(w, v)
    /\ UNCHANGED <<main, running, http, requests, peersLock, net, pool, mined>>

RejectTransaction_NoText(w) ==
    LET v == Verdict(worker[w].req.tx) IN
    /\ Calls(w, {"submitTransaction"}) /\ mutex = "free"
    /\ v # "accepted"
    /\ Rejected(w, v)
    /\ UNCHANGED <<main, running, http, requests, mutex, peersLock, node, net>>

\* ... or rejects and leaves the reason in lastError_.
RejectTransaction(w) ==
    LET v == Verdict(worker[w].req.tx) IN
    /\ Calls(w, {"submitTransaction"}) /\ mutex = "free"
    /\ v # "accepted"
    /\ lastError' = v
    /\ Rejected(w, v)
    /\ UNCHANGED <<main, running, http, requests, mutex, peersLock, net, pool, mined>>

\* The broadcast of NEW_TX, outside the mutex, before the answer.
BroadcastTx(w) ==
    /\ worker[w].at = "broadcast" /\ peersLock = "free"
    /\ Replies(w, "accepted")
    /\ UNCHANGED node

\* handleSubmitTransaction asks for the reason in a second critical section.
GetLastError(w) ==
    /\ worker[w].at = "rejected" /\ mutex = "free"
    /\ Goes(w, [at |-> "replied", req |-> worker[w].req, result |-> "rejected",
                reasons |-> worker[w].reasons, text |-> lastError])
    /\ UNCHANGED node

\* The answer is on its way to the client.
Done(w) ==
    /\ worker[w].at = "replied"
    /\ Goes(w, Idle)
    /\ UNCHANGED node

HttpThread == Listen \/ Drained

WorkerThread(w) ==
    \/ Refuse(w) \/ Query(w) \/ CountPeers(w)
    \/ AcceptTransaction(w) \/ RejectTransaction(w)
    \/ BroadcastTx(w) \/ GetLastError(w) \/ Done(w)

-----------------------------------------------------------------------------
(***************************************************************************)
(* The io_context thread                                                   *)
(***************************************************************************)

\* run() takes the next handler.
Takes == io = "idle" /\ ~ ioStopped

\* A connection from p: addPeer, start(), and onPeerConnected comes next.
AcceptPeer(p) ==
    /\ Takes /\ accepting /\ p \notin sessions /\ peersLock = "free"
    /\ sessions' = sessions \cup {p}
    /\ peers' = peers \cup {p}
    /\ io' = "greet"
    /\ UNCHANGED <<main, running, rpc, mutex, peersLock, node, ioStopped, accepting>>

\* onPeerConnected sends under the mutex; the loop then accepts again.
Greet ==
    /\ io = "greet" /\ mutex = "free"
    /\ io' = "idle"
    /\ UNCHANGED <<main, running, rpc, mutex, peersLock, node, ioStopped, accepting,
                   sessions, peers>>

\* async_accept ends with an error, such as too many open files, and the
\* handler returns without a new async_accept.
AcceptError ==
    /\ Takes /\ accepting
    /\ accepting' = FALSE
    /\ UNCHANGED <<main, running, rpc, mutex, peersLock, node, io, ioStopped,
                   sessions, peers>>

\* The handler of a message holds the mutex over its writes to disk ...
HandleBegin ==
    /\ Takes /\ sessions # {} /\ mutex = "free"
    /\ mutex' = "io"
    /\ io' = "handling"
    /\ UNCHANGED <<main, running, rpc, peersLock, node, ioStopped, accepting,
                   sessions, peers>>

\* ... and has taken a transaction or a block, which it forwards.
HandleEnd ==
    /\ io = "handling"
    /\ \/ \E tx \in Valid \ (pool \cup mined) :
             /\ pool' = pool \cup {tx}
             /\ UNCHANGED mined
       \/ /\ mined' = mined \cup pool
          /\ pool' = {}
    /\ mutex' = "free"
    /\ io' = "forward"
    /\ UNCHANGED <<main, running, rpc, peersLock, lastError, ioStopped, accepting,
                   sessions, peers>>

Forward ==
    /\ io = "forward" /\ peersLock = "free"
    /\ io' = "idle"
    /\ UNCHANGED <<main, running, rpc, mutex, peersLock, node, ioStopped, accepting,
                   sessions, peers>>

\* A session ends, by an error or by a close() that was posted ...
DisconnectPeer(p) ==
    /\ Takes /\ p \in sessions
    /\ sessions' = sessions \ {p}
    /\ io' = "remove"
    /\ UNCHANGED <<main, running, rpc, mutex, peersLock, node, ioStopped, accepting,
                   peers>>

\* ... and removePeer takes it off the list.
RemovePeer ==
    /\ io = "remove" /\ peersLock = "free"
    /\ peers' = peers \cap sessions
    /\ io' = "idle"
    /\ UNCHANGED <<main, running, rpc, mutex, peersLock, node, ioStopped, accepting,
                   sessions>>

\* run() returns.
IoFinish ==
    /\ io = "idle" /\ ioStopped
    /\ io' = "finished"
    /\ UNCHANGED <<main, running, rpc, mutex, peersLock, node, ioStopped, accepting,
                   sessions, peers>>

IoThread ==
    \/ \E p \in Peer : AcceptPeer(p) \/ DisconnectPeer(p)
    \/ AcceptError \/ Greet \/ HandleBegin \/ HandleEnd \/ Forward \/ RemovePeer
    \/ IoFinish

-----------------------------------------------------------------------------

Next ==
    \/ MainThread \/ Signal
    \/ HttpThread
    \/ \E w \in Worker : WorkerThread(w) \/ \E r \in Request : Arrive(w, r)
    \/ IoThread

\* Every thread that can go on does; one that waits for Node::mutex_ gets it
\* at last, since the main thread sleeps two seconds after every block and
\* holds nothing meanwhile.  Clients, peers and signals owe us nothing.
Fairness ==
    /\ SF_vars(MainThread)
    /\ WF_vars(HttpThread)
    /\ \A w \in Worker : SF_vars(WorkerThread(w))
    /\ SF_vars(Greet) /\ WF_vars(HandleEnd) /\ WF_vars(Forward)
    /\ WF_vars(RemovePeer) /\ WF_vars(IoFinish)

Spec == Init /\ [][Next]_vars /\ Fairness

-----------------------------------------------------------------------------
(***************************************************************************)
(* Properties                                                              *)
(***************************************************************************)

\* The states of the threads; in particular a rejection comes with a text.
TypeOK ==
    /\ main \in {"create", "started", "serving", "loop", "producing", "broadcast",
                 "stopRpc", "joinRpc", "closePeers", "clearPeers", "stopIo",
                 "joinIo", "exit"}
    /\ running \in BOOLEAN
    /\ http \in {"none", "spawned", "listening", "draining", "finished"}
    /\ worker \in [Worker -> WorkerState]
    /\ requests \in 0..MaxRequests
    /\ mutex \in {"free", "main", "io"}
    /\ peersLock \in {"free", "main"}
    /\ pool \subseteq Tx /\ mined \subseteq Tx
    /\ lastError \in Texts \cup {None}
    /\ io \in {"none", "idle", "greet", "handling", "forward", "remove", "finished"}
    /\ ioStopped \in BOOLEAN /\ accepting \in BOOLEAN
    /\ sessions \subseteq Peer /\ peers \subseteq Peer

\* The order of rpcServer.stop() and node.reset() in runNode is what keeps
\* RpcServer's reference to the Node good ("The node must outlive the
\* RpcServer"): once the node is being taken apart no worker is inside a
\* request, so that none of them calls the node or broadcasts over a network
\* that was stopped, and at the exit no thread is left.
NodeOutlivesCallers ==
    /\ main \in {"closePeers", "clearPeers", "stopIo", "joinIo", "exit"} =>
          /\ http \in {"none", "finished"}
          /\ \A w \in Worker : worker[w] = Idle
    /\ main = "exit" => io \in {"none", "finished"} /\ mutex = "free"

\* Ctrl+C ends the process: produceBlock, the requests in flight, the HTTP
\* thread, the io thread with its handlers and the two locks never wait for
\* one another for ever.
ShutdownCompletes == ~ running ~> main = "exit"

\* Every request that a worker has taken is answered, also when the process is
\* told to stop meanwhile.
RequestsAnswered ==
    \A w \in Worker : worker[w].at = "called" ~> worker[w].at = "replied"

\* "Returns true if accepted, false if rejected (call getLastError)", in two
\* critical sections on one lastError_: the text that a rejected client gets is
\* the reason of its own rejection or of another one between the two, never an
\* older one.  What is accepted meanwhile, by any thread, does not disturb it.
ErrorIsOwnOrLater ==
    \A w \in Worker :
        worker[w].at = "replied" /\ worker[w].result = "rejected" =>
            worker[w].text \in worker[w].reasons

=============================================================================
