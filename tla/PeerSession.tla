---------------------------- MODULE PeerSession ----------------------------
(***************************************************************************)
(* One connection between two nodes: the two PeerSession objects of        *)
(* net/peer_session.cpp, the io_context that runs their handlers, and what *)
(* NetworkManager::stop does to them.  TitanNet takes a connection as an   *)
(* ordered reliable wire; here is why it may.                              *)
(*                                                                         *)
(* Any thread calls send(), which posts a closure; every other step is a   *)
(* handler of the io_context, run by its only thread, and is atomic.  An   *)
(* asynchronous operation completes in one step (the kernel's) and its     *)
(* handler runs in a later one, so that a handler may run with success     *)
(* after the session was closed.  A message travels as two pieces, length  *)
(* prefix and body: two writes under way at once would mix them.           *)
(***************************************************************************)
EXTENDS Naturals, Sequences

CONSTANTS
    Kinds,      \* kinds of messages sent, out of "plain", "throws", "large"
    Window,     \* pieces that TCP takes before the reader reads
    MaxSends,   \* bound: MaxSends[e], messages sent by end e
    MayReset,   \* whether the network may reset the connection
    Stoppable   \* the ends whose NetworkManager may be stopped

ASSUME SessionAssumption ==
    /\ Kinds \subseteq {"plain", "throws", "large"}
    /\ Window \in Nat \ {0}
    /\ MaxSends \in [{"dialler", "listener"} -> Nat]
    /\ MayReset \in BOOLEAN

VARIABLES
    sent,        \* messages given to send(), in order
    handled,     \* messages that onMessage_ was called with
    posted,      \* closures of send() and close() that have yet to run
    writeQueue,  \* writeQueue_
    isWriting,   \* isWriting_
    closed,      \* closed_
    writes,      \* async_writes whose handler has yet to run
    stream,      \* pieces on their way to an end
    reading,     \* the async_read under way, or its result
    listed,      \* the session is in NetworkManager::peers_
    life,        \* life of the NetworkManager of an end
    reset        \* the network has reset the connection

vars == <<sent, handled, posted, writeQueue, isWriting, closed, writes,
          stream, reading, listed, life, reset>>

End == {"dialler", "listener"}

Other(e) == CHOOSE o \in End : o # e

Message == [n : Nat \ {0}, kind : Kinds]

\* The closure of close(), among those of send().
Close == [n |-> 0, kind |-> "close"]

\* serializeMessage: a 4-byte length and the JSON text.
Pieces(m) == <<[part |-> "length", msg |-> m], [part |-> "body", msg |-> m]>>

Piece == [part : {"length", "body"}, msg : Message]

\* An async_write of a message, with the number of pieces written so far.
Write == [msg : Message, written : 0..2]

Begun(m) == [msg |-> m, written |-> 0]

Complete(w) == w.written = 2

\* Where the read loop is.  "length" and "body" wait for the socket; in "gotLength"
\* and "gotBody" the handler has yet to run.
Reading ==
    [at : {"length", "off"}]
    \cup [at : {"gotLength", "body"}, length : Piece]
    \cup [at : {"gotBody"}, length : Piece, body : Piece]

Init ==
    /\ sent = [e \in End |-> << >>]
    /\ handled = [e \in End |-> << >>]
    /\ posted = [e \in End |-> << >>]
    /\ writeQueue = [e \in End |-> << >>]
    /\ isWriting = [e \in End |-> FALSE]
    /\ closed = [e \in End |-> FALSE]
    /\ writes = [e \in End |-> {}]
    /\ stream = [e \in End |-> << >>]
    /\ reading = [e \in End |-> [at |-> "length"]]
    /\ listed = [e \in End |-> TRUE]
    /\ life = [e \in End |-> "running"]
    /\ reset = FALSE

\* ioContext_.run() still runs handlers.
Running(e) == life[e] \in {"running", "closing"}

\* The kernel has no socket for e any more.
SocketGone(e) == closed[e] \/ life[e] = "gone"

-----------------------------------------------------------------------------
(***************************************************************************)
(* Closing                                                                 *)
(***************************************************************************)

Off == [at |-> "off"]

\* What closing the socket does to a read: a result that is there stays.
Aborted(r) == IF r.at \in {"gotLength", "gotBody"} THEN r ELSE Off

\* disconnect() and removePeer; the read loop is left at r.  Writes under way
\* are aborted and their handlers find closed_ set; a write that is complete
\* still has its handler.  A second call changes nothing, like the code's
\* early return.
disconnect(e, r) ==
    /\ closed' = [closed EXCEPT ![e] = TRUE]
    /\ writes' = [writes EXCEPT ![e] = {w \in @ : Complete(w)}]
    /\ stream' = [stream EXCEPT ![e] = << >>]
    /\ reading' = [reading EXCEPT ![e] = r]
    /\ listed' = [listed EXCEPT ![e] = FALSE]

\* An operation on the socket is under way.
Pending(e) ==
    \/ reading[e].at \in {"length", "body"}
    \/ \E w \in writes[e] : ~ Complete(w)

\* A read or a write ends with an error: the other end is gone, or the
\* connection was reset.
SocketError(e) ==
    /\ Running(e) /\ ~ closed[e]
    /\ SocketGone(Other(e)) \/ reset
    /\ Pending(e)
    /\ disconnect(e, Aborted(reading[e]))
    /\ UNCHANGED <<sent, handled, posted, writeQueue, isWriting, life, reset>>

\* The closure of close().
RunClose(e) ==
    /\ Running(e) /\ posted[e] # << >> /\ Head(posted[e]) = Close
    /\ posted' = [posted EXCEPT ![e] = Tail(@)]
    /\ disconnect(e, Aborted(reading[e]))
    /\ UNCHANGED <<sent, handled, writeQueue, isWriting, life, reset>>

\* NetworkManager::stop: close() every peer and clear the list, then ...
StopPeers(e) ==
    /\ e \in Stoppable /\ life[e] = "running"
    /\ life' = [life EXCEPT ![e] = "closing"]
    /\ posted' = [posted EXCEPT ![e] = IF listed[e] THEN Append(@, Close) ELSE @]
    /\ listed' = [listed EXCEPT ![e] = FALSE]
    /\ UNCHANGED <<sent, handled, writeQueue, isWriting, closed, writes, stream,
                   reading, reset>>

\* ... ioContext_.stop() and the join: what is still posted does not run ...
StopIo(e) ==
    /\ life[e] = "closing"
    /\ life' = [life EXCEPT ![e] = "stopped"]
    /\ UNCHANGED <<sent, handled, posted, writeQueue, isWriting, closed, writes,
                   stream, reading, listed, reset>>

\* ... and the destruction of the io_context closes the socket for good.
Destroy(e) ==
    /\ life[e] = "stopped"
    /\ life' = [life EXCEPT ![e] = "gone"]
    /\ stream' = [stream EXCEPT ![e] = << >>]
    /\ UNCHANGED <<sent, handled, posted, writeQueue, isWriting, closed, writes,
                   reading, listed, reset>>

\* The network resets the connection.
Reset ==
    /\ MayReset /\ ~ reset
    /\ reset' = TRUE
    /\ UNCHANGED <<sent, handled, posted, writeQueue, isWriting, closed, writes,
                   stream, reading, listed, life>>

-----------------------------------------------------------------------------
(***************************************************************************)
(* Writing                                                                 *)
(***************************************************************************)

\* send(): by broadcast, for a session in peers_, or by a handler that answers.
Send(e, k) ==
    /\ listed[e] \/ (Running(e) /\ ~ closed[e])
    /\ Len(sent[e]) < MaxSends[e]
    /\ LET m == [n |-> Len(sent[e]) + 1, kind |-> k] IN
         /\ sent' = [sent EXCEPT ![e] = Append(@, m)]
         /\ posted' = [posted EXCEPT ![e] = Append(@, m)]
    /\ UNCHANGED <<handled, writeQueue, isWriting, closed, writes, stream,
                   reading, listed, life, reset>>

\* Mutant: isWriting_ stays set when the queue runs empty.
doWrite_Stuck(e, q, w) ==
    LET idle == q = << >> \/ closed[e] IN
    /\ writeQueue' = [writeQueue EXCEPT ![e] = q]
    /\ isWriting' = [isWriting EXCEPT ![e] = TRUE]
    /\ writes' = [writes EXCEPT ![e] = IF idle THEN w ELSE w \cup {Begun(Head(q))}]

\* doWrite() with the queue q, next to the async_writes w.
doWrite(e, q, w) ==
    LET idle == q = << >> \/ closed[e] IN
    /\ writeQueue' = [writeQueue EXCEPT ![e] = q]
    /\ isWriting' = [isWriting EXCEPT ![e] = ~ idle]
    /\ writes' = [writes EXCEPT ![e] = IF idle THEN w ELSE w \cup {Begun(Head(q))}]

\* Mutant: every message starts a write of its own.
Enqueue_Overlap(e, m) == doWrite(e, Append(writeQueue[e], m), writes[e])

\* The body of the closure of send(), for a session that is open.
Enqueue(e, m) ==
    IF isWriting[e]
    THEN /\ writeQueue' = [writeQueue EXCEPT ![e] = Append(@, m)]
         /\ UNCHANGED <<isWriting, writes>>
    ELSE doWrite(e, Append(writeQueue[e], m), writes[e])

\* The closure of send() runs on the io_context thread.
RunSend(e) ==
    /\ Running(e) /\ posted[e] # << >> /\ Head(posted[e]) # Close
    /\ posted' = [posted EXCEPT ![e] = Tail(@)]
    /\ IF closed[e] THEN UNCHANGED <<writeQueue, isWriting, writes>>
                    ELSE Enqueue(e, Head(posted[e]))
    /\ UNCHANGED <<sent, handled, closed, stream, reading, listed, life, reset>>

\* The kernel takes the next piece of an async_write.
WriteSome(e) ==
    /\ ~ SocketGone(e) /\ ~ SocketGone(Other(e)) /\ ~ reset
    /\ Len(stream[Other(e)]) < Window
    /\ \E w \in writes[e] :
          /\ ~ Complete(w)
          /\ stream' = [stream EXCEPT ![Other(e)] =
                 Append(@, Pieces(w.msg)[w.written + 1])]
          /\ writes' = [writes EXCEPT ![e] =
                 (@ \ {w}) \cup {[w EXCEPT !.written = @ + 1]}]
    /\ UNCHANGED <<sent, handled, posted, writeQueue, isWriting, closed, reading,
                   listed, life, reset>>

\* The handler of an async_write that has written everything.
WriteDone(e) ==
    /\ Running(e)
    /\ \E w \in writes[e] :
          /\ Complete(w)
          /\ doWrite(e, Tail(writeQueue[e]), writes[e] \ {w})
    /\ UNCHANGED <<sent, handled, posted, closed, stream, reading, listed, life,
                   reset>>

-----------------------------------------------------------------------------
(***************************************************************************)
(* Reading                                                                 *)
(***************************************************************************)

\* async_read gets what it waits for.
Receive(e) ==
    /\ ~ SocketGone(e) /\ stream[e] # << >>
    /\ reading[e].at \in {"length", "body"}
    /\ reading' = [reading EXCEPT ![e] =
           IF @.at = "length"
           THEN [at |-> "gotLength", length |-> Head(stream[e])]
           ELSE [at |-> "gotBody", length |-> @.length, body |-> Head(stream[e])]]
    /\ stream' = [stream EXCEPT ![e] = Tail(@)]
    /\ UNCHANGED <<sent, handled, posted, writeQueue, isWriting, closed, writes,
                   listed, life, reset>>

\* The next async_read; on a closed socket it ends in disconnect(), which has
\* nothing left to do.
ReadOn(e, r) ==
    /\ reading' = [reading EXCEPT ![e] = IF closed[e] THEN Off ELSE r]
    /\ UNCHANGED <<closed, writes, stream, listed>>

\* Mutant: the length is not kept for the read of the body.
LengthHandler_Forgets(e) ==
    /\ Running(e) /\ reading[e].at = "gotLength"
    /\ ReadOn(e, [at |-> "body"])
    /\ UNCHANGED <<sent, handled, posted, writeQueue, isWriting, life, reset>>

\* The handler of readHeader: read the body, or give up on the peer.
LengthHandler(e) ==
    /\ Running(e) /\ reading[e].at = "gotLength"
    /\ IF reading[e].length.msg.kind = "large"
       THEN disconnect(e, Off)
       ELSE ReadOn(e, [reading[e] EXCEPT !.at = "body"])
    /\ UNCHANGED <<sent, handled, posted, writeQueue, isWriting, life, reset>>

\* deserializeMessage has a text of its own in front of it.
Intact(r) == r.length = Pieces(r.length.msg)[1] /\ r.body = Pieces(r.length.msg)[2]

\* Mutant: an exception ends the read loop.
BodyHandler_Throws(e) ==
    LET r == reading[e] IN
    /\ Running(e) /\ r.at = "gotBody"
    /\ handled' = [handled EXCEPT ![e] =
           IF Intact(r) THEN Append(@, r.length.msg) ELSE @]
    /\ ReadOn(e, IF r.length.msg.kind = "throws" THEN Off ELSE [at |-> "length"])
    /\ UNCHANGED <<sent, posted, writeQueue, isWriting, life, reset>>

\* The handler of readBody: parse, call onMessage_, and read on, whether the
\* handler of the node returned or threw.
BodyHandler(e) ==
    LET r == reading[e] IN
    /\ Running(e) /\ r.at = "gotBody"
    /\ handled' = [handled EXCEPT ![e] =
           IF Intact(r) THEN Append(@, r.length.msg) ELSE @]
    /\ ReadOn(e, [at |-> "length"])
    /\ UNCHANGED <<sent, posted, writeQueue, isWriting, life, reset>>

-----------------------------------------------------------------------------

Next ==
    \/ Reset
    \/ \E e \in End :
          \/ \E k \in Kinds : Send(e, k)
          \/ RunSend(e) \/ RunClose(e)
          \/ WriteSome(e) \/ WriteDone(e)
          \/ Receive(e) \/ LengthHandler(e) \/ BodyHandler(e)
          \/ SocketError(e)
          \/ StopPeers(e) \/ StopIo(e) \/ Destroy(e)

\* The io_context runs every handler that is ready, in the order in which they
\* became ready; the kernels move what there is room for and report a closed
\* connection; stop() and the destructor run to their end once begun.
Fairness ==
    \A e \in End :
        /\ WF_vars(RunSend(e)) /\ WF_vars(RunClose(e))
        /\ WF_vars(WriteSome(e)) /\ WF_vars(WriteDone(e))
        /\ WF_vars(Receive(e)) /\ WF_vars(LengthHandler(e)) /\ WF_vars(BodyHandler(e))
        /\ WF_vars(SocketError(e))
        /\ WF_vars(StopIo(e)) /\ WF_vars(Destroy(e))

Spec == Init /\ [][Next]_vars /\ Fairness

-----------------------------------------------------------------------------
(***************************************************************************)
(* Properties                                                              *)
(***************************************************************************)

TypeOK ==
    /\ sent \in [End -> Seq(Message)]
    /\ handled \in [End -> Seq(Message)]
    /\ posted \in [End -> Seq(Message \cup {Close})]
    /\ writeQueue \in [End -> Seq(Message)]
    /\ isWriting \in [End -> BOOLEAN]
    /\ closed \in [End -> BOOLEAN]
    /\ writes \in [End -> SUBSET Write]
    /\ stream \in [End -> Seq(Piece)]
    /\ reading \in [End -> Reading]
    /\ listed \in [End -> BOOLEAN]
    /\ life \in [End -> {"running", "closing", "stopped", "gone"}]
    /\ reset \in BOOLEAN

\* async_write gets a pointer into writeQueue_.front(): the message that is
\* being written has to stay at the front until its handler has run, and ASIO
\* allows one async_write at a time on a socket.  Posted closures, handlers
\* that complete late and disconnect() all go through isWriting_ and the queue.
WriteBufferStable ==
    \A e \in End : \A w \in writes[e] :
        /\ writes[e] = {w}
        /\ isWriting[e] /\ writeQueue[e] # << >>
        /\ w.msg = Head(writeQueue[e])

\* No message is left lying: as long as the session is open there is a write
\* under way whenever writeQueue_ holds something, so that nobody has to call
\* send() again to get it moving.
QueueMoves ==
    \A e \in End : writeQueue[e] # << >> /\ ~ closed[e] => writes[e] # {}

\* An end is cut off when it will call onMessage_ no more: a body that had
\* arrived when the session was closed is still handled.
CutOff == {e \in End : life[e] \in {"stopped", "gone"}
                       \/ (closed[e] /\ reading[e].at # "gotBody")}

Chan == INSTANCE Channel WITH cut <- CutOff

\* Two sessions, their queues and TCP together are an ordered channel: the
\* handlers of one end see the messages of the other in the order of the
\* send() calls, each once, and none is forgotten while both ends live.
ImplementsChannel == Chan!Safety

\* A message that was sent is handled or the session ends, even if a handler
\* throws, a message is too large, or either node is stopped; and an end whose
\* peer is gone is told.
ChannelLives == Chan!Liveness

=============================================================================
