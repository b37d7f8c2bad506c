------------------------- MODULE PeerSessionProofs -------------------------
(***************************************************************************)
(* The safety properties of PeerSession for any number and kind of         *)
(* messages, any window of TCP, and ends that may be stopped and networks  *)
(* that may reset the connection at any moment: the buffer of a write      *)
(* stays where it is, the queue moves, and the two sessions implement      *)
(* Channel.                                                                *)
(***************************************************************************)
EXTENDS PeerSession, TLAPS

\* m is one of the messages s that were given to send(), which numbers them,
\* unaltered.
Genuine(s, m) == m.n \in 1..Len(s) /\ s[m.n] = m

\* A queue q of the messages from d + 1 on.
Follow(s, q, d) == \A j \in 1..Len(q) : Genuine(s, q[j]) /\ q[j].n = d + j

\* Closures p of the messages from d + 1 on, up to the one of close(), or up to
\* the last message if there is none.
FollowUpToClose(s, p, d) ==
    /\ \A j \in 1..Len(p) :
          (\A i \in 1..j : p[i] # Close) => Genuine(s, p[j]) /\ p[j].n = d + j
    /\ (\A i \in 1..Len(p) : p[i] # Close) => Len(s) = d + Len(p)

\* The pieces that the handlers of e have taken off the socket, and those that
\* were written to it.
Taken(e) ==
    2 * Len(handled[e]) + (IF reading[e].at = "gotBody" THEN 2
                           ELSE IF reading[e].at \in {"gotLength", "body"} THEN 1 ELSE 0)

Total(e) == Taken(e) + Len(stream[e])

\* The place of a piece among all that its sender writes.
Place(p) == 2 * p.msg.n - (IF p.part = "length" THEN 1 ELSE 0)

\* e has handled a prefix of what the other end sent ...
HandledInOrder(e) ==
    /\ Len(handled[e]) <= Len(sent[Other(e)])
    /\ \A i \in 1..Len(handled[e]) : handled[e][i] = sent[Other(e)][i]

\* ... its read loop holds the pieces of the next message ...
ReadsNext(e) ==
    LET r == reading[e] IN
    /\ r.at \in {"gotLength", "body", "gotBody"} =>
          /\ Genuine(sent[Other(e)], r.length.msg)
          /\ r.length.part = "length"
          /\ r.length.msg.n = Len(handled[e]) + 1
    /\ r.at = "gotBody" => r.body.msg = r.length.msg /\ r.body.part = "body"
    /\ r.at \in {"length", "body"} => ~ closed[e]
    /\ r.at = "off" => closed[e]

\* ... and the socket those that follow, in order.
StreamInOrder(e) ==
    /\ SocketGone(e) => stream[e] = << >>
    /\ \A j \in 1..Len(stream[e]) :
          Genuine(sent[Other(e)], stream[e][j].msg) /\ Place(stream[e][j]) = Taken(e) + j

ReadingAt(e) == HandledInOrder(e) /\ ReadsNext(e) /\ StreamInOrder(e)

\* e has written d messages and a part of the next one, the queue holds the
\* messages from d + 1 on, and the closures that wait for the io_context, up to
\* the one of close(), the messages after those.
WritesFrom(e, d) ==
    /\ writes[e] = {} => Total(Other(e)) = 2 * d
    /\ \A w \in writes[e] : Total(Other(e)) = 2 * d + w.written
    /\ Follow(sent[e], writeQueue[e], d)
    /\ FollowUpToClose(sent[e], posted[e], d + Len(writeQueue[e]))

\* That is so while both ends have their sockets.
WritesInOrder(e) ==
    ~ closed[e] /\ ~ SocketGone(Other(e)) => \E d \in Nat : WritesFrom(e, d)

OrderInv == \A e \in End : ReadingAt(e) /\ WritesInOrder(e)

\* The writing side of one end: the two invariants, and that isWriting_ of a
\* session that is open is not left over from earlier writes.
WritingAt(e) ==
    /\ \A w \in writes[e] : /\ writes[e] = {w}
                            /\ isWriting[e] /\ writeQueue[e] # << >>
                            /\ w.msg = Head(writeQueue[e])
    /\ writeQueue[e] # << >> /\ ~ closed[e] => writes[e] # {}
    /\ isWriting[e] /\ ~ closed[e] => writeQueue[e] # << >>

WriteInv == TypeOK /\ \A e \in End : WritingAt(e)

-----------------------------------------------------------------------------
(***************************************************************************)
(* Types                                                                   *)
(***************************************************************************)

\* Two ends, each the other's other.
LEMMA Ends ==
    ASSUME NEW e \in End
    PROVE  /\ Other(e) \in End /\ Other(e) # e /\ Other(Other(e)) = e
           /\ \A o \in End : o = e \/ o = Other(e)
<1>1. Other("dialler") = "listener"
  BY DEF Other, End
<1>2. Other("listener") = "dialler"
  BY DEF Other, End
<1>3. QED
  BY <1>1, <1>2 DEF End

\* serializeMessage makes two pieces.
LEMMA PiecesType ==
    ASSUME NEW m \in Message
    PROVE  /\ Pieces(m)[1] \in Piece /\ Pieces(m)[1].part = "length" /\ Pieces(m)[1].msg = m
           /\ Pieces(m)[2] \in Piece /\ Pieces(m)[2].part = "body" /\ Pieces(m)[2].msg = m
BY DEF Pieces, Piece

\* What the read loop holds.
LEMMA ReadingFields ==
    ASSUME NEW r \in Reading
    PROVE  /\ r.at \in {"length", "off", "gotLength", "body", "gotBody"}
           /\ r.at \in {"gotLength", "body", "gotBody"} => r.length \in Piece
           /\ r.at = "gotBody" => r.body \in Piece
BY DEF Reading

\* What the read loop goes on with.
LEMMA ReadingBuilt ==
    /\ Off \in Reading /\ [at |-> "length"] \in Reading
    /\ \A p \in Piece : [at |-> "gotLength", length |-> p] \in Reading
    /\ \A p, q \in Piece : [at |-> "gotBody", length |-> p, body |-> q] \in Reading
    /\ \A r \in Reading : Aborted(r) \in Reading
    /\ \A r \in Reading : r.at = "gotLength" =>
          /\ [r EXCEPT !.at = "body"] \in Reading
          /\ [r EXCEPT !.at = "body"].at = "body"
          /\ [r EXCEPT !.at = "body"].length = r.length
<1>1. Off \in Reading /\ [at |-> "length"] \in Reading
  BY DEF Reading, Off
<1>2. \A p \in Piece : [at |-> "gotLength", length |-> p] \in Reading
  BY DEF Reading
<1>3. \A p, q \in Piece : [at |-> "gotBody", length |-> p, body |-> q] \in Reading
  BY DEF Reading
<1>4. \A r \in Reading : Aborted(r) \in Reading
  BY <1>1 DEF Aborted
<1>5. ASSUME NEW r \in Reading, r.at = "gotLength"
      PROVE  /\ [r EXCEPT !.at = "body"] \in Reading
             /\ [r EXCEPT !.at = "body"].at = "body"
             /\ [r EXCEPT !.at = "body"].length = r.length
  BY <1>5 DEF Reading
<1>6. QED
  BY <1>1, <1>2, <1>3, <1>4, <1>5

\* doWrite() keeps the types.
LEMMA doWriteType ==
    ASSUME TypeOK, NEW e \in End, NEW q \in Seq(Message), NEW w \in SUBSET Write,
           doWrite(e, q, w)
    PROVE  /\ writeQueue' \in [End -> Seq(Message)]
           /\ isWriting' \in [End -> BOOLEAN]
           /\ writes' \in [End -> SUBSET Write]
<1>1. q # << >> => Begun(Head(q)) \in Write
  BY DEF Begun, Write
<1>2. writeQueue' \in [End -> Seq(Message)]
  BY DEF doWrite, TypeOK
<1>3. isWriting' \in [End -> BOOLEAN]
  BY DEF doWrite, TypeOK
<1>4. writes' \in [End -> SUBSET Write]
  BY <1>1 DEF doWrite, TypeOK
<1>5. QED
  BY <1>2, <1>3, <1>4

\* disconnect() keeps the types.
LEMMA disconnectType ==
    ASSUME TypeOK, NEW e \in End, NEW r \in Reading, disconnect(e, r)
    PROVE  /\ closed' \in [End -> BOOLEAN]
           /\ writes' \in [End -> SUBSET Write]
           /\ stream' \in [End -> Seq(Piece)]
           /\ reading' \in [End -> Reading]
           /\ listed' \in [End -> BOOLEAN]
<1>1. << >> \in Seq(Piece)
  OBVIOUS
<1>2. QED
  BY <1>1 DEF disconnect, TypeOK

\* So does every step; the handler of a write finds its message in the queue.
LEMMA TypeKept ==
    ASSUME TypeOK, WriteBufferStable, Next
    PROVE  TypeOK'
<1> USE SessionAssumption
<1>1. CASE Reset
  BY <1>1 DEF Reset, TypeOK
<1>2. ASSUME NEW e \in End, NEW k \in Kinds, Send(e, k)
      PROVE  TypeOK'
  <2> DEFINE m == [n |-> Len(sent[e]) + 1, kind |-> k]
  <2>1. m \in Message
    BY DEF Message, TypeOK
  <2>2. sent' = [sent EXCEPT ![e] = Append(@, m)] /\ posted' = [posted EXCEPT ![e] = Append(@, m)]
    BY <1>2 DEF Send
  <2> HIDE DEF m
  <2>3. sent' \in [End -> Seq(Message)] /\ posted' \in [End -> Seq(Message \cup {Close})]
    BY <2>1, <2>2 DEF TypeOK
  <2>4. QED
    BY <1>2, <2>3 DEF Send, TypeOK
<1>3. ASSUME NEW e \in End, RunSend(e)
      PROVE  TypeOK'
  <2>1. Head(posted[e]) \in Message /\ posted' \in [End -> Seq(Message \cup {Close})]
    BY <1>3 DEF RunSend, TypeOK
  <2> DEFINE q == Append(writeQueue[e], Head(posted[e]))
  <2>2. q \in Seq(Message) /\ writes[e] \in SUBSET Write
    BY <2>1 DEF TypeOK
  <2>3. CASE closed[e]
    BY <1>3, <2>1, <2>3 DEF RunSend, TypeOK
  <2>4. CASE ~ closed[e] /\ isWriting[e]
    <3>1. writeQueue' = [writeQueue EXCEPT ![e] = q] /\ UNCHANGED <<isWriting, writes>>
      BY <1>3, <2>4 DEF RunSend, Enqueue, TypeOK
    <3> HIDE DEF q
    <3>2. writeQueue' \in [End -> Seq(Message)]
      BY <2>2, <3>1 DEF TypeOK
    <3>3. QED
      BY <1>3, <2>1, <3>1, <3>2 DEF RunSend, TypeOK
  <2>5. CASE ~ closed[e] /\ ~ isWriting[e]
    <3>1. doWrite(e, q, writes[e])
      BY <1>3, <2>5 DEF RunSend, Enqueue
    <3> HIDE DEF q
    <3>2. QED
      BY <1>3, <2>1, <2>2, <3>1, doWriteType DEF RunSend, TypeOK
  <2>6. QED
    BY <2>3, <2>4, <2>5
<1>4. ASSUME NEW e \in End, RunClose(e)
      PROVE  TypeOK'
  <2>1. posted' \in [End -> Seq(Message \cup {Close})]
    BY <1>4 DEF RunClose, TypeOK
  <2>2. Aborted(reading[e]) \in Reading /\ disconnect(e, Aborted(reading[e]))
    BY <1>4, ReadingBuilt DEF RunClose, TypeOK
  <2>3. QED
    BY <1>4, <2>1, <2>2, disconnectType DEF RunClose, TypeOK
<1>5. ASSUME NEW e \in End, WriteSome(e)
      PROVE  TypeOK'
  <2>1. PICK w \in writes[e] :
            /\ ~ Complete(w)
            /\ stream' = [stream EXCEPT ![Other(e)] = Append(@, Pieces(w.msg)[w.written + 1])]
            /\ writes' = [writes EXCEPT ![e] = (@ \ {w}) \cup {[w EXCEPT !.written = @ + 1]}]
    BY <1>5 DEF WriteSome
  <2>2. w \in Write /\ w.msg \in Message /\ w.written \in {0, 1}
    BY <2>1 DEF TypeOK, Write, Complete
  <2>3. [w EXCEPT !.written = @ + 1] \in Write
    BY <2>2 DEF Write
  <2>4. Pieces(w.msg)[w.written + 1] \in Piece
    BY <2>2, PiecesType
  <2>5. stream' \in [End -> Seq(Piece)]
    BY <2>1, <2>4, Ends DEF TypeOK
  <2>6. writes' \in [End -> SUBSET Write]
    BY <2>1, <2>3 DEF TypeOK
  <2>7. QED
    BY <1>5, <2>5, <2>6 DEF WriteSome, TypeOK
<1>6. ASSUME NEW e \in End, WriteDone(e)
      PROVE  TypeOK'
  <2>1. PICK w \in writes[e] : doWrite(e, Tail(writeQueue[e]), writes[e] \ {w})
    BY <1>6 DEF WriteDone
  <2>2. writeQueue[e] # << >>
    BY <2>1 DEF WriteBufferStable
  <2>3. Tail(writeQueue[e]) \in Seq(Message) /\ writes[e] \ {w} \in SUBSET Write
    BY <2>2 DEF TypeOK
  <2>4. QED
    BY <1>6, <2>1, <2>3, doWriteType DEF WriteDone, TypeOK
<1>7. ASSUME NEW e \in End, Receive(e)
      PROVE  TypeOK'
  <2>1. Head(stream[e]) \in Piece /\ Tail(stream[e]) \in Seq(Piece)
    BY <1>7 DEF Receive, TypeOK
  <2>2. stream' \in [End -> Seq(Piece)]
    BY <1>7, <2>1 DEF Receive, TypeOK
  <2>3. reading[e] \in Reading
    BY DEF TypeOK
  <2>4. reading' \in [End -> Reading]
    BY <1>7, <2>1, <2>3, ReadingFields, ReadingBuilt DEF Receive, TypeOK
  <2>5. QED
    BY <1>7, <2>2, <2>4 DEF Receive, TypeOK
<1>8. ASSUME NEW e \in End, LengthHandler(e)
      PROVE  TypeOK'
  <2>1. reading[e] \in Reading /\ reading[e].at = "gotLength"
    BY <1>8 DEF LengthHandler, TypeOK
  <2>2. CASE disconnect(e, Off)
    BY <1>8, <2>2, ReadingBuilt, disconnectType DEF LengthHandler, TypeOK
  <2>3. CASE ReadOn(e, [reading[e] EXCEPT !.at = "body"])
    <3>1. reading' \in [End -> Reading]
      BY <2>1, <2>3, ReadingBuilt DEF ReadOn, TypeOK
    <3>2. QED
      BY <1>8, <2>3, <3>1 DEF LengthHandler, ReadOn, TypeOK
  <2>4. QED
    BY <1>8, <2>2, <2>3 DEF LengthHandler
<1>9. ASSUME NEW e \in End, BodyHandler(e)
      PROVE  TypeOK'
  <2>1. reading[e] \in Reading /\ reading[e].at = "gotBody"
    BY <1>9 DEF BodyHandler, TypeOK
  <2>2. reading[e].length.msg \in Message
    BY <2>1, ReadingFields DEF Piece
  <2>3. reading' \in [End -> Reading]
    BY <1>9, ReadingBuilt DEF BodyHandler, ReadOn, TypeOK
  <2>4. handled' \in [End -> Seq(Message)]
    BY <1>9, <2>2 DEF BodyHandler, TypeOK
  <2>5. QED
    BY <1>9, <2>3, <2>4 DEF BodyHandler, ReadOn, TypeOK
<1>10. ASSUME NEW e \in End, SocketError(e)
       PROVE  TypeOK'
  <2>1. Aborted(reading[e]) \in Reading /\ disconnect(e, Aborted(reading[e]))
    BY <1>10, ReadingBuilt DEF SocketError, TypeOK
  <2>2. QED
    BY <1>10, <2>1, disconnectType DEF SocketError, TypeOK
<1>11. ASSUME NEW e \in End, StopPeers(e)
       PROVE  TypeOK'
  BY <1>11 DEF StopPeers, TypeOK
<1>12. ASSUME NEW e \in End, StopIo(e)
       PROVE  TypeOK'
  BY <1>12 DEF StopIo, TypeOK
<1>13. ASSUME NEW e \in End, Destroy(e)
       PROVE  TypeOK'
  <2>1. stream' \in [End -> Seq(Piece)]
    BY <1>13 DEF Destroy, TypeOK
  <2>2. QED
    BY <1>13, <2>1 DEF Destroy, TypeOK
<1>14. QED
  BY <1>1, <1>2, <1>3, <1>4, <1>5, <1>6, <1>7, <1>8, <1>9, <1>10, <1>11, <1>12, <1>13 DEF Next

-----------------------------------------------------------------------------
(***************************************************************************)
(* The queue and the writes                                                *)
(***************************************************************************)

\* The part of the invariant that runs check.
LEMMA WriteInvImplies == WriteInv => WriteBufferStable /\ QueueMoves
BY DEF WriteInv, WritingAt, WriteBufferStable, QueueMoves

\* disconnect() drops the writes that are under way and leaves the queue alone.
LEMMA disconnectWriting ==
    ASSUME WriteInv, NEW e \in End, NEW r, disconnect(e, r), UNCHANGED <<writeQueue, isWriting>>
    PROVE  \A o \in End : WritingAt(o)'
<1>1. \A o \in End : WritingAt(o)
  BY DEF WriteInv
<1>2. /\ closed'[e] = TRUE
      /\ writes'[e] \subseteq writes[e]
      /\ \A o \in End : o # e => closed'[o] = closed[o] /\ writes'[o] = writes[o]
  BY DEF disconnect, WriteInv, TypeOK
<1>3. WritingAt(e)'
  BY <1>1, <1>2 DEF WritingAt
<1>4. ASSUME NEW o \in End, o # e PROVE WritingAt(o)'
  BY <1>1, <1>2, <1>4 DEF WritingAt
<1>5. QED
  BY <1>3, <1>4

\* doWrite() next to no other write begins one for the front of the queue.
LEMMA doWriteWriting ==
    ASSUME WriteInv, NEW e \in End, NEW q \in Seq(Message), doWrite(e, q, {}),
           UNCHANGED closed
    PROVE  \A o \in End : WritingAt(o)'
<1>1. \A o \in End : o # e => WritingAt(o)'
  BY DEF WriteInv, TypeOK, doWrite, WritingAt
<1>2. writeQueue'[e] = q /\ closed'[e] = closed[e]
  BY DEF WriteInv, TypeOK, doWrite
<1>3. CASE q = << >> \/ closed[e]
  <2>1. writes'[e] = {} /\ (isWriting'[e] <=> FALSE)
    BY <1>3 DEF WriteInv, TypeOK, doWrite
  <2>2. WritingAt(e)'
    BY <1>2, <1>3, <2>1 DEF WritingAt
  <2>3. QED
    BY <1>1, <2>2
<1>4. CASE q # << >> /\ ~ closed[e]
  <2>1. writes'[e] = {Begun(Head(q))} /\ isWriting'[e]
    BY <1>4 DEF WriteInv, TypeOK, doWrite
  <2>2. Begun(Head(q)).msg = Head(q)
    BY DEF Begun
  <2>3. WritingAt(e)'
    BY <1>2, <1>4, <2>1, <2>2 DEF WritingAt
  <2>4. QED
    BY <1>1, <2>3
<1>5. QED
  BY <1>3, <1>4

\* Every step keeps one write under way for the front of the queue.
LEMMA WriteInvKept ==
    ASSUME WriteInv, Next
    PROVE  WriteInv'
<1> SUFFICES \A o \in End : WritingAt(o)'
  BY TypeKept, WriteInvImplies DEF WriteInv
<1>0. TypeOK /\ \A o \in End : WritingAt(o)
  BY DEF WriteInv
<1>1. ASSUME UNCHANGED <<writeQueue, isWriting, closed, writes>>
      PROVE  \A o \in End : WritingAt(o)'
  BY <1>0, <1>1 DEF WritingAt
<1>2. CASE Reset
  BY <1>1, <1>2 DEF Reset
<1>3. ASSUME NEW e \in End, NEW k \in Kinds, Send(e, k)
      PROVE  \A o \in End : WritingAt(o)'
  BY <1>1, <1>3 DEF Send
<1>4. ASSUME NEW e \in End, RunSend(e)
      PROVE  \A o \in End : WritingAt(o)'
  <2> DEFINE q == Append(writeQueue[e], Head(posted[e]))
  <2>0. Head(posted[e]) \in Message /\ writeQueue[e] \in Seq(Message)
    BY <1>0, <1>4 DEF RunSend, TypeOK
  <2>1. q \in Seq(Message) /\ q # << >>
    BY <2>0
  <2>2. CASE closed[e]
    BY <1>1, <1>4, <2>2 DEF RunSend
  <2>3. CASE ~ closed[e] /\ ~ isWriting[e]
    <3>1. writes[e] = {}
      BY <1>0, <2>3 DEF WritingAt
    <3>2. doWrite(e, q, {}) /\ UNCHANGED closed
      BY <1>4, <2>3, <3>1 DEF RunSend, Enqueue
    <3> HIDE DEF q
    <3>3. QED
      BY <2>1, <3>2, doWriteWriting
  <2>4. CASE ~ closed[e] /\ isWriting[e]
    <3>1. /\ writeQueue' = [writeQueue EXCEPT ![e] = q]
          /\ UNCHANGED <<isWriting, writes, closed>>
      BY <1>0, <1>4, <2>4 DEF RunSend, Enqueue, TypeOK
    <3>2. writeQueue[e] # << >> /\ writeQueue[e] \in Seq(Message)
      BY <1>0, <2>4 DEF WritingAt, TypeOK
    <3>3. Head(q) = Head(writeQueue[e])
      BY <1>0, <1>4, <3>2 DEF RunSend, TypeOK
    <3> HIDE DEF q
    <3>4. WritingAt(e)'
      BY <1>0, <2>1, <2>4, <3>1, <3>2, <3>3 DEF WritingAt, TypeOK
    <3>5. ASSUME NEW o \in End, o # e PROVE WritingAt(o)'
      BY <1>0, <3>1, <3>5 DEF WritingAt, TypeOK
    <3>6. QED
      BY <3>4, <3>5
  <2>5. QED
    BY <2>2, <2>3, <2>4
<1>5. ASSUME NEW e \in End, RunClose(e) \/ SocketError(e)
      PROVE  \A o \in End : WritingAt(o)'
  BY <1>5, disconnectWriting DEF RunClose, SocketError
<1>6. ASSUME NEW e \in End, WriteSome(e)
      PROVE  \A o \in End : WritingAt(o)'
  <2>1. PICK w \in writes[e] :
            writes' = [writes EXCEPT ![e] = (@ \ {w}) \cup {[w EXCEPT !.written = @ + 1]}]
    BY <1>6 DEF WriteSome
  <2>2. writes[e] = {w} /\ w \in Write
    BY <1>0, <2>1 DEF WritingAt, TypeOK
  <2>3. writes'[e] = {[w EXCEPT !.written = @ + 1]} /\ [w EXCEPT !.written = @ + 1].msg = w.msg
    BY <1>0, <2>1, <2>2 DEF TypeOK, Write
  <2>4. UNCHANGED <<writeQueue, isWriting, closed>>
    BY <1>6 DEF WriteSome
  <2>5. WritingAt(e)'
    BY <1>0, <2>2, <2>3, <2>4 DEF WritingAt
  <2>6. ASSUME NEW o \in End, o # e PROVE WritingAt(o)'
    BY <1>0, <2>1, <2>4, <2>6 DEF WritingAt, TypeOK
  <2>7. QED
    BY <2>5, <2>6
<1>7. ASSUME NEW e \in End, WriteDone(e)
      PROVE  \A o \in End : WritingAt(o)'
  <2>1. PICK w \in writes[e] : doWrite(e, Tail(writeQueue[e]), writes[e] \ {w})
    BY <1>7 DEF WriteDone
  <2>2. writes[e] \ {w} = {} /\ writeQueue[e] # << >>
    BY <1>0, <2>1 DEF WritingAt
  <2>3. Tail(writeQueue[e]) \in Seq(Message)
    BY <1>0, <2>2 DEF TypeOK
  <2>4. doWrite(e, Tail(writeQueue[e]), {}) /\ UNCHANGED closed
    BY <1>7, <2>1, <2>2 DEF WriteDone
  <2>5. QED
    BY <2>3, <2>4, doWriteWriting
<1>8. ASSUME NEW e \in End, Receive(e) \/ BodyHandler(e) \/ StopPeers(e) \/ StopIo(e) \/ Destroy(e)
      PROVE  \A o \in End : WritingAt(o)'
  BY <1>1, <1>8 DEF Receive, BodyHandler, ReadOn, StopPeers, StopIo, Destroy
<1>9. ASSUME NEW e \in End, LengthHandler(e)
      PROVE  \A o \in End : WritingAt(o)'
  <2>1. CASE disconnect(e, Off)
    BY <1>9, <2>1, disconnectWriting DEF LengthHandler
  <2>2. CASE ~ disconnect(e, Off)
    BY <1>1, <1>9, <2>2 DEF LengthHandler, ReadOn
  <2>3. QED
    BY <2>1, <2>2
<1>10. QED
  BY <1>2, <1>3, <1>4, <1>5, <1>6, <1>7, <1>8, <1>9 DEF Next

-----------------------------------------------------------------------------
(***************************************************************************)
(* The order of the pieces                                                 *)
(***************************************************************************)

\* The types that the proofs below need of one end.
LEMMA EndTypes ==
    ASSUME TypeOK, NEW e \in End
    PROVE  /\ sent[e] \in Seq(Message) /\ handled[e] \in Seq(Message)
           /\ posted[e] \in Seq(Message \cup {Close}) /\ writeQueue[e] \in Seq(Message)
           /\ writes[e] \subseteq Write /\ stream[e] \in Seq(Piece)
           /\ reading[e] \in Reading
           /\ Taken(e) \in Nat /\ Total(e) \in Nat
BY DEF TypeOK, Taken, Total

\* Nothing that concerns the reading side of e has changed.
LEMMA ReadingSame ==
    ASSUME NEW e \in End, ReadingAt(e),
           sent'[Other(e)] = sent[Other(e)], handled'[e] = handled[e],
           reading'[e] = reading[e], stream'[e] = stream[e],
           closed'[e] = closed[e], SocketGone(e)' => SocketGone(e)
    PROVE  ReadingAt(e)'
<1>1. Taken(e)' = Taken(e)
  BY DEF Taken
<1>2. HandledInOrder(e)' /\ ReadsNext(e)'
  BY DEF ReadingAt, HandledInOrder, ReadsNext
<1>3. StreamInOrder(e)'
  BY <1>1 DEF ReadingAt, StreamInOrder
<1>4. QED
  BY <1>2, <1>3 DEF ReadingAt

\* Nothing that concerns the writing side of e has changed, unless a socket is
\* gone.
LEMMA WritesSame ==
    ASSUME NEW e \in End, WritesInOrder(e),
           sent'[e] = sent[e], posted'[e] = posted[e], writeQueue'[e] = writeQueue[e],
           ~ closed'[e] => ~ closed[e] /\ writes'[e] = writes[e],
           ~ SocketGone(Other(e))' =>
               ~ SocketGone(Other(e)) /\ Total(Other(e))' = Total(Other(e))
    PROVE  WritesInOrder(e)'
<1> SUFFICES ASSUME ~ closed'[e], ~ SocketGone(Other(e))'
             PROVE  \E d \in Nat : WritesFrom(e, d)'
  BY DEF WritesInOrder
<1>1. PICK d \in Nat : WritesFrom(e, d)
  BY DEF WritesInOrder
<1>2. WritesFrom(e, d)'
  BY <1>1 DEF WritesFrom
<1>3. QED
  BY <1>2

\* A step that touches no message, no socket and no handler.
LEMMA OrderSame ==
    ASSUME OrderInv,
           UNCHANGED <<sent, handled, posted, writeQueue, closed, writes, stream, reading>>,
           \A e \in End : SocketGone(e)' <=> SocketGone(e)
    PROVE  OrderInv'
<1> SUFFICES ASSUME NEW e \in End PROVE ReadingAt(e)' /\ WritesInOrder(e)'
  BY DEF OrderInv
<1>1. ReadingAt(e)'
  BY ReadingSame DEF OrderInv
<1>2. Total(Other(e))' = Total(Other(e))
  BY DEF Total, Taken
<1>3. WritesInOrder(e)'
  BY <1>2, WritesSame, Ends DEF OrderInv
<1>4. QED
  BY <1>1, <1>3

\* Once e has closed its socket nothing more is asked of what is written by or
\* to it; a body that had arrived is still the one of the next message.
LEMMA disconnectOrder ==
    ASSUME TypeOK, OrderInv, NEW e \in End, NEW r,
           r = Off \/ r = Aborted(reading[e]), disconnect(e, r),
           UNCHANGED <<sent, handled, writeQueue, life>>,
           \A o \in End : o # e => posted'[o] = posted[o]
    PROVE  OrderInv'
<1>1. /\ closed'[e] /\ stream'[e] = << >> /\ reading'[e] = r
      /\ SocketGone(e)'
  BY DEF disconnect, TypeOK, SocketGone
<1>2. ASSUME NEW o \in End, o # e
      PROVE  /\ closed'[o] = closed[o] /\ stream'[o] = stream[o] /\ reading'[o] = reading[o]
             /\ writes'[o] = writes[o] /\ (SocketGone(o)' <=> SocketGone(o))
  BY <1>2 DEF disconnect, TypeOK, SocketGone
<1>3. ReadingAt(e)'
  <2>1. HandledInOrder(e)' /\ StreamInOrder(e)'
    BY <1>1 DEF OrderInv, ReadingAt, HandledInOrder, StreamInOrder
  <2>2. ReadsNext(e) /\ UNCHANGED <<sent, handled>>
    BY DEF OrderInv, ReadingAt
  <2>4. CASE r.at \in {"gotLength", "gotBody"}
    <3>1. reading'[e] = reading[e]
      BY <1>1, <2>4 DEF Off, Aborted
    <3>2. QED
      BY <1>1, <2>1, <2>2, <2>4, <3>1 DEF ReadingAt, ReadsNext
  <2>5. CASE r.at \notin {"gotLength", "gotBody"}
    <3>1. reading'[e].at = "off"
      BY <1>1, <2>5 DEF Off, Aborted
    <3>2. QED
      BY <1>1, <2>1, <3>1 DEF ReadingAt, ReadsNext
  <2>6. QED
    BY <2>4, <2>5
<1>4. WritesInOrder(e)'
  BY <1>1 DEF WritesInOrder
<1>5. ASSUME NEW o \in End, o # e
      PROVE  ReadingAt(o)' /\ WritesInOrder(o)'
  <2>1. ReadingAt(o)'
    BY <1>2, <1>5, ReadingSame DEF OrderInv
  <2>2. Other(o) = e
    BY <1>5, Ends
  <2>3. WritesInOrder(o)'
    BY <1>1, <2>2 DEF WritesInOrder
  <2>4. QED
    BY <2>1, <2>3
<1>6. QED
  BY <1>3, <1>4, <1>5 DEF OrderInv

\* A message that was sent stays so when send() is called again ...
LEMMA GenuineMore ==
    ASSUME NEW s \in Seq(Message), NEW m \in Message, NEW x, Genuine(s, x)
    PROVE  Genuine(Append(s, m), x)
BY DEF Genuine

\* ... which adds the one with the next number.
LEMMA GenuineNew ==
    ASSUME NEW s \in Seq(Message), NEW m \in Message, m.n = Len(s) + 1
    PROVE  Genuine(Append(s, m), m)
BY DEF Genuine

\* The next message in order may join the queue ...
LEMMA FollowAppend ==
    ASSUME NEW s, NEW q \in Seq(Message), NEW d \in Nat, NEW m \in Message,
           Follow(s, q, d), Genuine(s, m), m.n = d + (Len(q) + 1)
    PROVE  Follow(s, Append(q, m), d)
<1> SUFFICES ASSUME NEW j \in 1..Len(q) + 1
             PROVE  Genuine(s, Append(q, m)[j]) /\ Append(q, m)[j].n = d + j
  BY DEF Follow
<1>1. CASE j = Len(q) + 1
  BY <1>1
<1>2. CASE j \in 1..Len(q)
  <2>1. Append(q, m)[j] = q[j]
    BY <1>2
  <2>2. QED
    BY <1>2, <2>1 DEF Follow
<1>3. QED
  BY <1>1, <1>2

\* ... and the front may leave it ...
LEMMA FollowTail ==
    ASSUME NEW s, NEW q \in Seq(Message), NEW d \in Nat, q # << >>, Follow(s, q, d)
    PROVE  Follow(s, Tail(q), d + 1)
<1> SUFFICES ASSUME NEW j \in 1..Len(q) - 1
             PROVE  Genuine(s, Tail(q)[j]) /\ Tail(q)[j].n = d + 1 + j
  BY DEF Follow
<1>1. Tail(q)[j] = q[j + 1] /\ j + 1 \in 1..Len(q)
  OBVIOUS
<1>2. Genuine(s, q[j + 1]) /\ q[j + 1].n = d + (j + 1)
  BY <1>1 DEF Follow
<1>3. QED
  BY <1>1, <1>2

\* ... while send() goes on.
LEMMA FollowMore ==
    ASSUME NEW s \in Seq(Message), NEW q \in Seq(Message), NEW d \in Nat, NEW m \in Message,
           Follow(s, q, d)
    PROVE  Follow(Append(s, m), q, d)
BY GenuineMore DEF Follow

\* send() adds a message to the list and its closure to the closures.
LEMMA ClosuresSend ==
    ASSUME NEW s \in Seq(Message), NEW p \in Seq(Message \cup {Close}), NEW d \in Nat,
           NEW m \in Message, m.n = Len(s) + 1, FollowUpToClose(s, p, d)
    PROVE  FollowUpToClose(Append(s, m), Append(p, m), d)
<1> DEFINE t == Append(s, m)
           r == Append(p, m)
<1>1. /\ Len(r) = Len(p) + 1 /\ r[Len(p) + 1] = m /\ Len(t) = Len(s) + 1
      /\ \A i \in 1..Len(p) : r[i] = p[i]
      /\ Len(p) \in Nat /\ Len(s) \in Nat
  OBVIOUS
<1>2. \A x : Genuine(s, x) => Genuine(t, x)
  BY GenuineMore
<1>3. Genuine(t, m)
  BY GenuineNew
<1> HIDE DEF t, r
<1>4. (\A i \in 1..Len(p) : p[i] # Close) => Len(s) = d + Len(p)
  BY DEF FollowUpToClose
<1>5. ASSUME NEW j \in 1..Len(r), \A i \in 1..j : r[i] # Close
      PROVE  Genuine(t, r[j]) /\ r[j].n = d + j
  <2>1. CASE j \in 1..Len(p)
    <3>1. \A i \in 1..j : p[i] # Close
      BY <1>1, <1>5, <2>1
    <3>2. Genuine(s, p[j]) /\ p[j].n = d + j
      BY <2>1, <3>1 DEF FollowUpToClose
    <3>3. QED
      BY <1>1, <1>2, <2>1, <3>2
  <2>2. CASE j = Len(p) + 1
    <3>1. \A i \in 1..Len(p) : p[i] # Close
      BY <1>1, <1>5, <2>2
    <3>2. QED
      BY <1>1, <1>3, <1>4, <2>2, <3>1
  <2>3. QED
    BY <1>1, <2>1, <2>2
<1>6. ASSUME \A i \in 1..Len(r) : r[i] # Close
      PROVE  Len(t) = d + Len(r)
  <2>1. \A i \in 1..Len(p) : p[i] # Close
    BY <1>1, <1>6
  <2>2. QED
    BY <1>1, <1>4, <2>1
<1>7. FollowUpToClose(t, r, d)
  BY <1>5, <1>6 DEF FollowUpToClose
<1>8. QED
  BY <1>7 DEF t, r

\* The next closure of send() holds the next message.
LEMMA ClosuresTail ==
    ASSUME NEW s \in Seq(Message), NEW p \in Seq(Message \cup {Close}), NEW d \in Nat,
           p # << >>, Head(p) # Close, FollowUpToClose(s, p, d)
    PROVE  /\ Genuine(s, Head(p)) /\ Head(p).n = d + 1
           /\ FollowUpToClose(s, Tail(p), d + 1)
<1> DEFINE r == Tail(p)
<1>1. /\ Len(p) \in Nat \ {0} /\ Len(r) = Len(p) - 1 /\ p[1] = Head(p)
      /\ \A j \in 1..Len(r) : r[j] = p[j + 1]
  OBVIOUS
<1> HIDE DEF r
<1>2. Genuine(s, Head(p)) /\ Head(p).n = d + 1
  <2>1. 1 \in 1..Len(p) /\ \A i \in 1..1 : p[i] # Close
    BY <1>1
  <2>2. QED
    BY <1>1, <2>1 DEF FollowUpToClose
<1>3. ASSUME NEW j \in 0..Len(r), \A i \in 1..j : r[i] # Close
      PROVE  \A i \in 1..j+1 : p[i] # Close
  <2> SUFFICES ASSUME NEW i \in 1..j+1, i # 1 PROVE p[i] # Close
    BY <1>1
  <2>1. i - 1 \in 1..j /\ i - 1 \in 1..Len(r) /\ (i - 1) + 1 = i
    BY <1>1
  <2>2. QED
    BY <1>1, <1>3, <2>1
<1>4. ASSUME NEW j \in 1..Len(r), \A i \in 1..j : r[i] # Close
      PROVE  Genuine(s, r[j]) /\ r[j].n = d + 1 + j
  <2>1. j \in 0..Len(r) /\ j + 1 \in 1..Len(p) /\ r[j] = p[j + 1]
    BY <1>1
  <2>2. \A i \in 1..j+1 : p[i] # Close
    BY <1>3, <1>4, <2>1
  <2>3. Genuine(s, p[j + 1]) /\ p[j + 1].n = d + (j + 1)
    BY <2>1, <2>2 DEF FollowUpToClose
  <2>4. QED
    BY <2>1, <2>3
<1>5. ASSUME \A i \in 1..Len(r) : r[i] # Close
      PROVE  Len(s) = d + 1 + Len(r)
  <2>1. Len(r) \in 0..Len(r) /\ Len(r) + 1 = Len(p)
    BY <1>1
  <2>2. \A i \in 1..Len(p) : p[i] # Close
    BY <1>3, <1>5, <2>1
  <2>3. Len(s) = d + Len(p)
    BY <2>2 DEF FollowUpToClose
  <2>4. QED
    BY <1>1, <2>1, <2>3
<1>6. FollowUpToClose(s, r, d + 1)
  BY <1>4, <1>5 DEF FollowUpToClose
<1>7. QED
  BY <1>2, <1>6 DEF r

\* Behind the closure of close() anything may come.
LEMMA ClosuresClose ==
    ASSUME NEW s \in Seq(Message), NEW p \in Seq(Message \cup {Close}), NEW d \in Nat,
           FollowUpToClose(s, p, d)
    PROVE  FollowUpToClose(s, Append(p, Close), d)
<1> DEFINE r == Append(p, Close)
<1>1. /\ Len(r) = Len(p) + 1 /\ r[Len(p) + 1] = Close /\ Len(p) \in Nat
      /\ \A i \in 1..Len(p) : r[i] = p[i]
  OBVIOUS
<1> HIDE DEF r
<1>2. ASSUME NEW j \in 1..Len(r), \A i \in 1..j : r[i] # Close
      PROVE  Genuine(s, r[j]) /\ r[j].n = d + j
  <2>1. j \in 1..Len(p)
    BY <1>1, <1>2
  <2>2. \A i \in 1..j : p[i] # Close
    BY <1>1, <1>2, <2>1
  <2>3. Genuine(s, p[j]) /\ p[j].n = d + j
    BY <2>1, <2>2 DEF FollowUpToClose
  <2>4. QED
    BY <1>1, <2>1, <2>3
<1>3. ~ \A i \in 1..Len(r) : r[i] # Close
  BY <1>1
<1>4. FollowUpToClose(s, r, d)
  BY <1>2, <1>3 DEF FollowUpToClose
<1>5. QED
  BY <1>4 DEF r

\* send() adds a message behind all others.
LEMMA SendOrder ==
    ASSUME WriteInv, OrderInv, NEW e \in End, NEW k \in Kinds, Send(e, k)
    PROVE  OrderInv'
<1> DEFINE m == [n |-> Len(sent[e]) + 1, kind |-> k]
<1>0. TypeOK /\ sent[e] \in Seq(Message) /\ posted[e] \in Seq(Message \cup {Close})
      /\ writeQueue[e] \in Seq(Message)
  BY DEF WriteInv, TypeOK
<1>1. m.n = Len(sent[e]) + 1 /\ m \in Message
  BY <1>0 DEF Message
<1>2. sent'[e] = Append(sent[e], m) /\ posted'[e] = Append(posted[e], m)
  BY <1>0 DEF Send, TypeOK
<1>3. \A o \in End : o # e => sent'[o] = sent[o] /\ posted'[o] = posted[o]
  BY <1>0 DEF Send, TypeOK
<1>4. UNCHANGED <<handled, writeQueue, closed, writes, stream, reading>>
      /\ \A o \in End : SocketGone(o)' <=> SocketGone(o)
  BY DEF Send, SocketGone
<1> HIDE DEF m
<1>5. Len(sent'[e]) = Len(sent[e]) + 1 /\ \A i \in 1..Len(sent[e]) : sent'[e][i] = sent[e][i]
  BY <1>0, <1>1, <1>2
<1>6. \A x : Genuine(sent[e], x) => Genuine(sent'[e], x)
  BY <1>0, <1>1, <1>2, GenuineMore
<1>7. \A o \in End : Total(o)' = Total(o) /\ Taken(o)' = Taken(o)
  BY <1>4 DEF Total, Taken
<1>8. ASSUME NEW o \in End, Other(o) = e
      PROVE  ReadingAt(o)'
  <2>1. ReadingAt(o)
    BY DEF OrderInv
  <2>2. HandledInOrder(o)'
    <3>1. Len(handled[o]) \in Nat /\ Len(sent[e]) \in Nat
      BY <1>0, <2>1 DEF TypeOK
    <3>2. QED
      BY <1>4, <1>5, <1>8, <2>1, <3>1 DEF ReadingAt, HandledInOrder
  <2>3. ReadsNext(o)'
    BY <1>4, <1>6, <1>8, <2>1 DEF ReadingAt, ReadsNext
  <2>4. StreamInOrder(o)'
    BY <1>4, <1>6, <1>7, <1>8, <2>1 DEF ReadingAt, StreamInOrder
  <2>5. QED
    BY <2>2, <2>3, <2>4 DEF ReadingAt
<1>9. ReadingAt(e)'
  BY <1>3, <1>4, Ends, ReadingSame DEF OrderInv
<1>10. WritesInOrder(Other(e))'
  BY <1>3, <1>4, <1>7, Ends, WritesSame DEF OrderInv
<1>11. WritesInOrder(e)'
  <2> SUFFICES ASSUME ~ closed'[e], ~ SocketGone(Other(e))'
               PROVE  \E d \in Nat : WritesFrom(e, d)'
    BY DEF WritesInOrder
  <2>1. PICK d \in Nat : WritesFrom(e, d)
    BY <1>4, Ends DEF WritesInOrder, OrderInv
  <2>2. d + Len(writeQueue[e]) \in Nat
    BY <1>0
  <2>3. FollowUpToClose(sent'[e], posted'[e], d + Len(writeQueue[e]))
    BY <1>0, <1>1, <1>2, <2>1, <2>2, ClosuresSend DEF WritesFrom
  <2>4. Follow(sent'[e], writeQueue[e], d)
    BY <1>0, <1>1, <1>2, <2>1, FollowMore DEF WritesFrom
  <2>5. WritesFrom(e, d)'
    BY <1>4, <1>7, <2>1, <2>3, <2>4, Ends DEF WritesFrom
  <2>6. QED
    BY <2>5
<1>12. QED
  BY <1>8, <1>9, <1>10, <1>11, Ends DEF OrderInv

\* The closure of send() moves its message to the end of the queue.
LEMMA RunSendOrder ==
    ASSUME WriteInv, OrderInv, NEW e \in End, RunSend(e)
    PROVE  OrderInv'
<1> DEFINE m == Head(posted[e])
           q == Append(writeQueue[e], m)
<1>0. TypeOK /\ posted[e] \in Seq(Message \cup {Close}) /\ writeQueue[e] \in Seq(Message)
      /\ posted[e] # << >> /\ m \in Message /\ m # Close
      /\ sent[e] \in Seq(Message) /\ WritingAt(e)
  BY DEF WriteInv, TypeOK, RunSend
<1>1. UNCHANGED <<sent, handled, closed, stream, reading>>
      /\ \A o \in End : SocketGone(o)' <=> SocketGone(o)
  BY DEF RunSend, SocketGone
<1>2. \A o \in End : Total(o)' = Total(o)
  BY <1>1 DEF Total, Taken
<1>3. \A o \in End : ReadingAt(o)'
  BY <1>1, Ends, ReadingSame DEF OrderInv
<1>4. WritesInOrder(Other(e))'
  <2>1. Other(e) \in End /\ Other(e) # e
    BY Ends
  <2>2. posted'[Other(e)] = posted[Other(e)] /\ writeQueue'[Other(e)] = writeQueue[Other(e)]
        /\ writes'[Other(e)] = writes[Other(e)]
    BY <1>0, <2>1 DEF RunSend, Enqueue, doWrite, TypeOK
  <2>3. QED
    BY <1>1, <1>2, <2>1, <2>2, Ends, WritesSame DEF OrderInv
<1>5. WritesInOrder(e)'
  <2> SUFFICES ASSUME ~ closed'[e], ~ SocketGone(Other(e))'
               PROVE  \E d \in Nat : WritesFrom(e, d)'
    BY DEF WritesInOrder
  <2>1. PICK d \in Nat : WritesFrom(e, d)
    BY <1>1, Ends DEF WritesInOrder, OrderInv
  <2>2. ~ closed[e] /\ posted'[e] = Tail(posted[e]) /\ writeQueue'[e] = q
    BY <1>0, <1>1 DEF RunSend, Enqueue, doWrite, TypeOK
  <2>3. Len(writeQueue[e]) \in Nat /\ Len(q) = Len(writeQueue[e]) + 1 /\ q # << >>
    <3> HIDE DEF m
    <3>1. writeQueue[e] \in Seq(Message) /\ m \in Message
      BY <1>0
    <3> QED
      BY <3>1
  <2>4. Follow(sent[e], writeQueue[e], d)
        /\ FollowUpToClose(sent[e], posted[e], d + Len(writeQueue[e]))
    BY <2>1 DEF WritesFrom
  <2>5. /\ Genuine(sent[e], m) /\ m.n = d + Len(writeQueue[e]) + 1
        /\ FollowUpToClose(sent[e], Tail(posted[e]), d + Len(writeQueue[e]) + 1)
    <3>1. d + Len(writeQueue[e]) \in Nat
      BY <2>3
    <3>2. QED
      BY <1>0, <2>4, <3>1, ClosuresTail
  <2>6. m.n = d + (Len(writeQueue[e]) + 1) /\ d + Len(writeQueue[e]) + 1 = d + Len(q)
    BY <2>3, <2>5
  <2>7. Follow(sent[e], q, d)
    BY <1>0, <2>4, <2>5, <2>6, FollowAppend
  <2>8. /\ writes'[e] = {} => Total(Other(e)) = 2 * d
        /\ \A w \in writes'[e] : Total(Other(e)) = 2 * d + w.written
    <3>1. CASE isWriting[e]
      <4>1. writes'[e] = writes[e]
        BY <2>2, <3>1 DEF RunSend, Enqueue
      <4>2. QED
        BY <2>1, <4>1 DEF WritesFrom
    <3>2. CASE ~ isWriting[e]
      <4>1. writes[e] = {}
        BY <1>0, <3>2 DEF WritingAt
      <4>2. writes'[e] = {Begun(Head(q))}
        BY <1>0, <2>2, <2>3, <3>2, <4>1 DEF RunSend, Enqueue, doWrite, TypeOK
      <4>3. Begun(Head(q)).written = 0
        BY DEF Begun
      <4>4. Total(Other(e)) = 2 * d + 0
        BY <2>1, <4>1 DEF WritesFrom
      <4>5. QED
        BY <4>2, <4>3, <4>4
    <3>3. QED
      BY <3>1, <3>2
  <2> HIDE DEF q, m
  <2>9. WritesFrom(e, d)'
    BY <1>1, <1>2, <2>2, <2>5, <2>6, <2>7, <2>8, Ends DEF WritesFrom
  <2>10. QED
    BY <2>9
<1>6. QED
  BY <1>3, <1>4, <1>5, Ends DEF OrderInv

\* The kernel takes the next piece of the message at the front of the queue.
LEMMA WriteSomeOrder ==
    ASSUME WriteInv, OrderInv, NEW e \in End, WriteSome(e)
    PROVE  OrderInv'
<1>a. PICK o \in End : o = Other(e)
  BY Ends
<1>0. TypeOK /\ WritingAt(e) /\ o \in End /\ o # e /\ Other(o) = e
      /\ writes[e] \subseteq Write /\ stream[o] \in Seq(Piece) /\ writeQueue[e] \in Seq(Message)
      /\ Taken(o) \in Nat
  BY <1>a, Ends, EndTypes DEF WriteInv, TypeOK
<1>1. PICK w \in writes[e] :
          /\ ~ Complete(w)
          /\ stream' = [stream EXCEPT ![o] = Append(@, Pieces(w.msg)[w.written + 1])]
          /\ writes' = [writes EXCEPT ![e] = (@ \ {w}) \cup {[w EXCEPT !.written = @ + 1]}]
  BY <1>a DEF WriteSome
<1>2. ~ closed[e] /\ ~ SocketGone(o) /\ UNCHANGED <<sent, handled, posted, writeQueue, closed, reading>>
      /\ (\A x \in End : SocketGone(x)' <=> SocketGone(x)) /\ (\A x \in End : Taken(x)' = Taken(x))
  BY <1>a DEF WriteSome, SocketGone, Taken
<1>3. w \in Write /\ w.msg \in Message /\ w.written \in {0, 1}
  BY <1>0, <1>1 DEF Write, Complete
<1>4. writes[e] = {w} /\ writeQueue[e] # << >> /\ w.msg = writeQueue[e][1]
  BY <1>0, <1>1 DEF WritingAt
<1>5. PICK d \in Nat : WritesFrom(e, d)
  BY <1>2, <1>a DEF OrderInv, WritesInOrder
<1>6. Genuine(sent[e], w.msg) /\ w.msg.n = d + 1
  <2>1. 1 \in 1..Len(writeQueue[e])
    BY <1>0, <1>4
  <2>2. QED
    BY <1>4, <1>5, <2>1 DEF WritesFrom, Follow
<1>7. Taken(o) + Len(stream[o]) = 2 * d + w.written
  BY <1>4, <1>5, <1>a DEF WritesFrom, Total
<1> DEFINE p == Pieces(w.msg)[w.written + 1]
<1>8. p \in Piece /\ p.msg = w.msg /\ Place(p) = 2 * d + w.written + 1
  <2>1. CASE w.written = 0
    BY <1>3, <1>6, <2>1, PiecesType DEF Place
  <2>2. CASE w.written = 1
    BY <1>3, <1>6, <2>2, PiecesType DEF Place
  <2>3. QED
    BY <1>3, <2>1, <2>2
<1>9. stream'[o] = Append(stream[o], p) /\ stream'[e] = stream[e]
  BY <1>0, <1>1 DEF TypeOK
<1> HIDE DEF p
<1>10. /\ Len(stream'[o]) = Len(stream[o]) + 1 /\ stream'[o][Len(stream[o]) + 1] = p
       /\ Len(stream[o]) \in Nat
       /\ \A j \in 1..Len(stream[o]) : stream'[o][j] = stream[o][j]
  BY <1>0, <1>8, <1>9
<1>11. ReadingAt(o)'
  <2>1. HandledInOrder(o)' /\ ReadsNext(o)'
    BY <1>0, <1>2 DEF OrderInv, ReadingAt, HandledInOrder, ReadsNext
  <2>2. ASSUME NEW j \in 1..Len(stream'[o])
        PROVE  Genuine(sent[e], stream'[o][j].msg) /\ Place(stream'[o][j]) = Taken(o) + j
    <3>1. CASE j \in 1..Len(stream[o])
      BY <1>0, <1>10, <3>1 DEF OrderInv, ReadingAt, StreamInOrder
    <3>2. CASE j = Len(stream[o]) + 1
      BY <1>0, <1>3, <1>6, <1>7, <1>8, <1>10, <3>2
    <3>3. QED
      BY <1>10, <3>1, <3>2
  <2>3. StreamInOrder(o)'
    BY <1>0, <1>2, <2>2 DEF StreamInOrder
  <2>4. QED
    BY <2>1, <2>3 DEF ReadingAt
<1>12. ReadingAt(e)'
  BY <1>2, <1>9, ReadingSame DEF OrderInv
<1>13. WritesInOrder(e)'
  <2>1. writes'[e] = {[w EXCEPT !.written = @ + 1]} /\ [w EXCEPT !.written = @ + 1].written = w.written + 1
    BY <1>0, <1>1, <1>3, <1>4 DEF TypeOK, Write
  <2>2. Total(o)' = 2 * d + (w.written + 1)
    <3>1. Taken(o)' = Taken(o)
      BY <1>2
    <3>2. Total(o)' = Taken(o) + (Len(stream[o]) + 1)
      BY <1>10, <3>1 DEF Total
    <3>3. Taken(o) \in Nat /\ Len(stream[o]) \in Nat /\ w.written \in Nat
      BY <1>0, <1>3, <1>10
    <3>4. QED
      BY <1>7, <3>2, <3>3
  <2>3. WritesFrom(e, d)'
    BY <1>2, <1>5, <1>a, <2>1, <2>2 DEF WritesFrom
  <2>4. QED
    BY <2>3 DEF WritesInOrder
<1>14. WritesInOrder(o)'
  <2>1. Total(e)' = Total(e) /\ writes'[o] = writes[o]
    BY <1>0, <1>1, <1>2, <1>9 DEF Total, TypeOK
  <2>2. QED
    BY <1>0, <1>2, <2>1, WritesSame DEF OrderInv
<1>15. QED
  BY <1>0, <1>11, <1>12, <1>13, <1>14, <1>a, Ends DEF OrderInv

\* The handler of a write takes its message off the queue and begins the next.
LEMMA WriteDoneOrder ==
    ASSUME WriteInv, OrderInv, NEW e \in End, WriteDone(e)
    PROVE  OrderInv'
<1> DEFINE q == Tail(writeQueue[e])
<1>0. TypeOK /\ WritingAt(e) /\ writes[e] \subseteq Write /\ writeQueue[e] \in Seq(Message)
      /\ sent[e] \in Seq(Message)
  BY DEF WriteInv, TypeOK
<1>1. PICK w \in writes[e] : Complete(w) /\ doWrite(e, q, writes[e] \ {w})
  BY DEF WriteDone
<1>2. writes[e] = {w} /\ writeQueue[e] # << >>
  BY <1>0, <1>1 DEF WritingAt
<1>3. q \in Seq(Message) /\ Len(writeQueue[e]) = Len(q) + 1 /\ Len(q) \in Nat
  BY <1>0, <1>2
<1>4. UNCHANGED <<sent, handled, posted, closed, stream, reading>>
      /\ (\A x \in End : SocketGone(x)' <=> SocketGone(x)) /\ (\A x \in End : Total(x)' = Total(x))
  BY DEF WriteDone, SocketGone, Total, Taken
<1>5. \A o \in End : ReadingAt(o)'
  BY <1>4, Ends, ReadingSame DEF OrderInv
<1>6. WritesInOrder(Other(e))'
  <2>1. Other(e) \in End /\ Other(e) # e
    BY Ends
  <2>2. writeQueue'[Other(e)] = writeQueue[Other(e)] /\ writes'[Other(e)] = writes[Other(e)]
    BY <1>0, <1>1, <2>1 DEF doWrite, TypeOK
  <2>3. QED
    BY <1>4, <2>1, <2>2, Ends, WritesSame DEF OrderInv
<1>7. WritesInOrder(e)'
  <2> SUFFICES ASSUME ~ closed'[e], ~ SocketGone(Other(e))'
               PROVE  \E d \in Nat : WritesFrom(e, d)'
    BY DEF WritesInOrder
  <2>1. PICK d \in Nat : WritesFrom(e, d)
    BY <1>4, Ends DEF WritesInOrder, OrderInv
  <2>2. Total(Other(e)) = 2 * (d + 1)
    <3>1. Total(Other(e)) = 2 * d + w.written /\ w.written = 2
      BY <1>1, <2>1 DEF WritesFrom, Complete
    <3>2. QED
      BY <3>1
  <2>3. writeQueue'[e] = q /\ writes'[e] = IF q = << >> THEN {} ELSE {Begun(Head(q))}
    BY <1>0, <1>1, <1>2, <1>4 DEF doWrite, TypeOK
  <2>4. q # << >> => Begun(Head(q)).written = 0
    BY DEF Begun
  <2>5. Follow(sent[e], q, d + 1)
    BY <1>0, <1>2, <2>1, FollowTail DEF WritesFrom
  <2>6. FollowUpToClose(sent[e], posted[e], (d + 1) + Len(q))
    <3> HIDE DEF q
    <3>1. d + Len(writeQueue[e]) = (d + 1) + Len(q)
      BY <1>3
    <3>2. QED
      BY <2>1, <3>1 DEF WritesFrom
  <2> HIDE DEF q
  <2>7. /\ writes'[e] = {} => Total(Other(e)) = 2 * (d + 1)
        /\ \A x \in writes'[e] : Total(Other(e)) = 2 * (d + 1) + x.written
    BY <2>2, <2>3, <2>4
  <2>8. WritesFrom(e, d + 1)'
    BY <1>4, <2>3, <2>5, <2>6, <2>7, Ends DEF WritesFrom
  <2>9. QED
    BY <2>8
<1>8. QED
  BY <1>5, <1>6, <1>7, Ends DEF OrderInv

\* async_read takes the piece that the read loop waits for.
LEMMA ReceiveOrder ==
    ASSUME WriteInv, OrderInv, NEW e \in End, Receive(e)
    PROVE  OrderInv'
<1>a. PICK o \in End : o = Other(e)
  BY Ends
<1> DEFINE p == Head(stream[e])
           r == reading[e]
<1>0. TypeOK /\ o \in End /\ o # e /\ Other(o) = e /\ ReadingAt(e)
      /\ stream[e] \in Seq(Piece) /\ stream[e] # << >> /\ p \in Piece /\ r \in Reading
      /\ handled[e] \in Seq(Message)
  <2>1. o \in End /\ o # e /\ Other(o) = e
    BY <1>a, Ends
  <2>2. TypeOK /\ ReadingAt(e) /\ stream[e] # << >>
    BY DEF WriteInv, OrderInv, Receive
  <2>3. stream[e] \in Seq(Piece) /\ r \in Reading /\ handled[e] \in Seq(Message)
    BY <2>2 DEF TypeOK
  <2>4. p \in Piece
    BY <2>2, <2>3
  <2> QED
    BY <2>1, <2>2, <2>3, <2>4
<1>1. r.at \in {"length", "body"} /\ ~ closed[e] /\ ~ SocketGone(e)
  BY DEF Receive, SocketGone
<1>2. UNCHANGED <<sent, handled, posted, writeQueue, closed, writes>>
      /\ (\A x \in End : SocketGone(x)' <=> SocketGone(x))
  BY DEF Receive, SocketGone
<1>3. /\ stream'[e] = Tail(stream[e]) /\ stream'[o] = stream[o] /\ reading'[o] = reading[o]
      /\ r.at = "length" => reading'[e] = [at |-> "gotLength", length |-> p]
      /\ r.at = "body" => reading'[e] = [at |-> "gotBody", length |-> r.length, body |-> p]
  BY <1>0, <1>1 DEF Receive, TypeOK
<1>4. /\ stream[e][1] = p /\ Len(stream[e]) \in Nat \ {0}
      /\ Len(stream'[e]) = Len(stream[e]) - 1
      /\ \A j \in 1..Len(stream'[e]) : stream'[e][j] = stream[e][j + 1] /\ j + 1 \in 1..Len(stream[e])
  BY <1>0, <1>3
<1>5. Taken(e)' = Taken(e) + 1 /\ Taken(e) \in Nat
  <2>1. Len(handled[e]) \in Nat /\ handled'[e] = handled[e]
    BY <1>0, <1>2
  <2>2. CASE r.at = "length"
    <3>1. reading'[e].at = "gotLength"
      BY <1>3, <2>2
    <3>2. QED
      BY <2>1, <2>2, <3>1 DEF Taken
  <2>3. CASE r.at = "body"
    <3>1. reading'[e].at = "gotBody"
      BY <1>3, <2>3
    <3>2. QED
      BY <2>1, <2>3, <3>1 DEF Taken
  <2>4. QED
    BY <1>1, <2>2, <2>3
<1>6. Genuine(sent[o], p.msg) /\ Place(p) = Taken(e) + 1
  BY <1>0, <1>4, <1>a DEF ReadingAt, StreamInOrder
<1>7. StreamInOrder(e)'
  <2>1. ASSUME NEW j \in 1..Len(stream'[e])
        PROVE  Genuine(sent[o], stream'[e][j].msg) /\ Place(stream'[e][j]) = Taken(e)' + j
    <3>1. Genuine(sent[o], stream[e][j + 1].msg) /\ Place(stream[e][j + 1]) = Taken(e) + (j + 1)
      BY <1>0, <1>4, <1>a DEF ReadingAt, StreamInOrder
    <3>2. QED
      BY <1>4, <1>5, <3>1
  <2>2. QED
    BY <1>1, <1>2, <1>a, <2>1 DEF StreamInOrder
<1>8. HandledInOrder(e)'
  BY <1>0, <1>2 DEF ReadingAt, HandledInOrder
<1>9. ReadsNext(e)'
  <2>0. p.msg.n \in Nat /\ p.part \in {"length", "body"} /\ Len(handled[e]) \in Nat
    BY <1>0 DEF Piece, Message
  <2> HIDE DEF p
  <2>1. CASE r.at = "length"
    <3>1. p.part = "length" /\ p.msg.n = Len(handled[e]) + 1
      <4>1. Taken(e) = 2 * Len(handled[e])
        BY <2>0, <2>1 DEF Taken
      <4>2. QED
        BY <1>6, <2>0, <4>1 DEF Place
    <3>2. QED
      BY <1>1, <1>2, <1>3, <1>6, <1>a, <2>1, <3>1 DEF ReadsNext
  <2>2. CASE r.at = "body"
    <3>1. /\ Genuine(sent[o], r.length.msg) /\ r.length.part = "length"
          /\ r.length.msg.n = Len(handled[e]) + 1
      BY <1>0, <1>a, <2>2 DEF ReadingAt, ReadsNext
    <3>2. p.part = "body" /\ p.msg.n = Len(handled[e]) + 1
      <4>1. Taken(e) = 2 * Len(handled[e]) + 1
        BY <2>0, <2>2 DEF Taken
      <4>2. QED
        BY <1>6, <2>0, <4>1 DEF Place
    <3>3. p.msg = r.length.msg
      BY <1>6, <3>1, <3>2 DEF Genuine
    <3>4. QED
      BY <1>1, <1>2, <1>3, <1>a, <2>2, <3>1, <3>2, <3>3 DEF ReadsNext
  <2>3. QED
    BY <1>1, <2>1, <2>2
<1>10. ReadingAt(o)'
  BY <1>0, <1>2, <1>3, ReadingSame DEF OrderInv
<1>11. WritesInOrder(e)'
  <2>1. Total(o)' = Total(o)
    BY <1>2, <1>3 DEF Total, Taken
  <2>2. QED
    BY <1>2, <1>a, <2>1, WritesSame DEF OrderInv
<1>12. WritesInOrder(o)'
  <2>1. Total(e)' = Total(e)
    BY <1>4, <1>5 DEF Total
  <2>2. QED
    BY <1>0, <1>2, <2>1, WritesSame DEF OrderInv
<1>13. QED
  BY <1>7, <1>8, <1>9, <1>10, <1>11, <1>12, <1>a, Ends DEF OrderInv, ReadingAt

\* A handler of the read loop reads on as r, with the same number of pieces taken
\* unless the session is closed.
LEMMA ReadOnOrder ==
    ASSUME TypeOK, OrderInv, NEW e \in End, NEW r, ReadOn(e, r),
           UNCHANGED <<sent, posted, writeQueue, life>>,
           \A o \in End : o # e => handled'[o] = handled[o],
           HandledInOrder(e)', ReadsNext(e)',
           ~ closed[e] => Taken(e)' = Taken(e)
    PROVE  OrderInv'
<1>1. UNCHANGED <<closed, writes, stream>>
      /\ (\A x \in End : SocketGone(x)' <=> SocketGone(x))
      /\ (\A x \in End : x # e => reading'[x] = reading[x])
  BY DEF ReadOn, SocketGone, TypeOK
<1>2. StreamInOrder(e) /\ ReadingAt(e)
  BY DEF OrderInv, ReadingAt
<1>3. StreamInOrder(e)'
  <2>1. CASE closed[e]
    <3>1. stream'[e] = << >>
      BY <1>1, <1>2, <2>1 DEF StreamInOrder, SocketGone
    <3>2. QED
      BY <3>1 DEF StreamInOrder
  <2>2. CASE ~ closed[e]
    BY <1>1, <1>2, <2>2 DEF StreamInOrder
  <2>3. QED
    BY <2>1, <2>2
<1>4. ASSUME NEW o \in End, o # e
      PROVE  ReadingAt(o)' /\ WritesInOrder(o)'
  <2>1. ReadingAt(o)'
    BY <1>1, <1>4, ReadingSame, Ends DEF OrderInv
  <2>2. Other(o) = e
    BY <1>4, Ends
  <2>3. ~ SocketGone(e) => Total(e)' = Total(e)
    BY <1>1 DEF Total, SocketGone
  <2>4. WritesInOrder(o)'
    BY <1>1, <2>2, <2>3, WritesSame, Ends DEF OrderInv
  <2>5. QED
    BY <2>1, <2>4
<1>5. WritesInOrder(e)'
  <2>1. Other(e) \in End /\ Other(e) # e
    BY Ends
  <2>2. Total(Other(e))' = Total(Other(e))
    BY <1>1, <2>1 DEF Total, Taken
  <2>3. QED
    BY <1>1, <2>2, WritesSame, Ends DEF OrderInv
<1>6. QED
  BY <1>3, <1>4, <1>5 DEF OrderInv, ReadingAt

\* The handler of readHeader keeps the length for the body that comes next.
LEMMA LengthHandlerOrder ==
    ASSUME WriteInv, OrderInv, NEW e \in End, LengthHandler(e)
    PROVE  OrderInv'
<1> DEFINE r == [reading[e] EXCEPT !.at = "body"]
<1>0. TypeOK /\ reading[e] \in Reading /\ reading[e].at = "gotLength" /\ ReadingAt(e)
  BY DEF WriteInv, TypeOK, LengthHandler, OrderInv
<1>1. UNCHANGED <<sent, handled, posted, writeQueue, life>>
  BY DEF LengthHandler
<1>2. CASE disconnect(e, Off)
  BY <1>0, <1>1, <1>2, disconnectOrder
<1>3. CASE ReadOn(e, r)
  <2>1. r.at = "body" /\ r.length = reading[e].length
    BY <1>0, ReadingBuilt
  <2>2. reading'[e] = (IF closed[e] THEN Off ELSE r) /\ closed'[e] = closed[e]
    BY <1>0, <1>3 DEF ReadOn, TypeOK
  <2> HIDE DEF r
  <2>3. HandledInOrder(e)'
    BY <1>0, <1>1 DEF ReadingAt, HandledInOrder
  <2>4. ReadsNext(e)'
    <3>1. CASE closed[e]
      BY <2>2, <3>1 DEF ReadsNext, Off
    <3>2. CASE ~ closed[e]
      BY <1>0, <1>1, <2>1, <2>2, <3>2 DEF ReadingAt, ReadsNext
    <3>3. QED
      BY <3>1, <3>2
  <2>5. ~ closed[e] => Taken(e)' = Taken(e)
    BY <1>0, <1>1, <2>1, <2>2 DEF Taken
  <2>6. QED
    BY <1>0, <1>1, <1>3, <2>3, <2>4, <2>5, ReadOnOrder
<1>4. QED
  BY <1>2, <1>3 DEF LengthHandler

\* The handler of readBody has the next message in front of it, whole.
LEMMA NextMessage ==
    ASSUME TypeOK, OrderInv, NEW e \in End, reading[e].at = "gotBody"
    PROVE  /\ Intact(reading[e])
           /\ Len(handled[e]) < Len(sent[Other(e)])
           /\ reading[e].length.msg = sent[Other(e)][Len(handled[e]) + 1]
<1> DEFINE r == reading[e]
           m == r.length.msg
<1>1. r \in Reading /\ r.length \in Piece /\ r.body \in Piece
  BY ReadingFields DEF TypeOK
<1>2. /\ Genuine(sent[Other(e)], m) /\ r.length.part = "length" /\ m.n = Len(handled[e]) + 1
      /\ r.body.msg = m /\ r.body.part = "body"
  BY DEF OrderInv, ReadingAt, ReadsNext
<1>3. r.length = [part |-> "length", msg |-> m] /\ r.body = [part |-> "body", msg |-> m]
  BY <1>1, <1>2 DEF Piece
<1>4. Intact(r)
  BY <1>3 DEF Intact, Pieces
<1>5. Len(handled[e]) \in Nat /\ Len(sent[Other(e)]) \in Nat
  BY Ends DEF TypeOK
<1>6. QED
  BY <1>2, <1>4, <1>5 DEF Genuine

\* The handler of readBody handles that message and waits for the next length.
LEMMA BodyHandlerOrder ==
    ASSUME WriteInv, OrderInv, NEW e \in End, BodyHandler(e)
    PROVE  OrderInv'
<1> DEFINE m == reading[e].length.msg
<1>0. TypeOK /\ reading[e].at = "gotBody" /\ ReadingAt(e) /\ handled[e] \in Seq(Message)
      /\ Len(handled[e]) \in Nat /\ Len(sent[Other(e)]) \in Nat
  BY Ends DEF WriteInv, TypeOK, BodyHandler, OrderInv
<1>1. UNCHANGED <<sent, posted, writeQueue, life>> /\ ReadOn(e, [at |-> "length"])
  BY DEF BodyHandler
<1>2. m \in Message
  BY <1>0, ReadingFields DEF TypeOK, Piece
<1>3. Intact(reading[e]) /\ Len(handled[e]) < Len(sent[Other(e)])
      /\ m = sent[Other(e)][Len(handled[e]) + 1]
  BY <1>0, NextMessage
<1>4. /\ handled'[e] = Append(handled[e], m)
      /\ \A o \in End : o # e => handled'[o] = handled[o]
      /\ reading'[e] = (IF closed[e] THEN Off ELSE [at |-> "length"])
      /\ closed'[e] = closed[e]
  BY <1>0, <1>3 DEF BodyHandler, ReadOn, TypeOK
<1> HIDE DEF m
<1>5. /\ Len(handled'[e]) = Len(handled[e]) + 1 /\ handled'[e][Len(handled[e]) + 1] = m
      /\ \A i \in 1..Len(handled[e]) : handled'[e][i] = handled[e][i]
  BY <1>0, <1>2, <1>4
<1>6. HandledInOrder(e)'
  <2>1. ASSUME NEW i \in 1..Len(handled'[e])
        PROVE  handled'[e][i] = sent[Other(e)][i]
    <3>1. CASE i \in 1..Len(handled[e])
      BY <1>0, <1>5, <3>1 DEF ReadingAt, HandledInOrder
    <3>2. CASE i = Len(handled[e]) + 1
      BY <1>3, <1>5, <3>2
    <3>3. QED
      BY <1>0, <1>5, <3>1, <3>2
  <2>2. QED
    BY <1>0, <1>1, <1>3, <1>5, <2>1 DEF HandledInOrder
<1>7. ReadsNext(e)'
  <2>1. CASE closed[e]
    BY <1>4, <2>1 DEF ReadsNext, Off
  <2>2. CASE ~ closed[e]
    BY <1>4, <2>2 DEF ReadsNext
  <2>3. QED
    BY <2>1, <2>2
<1>8. ~ closed[e] => Taken(e)' = Taken(e)
  BY <1>0, <1>4, <1>5 DEF Taken
<1>9. QED
  BY <1>0, <1>1, <1>4, <1>6, <1>7, <1>8, ReadOnOrder

\* NetworkManager::stop posts the closure of close() behind the others.
LEMMA StopPeersOrder ==
    ASSUME WriteInv, OrderInv, NEW e \in End, StopPeers(e)
    PROVE  OrderInv'
<1>0. TypeOK /\ posted[e] \in Seq(Message \cup {Close}) /\ writeQueue[e] \in Seq(Message)
      /\ sent[e] \in Seq(Message)
  BY DEF WriteInv, TypeOK
<1>1. UNCHANGED <<sent, handled, writeQueue, closed, writes, stream, reading>>
      /\ (\A x \in End : SocketGone(x)' <=> SocketGone(x)) /\ (\A x \in End : Total(x)' = Total(x))
  BY <1>0 DEF StopPeers, SocketGone, Total, Taken, TypeOK
<1>2. /\ posted'[e] = (IF listed[e] THEN Append(posted[e], Close) ELSE posted[e])
      /\ \A o \in End : o # e => posted'[o] = posted[o]
  BY <1>0 DEF StopPeers, TypeOK
<1>3. \A o \in End : ReadingAt(o)'
  BY <1>1, Ends, ReadingSame DEF OrderInv
<1>4. \A o \in End : o # e => WritesInOrder(o)'
  BY <1>1, <1>2, Ends, WritesSame DEF OrderInv
<1>5. WritesInOrder(e)'
  <2> SUFFICES ASSUME ~ closed'[e], ~ SocketGone(Other(e))'
               PROVE  \E d \in Nat : WritesFrom(e, d)'
    BY DEF WritesInOrder
  <2>1. PICK d \in Nat : WritesFrom(e, d)
    BY <1>1, Ends DEF WritesInOrder, OrderInv
  <2>2. d + Len(writeQueue[e]) \in Nat
    BY <1>0
  <2>3. FollowUpToClose(sent[e], posted'[e], d + Len(writeQueue[e]))
    BY <1>0, <1>2, <2>1, <2>2, ClosuresClose DEF WritesFrom
  <2>4. WritesFrom(e, d)'
    BY <1>1, <2>1, <2>3, Ends DEF WritesFrom
  <2>5. QED
    BY <2>4
<1>6. QED
  BY <1>3, <1>4, <1>5 DEF OrderInv

\* The destruction of the io_context closes the socket.
LEMMA DestroyOrder ==
    ASSUME WriteInv, OrderInv, NEW e \in End, Destroy(e)
    PROVE  OrderInv'
<1>0. TypeOK
  BY DEF WriteInv
<1>1. /\ UNCHANGED <<sent, handled, posted, writeQueue, closed, writes, reading>>
      /\ SocketGone(e)' /\ stream'[e] = << >>
      /\ \A o \in End : o # e => (SocketGone(o)' <=> SocketGone(o)) /\ stream'[o] = stream[o]
  BY <1>0 DEF Destroy, SocketGone, TypeOK
<1>2. ReadingAt(e)'
  BY <1>1 DEF OrderInv, ReadingAt, HandledInOrder, ReadsNext, StreamInOrder
<1>3. ASSUME NEW o \in End, o # e
      PROVE  ReadingAt(o)' /\ WritesInOrder(o)'
  <2>1. ReadingAt(o)'
    BY <1>1, <1>3, ReadingSame DEF OrderInv
  <2>2. Other(o) = e
    BY <1>3, Ends
  <2>3. WritesInOrder(o)'
    BY <1>1, <2>2 DEF WritesInOrder
  <2>4. QED
    BY <2>1, <2>3
<1>4. WritesInOrder(e)'
  <2>1. Other(e) \in End /\ Other(e) # e
    BY Ends
  <2>2. Total(Other(e))' = Total(Other(e))
    BY <1>1, <2>1 DEF Total, Taken
  <2>3. QED
    BY <1>1, <2>1, <2>2, WritesSame DEF OrderInv
<1>5. QED
  BY <1>2, <1>3, <1>4 DEF OrderInv

\* Every step keeps the order.
LEMMA OrderInvKept ==
    ASSUME WriteInv, OrderInv, Next
    PROVE  OrderInv'
<1>1. CASE Reset
  BY <1>1, OrderSame DEF Reset, SocketGone
<1>2. ASSUME NEW e \in End, RunClose(e)
      PROVE  OrderInv'
  <2>1. \A o \in End : o # e => posted'[o] = posted[o]
    BY <1>2 DEF RunClose, WriteInv, TypeOK
  <2>2. QED
    BY <1>2, <2>1, disconnectOrder DEF RunClose, WriteInv
<1>3. ASSUME NEW e \in End, SocketError(e)
      PROVE  OrderInv'
  BY <1>3, disconnectOrder DEF SocketError, WriteInv
<1>4. ASSUME NEW e \in End, StopIo(e)
      PROVE  OrderInv'
  <2>1. \A o \in End : SocketGone(o)' <=> SocketGone(o)
    BY <1>4 DEF StopIo, SocketGone, WriteInv, TypeOK
  <2>2. QED
    BY <1>4, <2>1, OrderSame DEF StopIo
<1>5. QED
  BY <1>1, <1>2, <1>3, <1>4, SendOrder, RunSendOrder, WriteSomeOrder, WriteDoneOrder,
     ReceiveOrder, LengthHandlerOrder, BodyHandlerOrder, StopPeersOrder, DestroyOrder DEF Next

-----------------------------------------------------------------------------
(***************************************************************************)
(* The theorems                                                            *)
(***************************************************************************)

\* The inductive invariant, from the constructor of the sessions on.
LEMMA SessionInvariant == Spec => [](WriteInv /\ OrderInv)
<1>1. Init => WriteInv /\ OrderInv
  <2> SUFFICES ASSUME Init PROVE WriteInv /\ OrderInv
    OBVIOUS
  <2>1. TypeOK
    <3>1. << >> \in Seq(Message) /\ << >> \in Seq(Message \cup {Close}) /\ << >> \in Seq(Piece)
      OBVIOUS
    <3>2. /\ sent \in [End -> Seq(Message)] /\ handled \in [End -> Seq(Message)]
          /\ posted \in [End -> Seq(Message \cup {Close})]
          /\ writeQueue \in [End -> Seq(Message)] /\ stream \in [End -> Seq(Piece)]
          /\ writes \in [End -> SUBSET Write] /\ reading \in [End -> Reading]
      BY <3>1, ReadingBuilt DEF Init
    <3>3. /\ isWriting \in [End -> BOOLEAN] /\ closed \in [End -> BOOLEAN]
          /\ listed \in [End -> BOOLEAN] /\ reset \in BOOLEAN
          /\ life \in [End -> {"running", "closing", "stopped", "gone"}]
      BY DEF Init
    <3>4. QED
      BY <3>2, <3>3 DEF TypeOK
  <2>2. ASSUME NEW e \in End
        PROVE  WritingAt(e) /\ ReadingAt(e) /\ WritesInOrder(e)
    <3>1. /\ sent[e] = << >> /\ sent[Other(e)] = << >> /\ handled[e] = << >>
          /\ handled[Other(e)] = << >> /\ posted[e] = << >> /\ writeQueue[e] = << >>
          /\ writes[e] = {} /\ stream[e] = << >> /\ stream[Other(e)] = << >>
          /\ reading[e].at = "length" /\ reading[Other(e)].at = "length"
          /\ ~ closed[e]
          /\ ~ isWriting[e]
      BY Ends DEF Init
    <3>2. WritingAt(e)
      BY <3>1 DEF WritingAt
    <3>3. ReadingAt(e)
      BY <3>1 DEF ReadingAt, HandledInOrder, ReadsNext, StreamInOrder
    <3>4. Total(Other(e)) = 2 * 0
      BY <3>1 DEF Total, Taken
    <3>5. WritesFrom(e, 0)
      BY <3>1, <3>4 DEF WritesFrom, Follow, FollowUpToClose
    <3>6. QED
      BY <3>2, <3>3, <3>5 DEF WritesInOrder
  <2>3. QED
    BY <2>1, <2>2 DEF WriteInv, OrderInv
<1>2. (WriteInv /\ OrderInv) /\ [Next]_vars => (WriteInv /\ OrderInv)'
  <2> SUFFICES ASSUME WriteInv, OrderInv, [Next]_vars PROVE WriteInv' /\ OrderInv'
    OBVIOUS
  <2>1. CASE UNCHANGED vars
    <3>1. WriteInv'
      BY <2>1 DEF vars, WriteInv, TypeOK, WritingAt
    <3>2. OrderInv'
      BY <2>1, OrderSame DEF vars, SocketGone
    <3>3. QED
      BY <3>1, <3>2
  <2>2. QED
    BY <2>1, WriteInvKept, OrderInvKept
<1>3. QED
  BY <1>1, <1>2, PTL DEF Spec

\* Queues, closures, writes and reads hold messages and pieces throughout.
THEOREM SessionTyped == Spec => []TypeOK
BY SessionInvariant, PTL DEF WriteInv

\* The buffer of an async_write stays at the front of writeQueue_ until its
\* handler has run, and there is never a second write.
THEOREM WriteBufferStays == Spec => []WriteBufferStable
BY SessionInvariant, WriteInvImplies, PTL

\* A queue of an open session is being written.
THEOREM QueueAlwaysMoves == Spec => []QueueMoves
BY SessionInvariant, WriteInvImplies, PTL

-----------------------------------------------------------------------------
(***************************************************************************)
(* The refinement of Channel                                               *)
(***************************************************************************)

\* e will call onMessage_ no more.
IsCut(e) == life[e] \in {"stopped", "gone"} \/ (closed[e] /\ reading[e].at # "gotBody")

\* The ends that are cut off are those that CutOff names.
LEMMA CutOffIs == CutOff = {e \in End : IsCut(e)}
BY DEF CutOff, IsCut

\* A step that handles nothing, sends nothing and cuts off at most e.
LEMMA CutsAtMost ==
    ASSUME NEW e \in End, UNCHANGED <<sent, handled>>,
           \A o \in End : o # e => (IsCut(o)' <=> IsCut(o)),
           IsCut(e) => IsCut(e)'
    PROVE  [Chan!Next]_(Chan!channelVars)
<1>1. CutOff = {o \in End : IsCut(o)} /\ CutOff' = {o \in End : IsCut(o)'}
  BY CutOffIs DEF CutOff, IsCut
<1>2. CASE IsCut(e)' <=> IsCut(e)
  <2>1. CutOff' = CutOff
    BY <1>1, <1>2
  <2>2. QED
    BY <2>1 DEF Chan!channelVars
<1>3. CASE IsCut(e)' /\ ~ IsCut(e)
  <2>1. e \notin CutOff /\ CutOff' = CutOff \cup {e}
    BY <1>1, <1>3
  <2>2. Chan!Cut(e)
    BY <2>1 DEF Chan!Cut
  <2>3. QED
    BY <2>2 DEF Chan!Next, Chan!End, End
<1>4. QED
  BY <1>2, <1>3

\* disconnect() cuts the end off, unless a body waits for its handler.
LEMMA disconnectCuts ==
    ASSUME TypeOK, NEW e \in End, NEW r, r = Off \/ r = Aborted(reading[e]),
           r = Off => reading[e].at # "gotBody",
           disconnect(e, r), UNCHANGED <<sent, handled, life>>
    PROVE  [Chan!Next]_(Chan!channelVars)
<1>1. closed'[e] /\ reading'[e] = r
  BY DEF disconnect, TypeOK
<1>2. \A o \in End : o # e => (IsCut(o)' <=> IsCut(o))
  BY DEF disconnect, TypeOK, IsCut
<1>3. reading[e].at # "gotBody" => r.at # "gotBody"
  BY DEF Off, Aborted
<1>4. IsCut(e) => IsCut(e)'
  BY <1>1, <1>3 DEF IsCut
<1>5. QED
  BY <1>2, <1>4, CutsAtMost

\* Every step of the two sessions is a step of the channel or none.
LEMMA ChannelStep ==
    ASSUME WriteInv, OrderInv, [Next]_vars
    PROVE  [Chan!Next]_(Chan!channelVars)
<1> USE DEF WriteInv
<1>1. ASSUME NEW e \in End, NEW k \in Kinds, Send(e, k)
      PROVE  [Chan!Next]_(Chan!channelVars)
  <2> DEFINE m == [n |-> Len(sent[e]) + 1, kind |-> k]
  <2>0. sent[e] \in Seq(Message) /\ Len(sent[e]) \in Nat
    BY DEF TypeOK
  <2>1. m \in Message
    BY <2>0 DEF Message
  <2>2. sent'[e] = Append(sent[e], m) /\ \A o \in End \ {e} : sent'[o] = sent[o]
    BY <1>1 DEF Send, TypeOK
  <2>3. UNCHANGED <<handled, CutOff>>
    BY <1>1 DEF Send, CutOff
  <2> HIDE DEF m
  <2>4. Len(sent'[e]) = Len(sent[e]) + 1 /\ SubSeq(sent'[e], 1, Len(sent[e])) = sent[e]
    BY <2>0, <2>1, <2>2
  <2>5. Chan!Send(e)
    BY <2>2, <2>3, <2>4 DEF Chan!Send, Chan!End, End
  <2>6. QED
    BY <2>5 DEF Chan!Next, Chan!End, End
<1>2. ASSUME NEW e \in End, BodyHandler(e)
      PROVE  [Chan!Next]_(Chan!channelVars)
  <2>1. reading[e].at = "gotBody" /\ Running(e) /\ UNCHANGED <<sent, life, closed>>
    BY <1>2 DEF BodyHandler, ReadOn
  <2>2. Intact(reading[e]) /\ Len(handled[e]) < Len(sent[Other(e)])
        /\ reading[e].length.msg = sent[Other(e)][Len(handled[e]) + 1]
    BY <2>1, NextMessage
  <2>3. handled' = [handled EXCEPT ![e] = Append(@, sent[Other(e)][Len(@) + 1])]
    BY <1>2, <2>2 DEF BodyHandler, TypeOK
  <2>4. CutOff = {o \in End : IsCut(o)} /\ CutOff' = {o \in End : IsCut(o)'}
    BY CutOffIs DEF CutOff, IsCut
  <2>5. ~ IsCut(e) /\ \A o \in End : o # e => (IsCut(o)' <=> IsCut(o))
    BY <1>2, <2>1 DEF IsCut, Running, BodyHandler, ReadOn, TypeOK
  <2>6. e \notin CutOff /\ CutOff' \in {CutOff, CutOff \cup {e}}
    BY <2>4, <2>5
  <2>7. Chan!Other(e) = Other(e)
    BY DEF Chan!Other, Other, Chan!End, End
  <2>8. Chan!Handle(e)
    BY <2>1, <2>2, <2>3, <2>6, <2>7 DEF Chan!Handle
  <2>9. QED
    BY <2>8 DEF Chan!Next, Chan!End, End
<1>3. ASSUME NEW e \in End, RunClose(e) \/ SocketError(e)
      PROVE  [Chan!Next]_(Chan!channelVars)
  <2>1. /\ disconnect(e, Aborted(reading[e])) /\ UNCHANGED <<sent, handled, life>>
    BY <1>3 DEF RunClose, SocketError
  <2>2. Aborted(reading[e]) = Off => reading[e].at # "gotBody"
    BY DEF Aborted, Off
  <2>3. QED
    BY <2>1, <2>2, disconnectCuts
<1>4. ASSUME NEW e \in End, LengthHandler(e)
      PROVE  [Chan!Next]_(Chan!channelVars)
  <2>1. reading[e].at = "gotLength" /\ reading[e] \in Reading /\ UNCHANGED <<sent, handled, life>>
    BY <1>4 DEF LengthHandler, TypeOK
  <2>2. CASE disconnect(e, Off)
    BY <2>1, <2>2, disconnectCuts
  <2>3. CASE ReadOn(e, [reading[e] EXCEPT !.at = "body"])
    <3>1. closed' = closed /\ reading'[e].at # "gotBody"
          /\ \A o \in End : o # e => reading'[o] = reading[o]
      BY <2>1, <2>3, ReadingBuilt DEF ReadOn, Off, TypeOK
    <3>2. \A o \in End : IsCut(o)' <=> IsCut(o)
      BY <2>1, <3>1 DEF IsCut
    <3>3. QED
      BY <2>1, <3>2, CutsAtMost
  <2>4. QED
    BY <1>4, <2>2, <2>3 DEF LengthHandler
<1>5. ASSUME NEW e \in End, Receive(e)
      PROVE  [Chan!Next]_(Chan!channelVars)
  <2>1. /\ UNCHANGED <<sent, handled, closed, life>> /\ ~ closed[e]
        /\ \A o \in End : o # e => reading'[o] = reading[o]
    BY <1>5 DEF Receive, SocketGone, TypeOK
  <2>2. \A o \in End : IsCut(o)' <=> IsCut(o)
    BY <2>1 DEF IsCut
  <2>3. QED
    BY <2>1, <2>2, CutsAtMost
<1>6. ASSUME NEW e \in End, StopPeers(e) \/ StopIo(e) \/ Destroy(e)
      PROVE  [Chan!Next]_(Chan!channelVars)
  <2>1. UNCHANGED <<sent, handled, closed, reading>>
    BY <1>6 DEF StopPeers, StopIo, Destroy
  <2>2. \A o \in End : o # e => (IsCut(o)' <=> IsCut(o))
    BY <1>6, <2>1 DEF IsCut, StopPeers, StopIo, Destroy, TypeOK
  <2>3. IsCut(e) => IsCut(e)'
    BY <1>6, <2>1 DEF IsCut, StopPeers, StopIo, Destroy, TypeOK
  <2>4. QED
    BY <2>1, <2>2, <2>3, CutsAtMost
<1>7. ASSUME UNCHANGED <<sent, handled, closed, reading, life>>
      PROVE  [Chan!Next]_(Chan!channelVars)
  BY <1>7 DEF CutOff, Chan!channelVars
<1>8. ASSUME NEW e \in End, RunSend(e) \/ WriteSome(e) \/ WriteDone(e)
      PROVE  [Chan!Next]_(Chan!channelVars)
  BY <1>7, <1>8 DEF RunSend, WriteSome, WriteDone
<1>9. CASE Reset
  BY <1>7, <1>9 DEF Reset
<1>10. CASE UNCHANGED vars
  BY <1>7, <1>10 DEF vars
<1>11. QED
  BY <1>1, <1>2, <1>3, <1>4, <1>5, <1>6, <1>8, <1>9, <1>10 DEF Next

\* Two sessions, their queues and TCP together are an ordered channel: each end
\* handles the messages of the other in the order of the send() calls, each
\* once, and none before it was sent, whenever either end closes, is stopped or
\* is reset.
THEOREM SessionImplementsChannel == Spec => ImplementsChannel
<1>1. Init => Chan!Init
  <2> SUFFICES ASSUME Init PROVE Chan!Init
    OBVIOUS
  <2>1. CutOff = {}
    BY DEF Init, CutOff
  <2>2. QED
    BY <2>1 DEF Init, Chan!Init, Chan!End, End
<1>2. QED
  BY <1>1, SessionInvariant, ChannelStep, PTL DEF Spec, ImplementsChannel, Chan!Safety

=============================================================================
