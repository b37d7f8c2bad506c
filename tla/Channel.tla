------------------------------ MODULE Channel ------------------------------
(***************************************************************************)
(* What the rest of a node relies on when it uses a peer session: each end *)
(* handles the messages of the other in the order in which they were given *)
(* to send(), each once, until it is cut off; nobody waits for ever for a  *)
(* message that was sent, and no end stays while the other has gone.       *)
(***************************************************************************)
EXTENDS Naturals, Sequences

VARIABLES
    sent,      \* sent[e]: what end e has sent so far
    handled,   \* handled[e]: what end e has handled so far
    cut        \* the ends that handle nothing any more

channelVars == <<sent, handled, cut>>

End == {"dialler", "listener"}

Other(e) == CHOOSE o \in End : o # e

Init ==
    /\ sent = [e \in End |-> << >>]
    /\ handled = [e \in End |-> << >>]
    /\ cut = {}

\* Nothing that was sent is taken back.
Send(e) ==
    /\ Len(sent'[e]) = Len(sent[e]) + 1
    /\ SubSeq(sent'[e], 1, Len(sent[e])) = sent[e]
    /\ \A o \in End \ {e} : sent'[o] = sent[o]
    /\ UNCHANGED <<handled, cut>>

\* The next message in order; it may be the last one.
Handle(e) ==
    /\ e \notin cut
    /\ Len(handled[e]) < Len(sent[Other(e)])
    /\ handled' = [handled EXCEPT ![e] =
                      Append(@, sent[Other(e)][Len(@) + 1])]
    /\ cut' \in {cut, cut \cup {e}}
    /\ UNCHANGED sent

Cut(e) ==
    /\ e \notin cut
    /\ cut' = cut \cup {e}
    /\ UNCHANGED <<sent, handled>>

Next == \E e \in End : Send(e) \/ Handle(e) \/ Cut(e)

\* A message that can be handled is, unless the end is cut off instead.
Progress(e) ==
    [](Len(handled[e]) < Len(sent[Other(e)]) =>
         <>(e \in cut \/ Len(handled[e]) = Len(sent[Other(e)])))

\* An end that has lost its peer is cut off as well.
Noticed(e) == Other(e) \in cut ~> e \in cut

Safety == Init /\ [][Next]_channelVars

Liveness == \A e \in End : Progress(e) /\ Noticed(e)

Spec == Safety /\ Liveness

=============================================================================
