------------------------------ MODULE SendQueue -----------------------------
(***************************************************************************)
(* What a session promises to those who call send(): the messages it has   *)
(* accepted leave it in the order of their acceptance, each once and       *)
(* without a gap, and all of them do unless the connection ends.  Once it  *)
(* has ended nothing leaves any more, and what is left may be dropped.     *)
(***************************************************************************)
EXTENDS Naturals, Sequences

VARIABLES accepted,  \* how many messages were accepted; they are numbered
          queue,     \* accepted messages that the socket has not taken yet
          sent,      \* the messages that the socket took, in order
          ended      \* the connection is closed or lost

vars == <<accepted, queue, sent, ended>>

Init == accepted = 0 /\ queue = <<>> /\ sent = <<>> /\ ended = FALSE

\* A message is accepted; a send() that is under way may still accept one
\* when the connection has ended.
Accept ==
    /\ accepted' = accepted + 1
    /\ queue' = Append(queue, accepted + 1)
    /\ UNCHANGED <<sent, ended>>

Deliver ==
    /\ ~ended /\ queue # <<>>
    /\ sent' = Append(sent, Head(queue))
    /\ queue' = Tail(queue)
    /\ UNCHANGED <<accepted, ended>>

End ==
    /\ ~ended
    /\ ended' = TRUE
    /\ UNCHANGED <<accepted, queue, sent>>

\* The messages of a write that failed are dropped, from the front.
Drop ==
    /\ ended
    /\ \E n \in 1 .. Len(queue) : queue' = SubSeq(queue, n + 1, Len(queue))
    /\ UNCHANGED <<accepted, sent, ended>>

Next == Accept \/ Deliver \/ End \/ Drop

SafeSpec == Init /\ [][Next]_vars

Spec == SafeSpec /\ WF_vars(Deliver)

=============================================================================
