---------------------------- MODULE SessionProofs ---------------------------
(***************************************************************************)
(* Proofs about a session, for every number of application and io threads  *)
(* and of messages, and that it implements the send queue: every behaviour *)
(* of Session is one of SendQueue under the mapping of Session.            *)
(***************************************************************************)
EXTENDS Session, FiniteSetTheorems, SequenceTheorems, TLAPS

\* The bound on the calls of send() counts those that have yet to append.
Bounded == accepted + Cardinality(Appending) <= MaxSends

\* Who keeps recving_ set: the read, or a thread that will clear it or is
\* about to start the read.
RecvOwned ==
    /\ \A t \in Threads : pc[t] \in {"recv_flag", "rr_read"} => recving
    /\ recving => read # "none" \/ \E t \in Threads : pc[t] \in {"recv_flag", "rr_read"}

\* A thread that handles a completion is an io thread.
HandlersAreIos == \A t \in Threads : pc[t] \in {"release", "send_flag"} => t \in Ios

\* Only a closed session is being destroyed.
DestroyedIsClosed ==
    /\ destroyed => ~open
    /\ \A t \in Threads : pc[t] \in {"destroy", "notify"} => ~open

\* Somebody will still call destroy() on the closed session, or handle a
\* success that came too late.
WillDestroy ==
    \/ read # "none" \/ write # "none"
    \/ \E t \in Threads :
          pc[t] \in {"rs_take", "rs_write", "release", "send_flag", "recv_flag", "on_recv",
                     "rr_open", "rr_claim", "rr_read", "close", "destroy", "notify"}
    \/ \E t \in Ios : pc[t] = "rs_open"

ClosedWillBeDestroyed == ~open /\ ~lateOk /\ ~destroyed => WillDestroy

Healthy == open /\ ~broken

\* What is buffered, being written and delivered on a connection that still
\* works is all that was appended, in order.
Contiguous ==
    Healthy =>
        /\ write # "err"
        /\ \A j \in 1 .. Len(sendBuffer) : sendBuffer[j] = accepted - Len(sendBuffer) + j
        /\ write = "pending" =>
              /\ progress <= Len(sendingSegs)
              /\ accepted = Len(delivered) + (Len(sendingSegs) - progress) + Len(sendBuffer)
              /\ \A j \in 1 .. Len(sendingSegs) :
                    j > progress => sendingSegs[j] = Len(delivered) - progress + j
        /\ (\E t \in Threads : pc[t] = "rs_write") =>
              /\ accepted = Len(delivered) + Len(sendingSegs) + Len(sendBuffer)
              /\ \A j \in 1 .. Len(sendingSegs) : sendingSegs[j] = Len(delivered) + j
        /\ write # "pending" /\ (\A t \in Threads : pc[t] # "rs_write") =>
              accepted = Len(delivered) + Len(sendBuffer)

\* The inductive invariant.
IInv ==
    /\ TypeOK /\ Bounded
    /\ OneOperation /\ RecvOwned
    /\ HandlersAreIos /\ DestroyedIsClosed /\ ClosedWillBeDestroyed
    /\ NoStrandedData /\ NeverDeaf
    /\ InOrder /\ Contiguous

-----------------------------------------------------------------------------

\* The threads about to append are finitely many.
LEMMA AppendingFinite == IsFiniteSet(Appending)
<1>1. IsFiniteSet(Threads)
  BY FS_Union, SessionAssumption DEF Threads
<1>2. Appending \subseteq Threads
  BY DEF Appending
<1>3. QED
  BY <1>1, <1>2, FS_Subset

\* A thread about to append is counted by the bound.
LEMMA AppendFits ==
    ASSUME IInv, NEW t \in Threads, pc[t] = "append"
    PROVE  /\ Cardinality(Appending) \in Nat /\ Cardinality(Appending) >= 1
           /\ accepted + 1 <= MaxSends
<1>1. t \in Appending
  BY DEF Appending
<1>2. Cardinality(Appending) \in Nat /\ Cardinality(Appending) # 0
  BY <1>1, AppendingFinite, FS_CardinalityType, FS_EmptySet
<1>3. accepted \in 0 .. MaxSends /\ accepted + Cardinality(Appending) <= MaxSends
  BY DEF IInv, TypeOK, Bounded
<1>4. QED
  BY <1>2, <1>3, SessionAssumption


\* Every step keeps the types.
LEMMA TypeStep == ASSUME IInv, [Next]_vars PROVE TypeOK'
<1>1. CASE Break
  BY <1>1 DEF Break, flags, socket, buffers, history, IInv, TypeOK, Operations, Labels
<1>2. ASSUME NEW r \in {"ok", "err"}, ReadCompletes(r) PROVE TypeOK'
  BY <1>2 DEF ReadCompletes, flags, socket, buffers, history, IInv, TypeOK, Operations,
        Labels
<1>3. CASE WriteSome
  BY <1>3 DEF WriteSome, flags, socket, buffers, history, IInv, TypeOK, Operations,
        Labels
<1>4. ASSUME NEW r \in {"ok", "err"}, WriteCompletes(r) PROVE TypeOK'
  BY <1>4 DEF WriteCompletes, flags, socket, buffers, history, IInv, TypeOK, Operations,
        Labels
<1>5. ASSUME NEW t \in Apps, send(t) PROVE TypeOK'
  BY <1>5 DEF send, Goto, Threads, flags, socket, buffers, history, IInv, TypeOK,
        Operations, Labels
<1>6. ASSUME NEW t \in Threads, AppendData(t) PROVE TypeOK'
  <2>1. accepted' \in 0 .. MaxSends /\ sendBuffer' \in Seq(Nat)
    BY <1>6, AppendFits, SessionAssumption DEF AppendData, IInv, TypeOK
  <2>2. QED
    BY <1>6, <2>1 DEF AppendData, Goto, IInv, TypeOK, Labels, flags, socket
<1>7. ASSUME NEW t \in Threads, SendIsOpen(t) PROVE TypeOK'
  BY <1>7 DEF SendIsOpen, Goto, Threads, flags, socket, buffers, history, IInv, TypeOK,
        Operations, Labels
<1>8. ASSUME NEW t \in Threads, ClaimSend(t) PROVE TypeOK'
  BY <1>8 DEF ClaimSend, Goto, flags, socket, buffers, history, IInv, TypeOK,
        Operations, Labels
<1>9. ASSUME NEW t \in Threads, TakeSegments(t) PROVE TypeOK'
  BY <1>9 DEF TakeSegments, Goto, flags, socket, buffers, history, IInv, TypeOK,
        Operations, Labels
<1>10. ASSUME NEW t \in Threads, AsyncWrite(t) PROVE TypeOK'
  BY <1>10 DEF AsyncWrite, Goto, flags, socket, buffers, history, IInv, TypeOK,
        Operations, Labels
<1>11. ASSUME NEW t \in Apps, close(t) PROVE TypeOK'
  BY <1>11 DEF close, Goto, Threads, flags, socket, buffers, history, IInv, TypeOK,
        Operations, Labels
<1>12. ASSUME NEW t \in Threads, CloseSocket(t) PROVE TypeOK'
  BY <1>12 DEF CloseSocket, Goto, flags, socket, buffers, history, IInv, TypeOK,
        Operations, Labels
<1>13. ASSUME NEW t \in Threads, DestroyCheck(t) PROVE TypeOK'
  BY <1>13 DEF DestroyCheck, Goto, flags, socket, buffers, history, IInv, TypeOK,
        Operations, Labels
<1>14. ASSUME NEW t \in Threads, DestroyNotify(t) PROVE TypeOK'
  BY <1>14 DEF DestroyNotify, Goto, flags, socket, buffers, history, IInv, TypeOK,
        Operations, Labels
<1>15. ASSUME NEW t \in Ios, on_recv_completed(t) PROVE TypeOK'
  BY <1>15 DEF on_recv_completed, Goto, Threads, flags, socket, buffers, history, IInv,
        TypeOK, Operations, Labels
<1>16. ASSUME NEW t \in Threads, RecvFlag(t) PROVE TypeOK'
  BY <1>16 DEF RecvFlag, Goto, flags, socket, buffers, history, IInv, TypeOK,
        Operations, Labels
<1>17. ASSUME NEW t \in Threads, NEW ok \in BOOLEAN, OnRecv(t, ok) PROVE TypeOK'
  BY <1>17 DEF OnRecv, Goto, flags, socket, buffers, history, IInv, TypeOK, Operations,
        Labels
<1>18. ASSUME NEW t \in Threads, RecvIsOpen(t) PROVE TypeOK'
  BY <1>18 DEF RecvIsOpen, Goto, flags, socket, buffers, history, IInv, TypeOK,
        Operations, Labels
<1>19. ASSUME NEW t \in Threads, ClaimRecv(t) PROVE TypeOK'
  BY <1>19 DEF ClaimRecv, Goto, flags, socket, buffers, history, IInv, TypeOK,
        Operations, Labels
<1>20. ASSUME NEW t \in Threads, AsyncRead(t) PROVE TypeOK'
  BY <1>20 DEF AsyncRead, Goto, flags, socket, buffers, history, IInv, TypeOK,
        Operations, Labels
<1>21. ASSUME NEW t \in Ios, on_send_completed(t) PROVE TypeOK'
  BY <1>21 DEF on_send_completed, Goto, Threads, flags, socket, buffers, history, IInv,
        TypeOK, Operations, Labels
<1>22. ASSUME NEW t \in Threads, ReleaseSegments(t) PROVE TypeOK'
  BY <1>22 DEF ReleaseSegments, Goto, flags, socket, buffers, history, IInv, TypeOK,
        Operations, Labels
<1>23. ASSUME NEW t \in Threads, SendFlag(t) PROVE TypeOK'
  BY <1>23 DEF SendFlag, Goto, flags, socket, buffers, history, IInv, TypeOK,
        Operations, Labels
<1>24. CASE UNCHANGED vars
  BY <1>24 DEF vars, flags, socket, buffers, history, IInv, TypeOK, Operations, Labels
<1> QED
  BY <1>1, <1>2, <1>3, <1>4, <1>5, <1>6, <1>7, <1>8, <1>9, <1>10, <1>11, <1>12,
        <1>13, <1>14, <1>15, <1>16, <1>17, <1>18, <1>19, <1>20, <1>21, <1>22, <1>23,
        <1>24 DEF Next, AppCall, Dispatch, Step, Peer

\* Only send() and its append change what the bound counts.
LEMMA BoundedStep == ASSUME IInv, [Next]_vars PROVE Bounded'
<1>1. ASSUME NEW t \in Apps, send(t) PROVE Bounded'
  <2>1. Appending' = Appending \cup {t} /\ accepted' = accepted /\ t \notin Appending
    BY <1>1 DEF send, Goto, Appending, Threads, IInv, TypeOK, history
  <2>2. Cardinality(Appending) \in Nat /\ Cardinality(Appending') = Cardinality(Appending) + 1
    BY <2>1, AppendingFinite, FS_CardinalityType, FS_AddElement
  <2>3. accepted \in Nat /\ accepted + Cardinality(Appending) < MaxSends
    BY <1>1 DEF send, IInv, TypeOK
  <2>4. QED
    BY <2>1, <2>2, <2>3, SessionAssumption DEF Bounded
<1>2. ASSUME NEW t \in Threads, AppendData(t) PROVE Bounded'
  <2>1. Appending' = Appending \ {t} /\ accepted' = accepted + 1 /\ t \in Appending
    BY <1>2 DEF AppendData, Goto, Appending, Threads, IInv, TypeOK
  <2>2. Cardinality(Appending) \in Nat /\ Cardinality(Appending') = Cardinality(Appending) - 1
    BY <2>1, AppendingFinite, FS_CardinalityType, FS_RemoveElement
  <2>3. accepted \in Nat /\ accepted + Cardinality(Appending) <= MaxSends
    BY DEF IInv, TypeOK, Bounded
  <2>4. QED
    BY <2>1, <2>2, <2>3, SessionAssumption DEF Bounded
<1>3. CASE /\ \A t \in Apps : ~send(t)
           /\ \A t \in Threads : ~AppendData(t)
  <2>1. Appending' = Appending /\ accepted' = accepted
    BY <1>3 DEF Goto, Appending, Threads, IInv, TypeOK, Next, AppCall, Dispatch, Step,
       Peer, Break, ReadCompletes, WriteSome, WriteCompletes, SendIsOpen, ClaimSend,
       TakeSegments, AsyncWrite, close, CloseSocket, DestroyCheck, DestroyNotify,
       on_recv_completed, RecvFlag, OnRecv, RecvIsOpen, ClaimRecv, AsyncRead,
       on_send_completed, ReleaseSegments, SendFlag, vars, flags, socket, buffers, history
  <2>2. QED
    BY <2>1 DEF Bounded, IInv
<1>4. QED
  BY <1>1, <1>2, <1>3

\* Every step keeps one owner of the read and of the write.
LEMMA OneOperationStep == ASSUME IInv, [Next]_vars PROVE OneOperation'
<1>1. CASE Break
  BY <1>1 DEF Break, OneOperation, WriteOwner, ReadOwner, RecvOwned, flags, socket,
        buffers, history, IInv, TypeOK, Operations, Labels
<1>2. ASSUME NEW r \in {"ok", "err"}, ReadCompletes(r) PROVE OneOperation'
  BY <1>2 DEF ReadCompletes, OneOperation, WriteOwner, ReadOwner, RecvOwned, flags,
        socket, buffers, history, IInv, TypeOK, Operations, Labels
<1>3. CASE WriteSome
  BY <1>3 DEF WriteSome, OneOperation, WriteOwner, ReadOwner, RecvOwned, flags, socket,
        buffers, history, IInv, TypeOK, Operations, Labels
<1>4. ASSUME NEW r \in {"ok", "err"}, WriteCompletes(r) PROVE OneOperation'
  BY <1>4 DEF WriteCompletes, OneOperation, WriteOwner, ReadOwner, RecvOwned, flags,
        socket, buffers, history, IInv, TypeOK, Operations, Labels
<1>5. ASSUME NEW t \in Apps, send(t) PROVE OneOperation'
  BY <1>5 DEF send, Goto, Threads, OneOperation, WriteOwner, ReadOwner, RecvOwned,
        flags, socket, buffers, history, IInv, TypeOK, Operations, Labels
<1>6. ASSUME NEW t \in Threads, AppendData(t) PROVE OneOperation'
  BY <1>6 DEF AppendData, Goto, OneOperation, WriteOwner, ReadOwner, RecvOwned, flags,
        socket, buffers, history, IInv, TypeOK, Operations, Labels
<1>7. ASSUME NEW t \in Threads, SendIsOpen(t) PROVE OneOperation'
  BY <1>7 DEF SendIsOpen, Goto, Threads, OneOperation, WriteOwner, ReadOwner, RecvOwned,
        flags, socket, buffers, history, IInv, TypeOK, Operations, Labels
<1>8. ASSUME NEW t \in Threads, ClaimSend(t) PROVE OneOperation'
  <2>1. CASE sending \/ sendBuffer = <<>>
    <3>1. /\ pc' = [pc EXCEPT ![t] = "idle"]
          /\ UNCHANGED <<open, read, write, sending, recving, destroyed, lateOk>>
      BY <1>8, <2>1 DEF ClaimSend, Goto, flags, socket, history
    <3>2. pc = [u \in Threads |-> pc[u]] /\ pc[t] = "rs_claim"
      BY <1>8 DEF ClaimSend, IInv, TypeOK
    <3>3. QED
      BY <3>1, <3>2 DEF IInv, OneOperation, WriteOwner, ReadOwner, RecvOwned
  <2>2. CASE ~(sending \/ sendBuffer = <<>>)
    <3>1. /\ pc' = [pc EXCEPT ![t] = "rs_take"] /\ sending' = TRUE
          /\ UNCHANGED <<open, read, write, recving, destroyed, lateOk>>
      BY <1>8, <2>2 DEF ClaimSend, Goto, flags, socket, history
    <3>2. write = "none" /\ \A u \in Threads : ~WriteOwner(u)
      BY <2>2 DEF IInv, OneOperation
    <3>3. pc = [u \in Threads |-> pc[u]] /\ pc[t] = "rs_claim"
      BY <1>8 DEF ClaimSend, IInv, TypeOK
    <3>4. QED
      BY <3>1, <3>2, <3>3 DEF IInv, OneOperation, WriteOwner, ReadOwner, RecvOwned
  <2>3. QED
    BY <2>1, <2>2
<1>9. ASSUME NEW t \in Threads, TakeSegments(t) PROVE OneOperation'
  BY <1>9 DEF TakeSegments, Goto, OneOperation, WriteOwner, ReadOwner, RecvOwned, flags,
        socket, buffers, history, IInv, TypeOK, Operations, Labels
<1>10. ASSUME NEW t \in Threads, AsyncWrite(t) PROVE OneOperation'
  BY <1>10 DEF AsyncWrite, Goto, OneOperation, WriteOwner, ReadOwner, RecvOwned, flags,
        socket, buffers, history, IInv, TypeOK, Operations, Labels
<1>11. ASSUME NEW t \in Apps, close(t) PROVE OneOperation'
  BY <1>11 DEF close, Goto, Threads, OneOperation, WriteOwner, ReadOwner, RecvOwned,
        flags, socket, buffers, history, IInv, TypeOK, Operations, Labels
<1>12. ASSUME NEW t \in Threads, CloseSocket(t) PROVE OneOperation'
  BY <1>12 DEF CloseSocket, Goto, OneOperation, WriteOwner, ReadOwner, RecvOwned, flags,
        socket, buffers, history, IInv, TypeOK, Operations, Labels
<1>13. ASSUME NEW t \in Threads, DestroyCheck(t) PROVE OneOperation'
  BY <1>13 DEF DestroyCheck, Goto, OneOperation, WriteOwner, ReadOwner, RecvOwned,
        flags, socket, buffers, history, IInv, TypeOK, Operations, Labels
<1>14. ASSUME NEW t \in Threads, DestroyNotify(t) PROVE OneOperation'
  BY <1>14 DEF DestroyNotify, Goto, OneOperation, WriteOwner, ReadOwner, RecvOwned,
        flags, socket, buffers, history, IInv, TypeOK, Operations, Labels
<1>15. ASSUME NEW t \in Ios, on_recv_completed(t) PROVE OneOperation'
  BY <1>15 DEF on_recv_completed, Goto, Threads, OneOperation, WriteOwner, ReadOwner,
        RecvOwned, flags, socket, buffers, history, IInv, TypeOK, Operations, Labels
<1>16. ASSUME NEW t \in Threads, RecvFlag(t) PROVE OneOperation'
  BY <1>16 DEF RecvFlag, Goto, OneOperation, WriteOwner, ReadOwner, RecvOwned, flags,
        socket, buffers, history, IInv, TypeOK, Operations, Labels
<1>17. ASSUME NEW t \in Threads, NEW ok \in BOOLEAN, OnRecv(t, ok) PROVE OneOperation'
  BY <1>17 DEF OnRecv, Goto, OneOperation, WriteOwner, ReadOwner, RecvOwned, flags,
        socket, buffers, history, IInv, TypeOK, Operations, Labels
<1>18. ASSUME NEW t \in Threads, RecvIsOpen(t) PROVE OneOperation'
  BY <1>18 DEF RecvIsOpen, Goto, OneOperation, WriteOwner, ReadOwner, RecvOwned, flags,
        socket, buffers, history, IInv, TypeOK, Operations, Labels
<1>19. ASSUME NEW t \in Threads, ClaimRecv(t) PROVE OneOperation'
  BY <1>19 DEF ClaimRecv, Goto, OneOperation, WriteOwner, ReadOwner, RecvOwned, flags,
        socket, buffers, history, IInv, TypeOK, Operations, Labels
<1>20. ASSUME NEW t \in Threads, AsyncRead(t) PROVE OneOperation'
  BY <1>20 DEF AsyncRead, Goto, OneOperation, WriteOwner, ReadOwner, RecvOwned, flags,
        socket, buffers, history, IInv, TypeOK, Operations, Labels
<1>21. ASSUME NEW t \in Ios, on_send_completed(t) PROVE OneOperation'
  BY <1>21 DEF on_send_completed, Goto, Threads, OneOperation, WriteOwner, ReadOwner,
        RecvOwned, flags, socket, buffers, history, IInv, TypeOK, Operations, Labels
<1>22. ASSUME NEW t \in Threads, ReleaseSegments(t) PROVE OneOperation'
  BY <1>22 DEF ReleaseSegments, Goto, OneOperation, WriteOwner, ReadOwner, RecvOwned,
        flags, socket, buffers, history, IInv, TypeOK, Operations, Labels
<1>23. ASSUME NEW t \in Threads, SendFlag(t) PROVE OneOperation'
  BY <1>23 DEF SendFlag, Goto, OneOperation, WriteOwner, ReadOwner, RecvOwned, flags,
        socket, buffers, history, IInv, TypeOK, Operations, Labels
<1>24. CASE UNCHANGED vars
  BY <1>24 DEF vars, OneOperation, WriteOwner, ReadOwner, RecvOwned, flags, socket,
        buffers, history, IInv, TypeOK, Operations, Labels
<1> QED
  BY <1>1, <1>2, <1>3, <1>4, <1>5, <1>6, <1>7, <1>8, <1>9, <1>10, <1>11, <1>12,
        <1>13, <1>14, <1>15, <1>16, <1>17, <1>18, <1>19, <1>20, <1>21, <1>22, <1>23,
        <1>24 DEF Next, AppCall, Dispatch, Step, Peer

\* Every step keeps recving_ owned.
LEMMA RecvOwnedStep == ASSUME IInv, [Next]_vars PROVE RecvOwned'
<1>1. CASE Break
  BY <1>1 DEF Break, OneOperation, WriteOwner, ReadOwner, RecvOwned, flags, socket,
        buffers, history, IInv, TypeOK, Operations, Labels
<1>2. ASSUME NEW r \in {"ok", "err"}, ReadCompletes(r) PROVE RecvOwned'
  BY <1>2 DEF ReadCompletes, OneOperation, WriteOwner, ReadOwner, RecvOwned, flags,
        socket, buffers, history, IInv, TypeOK, Operations, Labels
<1>3. CASE WriteSome
  BY <1>3 DEF WriteSome, OneOperation, WriteOwner, ReadOwner, RecvOwned, flags, socket,
        buffers, history, IInv, TypeOK, Operations, Labels
<1>4. ASSUME NEW r \in {"ok", "err"}, WriteCompletes(r) PROVE RecvOwned'
  BY <1>4 DEF WriteCompletes, OneOperation, WriteOwner, ReadOwner, RecvOwned, flags,
        socket, buffers, history, IInv, TypeOK, Operations, Labels
<1>5. ASSUME NEW t \in Apps, send(t) PROVE RecvOwned'
  BY <1>5 DEF send, Goto, Threads, OneOperation, WriteOwner, ReadOwner, RecvOwned,
        flags, socket, buffers, history, IInv, TypeOK, Operations, Labels
<1>6. ASSUME NEW t \in Threads, AppendData(t) PROVE RecvOwned'
  BY <1>6 DEF AppendData, Goto, OneOperation, WriteOwner, ReadOwner, RecvOwned, flags,
        socket, buffers, history, IInv, TypeOK, Operations, Labels
<1>7. ASSUME NEW t \in Threads, SendIsOpen(t) PROVE RecvOwned'
  BY <1>7 DEF SendIsOpen, Goto, Threads, OneOperation, WriteOwner, ReadOwner, RecvOwned,
        flags, socket, buffers, history, IInv, TypeOK, Operations, Labels
<1>8. ASSUME NEW t \in Threads, ClaimSend(t) PROVE RecvOwned'
  BY <1>8 DEF ClaimSend, Goto, OneOperation, WriteOwner, ReadOwner, RecvOwned, flags,
        socket, buffers, history, IInv, TypeOK, Operations, Labels
<1>9. ASSUME NEW t \in Threads, TakeSegments(t) PROVE RecvOwned'
  BY <1>9 DEF TakeSegments, Goto, OneOperation, WriteOwner, ReadOwner, RecvOwned, flags,
        socket, buffers, history, IInv, TypeOK, Operations, Labels
<1>10. ASSUME NEW t \in Threads, AsyncWrite(t) PROVE RecvOwned'
  BY <1>10 DEF AsyncWrite, Goto, OneOperation, WriteOwner, ReadOwner, RecvOwned, flags,
        socket, buffers, history, IInv, TypeOK, Operations, Labels
<1>11. ASSUME NEW t \in Apps, close(t) PROVE RecvOwned'
  BY <1>11 DEF close, Goto, Threads, OneOperation, WriteOwner, ReadOwner, RecvOwned,
        flags, socket, buffers, history, IInv, TypeOK, Operations, Labels
<1>12. ASSUME NEW t \in Threads, CloseSocket(t) PROVE RecvOwned'
  BY <1>12 DEF CloseSocket, Goto, OneOperation, WriteOwner, ReadOwner, RecvOwned, flags,
        socket, buffers, history, IInv, TypeOK, Operations, Labels
<1>13. ASSUME NEW t \in Threads, DestroyCheck(t) PROVE RecvOwned'
  BY <1>13 DEF DestroyCheck, Goto, OneOperation, WriteOwner, ReadOwner, RecvOwned,
        flags, socket, buffers, history, IInv, TypeOK, Operations, Labels
<1>14. ASSUME NEW t \in Threads, DestroyNotify(t) PROVE RecvOwned'
  BY <1>14 DEF DestroyNotify, Goto, OneOperation, WriteOwner, ReadOwner, RecvOwned,
        flags, socket, buffers, history, IInv, TypeOK, Operations, Labels
<1>15. ASSUME NEW t \in Ios, on_recv_completed(t) PROVE RecvOwned'
  BY <1>15 DEF on_recv_completed, Goto, Threads, OneOperation, WriteOwner, ReadOwner,
        RecvOwned, flags, socket, buffers, history, IInv, TypeOK, Operations, Labels
<1>16. ASSUME NEW t \in Threads, RecvFlag(t) PROVE RecvOwned'
  BY <1>16 DEF RecvFlag, Goto, OneOperation, WriteOwner, ReadOwner, RecvOwned, flags,
        socket, buffers, history, IInv, TypeOK, Operations, Labels
<1>17. ASSUME NEW t \in Threads, NEW ok \in BOOLEAN, OnRecv(t, ok) PROVE RecvOwned'
  BY <1>17 DEF OnRecv, Goto, OneOperation, WriteOwner, ReadOwner, RecvOwned, flags,
        socket, buffers, history, IInv, TypeOK, Operations, Labels
<1>18. ASSUME NEW t \in Threads, RecvIsOpen(t) PROVE RecvOwned'
  BY <1>18 DEF RecvIsOpen, Goto, OneOperation, WriteOwner, ReadOwner, RecvOwned, flags,
        socket, buffers, history, IInv, TypeOK, Operations, Labels
<1>19. ASSUME NEW t \in Threads, ClaimRecv(t) PROVE RecvOwned'
  BY <1>19 DEF ClaimRecv, Goto, OneOperation, WriteOwner, ReadOwner, RecvOwned, flags,
        socket, buffers, history, IInv, TypeOK, Operations, Labels
<1>20. ASSUME NEW t \in Threads, AsyncRead(t) PROVE RecvOwned'
  BY <1>20 DEF AsyncRead, Goto, OneOperation, WriteOwner, ReadOwner, RecvOwned, flags,
        socket, buffers, history, IInv, TypeOK, Operations, Labels
<1>21. ASSUME NEW t \in Ios, on_send_completed(t) PROVE RecvOwned'
  BY <1>21 DEF on_send_completed, Goto, Threads, OneOperation, WriteOwner, ReadOwner,
        RecvOwned, flags, socket, buffers, history, IInv, TypeOK, Operations, Labels
<1>22. ASSUME NEW t \in Threads, ReleaseSegments(t) PROVE RecvOwned'
  BY <1>22 DEF ReleaseSegments, Goto, OneOperation, WriteOwner, ReadOwner, RecvOwned,
        flags, socket, buffers, history, IInv, TypeOK, Operations, Labels
<1>23. ASSUME NEW t \in Threads, SendFlag(t) PROVE RecvOwned'
  BY <1>23 DEF SendFlag, Goto, OneOperation, WriteOwner, ReadOwner, RecvOwned, flags,
        socket, buffers, history, IInv, TypeOK, Operations, Labels
<1>24. CASE UNCHANGED vars
  BY <1>24 DEF vars, OneOperation, WriteOwner, ReadOwner, RecvOwned, flags, socket,
        buffers, history, IInv, TypeOK, Operations, Labels
<1> QED
  BY <1>1, <1>2, <1>3, <1>4, <1>5, <1>6, <1>7, <1>8, <1>9, <1>10, <1>11, <1>12,
        <1>13, <1>14, <1>15, <1>16, <1>17, <1>18, <1>19, <1>20, <1>21, <1>22, <1>23,
        <1>24 DEF Next, AppCall, Dispatch, Step, Peer

\* Only io threads handle completions.
LEMMA HandlersStep == ASSUME IInv, [Next]_vars PROVE HandlersAreIos'
<1>1. CASE Break
  BY <1>1 DEF Break, HandlersAreIos, flags, socket, buffers, history, IInv, TypeOK,
        Operations, Labels
<1>2. ASSUME NEW r \in {"ok", "err"}, ReadCompletes(r) PROVE HandlersAreIos'
  BY <1>2 DEF ReadCompletes, HandlersAreIos, flags, socket, buffers, history, IInv,
        TypeOK, Operations, Labels
<1>3. CASE WriteSome
  BY <1>3 DEF WriteSome, HandlersAreIos, flags, socket, buffers, history, IInv, TypeOK,
        Operations, Labels
<1>4. ASSUME NEW r \in {"ok", "err"}, WriteCompletes(r) PROVE HandlersAreIos'
  BY <1>4 DEF WriteCompletes, HandlersAreIos, flags, socket, buffers, history, IInv,
        TypeOK, Operations, Labels
<1>5. ASSUME NEW t \in Apps, send(t) PROVE HandlersAreIos'
  BY <1>5 DEF send, Goto, Threads, HandlersAreIos, flags, socket, buffers, history,
        IInv, TypeOK, Operations, Labels
<1>6. ASSUME NEW t \in Threads, AppendData(t) PROVE HandlersAreIos'
  BY <1>6 DEF AppendData, Goto, HandlersAreIos, flags, socket, buffers, history, IInv,
        TypeOK, Operations, Labels
<1>7. ASSUME NEW t \in Threads, SendIsOpen(t) PROVE HandlersAreIos'
  BY <1>7 DEF SendIsOpen, Goto, Threads, HandlersAreIos, flags, socket, buffers,
        history, IInv, TypeOK, Operations, Labels
<1>8. ASSUME NEW t \in Threads, ClaimSend(t) PROVE HandlersAreIos'
  BY <1>8 DEF ClaimSend, Goto, HandlersAreIos, flags, socket, buffers, history, IInv,
        TypeOK, Operations, Labels
<1>9. ASSUME NEW t \in Threads, TakeSegments(t) PROVE HandlersAreIos'
  BY <1>9 DEF TakeSegments, Goto, HandlersAreIos, flags, socket, buffers, history, IInv,
        TypeOK, Operations, Labels
<1>10. ASSUME NEW t \in Threads, AsyncWrite(t) PROVE HandlersAreIos'
  BY <1>10 DEF AsyncWrite, Goto, HandlersAreIos, flags, socket, buffers, history, IInv,
        TypeOK, Operations, Labels
<1>11. ASSUME NEW t \in Apps, close(t) PROVE HandlersAreIos'
  BY <1>11 DEF close, Goto, Threads, HandlersAreIos, flags, socket, buffers, history,
        IInv, TypeOK, Operations, Labels
<1>12. ASSUME NEW t \in Threads, CloseSocket(t) PROVE HandlersAreIos'
  BY <1>12 DEF CloseSocket, Goto, HandlersAreIos, flags, socket, buffers, history, IInv,
        TypeOK, Operations, Labels
<1>13. ASSUME NEW t \in Threads, DestroyCheck(t) PROVE HandlersAreIos'
  BY <1>13 DEF DestroyCheck, Goto, HandlersAreIos, flags, socket, buffers, history,
        IInv, TypeOK, Operations, Labels
<1>14. ASSUME NEW t \in Threads, DestroyNotify(t) PROVE HandlersAreIos'
  BY <1>14 DEF DestroyNotify, Goto, HandlersAreIos, flags, socket, buffers, history,
        IInv, TypeOK, Operations, Labels
<1>15. ASSUME NEW t \in Ios, on_recv_completed(t) PROVE HandlersAreIos'
  BY <1>15 DEF on_recv_completed, Goto, Threads, HandlersAreIos, flags, socket, buffers,
        history, IInv, TypeOK, Operations, Labels
<1>16. ASSUME NEW t \in Threads, RecvFlag(t) PROVE HandlersAreIos'
  BY <1>16 DEF RecvFlag, Goto, HandlersAreIos, flags, socket, buffers, history, IInv,
        TypeOK, Operations, Labels
<1>17. ASSUME NEW t \in Threads, NEW ok \in BOOLEAN, OnRecv(t, ok) PROVE HandlersAreIos'
  BY <1>17 DEF OnRecv, Goto, HandlersAreIos, flags, socket, buffers, history, IInv,
        TypeOK, Operations, Labels
<1>18. ASSUME NEW t \in Threads, RecvIsOpen(t) PROVE HandlersAreIos'
  BY <1>18 DEF RecvIsOpen, Goto, HandlersAreIos, flags, socket, buffers, history, IInv,
        TypeOK, Operations, Labels
<1>19. ASSUME NEW t \in Threads, ClaimRecv(t) PROVE HandlersAreIos'
  BY <1>19 DEF ClaimRecv, Goto, HandlersAreIos, flags, socket, buffers, history, IInv,
        TypeOK, Operations, Labels
<1>20. ASSUME NEW t \in Threads, AsyncRead(t) PROVE HandlersAreIos'
  BY <1>20 DEF AsyncRead, Goto, HandlersAreIos, flags, socket, buffers, history, IInv,
        TypeOK, Operations, Labels
<1>21. ASSUME NEW t \in Ios, on_send_completed(t) PROVE HandlersAreIos'
  BY <1>21 DEF on_send_completed, Goto, Threads, HandlersAreIos, flags, socket, buffers,
        history, IInv, TypeOK, Operations, Labels
<1>22. ASSUME NEW t \in Threads, ReleaseSegments(t) PROVE HandlersAreIos'
  BY <1>22 DEF ReleaseSegments, Goto, HandlersAreIos, flags, socket, buffers, history,
        IInv, TypeOK, Operations, Labels
<1>23. ASSUME NEW t \in Threads, SendFlag(t) PROVE HandlersAreIos'
  BY <1>23 DEF SendFlag, Goto, HandlersAreIos, flags, socket, buffers, history, IInv,
        TypeOK, Operations, Labels
<1>24. CASE UNCHANGED vars
  BY <1>24 DEF vars, HandlersAreIos, flags, socket, buffers, history, IInv, TypeOK,
        Operations, Labels
<1> QED
  BY <1>1, <1>2, <1>3, <1>4, <1>5, <1>6, <1>7, <1>8, <1>9, <1>10, <1>11, <1>12,
        <1>13, <1>14, <1>15, <1>16, <1>17, <1>18, <1>19, <1>20, <1>21, <1>22, <1>23,
        <1>24 DEF Next, AppCall, Dispatch, Step, Peer

\* destroy() runs on a closed session, and a closed session stays closed.
LEMMA DestroyedStep == ASSUME IInv, [Next]_vars PROVE DestroyedIsClosed'
<1>1. CASE Break
  BY <1>1 DEF Break, DestroyedIsClosed, flags, socket, buffers, history, IInv, TypeOK,
        Operations, Labels
<1>2. ASSUME NEW r \in {"ok", "err"}, ReadCompletes(r) PROVE DestroyedIsClosed'
  BY <1>2 DEF ReadCompletes, DestroyedIsClosed, flags, socket, buffers, history, IInv,
        TypeOK, Operations, Labels
<1>3. CASE WriteSome
  BY <1>3 DEF WriteSome, DestroyedIsClosed, flags, socket, buffers, history, IInv,
        TypeOK, Operations, Labels
<1>4. ASSUME NEW r \in {"ok", "err"}, WriteCompletes(r) PROVE DestroyedIsClosed'
  BY <1>4 DEF WriteCompletes, DestroyedIsClosed, flags, socket, buffers, history, IInv,
        TypeOK, Operations, Labels
<1>5. ASSUME NEW t \in Apps, send(t) PROVE DestroyedIsClosed'
  BY <1>5 DEF send, Goto, Threads, DestroyedIsClosed, flags, socket, buffers, history,
        IInv, TypeOK, Operations, Labels
<1>6. ASSUME NEW t \in Threads, AppendData(t) PROVE DestroyedIsClosed'
  BY <1>6 DEF AppendData, Goto, DestroyedIsClosed, flags, socket, buffers, history,
        IInv, TypeOK, Operations, Labels
<1>7. ASSUME NEW t \in Threads, SendIsOpen(t) PROVE DestroyedIsClosed'
  BY <1>7 DEF SendIsOpen, Goto, Threads, DestroyedIsClosed, flags, socket, buffers,
        history, IInv, TypeOK, Operations, Labels
<1>8. ASSUME NEW t \in Threads, ClaimSend(t) PROVE DestroyedIsClosed'
  BY <1>8 DEF ClaimSend, Goto, DestroyedIsClosed, flags, socket, buffers, history, IInv,
        TypeOK, Operations, Labels
<1>9. ASSUME NEW t \in Threads, TakeSegments(t) PROVE DestroyedIsClosed'
  BY <1>9 DEF TakeSegments, Goto, DestroyedIsClosed, flags, socket, buffers, history,
        IInv, TypeOK, Operations, Labels
<1>10. ASSUME NEW t \in Threads, AsyncWrite(t) PROVE DestroyedIsClosed'
  BY <1>10 DEF AsyncWrite, Goto, DestroyedIsClosed, flags, socket, buffers, history,
        IInv, TypeOK, Operations, Labels
<1>11. ASSUME NEW t \in Apps, close(t) PROVE DestroyedIsClosed'
  BY <1>11 DEF close, Goto, Threads, DestroyedIsClosed, flags, socket, buffers, history,
        IInv, TypeOK, Operations, Labels
<1>12. ASSUME NEW t \in Threads, CloseSocket(t) PROVE DestroyedIsClosed'
  BY <1>12 DEF CloseSocket, Goto, DestroyedIsClosed, flags, socket, buffers, history,
        IInv, TypeOK, Operations, Labels
<1>13. ASSUME NEW t \in Threads, DestroyCheck(t) PROVE DestroyedIsClosed'
  BY <1>13 DEF DestroyCheck, Goto, DestroyedIsClosed, flags, socket, buffers, history,
        IInv, TypeOK, Operations, Labels
<1>14. ASSUME NEW t \in Threads, DestroyNotify(t) PROVE DestroyedIsClosed'
  BY <1>14 DEF DestroyNotify, Goto, DestroyedIsClosed, flags, socket, buffers, history,
        IInv, TypeOK, Operations, Labels
<1>15. ASSUME NEW t \in Ios, on_recv_completed(t) PROVE DestroyedIsClosed'
  BY <1>15 DEF on_recv_completed, Goto, Threads, DestroyedIsClosed, flags, socket,
        buffers, history, IInv, TypeOK, Operations, Labels
<1>16. ASSUME NEW t \in Threads, RecvFlag(t) PROVE DestroyedIsClosed'
  BY <1>16 DEF RecvFlag, Goto, DestroyedIsClosed, flags, socket, buffers, history, IInv,
        TypeOK, Operations, Labels
<1>17. ASSUME NEW t \in Threads, NEW ok \in BOOLEAN, OnRecv(t, ok) PROVE DestroyedIsClosed'
  BY <1>17 DEF OnRecv, Goto, DestroyedIsClosed, flags, socket, buffers, history, IInv,
        TypeOK, Operations, Labels
<1>18. ASSUME NEW t \in Threads, RecvIsOpen(t) PROVE DestroyedIsClosed'
  BY <1>18 DEF RecvIsOpen, Goto, DestroyedIsClosed, flags, socket, buffers, history,
        IInv, TypeOK, Operations, Labels
<1>19. ASSUME NEW t \in Threads, ClaimRecv(t) PROVE DestroyedIsClosed'
  BY <1>19 DEF ClaimRecv, Goto, DestroyedIsClosed, flags, socket, buffers, history,
        IInv, TypeOK, Operations, Labels
<1>20. ASSUME NEW t \in Threads, AsyncRead(t) PROVE DestroyedIsClosed'
  BY <1>20 DEF AsyncRead, Goto, DestroyedIsClosed, flags, socket, buffers, history,
        IInv, TypeOK, Operations, Labels
<1>21. ASSUME NEW t \in Ios, on_send_completed(t) PROVE DestroyedIsClosed'
  BY <1>21 DEF on_send_completed, Goto, Threads, DestroyedIsClosed, flags, socket,
        buffers, history, IInv, TypeOK, Operations, Labels
<1>22. ASSUME NEW t \in Threads, ReleaseSegments(t) PROVE DestroyedIsClosed'
  BY <1>22 DEF ReleaseSegments, Goto, DestroyedIsClosed, flags, socket, buffers,
        history, IInv, TypeOK, Operations, Labels
<1>23. ASSUME NEW t \in Threads, SendFlag(t) PROVE DestroyedIsClosed'
  BY <1>23 DEF SendFlag, Goto, DestroyedIsClosed, flags, socket, buffers, history, IInv,
        TypeOK, Operations, Labels
<1>24. CASE UNCHANGED vars
  BY <1>24 DEF vars, DestroyedIsClosed, flags, socket, buffers, history, IInv, TypeOK,
        Operations, Labels
<1> QED
  BY <1>1, <1>2, <1>3, <1>4, <1>5, <1>6, <1>7, <1>8, <1>9, <1>10, <1>11, <1>12,
        <1>13, <1>14, <1>15, <1>16, <1>17, <1>18, <1>19, <1>20, <1>21, <1>22, <1>23,
        <1>24 DEF Next, AppCall, Dispatch, Step, Peer

\* Every step leaves somebody who will destroy the closed session.
LEMMA WillDestroyStep == ASSUME IInv, [Next]_vars PROVE ClosedWillBeDestroyed'
<1>1. CASE Break
  BY <1>1 DEF Break, ClosedWillBeDestroyed, WillDestroy, HandlersAreIos,
        DestroyedIsClosed, OneOperation, WriteOwner, ReadOwner, RecvOwned, flags,
        socket, buffers, history, IInv, TypeOK, Operations, Labels
<1>2. ASSUME NEW r \in {"ok", "err"}, ReadCompletes(r) PROVE ClosedWillBeDestroyed'
  BY <1>2 DEF ReadCompletes, ClosedWillBeDestroyed, WillDestroy, HandlersAreIos,
        DestroyedIsClosed, OneOperation, WriteOwner, ReadOwner, RecvOwned, flags,
        socket, buffers, history, IInv, TypeOK, Operations, Labels
<1>3. CASE WriteSome
  BY <1>3 DEF WriteSome, ClosedWillBeDestroyed, WillDestroy, HandlersAreIos,
        DestroyedIsClosed, OneOperation, WriteOwner, ReadOwner, RecvOwned, flags,
        socket, buffers, history, IInv, TypeOK, Operations, Labels
<1>4. ASSUME NEW r \in {"ok", "err"}, WriteCompletes(r) PROVE ClosedWillBeDestroyed'
  BY <1>4 DEF WriteCompletes, ClosedWillBeDestroyed, WillDestroy, HandlersAreIos,
        DestroyedIsClosed, OneOperation, WriteOwner, ReadOwner, RecvOwned, flags,
        socket, buffers, history, IInv, TypeOK, Operations, Labels
<1>5. ASSUME NEW t \in Apps, send(t) PROVE ClosedWillBeDestroyed'
  BY <1>5 DEF send, Goto, Threads, ClosedWillBeDestroyed, WillDestroy, HandlersAreIos,
        DestroyedIsClosed, OneOperation, WriteOwner, ReadOwner, RecvOwned, flags,
        socket, buffers, history, IInv, TypeOK, Operations, Labels
<1>6. ASSUME NEW t \in Threads, AppendData(t) PROVE ClosedWillBeDestroyed'
  BY <1>6 DEF AppendData, Goto, ClosedWillBeDestroyed, WillDestroy, HandlersAreIos,
        DestroyedIsClosed, OneOperation, WriteOwner, ReadOwner, RecvOwned, flags,
        socket, buffers, history, IInv, TypeOK, Operations, Labels
<1>7. ASSUME NEW t \in Threads, SendIsOpen(t) PROVE ClosedWillBeDestroyed'
  BY <1>7 DEF SendIsOpen, Goto, Threads, ClosedWillBeDestroyed, WillDestroy,
        HandlersAreIos, DestroyedIsClosed, OneOperation, WriteOwner, ReadOwner,
        RecvOwned, flags, socket, buffers, history, IInv, TypeOK, Operations, Labels
<1>8. ASSUME NEW t \in Threads, ClaimSend(t) PROVE ClosedWillBeDestroyed'
  <2>1. CASE sending \/ sendBuffer = <<>>
    <3>1. /\ pc' = [pc EXCEPT ![t] = "idle"]
          /\ UNCHANGED <<open, read, write, sending, recving, destroyed, lateOk>>
      BY <1>8, <2>1 DEF ClaimSend, Goto, flags, socket, history
    <3>2. pc = [u \in Threads |-> pc[u]] /\ pc[t] = "rs_claim"
      BY <1>8 DEF ClaimSend, IInv, TypeOK
    <3>3. QED
      BY <3>1, <3>2 DEF IInv, ClosedWillBeDestroyed, WillDestroy, HandlersAreIos,
         DestroyedIsClosed, OneOperation, WriteOwner, ReadOwner, RecvOwned
  <2>2. CASE ~(sending \/ sendBuffer = <<>>)
    <3>1. /\ pc' = [pc EXCEPT ![t] = "rs_take"] /\ sending' = TRUE
          /\ UNCHANGED <<open, read, write, recving, destroyed, lateOk>>
      BY <1>8, <2>2 DEF ClaimSend, Goto, flags, socket, history
    <3>2. write = "none" /\ \A u \in Threads : ~WriteOwner(u)
      BY <2>2 DEF IInv, OneOperation
    <3>3. pc = [u \in Threads |-> pc[u]] /\ pc[t] = "rs_claim"
      BY <1>8 DEF ClaimSend, IInv, TypeOK
    <3>4. QED
      BY <3>1, <3>2, <3>3 DEF IInv, ClosedWillBeDestroyed, WillDestroy, HandlersAreIos,
         DestroyedIsClosed, OneOperation, WriteOwner, ReadOwner, RecvOwned
  <2>3. QED
    BY <2>1, <2>2
<1>9. ASSUME NEW t \in Threads, TakeSegments(t) PROVE ClosedWillBeDestroyed'
  BY <1>9 DEF TakeSegments, Goto, ClosedWillBeDestroyed, WillDestroy, HandlersAreIos,
        DestroyedIsClosed, OneOperation, WriteOwner, ReadOwner, RecvOwned, flags,
        socket, buffers, history, IInv, TypeOK, Operations, Labels
<1>10. ASSUME NEW t \in Threads, AsyncWrite(t) PROVE ClosedWillBeDestroyed'
  BY <1>10 DEF AsyncWrite, Goto, ClosedWillBeDestroyed, WillDestroy, HandlersAreIos,
        DestroyedIsClosed, OneOperation, WriteOwner, ReadOwner, RecvOwned, flags,
        socket, buffers, history, IInv, TypeOK, Operations, Labels
<1>11. ASSUME NEW t \in Apps, close(t) PROVE ClosedWillBeDestroyed'
  BY <1>11 DEF close, Goto, Threads, ClosedWillBeDestroyed, WillDestroy, HandlersAreIos,
        DestroyedIsClosed, OneOperation, WriteOwner, ReadOwner, RecvOwned, flags,
        socket, buffers, history, IInv, TypeOK, Operations, Labels
<1>12. ASSUME NEW t \in Threads, CloseSocket(t) PROVE ClosedWillBeDestroyed'
  BY <1>12 DEF CloseSocket, Goto, ClosedWillBeDestroyed, WillDestroy, HandlersAreIos,
        DestroyedIsClosed, OneOperation, WriteOwner, ReadOwner, RecvOwned, flags,
        socket, buffers, history, IInv, TypeOK, Operations, Labels
<1>13. ASSUME NEW t \in Threads, DestroyCheck(t) PROVE ClosedWillBeDestroyed'
  BY <1>13 DEF DestroyCheck, Goto, ClosedWillBeDestroyed, WillDestroy, HandlersAreIos,
        DestroyedIsClosed, OneOperation, WriteOwner, ReadOwner, RecvOwned, flags,
        socket, buffers, history, IInv, TypeOK, Operations, Labels
<1>14. ASSUME NEW t \in Threads, DestroyNotify(t) PROVE ClosedWillBeDestroyed'
  BY <1>14 DEF DestroyNotify, Goto, ClosedWillBeDestroyed, WillDestroy, HandlersAreIos,
        DestroyedIsClosed, OneOperation, WriteOwner, ReadOwner, RecvOwned, flags,
        socket, buffers, history, IInv, TypeOK, Operations, Labels
<1>15. ASSUME NEW t \in Ios, on_recv_completed(t) PROVE ClosedWillBeDestroyed'
  BY <1>15 DEF on_recv_completed, Goto, Threads, ClosedWillBeDestroyed, WillDestroy,
        HandlersAreIos, DestroyedIsClosed, OneOperation, WriteOwner, ReadOwner,
        RecvOwned, flags, socket, buffers, history, IInv, TypeOK, Operations, Labels
<1>16. ASSUME NEW t \in Threads, RecvFlag(t) PROVE ClosedWillBeDestroyed'
  BY <1>16 DEF RecvFlag, Goto, ClosedWillBeDestroyed, WillDestroy, HandlersAreIos,
        DestroyedIsClosed, OneOperation, WriteOwner, ReadOwner, RecvOwned, flags,
        socket, buffers, history, IInv, TypeOK, Operations, Labels
<1>17. ASSUME NEW t \in Threads, NEW ok \in BOOLEAN, OnRecv(t, ok) PROVE ClosedWillBeDestroyed'
  BY <1>17 DEF OnRecv, Goto, ClosedWillBeDestroyed, WillDestroy, HandlersAreIos,
        DestroyedIsClosed, OneOperation, WriteOwner, ReadOwner, RecvOwned, flags,
        socket, buffers, history, IInv, TypeOK, Operations, Labels
<1>18. ASSUME NEW t \in Threads, RecvIsOpen(t) PROVE ClosedWillBeDestroyed'
  BY <1>18 DEF RecvIsOpen, Goto, ClosedWillBeDestroyed, WillDestroy, HandlersAreIos,
        DestroyedIsClosed, OneOperation, WriteOwner, ReadOwner, RecvOwned, flags,
        socket, buffers, history, IInv, TypeOK, Operations, Labels
<1>19. ASSUME NEW t \in Threads, ClaimRecv(t) PROVE ClosedWillBeDestroyed'
  BY <1>19 DEF ClaimRecv, Goto, ClosedWillBeDestroyed, WillDestroy, HandlersAreIos,
        DestroyedIsClosed, OneOperation, WriteOwner, ReadOwner, RecvOwned, flags,
        socket, buffers, history, IInv, TypeOK, Operations, Labels
<1>20. ASSUME NEW t \in Threads, AsyncRead(t) PROVE ClosedWillBeDestroyed'
  BY <1>20 DEF AsyncRead, Goto, ClosedWillBeDestroyed, WillDestroy, HandlersAreIos,
        DestroyedIsClosed, OneOperation, WriteOwner, ReadOwner, RecvOwned, flags,
        socket, buffers, history, IInv, TypeOK, Operations, Labels
<1>21. ASSUME NEW t \in Ios, on_send_completed(t) PROVE ClosedWillBeDestroyed'
  BY <1>21 DEF on_send_completed, Goto, Threads, ClosedWillBeDestroyed, WillDestroy,
        HandlersAreIos, DestroyedIsClosed, OneOperation, WriteOwner, ReadOwner,
        RecvOwned, flags, socket, buffers, history, IInv, TypeOK, Operations, Labels
<1>22. ASSUME NEW t \in Threads, ReleaseSegments(t) PROVE ClosedWillBeDestroyed'
  BY <1>22 DEF ReleaseSegments, Goto, ClosedWillBeDestroyed, WillDestroy,
        HandlersAreIos, DestroyedIsClosed, OneOperation, WriteOwner, ReadOwner,
        RecvOwned, flags, socket, buffers, history, IInv, TypeOK, Operations, Labels
<1>23. ASSUME NEW t \in Threads, SendFlag(t) PROVE ClosedWillBeDestroyed'
  BY <1>23 DEF SendFlag, Goto, ClosedWillBeDestroyed, WillDestroy, HandlersAreIos,
        DestroyedIsClosed, OneOperation, WriteOwner, ReadOwner, RecvOwned, flags,
        socket, buffers, history, IInv, TypeOK, Operations, Labels
<1>24. CASE UNCHANGED vars
  BY <1>24 DEF vars, ClosedWillBeDestroyed, WillDestroy, HandlersAreIos,
        DestroyedIsClosed, OneOperation, WriteOwner, ReadOwner, RecvOwned, flags,
        socket, buffers, history, IInv, TypeOK, Operations, Labels
<1> QED
  BY <1>1, <1>2, <1>3, <1>4, <1>5, <1>6, <1>7, <1>8, <1>9, <1>10, <1>11, <1>12,
        <1>13, <1>14, <1>15, <1>16, <1>17, <1>18, <1>19, <1>20, <1>21, <1>22, <1>23,
        <1>24 DEF Next, AppCall, Dispatch, Step, Peer

\* Every step leaves somebody who will send what is buffered.
LEMMA StrandedStep == ASSUME IInv, [Next]_vars PROVE NoStrandedData'
<1>1. CASE Break
  BY <1>1 DEF Break, NoStrandedData, DestroyedIsClosed, flags, socket, buffers, history,
        IInv, TypeOK, Operations, Labels
<1>2. ASSUME NEW r \in {"ok", "err"}, ReadCompletes(r) PROVE NoStrandedData'
  BY <1>2 DEF ReadCompletes, NoStrandedData, DestroyedIsClosed, flags, socket, buffers,
        history, IInv, TypeOK, Operations, Labels
<1>3. CASE WriteSome
  BY <1>3 DEF WriteSome, NoStrandedData, DestroyedIsClosed, flags, socket, buffers,
        history, IInv, TypeOK, Operations, Labels
<1>4. ASSUME NEW r \in {"ok", "err"}, WriteCompletes(r) PROVE NoStrandedData'
  BY <1>4 DEF WriteCompletes, NoStrandedData, DestroyedIsClosed, flags, socket, buffers,
        history, IInv, TypeOK, Operations, Labels
<1>5. ASSUME NEW t \in Apps, send(t) PROVE NoStrandedData'
  BY <1>5 DEF send, Goto, Threads, NoStrandedData, DestroyedIsClosed, flags, socket,
        buffers, history, IInv, TypeOK, Operations, Labels
<1>6. ASSUME NEW t \in Threads, AppendData(t) PROVE NoStrandedData'
  BY <1>6 DEF AppendData, Goto, NoStrandedData, DestroyedIsClosed, flags, socket,
        buffers, history, IInv, TypeOK, Operations, Labels
<1>7. ASSUME NEW t \in Threads, SendIsOpen(t) PROVE NoStrandedData'
  BY <1>7 DEF SendIsOpen, Goto, Threads, NoStrandedData, DestroyedIsClosed, flags,
        socket, buffers, history, IInv, TypeOK, Operations, Labels
<1>8. ASSUME NEW t \in Threads, ClaimSend(t) PROVE NoStrandedData'
  BY <1>8 DEF ClaimSend, Goto, NoStrandedData, DestroyedIsClosed, flags, socket,
        buffers, history, IInv, TypeOK, Operations, Labels
<1>9. ASSUME NEW t \in Threads, TakeSegments(t) PROVE NoStrandedData'
  BY <1>9 DEF TakeSegments, Goto, NoStrandedData, DestroyedIsClosed, flags, socket,
        buffers, history, IInv, TypeOK, Operations, Labels
<1>10. ASSUME NEW t \in Threads, AsyncWrite(t) PROVE NoStrandedData'
  BY <1>10 DEF AsyncWrite, Goto, NoStrandedData, DestroyedIsClosed, flags, socket,
        buffers, history, IInv, TypeOK, Operations, Labels
<1>11. ASSUME NEW t \in Apps, close(t) PROVE NoStrandedData'
  BY <1>11 DEF close, Goto, Threads, NoStrandedData, DestroyedIsClosed, flags, socket,
        buffers, history, IInv, TypeOK, Operations, Labels
<1>12. ASSUME NEW t \in Threads, CloseSocket(t) PROVE NoStrandedData'
  BY <1>12 DEF CloseSocket, Goto, NoStrandedData, DestroyedIsClosed, flags, socket,
        buffers, history, IInv, TypeOK, Operations, Labels
<1>13. ASSUME NEW t \in Threads, DestroyCheck(t) PROVE NoStrandedData'
  BY <1>13 DEF DestroyCheck, Goto, NoStrandedData, DestroyedIsClosed, flags, socket,
        buffers, history, IInv, TypeOK, Operations, Labels
<1>14. ASSUME NEW t \in Threads, DestroyNotify(t) PROVE NoStrandedData'
  BY <1>14 DEF DestroyNotify, Goto, NoStrandedData, DestroyedIsClosed, flags, socket,
        buffers, history, IInv, TypeOK, Operations, Labels
<1>15. ASSUME NEW t \in Ios, on_recv_completed(t) PROVE NoStrandedData'
  BY <1>15 DEF on_recv_completed, Goto, Threads, NoStrandedData, DestroyedIsClosed,
        flags, socket, buffers, history, IInv, TypeOK, Operations, Labels
<1>16. ASSUME NEW t \in Threads, RecvFlag(t) PROVE NoStrandedData'
  BY <1>16 DEF RecvFlag, Goto, NoStrandedData, DestroyedIsClosed, flags, socket,
        buffers, history, IInv, TypeOK, Operations, Labels
<1>17. ASSUME NEW t \in Threads, NEW ok \in BOOLEAN, OnRecv(t, ok) PROVE NoStrandedData'
  BY <1>17 DEF OnRecv, Goto, NoStrandedData, DestroyedIsClosed, flags, socket, buffers,
        history, IInv, TypeOK, Operations, Labels
<1>18. ASSUME NEW t \in Threads, RecvIsOpen(t) PROVE NoStrandedData'
  BY <1>18 DEF RecvIsOpen, Goto, NoStrandedData, DestroyedIsClosed, flags, socket,
        buffers, history, IInv, TypeOK, Operations, Labels
<1>19. ASSUME NEW t \in Threads, ClaimRecv(t) PROVE NoStrandedData'
  BY <1>19 DEF ClaimRecv, Goto, NoStrandedData, DestroyedIsClosed, flags, socket,
        buffers, history, IInv, TypeOK, Operations, Labels
<1>20. ASSUME NEW t \in Threads, AsyncRead(t) PROVE NoStrandedData'
  BY <1>20 DEF AsyncRead, Goto, NoStrandedData, DestroyedIsClosed, flags, socket,
        buffers, history, IInv, TypeOK, Operations, Labels
<1>21. ASSUME NEW t \in Ios, on_send_completed(t) PROVE NoStrandedData'
  BY <1>21 DEF on_send_completed, Goto, Threads, NoStrandedData, DestroyedIsClosed,
        flags, socket, buffers, history, IInv, TypeOK, Operations, Labels
<1>22. ASSUME NEW t \in Threads, ReleaseSegments(t) PROVE NoStrandedData'
  BY <1>22 DEF ReleaseSegments, Goto, NoStrandedData, DestroyedIsClosed, flags, socket,
        buffers, history, IInv, TypeOK, Operations, Labels
<1>23. ASSUME NEW t \in Threads, SendFlag(t) PROVE NoStrandedData'
  BY <1>23 DEF SendFlag, Goto, NoStrandedData, DestroyedIsClosed, flags, socket,
        buffers, history, IInv, TypeOK, Operations, Labels
<1>24. CASE UNCHANGED vars
  BY <1>24 DEF vars, NoStrandedData, DestroyedIsClosed, flags, socket, buffers, history,
        IInv, TypeOK, Operations, Labels
<1> QED
  BY <1>1, <1>2, <1>3, <1>4, <1>5, <1>6, <1>7, <1>8, <1>9, <1>10, <1>11, <1>12,
        <1>13, <1>14, <1>15, <1>16, <1>17, <1>18, <1>19, <1>20, <1>21, <1>22, <1>23,
        <1>24 DEF Next, AppCall, Dispatch, Step, Peer

\* Every step leaves the session listening.
LEMMA DeafStep == ASSUME IInv, [Next]_vars PROVE NeverDeaf'
<1>1. CASE Break
  BY <1>1 DEF Break, NeverDeaf, DestroyedIsClosed, flags, socket, buffers, history,
        IInv, TypeOK, Operations, Labels
<1>2. ASSUME NEW r \in {"ok", "err"}, ReadCompletes(r) PROVE NeverDeaf'
  BY <1>2 DEF ReadCompletes, NeverDeaf, DestroyedIsClosed, flags, socket, buffers,
        history, IInv, TypeOK, Operations, Labels
<1>3. CASE WriteSome
  BY <1>3 DEF WriteSome, NeverDeaf, DestroyedIsClosed, flags, socket, buffers, history,
        IInv, TypeOK, Operations, Labels
<1>4. ASSUME NEW r \in {"ok", "err"}, WriteCompletes(r) PROVE NeverDeaf'
  BY <1>4 DEF WriteCompletes, NeverDeaf, DestroyedIsClosed, flags, socket, buffers,
        history, IInv, TypeOK, Operations, Labels
<1>5. ASSUME NEW t \in Apps, send(t) PROVE NeverDeaf'
  BY <1>5 DEF send, Goto, Threads, NeverDeaf, DestroyedIsClosed, flags, socket, buffers,
        history, IInv, TypeOK, Operations, Labels
<1>6. ASSUME NEW t \in Threads, AppendData(t) PROVE NeverDeaf'
  BY <1>6 DEF AppendData, Goto, NeverDeaf, DestroyedIsClosed, flags, socket, buffers,
        history, IInv, TypeOK, Operations, Labels
<1>7. ASSUME NEW t \in Threads, SendIsOpen(t) PROVE NeverDeaf'
  BY <1>7 DEF SendIsOpen, Goto, Threads, NeverDeaf, DestroyedIsClosed, flags, socket,
        buffers, history, IInv, TypeOK, Operations, Labels
<1>8. ASSUME NEW t \in Threads, ClaimSend(t) PROVE NeverDeaf'
  BY <1>8 DEF ClaimSend, Goto, NeverDeaf, DestroyedIsClosed, flags, socket, buffers,
        history, IInv, TypeOK, Operations, Labels
<1>9. ASSUME NEW t \in Threads, TakeSegments(t) PROVE NeverDeaf'
  BY <1>9 DEF TakeSegments, Goto, NeverDeaf, DestroyedIsClosed, flags, socket, buffers,
        history, IInv, TypeOK, Operations, Labels
<1>10. ASSUME NEW t \in Threads, AsyncWrite(t) PROVE NeverDeaf'
  BY <1>10 DEF AsyncWrite, Goto, NeverDeaf, DestroyedIsClosed, flags, socket, buffers,
        history, IInv, TypeOK, Operations, Labels
<1>11. ASSUME NEW t \in Apps, close(t) PROVE NeverDeaf'
  BY <1>11 DEF close, Goto, Threads, NeverDeaf, DestroyedIsClosed, flags, socket,
        buffers, history, IInv, TypeOK, Operations, Labels
<1>12. ASSUME NEW t \in Threads, CloseSocket(t) PROVE NeverDeaf'
  BY <1>12 DEF CloseSocket, Goto, NeverDeaf, DestroyedIsClosed, flags, socket, buffers,
        history, IInv, TypeOK, Operations, Labels
<1>13. ASSUME NEW t \in Threads, DestroyCheck(t) PROVE NeverDeaf'
  BY <1>13 DEF DestroyCheck, Goto, NeverDeaf, DestroyedIsClosed, flags, socket, buffers,
        history, IInv, TypeOK, Operations, Labels
<1>14. ASSUME NEW t \in Threads, DestroyNotify(t) PROVE NeverDeaf'
  BY <1>14 DEF DestroyNotify, Goto, NeverDeaf, DestroyedIsClosed, flags, socket,
        buffers, history, IInv, TypeOK, Operations, Labels
<1>15. ASSUME NEW t \in Ios, on_recv_completed(t) PROVE NeverDeaf'
  BY <1>15 DEF on_recv_completed, Goto, Threads, NeverDeaf, DestroyedIsClosed, flags,
        socket, buffers, history, IInv, TypeOK, Operations, Labels
<1>16. ASSUME NEW t \in Threads, RecvFlag(t) PROVE NeverDeaf'
  BY <1>16 DEF RecvFlag, Goto, NeverDeaf, DestroyedIsClosed, flags, socket, buffers,
        history, IInv, TypeOK, Operations, Labels
<1>17. ASSUME NEW t \in Threads, NEW ok \in BOOLEAN, OnRecv(t, ok) PROVE NeverDeaf'
  BY <1>17 DEF OnRecv, Goto, NeverDeaf, DestroyedIsClosed, flags, socket, buffers,
        history, IInv, TypeOK, Operations, Labels
<1>18. ASSUME NEW t \in Threads, RecvIsOpen(t) PROVE NeverDeaf'
  BY <1>18 DEF RecvIsOpen, Goto, NeverDeaf, DestroyedIsClosed, flags, socket, buffers,
        history, IInv, TypeOK, Operations, Labels
<1>19. ASSUME NEW t \in Threads, ClaimRecv(t) PROVE NeverDeaf'
  BY <1>19 DEF ClaimRecv, Goto, NeverDeaf, DestroyedIsClosed, flags, socket, buffers,
        history, IInv, TypeOK, Operations, Labels
<1>20. ASSUME NEW t \in Threads, AsyncRead(t) PROVE NeverDeaf'
  BY <1>20 DEF AsyncRead, Goto, NeverDeaf, DestroyedIsClosed, flags, socket, buffers,
        history, IInv, TypeOK, Operations, Labels
<1>21. ASSUME NEW t \in Ios, on_send_completed(t) PROVE NeverDeaf'
  BY <1>21 DEF on_send_completed, Goto, Threads, NeverDeaf, DestroyedIsClosed, flags,
        socket, buffers, history, IInv, TypeOK, Operations, Labels
<1>22. ASSUME NEW t \in Threads, ReleaseSegments(t) PROVE NeverDeaf'
  BY <1>22 DEF ReleaseSegments, Goto, NeverDeaf, DestroyedIsClosed, flags, socket,
        buffers, history, IInv, TypeOK, Operations, Labels
<1>23. ASSUME NEW t \in Threads, SendFlag(t) PROVE NeverDeaf'
  BY <1>23 DEF SendFlag, Goto, NeverDeaf, DestroyedIsClosed, flags, socket, buffers,
        history, IInv, TypeOK, Operations, Labels
<1>24. CASE UNCHANGED vars
  BY <1>24 DEF vars, NeverDeaf, DestroyedIsClosed, flags, socket, buffers, history,
        IInv, TypeOK, Operations, Labels
<1> QED
  BY <1>1, <1>2, <1>3, <1>4, <1>5, <1>6, <1>7, <1>8, <1>9, <1>10, <1>11, <1>12,
        <1>13, <1>14, <1>15, <1>16, <1>17, <1>18, <1>19, <1>20, <1>21, <1>22, <1>23,
        <1>24 DEF Next, AppCall, Dispatch, Step, Peer

\* A step that leaves the data alone, starts no write and does not repair the
\* connection keeps Contiguous.
LEMMA ContiguousKept ==
    ASSUME IInv, Healthy' => Healthy,
           UNCHANGED <<sendBuffer, sendingSegs, progress, accepted, delivered, write>>,
           \A u \in Threads : pc'[u] = "rs_write" <=> pc[u] = "rs_write"
    PROVE  Contiguous'
BY DEF IInv, Contiguous


\* Every step keeps what is buffered, written and delivered in order.
LEMMA ContiguousStep == ASSUME IInv, [Next]_vars PROVE Contiguous'
<1>1. CASE WriteSome
  <2>1. Healthy /\ write = "pending" /\ progress < Len(sendingSegs)
    BY <1>1 DEF WriteSome, Healthy
  <2>2. /\ sendBuffer \in Seq(Nat) /\ sendingSegs \in Seq(Nat) /\ delivered \in Seq(Nat)
        /\ progress \in Nat /\ accepted \in Nat
    BY DEF IInv, TypeOK
  <2>3. /\ progress' = progress + 1 /\ Len(delivered') = Len(delivered) + 1
        /\ UNCHANGED <<write, sendBuffer, sendingSegs, accepted, pc>>
    BY <1>1, <2>1, <2>2 DEF WriteSome, buffers
  <2>4. \A u \in Threads : pc[u] # "rs_write"
    BY <2>1 DEF IInv, OneOperation, WriteOwner
  <2>5. /\ write # "err"
        /\ \A j \in 1 .. Len(sendBuffer) : sendBuffer[j] = accepted - Len(sendBuffer) + j
        /\ accepted = Len(delivered) + (Len(sendingSegs) - progress) + Len(sendBuffer)
        /\ \A j \in 1 .. Len(sendingSegs) :
              j > progress => sendingSegs[j] = Len(delivered) - progress + j
    BY <2>1 DEF IInv, Contiguous
  <2>6. /\ progress' <= Len(sendingSegs')
        /\ accepted' = Len(delivered') + (Len(sendingSegs') - progress') + Len(sendBuffer')
    BY <2>1, <2>2, <2>3, <2>5
  <2>7. \A j \in 1 .. Len(sendingSegs') :
           j > progress' => sendingSegs'[j] = Len(delivered') - progress' + j
    BY <2>1, <2>2, <2>3, <2>5
  <2>8. QED
    BY <2>1, <2>3, <2>4, <2>5, <2>6, <2>7 DEF Contiguous
<1>2. ASSUME NEW r \in {"ok", "err"}, WriteCompletes(r) PROVE Contiguous'
  <2>1. CASE r = "ok"
    <3>1. Healthy /\ write = "pending" /\ progress = Len(sendingSegs) /\ write' = "ok"
      BY <1>2, <2>1 DEF WriteCompletes, Healthy
    <3>2. UNCHANGED <<sendBuffer, sendingSegs, progress, accepted, delivered, pc>>
      BY <1>2 DEF WriteCompletes, buffers, history
    <3>3. /\ sendBuffer \in Seq(Nat) /\ sendingSegs \in Seq(Nat) /\ delivered \in Seq(Nat)
          /\ progress \in Nat /\ accepted \in Nat
      BY DEF IInv, TypeOK
    <3>4. \A u \in Threads : pc[u] # "rs_write"
      BY <3>1 DEF IInv, OneOperation, WriteOwner
    <3>5. QED
      BY <3>1, <3>2, <3>3, <3>4 DEF IInv, Contiguous
  <2>2. CASE r = "err"
    BY <1>2, <2>2 DEF WriteCompletes, Contiguous, Healthy
  <2>3. QED
    BY <2>1, <2>2
<1>3. ASSUME NEW t \in Threads, AppendData(t) PROVE Contiguous'
  <2>1. /\ sendBuffer \in Seq(Nat) /\ sendingSegs \in Seq(Nat) /\ delivered \in Seq(Nat)
        /\ progress \in Nat /\ accepted \in Nat
    BY DEF IInv, TypeOK
  <2>2. /\ sendBuffer' = Append(sendBuffer, accepted + 1) /\ accepted' = accepted + 1
        /\ UNCHANGED <<open, broken, sendingSegs, progress, delivered, write>>
    BY <1>3 DEF AppendData, socket
  <2>3. \A u \in Threads : pc'[u] = "rs_write" <=> pc[u] = "rs_write"
    BY <1>3 DEF AppendData, Goto, IInv, TypeOK
  <2>4. /\ Len(sendBuffer') = Len(sendBuffer) + 1
        /\ sendBuffer'[Len(sendBuffer) + 1] = accepted + 1
        /\ \A j \in 1 .. Len(sendBuffer) : sendBuffer'[j] = sendBuffer[j]
    BY <2>1, <2>2
  <2>5. SUFFICES ASSUME Healthy PROVE Contiguous'
    BY <2>2 DEF Contiguous, Healthy
  <2>6. \A j \in 1 .. Len(sendBuffer') : sendBuffer'[j] = accepted' - Len(sendBuffer') + j
    <3>1. TAKE j \in 1 .. Len(sendBuffer')
    <3>2. CASE j = Len(sendBuffer) + 1
      BY <2>1, <2>2, <2>4, <3>2
    <3>3. CASE j \in 1 .. Len(sendBuffer)
      <4>1. sendBuffer[j] = accepted - Len(sendBuffer) + j
        BY <2>5, <3>3 DEF IInv, Contiguous
      <4>2. QED
        BY <2>1, <2>2, <2>4, <3>3, <4>1
    <3>4. QED
      BY <2>1, <2>4, <3>2, <3>3
  <2>7. /\ write # "err"
        /\ write = "pending" =>
              /\ progress <= Len(sendingSegs)
              /\ accepted = Len(delivered) + (Len(sendingSegs) - progress) + Len(sendBuffer)
              /\ \A j \in 1 .. Len(sendingSegs) :
                    j > progress => sendingSegs[j] = Len(delivered) - progress + j
        /\ (\E u \in Threads : pc[u] = "rs_write") =>
              /\ accepted = Len(delivered) + Len(sendingSegs) + Len(sendBuffer)
              /\ \A j \in 1 .. Len(sendingSegs) : sendingSegs[j] = Len(delivered) + j
        /\ write # "pending" /\ (\A u \in Threads : pc[u] # "rs_write") =>
              accepted = Len(delivered) + Len(sendBuffer)
    BY <2>5 DEF IInv, Contiguous
  <2>8. \A k \in Int : accepted = k + Len(sendBuffer) => accepted' = k + Len(sendBuffer')
    <3>1. Len(sendBuffer) \in Nat /\ accepted' = accepted + 1
      BY <2>1, <2>2
    <3>2. QED
      BY <2>1, <2>4, <3>1
  <2>9. /\ Len(delivered) + (Len(sendingSegs) - progress) \in Int
        /\ Len(delivered) + Len(sendingSegs) \in Int /\ Len(delivered) \in Int
    BY <2>1
  <2>10. QED
    BY <2>2, <2>3, <2>6, <2>7, <2>8, <2>9 DEF Contiguous
<1>4. ASSUME NEW t \in Threads, TakeSegments(t) PROVE Contiguous'
  <2>1. /\ sendBuffer \in Seq(Nat) /\ sendingSegs \in Seq(Nat) /\ delivered \in Seq(Nat)
        /\ progress \in Nat /\ accepted \in Nat
    BY DEF IInv, TypeOK
  <2>2. /\ sendingSegs' = sendBuffer /\ sendBuffer' = <<>>
        /\ UNCHANGED <<open, broken, progress, accepted, delivered, write>>
    BY <1>4 DEF TakeSegments, socket, history
  <2>3. WriteOwner(t) /\ pc[t] # "rs_write" /\ pc'[t] = "rs_write"
    BY <1>4 DEF TakeSegments, Goto, WriteOwner, IInv, TypeOK
  <2>4. write = "none" /\ \A u \in Threads : pc[u] # "rs_write"
    BY <2>3 DEF IInv, OneOperation, WriteOwner
  <2>5. SUFFICES ASSUME Healthy PROVE Contiguous'
    BY <2>2 DEF Contiguous, Healthy
  <2>6. /\ accepted = Len(delivered) + Len(sendBuffer)
        /\ \A j \in 1 .. Len(sendBuffer) : sendBuffer[j] = accepted - Len(sendBuffer) + j
    BY <2>4, <2>5 DEF IInv, Contiguous
  <2>7. /\ Len(sendBuffer') = 0
        /\ accepted' = Len(delivered') + Len(sendingSegs') + Len(sendBuffer')
        /\ \A j \in 1 .. Len(sendingSegs') : sendingSegs'[j] = Len(delivered') + j
    BY <2>1, <2>2, <2>6
  <2>8. QED
    BY <2>2, <2>3, <2>4, <2>7 DEF Contiguous
<1>5. ASSUME NEW t \in Threads, AsyncWrite(t) PROVE Contiguous'
  <2>1. /\ sendBuffer \in Seq(Nat) /\ sendingSegs \in Seq(Nat) /\ delivered \in Seq(Nat)
        /\ progress \in Nat /\ accepted \in Nat
    BY DEF IInv, TypeOK
  <2>2. /\ write' = "pending" /\ progress' = 0
        /\ UNCHANGED <<open, broken, sendBuffer, sendingSegs, accepted, delivered>>
    BY <1>5 DEF AsyncWrite, buffers, history
  <2>3. pc[t] = "rs_write" /\ \A u \in Threads : pc'[u] # "rs_write"
    BY <1>5 DEF AsyncWrite, Goto, IInv, TypeOK, OneOperation, WriteOwner
  <2>4. SUFFICES ASSUME Healthy PROVE Contiguous'
    BY <2>2 DEF Contiguous, Healthy
  <2>5. /\ accepted = Len(delivered) + Len(sendingSegs) + Len(sendBuffer)
        /\ \A j \in 1 .. Len(sendingSegs) : sendingSegs[j] = Len(delivered) + j
        /\ \A j \in 1 .. Len(sendBuffer) : sendBuffer[j] = accepted - Len(sendBuffer) + j
    BY <2>3, <2>4 DEF IInv, Contiguous
  <2>6. QED
    BY <2>1, <2>2, <2>3, <2>5 DEF Contiguous
<1>6. ASSUME NEW t \in Ios, on_send_completed(t) PROVE Contiguous'
  <2>1. /\ write \in {"ok", "err"} /\ write' = "none"
        /\ UNCHANGED <<open, broken, sendBuffer, sendingSegs, progress, accepted, delivered>>
    BY <1>6 DEF on_send_completed, buffers, history
  <2>2. \A u \in Threads : pc'[u] = "rs_write" <=> pc[u] = "rs_write"
    BY <1>6 DEF on_send_completed, Goto, Threads, IInv, TypeOK
  <2>3. QED
    BY <2>1, <2>2 DEF IInv, Contiguous, Healthy
<1>7. ASSUME NEW t \in Threads, ReleaseSegments(t) PROVE Contiguous'
  <2>1. UNCHANGED <<open, broken, sendBuffer, progress, accepted, delivered, write>>
    BY <1>7 DEF ReleaseSegments, socket, history
  <2>2. \A u \in Threads : pc'[u] = "rs_write" <=> pc[u] = "rs_write"
    BY <1>7 DEF ReleaseSegments, Goto, IInv, TypeOK
  <2>3. write = "none" /\ \A u \in Threads : pc[u] # "rs_write"
    BY <1>7 DEF ReleaseSegments, IInv, OneOperation, WriteOwner
  <2>4. QED
    BY <2>1, <2>2, <2>3 DEF IInv, Contiguous, Healthy
<1>8. CASE /\ ~WriteSome
           /\ \A r \in {"ok", "err"} : ~WriteCompletes(r)
           /\ \A t \in Threads : ~AppendData(t)
           /\ \A t \in Threads : ~TakeSegments(t)
           /\ \A t \in Threads : ~AsyncWrite(t)
           /\ \A t \in Ios : ~on_send_completed(t)
           /\ \A t \in Threads : ~ReleaseSegments(t)
  <2>1. UNCHANGED <<sendBuffer, sendingSegs, progress, accepted, delivered, write>>
    BY <1>8 DEF Next, AppCall, Dispatch, Step, Peer, Break, ReadCompletes, send,
       SendIsOpen, ClaimSend, close, CloseSocket, DestroyCheck, DestroyNotify,
       on_recv_completed, RecvFlag, OnRecv, RecvIsOpen, ClaimRecv, AsyncRead, SendFlag,
       vars, flags, socket, buffers, history
  <2>2. open' => open
    <3>1. UNCHANGED open \/ open' = (open /\ destroyed)
      BY <1>8 DEF Next, AppCall, Dispatch, Step, Peer, Break, ReadCompletes, send,
         SendIsOpen, ClaimSend, close, CloseSocket, DestroyCheck, DestroyNotify,
         on_recv_completed, RecvFlag, OnRecv, RecvIsOpen, ClaimRecv, AsyncRead, SendFlag,
         vars, flags, socket, buffers, history
    <3>2. QED
      BY <3>1
  <2>3. broken => broken'
    <3>1. UNCHANGED broken \/ broken' = TRUE
      BY <1>8 DEF Next, AppCall, Dispatch, Step, Peer, Break, ReadCompletes, send,
         SendIsOpen, ClaimSend, close, CloseSocket, DestroyCheck, DestroyNotify,
         on_recv_completed, RecvFlag, OnRecv, RecvIsOpen, ClaimRecv, AsyncRead, SendFlag,
         vars, flags, socket, buffers, history
    <3>2. QED
      BY <3>1
  <2>4. \A u \in Threads : pc'[u] = "rs_write" <=> pc[u] = "rs_write"
    <3>1. \/ UNCHANGED pc
          \/ \E t \in Threads, l \in Labels :
                pc[t] # "rs_write" /\ l # "rs_write" /\ pc' = [pc EXCEPT ![t] = l]
      BY <1>8 DEF Labels, Goto, Threads, Next, AppCall, Dispatch, Step, Peer, Break,
         ReadCompletes, send, SendIsOpen, ClaimSend, close, CloseSocket, DestroyCheck,
         DestroyNotify, on_recv_completed, RecvFlag, OnRecv, RecvIsOpen, ClaimRecv,
         AsyncRead, SendFlag, vars, flags, socket, buffers, history
    <3>2. QED
      BY <3>1 DEF IInv, TypeOK
  <2>5. QED
    BY <2>1, <2>2, <2>3, <2>4, ContiguousKept DEF Healthy
<1>9. QED
  BY <1>1, <1>2, <1>3, <1>4, <1>5, <1>6, <1>7, <1>8

\* Only the socket's taking a message changes what was delivered, and the
\* message it takes is the next one.
LEMMA InOrderStep == ASSUME IInv, [Next]_vars PROVE InOrder'
<1>1. CASE WriteSome
  <2>1. /\ write = "pending" /\ Healthy /\ progress < Len(sendingSegs)
        /\ delivered' = Append(delivered, sendingSegs[progress + 1])
    BY <1>1 DEF WriteSome, Healthy
  <2>2. /\ sendingSegs \in Seq(Nat) /\ delivered \in Seq(Nat) /\ progress \in Nat
        /\ \A i \in 1 .. Len(delivered) : delivered[i] = i
    BY DEF IInv, TypeOK, InOrder
  <2>3. sendingSegs[progress + 1] = Len(delivered) - progress + (progress + 1)
    BY <2>1, <2>2 DEF IInv, Contiguous
  <2>4. sendingSegs[progress + 1] = Len(delivered) + 1
    BY <2>2, <2>3
  <2>5. QED
    BY <2>1, <2>2, <2>4 DEF InOrder
<1>2. CASE ~WriteSome
  <2>1. delivered' = delivered
    BY <1>2 DEF Next, AppCall, Dispatch, Step, Peer, Break, ReadCompletes, WriteCompletes,
            send, AppendData, SendIsOpen, ClaimSend, TakeSegments, AsyncWrite, close,
            CloseSocket, DestroyCheck, DestroyNotify, on_recv_completed, RecvFlag, OnRecv,
            RecvIsOpen, ClaimRecv, AsyncRead, on_send_completed, ReleaseSegments, SendFlag,
            history, vars
  <2>2. QED
    BY <2>1 DEF IInv, InOrder
<1>3. QED
  BY <1>1, <1>2

-----------------------------------------------------------------------------

\* The initial state, in which no thread does anything, satisfies IInv.
LEMMA InitIInv == ASSUME Init PROVE IInv
<1>1. TypeOK
  <2>1. accepted \in 0 .. MaxSends /\ notified \in Nat /\ progress \in Nat
    BY SessionAssumption DEF Init
  <2>2. sendBuffer \in Seq(Nat) /\ sendingSegs \in Seq(Nat) /\ delivered \in Seq(Nat)
    BY DEF Init
  <2>3. QED
    BY <2>1, <2>2 DEF Init, TypeOK, Operations, Labels
<1>2. Bounded
  <2>1. Appending = {}
    BY DEF Init, Appending
  <2>2. QED
    BY <2>1, FS_EmptySet, SessionAssumption DEF Init, Bounded
<1>3. OneOperation /\ RecvOwned /\ HandlersAreIos /\ DestroyedIsClosed
  BY DEF Init, OneOperation, RecvOwned, HandlersAreIos, DestroyedIsClosed, WriteOwner,
     ReadOwner
<1>4. ClosedWillBeDestroyed /\ NoStrandedData /\ NeverDeaf
  BY DEF Init, ClosedWillBeDestroyed, NoStrandedData, NeverDeaf
<1>5. InOrder /\ Contiguous
  BY DEF Init, InOrder, Contiguous
<1>6. QED
  BY <1>1, <1>2, <1>3, <1>4, <1>5 DEF IInv

\* The invariant behind the theorems below holds in every reachable state.
THEOREM SessionInvariant == Spec => []IInv
<1>1. Init => IInv
  BY InitIInv
<1>2. IInv /\ [Next]_vars => IInv'
  BY TypeStep, BoundedStep, OneOperationStep, RecvOwnedStep, HandlersStep, DestroyedStep,
     WillDestroyStep, StrandedStep, DeafStep, InOrderStep, ContiguousStep DEF IInv
<1>3. QED
  BY <1>1, <1>2, PTL DEF Spec

\* The members of a session keep their types, and send() its bound.
THEOREM SessionTypeCorrect == Spec => []TypeOK
<1>1. IInv => TypeOK
  BY DEF IInv
<1>2. QED
  BY <1>1, SessionInvariant, PTL

\* One read and one write at a time: sending_ and recving_, which are set and
\* cleared under session_mutex_, keep two threads from using sending_segs_ or
\* recv_buf_ at once, however many threads send, close and complete.
THEOREM OneOperationAtATime == Spec => []OneOperation
<1>1. IInv => OneOperation
  BY DEF IInv
<1>2. QED
  BY <1>1, SessionInvariant, PTL

\* The socket gets the messages in the order in which send() appended them,
\* each once and without a gap.
THEOREM DeliveryInOrder == Spec => []InOrder
<1>1. IInv => InOrder
  BY DEF IInv
<1>2. QED
  BY <1>1, SessionInvariant, PTL

\* No message is forgotten in send_buffer_ of an open session.
THEOREM NoDataStranded == Spec => []NoStrandedData
<1>1. IInv => NoStrandedData
  BY DEF IInv
<1>2. QED
  BY <1>1, SessionInvariant, PTL

\* An open session reads, or is about to.
THEOREM SessionListens == Spec => []NeverDeaf
<1>1. IInv => NeverDeaf
  BY DEF IInv
<1>2. QED
  BY <1>1, SessionInvariant, PTL

\* The last of close(), the failed read and the failed write destroys the
\* session, unless a success was handled after the close.
THEOREM LastDestroys == Spec => []LastOneDestroys
<1>1. IInv => LastOneDestroys
  BY DEF IInv, ClosedWillBeDestroyed, WillDestroy, LastOneDestroys, Quiescent, Threads
<1>2. QED
  BY <1>1, SessionInvariant, PTL

-----------------------------------------------------------------------------
(* How often destroy() notifies.                                           *)

\* The threads in destroy().
Destroyers == {t \in Threads : pc[t] \in {"destroy", "notify"}}

\* Once the session is destroyed nobody enters destroy() any more, and who is
\* inside may still notify.
NotifiedByDestroyers ==
    /\ notified # 0 <=> destroyed
    /\ destroyed => notified + Cardinality(Destroyers) <= Cardinality(Threads)

\* The threads in destroy() are finitely many, and no more than all.
LEMMA DestroyersFinite ==
    /\ IsFiniteSet(Threads) /\ IsFiniteSet(Destroyers)
    /\ Cardinality(Threads) \in Nat /\ Cardinality(Destroyers) \in Nat
    /\ Cardinality(Destroyers) <= Cardinality(Threads)
<1>1. IsFiniteSet(Threads)
  BY FS_Union, SessionAssumption DEF Threads
<1>2. Destroyers \subseteq Threads
  BY DEF Destroyers
<1>3. IsFiniteSet(Destroyers) /\ Cardinality(Destroyers) <= Cardinality(Threads)
  BY <1>1, <1>2, FS_Subset
<1>4. QED
  BY <1>1, <1>3, FS_CardinalityType

\* Every step keeps the count of the notifications.
LEMMA NotifiedStep == ASSUME IInv, NotifiedByDestroyers, [Next]_vars PROVE NotifiedByDestroyers'
<1> DEFINE D == Cardinality(Destroyers)
           D1 == Cardinality(Destroyers')
           N == Cardinality(Threads)
<1>t. /\ pc \in [Threads -> Labels] /\ notified \in Nat /\ destroyed \in BOOLEAN
      /\ D \in Nat /\ D1 \in Nat /\ N \in Nat
  <2>1. IsFiniteSet(Threads) /\ Destroyers' \subseteq Threads
    BY DestroyersFinite DEF Destroyers
  <2>2. D1 \in Nat
    BY <2>1, FS_Subset, FS_CardinalityType
  <2>3. QED
    BY <2>2, DestroyersFinite DEF IInv, TypeOK
<1>s. Destroyers' \subseteq Destroyers => D1 <= D
  BY DestroyersFinite, FS_Subset
<1>1. ASSUME NEW t \in Threads, DestroyNotify(t) PROVE NotifiedByDestroyers'
  <2>1. t \in Destroyers /\ destroyed' = TRUE /\ notified' = notified + 1
    BY <1>1 DEF DestroyNotify, Destroyers
  <2>2. Destroyers' = Destroyers \ {t}
    BY <1>1, <1>t DEF DestroyNotify, Goto, Destroyers
  <2>3. D1 = D - 1
    BY <2>1, <2>2, DestroyersFinite, FS_RemoveElement
  <2>4. notified + D <= N
    <3>1. CASE destroyed
      BY <3>1 DEF NotifiedByDestroyers
    <3>2. CASE ~destroyed
      <4>1. notified = 0 /\ D <= N
        BY <3>2, DestroyersFinite DEF NotifiedByDestroyers
      <4>2. QED
        BY <4>1, <1>t
    <3>3. QED
      BY <3>1, <3>2
  <2>5. notified' # 0 /\ notified' + D1 <= N
    BY <2>1, <2>3, <2>4, <1>t
  <2>6. QED
    BY <2>1, <2>5 DEF NotifiedByDestroyers
<1>2. ASSUME NEW t \in Threads, CloseSocket(t) PROVE NotifiedByDestroyers'
  <2>1. UNCHANGED <<notified, destroyed>>
    BY <1>2 DEF CloseSocket, flags, history
  <2>2. destroyed => Destroyers' = Destroyers
    BY <1>2, <1>t DEF CloseSocket, Goto, Destroyers
  <2>3. QED
    BY <2>1, <2>2 DEF NotifiedByDestroyers
<1>3. ASSUME Destroyers' \subseteq Destroyers, UNCHANGED <<notified, destroyed>>
      PROVE  NotifiedByDestroyers'
  <2>1. destroyed => notified + D1 <= N
    BY <1>3, <1>s, <1>t DEF NotifiedByDestroyers
  <2>2. QED
    BY <2>1, <1>3 DEF NotifiedByDestroyers
<1>4. CASE UNCHANGED vars
  BY <1>3, <1>4 DEF vars, flags, history, Destroyers
<1>5. CASE Peer
  <2>1. UNCHANGED <<pc, notified, destroyed>>
    BY <1>5 DEF Peer, ReadCompletes, WriteCompletes, WriteSome, Break, flags, history
  <2>2. QED
    BY <1>3, <2>1 DEF Destroyers
<1>6. ASSUME NEW t \in Threads, AppCall(t) \/ Dispatch(t) PROVE NotifiedByDestroyers'
  <2>1. /\ \E l \in {"append", "close", "recv_flag", "release"} : pc' = [pc EXCEPT ![t] = l]
        /\ UNCHANGED <<notified, destroyed>>
    BY <1>6 DEF AppCall, Dispatch, send, close, on_recv_completed, on_send_completed, Goto,
       flags, history
  <2>2. Destroyers' \subseteq Destroyers
    BY <2>1, <1>t DEF Destroyers
  <2>3. QED
    BY <1>3, <2>1, <2>2
<1>7. ASSUME NEW t \in Threads, Step(t), ~CloseSocket(t), ~DestroyNotify(t)
      PROVE  NotifiedByDestroyers'
  <2>1. /\ UNCHANGED <<notified, destroyed>>
        /\ \E l \in Labels : /\ pc' = [pc EXCEPT ![t] = l]
                             /\ l \in {"destroy", "notify"} => pc[t] = "destroy"
    BY <1>7 DEF Step, AppendData, SendIsOpen, ClaimSend, TakeSegments, AsyncWrite, DestroyCheck,
       RecvFlag, OnRecv, RecvIsOpen, ClaimRecv, AsyncRead, ReleaseSegments, SendFlag, Goto,
       flags, history, Labels
  <2>2. Destroyers' \subseteq Destroyers
    BY <2>1, <1>t DEF Destroyers
  <2>3. QED
    BY <1>3, <2>1, <2>2
<1>8. QED
  BY <1>1, <1>2, <1>4, <1>5, <1>6, <1>7 DEF Next, Threads

\* The closing of a session is notified at most once by every thread.
NotifiedOncePerThread == notified <= Cardinality(Threads)

\* destroy() may notify more than once, since it checks destroyed_ nowhere; but
\* never more often than there are threads, however often they close.
THEOREM AtMostOneNotificationPerThread == Spec => []NotifiedOncePerThread
<1>1. Init => NotifiedByDestroyers
  BY DEF Init, NotifiedByDestroyers
<1>2. IInv /\ NotifiedByDestroyers /\ [Next]_vars => NotifiedByDestroyers'
  BY NotifiedStep
<1>3. IInv /\ NotifiedByDestroyers => NotifiedOncePerThread
  <2> SUFFICES ASSUME IInv, NotifiedByDestroyers PROVE NotifiedOncePerThread
    OBVIOUS
  <2>1. notified \in Nat /\ Cardinality(Threads) \in Nat /\ Cardinality(Destroyers) \in Nat
    BY DestroyersFinite DEF IInv, TypeOK
  <2>2. QED
    BY <2>1 DEF NotifiedByDestroyers, NotifiedOncePerThread
<1>4. QED
  BY <1>1, <1>2, <1>3, SessionInvariant, PTL DEF Spec

\* No two threads are inside destroy() at once, from close()'s look at
\* destroyed_ on.
Alone == \A t, u \in Destroyers : t = u

\* What the notifications are then.
NotifiedAlone ==
    /\ destroyed => Destroyers = {} /\ notified = 1
    /\ ~destroyed => notified = 0

\* Every step keeps that.
LEMMA AloneStep ==
    ASSUME IInv, NotifiedAlone, Alone, [Next]_vars
    PROVE  NotifiedAlone'
<1>t. pc \in [Threads -> Labels] /\ notified \in Nat /\ destroyed \in BOOLEAN
  BY DEF IInv, TypeOK
<1>1. ASSUME NEW t \in Threads, DestroyNotify(t) PROVE NotifiedAlone'
  <2>1. t \in Destroyers /\ destroyed' = TRUE /\ notified' = notified + 1
    BY <1>1 DEF DestroyNotify, Destroyers
  <2>2. Destroyers' = Destroyers \ {t}
    BY <1>1, <1>t DEF DestroyNotify, Goto, Destroyers
  <2>3. Destroyers' = {} /\ ~destroyed
    BY <2>1, <2>2 DEF Alone, NotifiedAlone
  <2>4. QED
    BY <2>1, <2>3 DEF NotifiedAlone
<1>2. ASSUME NEW t \in Threads, CloseSocket(t) PROVE NotifiedAlone'
  <2>1. UNCHANGED <<notified, destroyed>>
    BY <1>2 DEF CloseSocket, flags, history
  <2>2. destroyed => Destroyers' = Destroyers
    BY <1>2, <1>t DEF CloseSocket, Goto, Destroyers
  <2>3. QED
    BY <2>1, <2>2 DEF NotifiedAlone
<1>3. ASSUME Destroyers' \subseteq Destroyers, UNCHANGED <<notified, destroyed>>
      PROVE  NotifiedAlone'
  BY <1>3 DEF NotifiedAlone
<1>4. CASE UNCHANGED vars
  BY <1>3, <1>4 DEF vars, flags, history, Destroyers
<1>5. CASE Peer
  <2>1. UNCHANGED <<pc, notified, destroyed>>
    BY <1>5 DEF Peer, ReadCompletes, WriteCompletes, WriteSome, Break, flags, history
  <2>2. QED
    BY <1>3, <2>1 DEF Destroyers
<1>6. ASSUME NEW t \in Threads, AppCall(t) \/ Dispatch(t) PROVE NotifiedAlone'
  <2>1. /\ \E l \in {"append", "close", "recv_flag", "release"} : pc' = [pc EXCEPT ![t] = l]
        /\ UNCHANGED <<notified, destroyed>>
    BY <1>6 DEF AppCall, Dispatch, send, close, on_recv_completed, on_send_completed, Goto,
       flags, history
  <2>2. Destroyers' \subseteq Destroyers
    BY <2>1, <1>t DEF Destroyers
  <2>3. QED
    BY <1>3, <2>1, <2>2
<1>7. ASSUME NEW t \in Threads, Step(t), ~CloseSocket(t), ~DestroyNotify(t)
      PROVE  NotifiedAlone'
  <2>1. /\ UNCHANGED <<notified, destroyed>>
        /\ \E l \in Labels : /\ pc' = [pc EXCEPT ![t] = l]
                             /\ l \in {"destroy", "notify"} => pc[t] = "destroy"
    BY <1>7 DEF Step, AppendData, SendIsOpen, ClaimSend, TakeSegments, AsyncWrite, DestroyCheck,
       RecvFlag, OnRecv, RecvIsOpen, ClaimRecv, AsyncRead, ReleaseSegments, SendFlag, Goto,
       flags, history, Labels
  <2>2. Destroyers' \subseteq Destroyers
    BY <2>1, <1>t DEF Destroyers
  <2>3. QED
    BY <1>3, <2>1, <2>2
<1>8. QED
  BY <1>1, <1>2, <1>4, <1>5, <1>6, <1>7 DEF Next, Threads

\* Nothing but two threads inside destroy() at once makes a session notify its
\* closing twice: not the order of failures and closes, nor how many there are.
THEOREM DestroyedAloneNotifiesOnce == Spec /\ []Alone => []NotifiedOnce
<1>1. Init => NotifiedAlone
  BY DEF Init, NotifiedAlone
<1>2. IInv /\ NotifiedAlone /\ Alone /\ [Next]_vars => NotifiedAlone'
  BY AloneStep
<1>3. IInv /\ NotifiedAlone => NotifiedOnce
  BY DEF IInv, TypeOK, NotifiedAlone, NotifiedOnce
<1>4. QED
  BY <1>1, <1>2, <1>3, SessionInvariant, PTL DEF Spec

-----------------------------------------------------------------------------

\* The places of a thread that sends but does not close.
SendersOnly ==
    \A t \in Apps : pc[t] \in {"idle", "append", "rs_open", "rs_claim", "rs_take", "rs_write"}

\* Application threads get nowhere else without a close().
LEMMA SendersStep ==
    ASSUME IInv, SendersOnly, [Next]_vars, [\A t \in Apps : ~close(t)]_vars
    PROVE  SendersOnly'
<1> DEFINE Places == {"idle", "append", "rs_open", "rs_claim", "rs_take", "rs_write"}
<1>t. pc \in [Threads -> Labels] /\ Apps \cap Ios = {} /\ Apps \subseteq Threads
  BY SessionAssumption DEF IInv, TypeOK, Threads
<1>1. CASE UNCHANGED pc
  BY <1>1 DEF SendersOnly
<1>2. ASSUME NEW t \in Threads, NEW l \in Labels, pc' = [pc EXCEPT ![t] = l],
             t \in Apps => l \in Places
      PROVE  SendersOnly'
  BY <1>2, <1>t DEF SendersOnly
<1>3. ASSUME NEW t \in Apps, send(t) PROVE SendersOnly'
  <2>1. pc' = [pc EXCEPT ![t] = "append"] /\ "append" \in Labels /\ t \in Threads
    BY <1>3, <1>t DEF send, Goto, Labels
  <2>2. QED
    BY <1>2, <2>1
<1>4. ASSUME NEW t \in Ios, Dispatch(t) PROVE SendersOnly'
  <2>1. PICK l \in Labels : pc' = [pc EXCEPT ![t] = l]
    BY <1>4 DEF Dispatch, on_recv_completed, on_send_completed, Goto, Labels
  <2>2. t \in Threads /\ t \notin Apps
    BY <1>t DEF Threads
  <2>3. QED
    BY <1>2, <2>1, <2>2
<1>5. ASSUME NEW t \in Threads, Step(t) PROVE SendersOnly'
  <2>1. PICK l \in Labels : /\ pc' = [pc EXCEPT ![t] = l]
                            /\ pc[t] \in Places /\ pc[t] # "idle" => l \in Places
                            /\ pc[t] # "idle"
    BY <1>5 DEF Step, AppendData, SendIsOpen, ClaimSend, TakeSegments, AsyncWrite, DestroyCheck,
       RecvFlag, OnRecv, RecvIsOpen, ClaimRecv, AsyncRead, ReleaseSegments, SendFlag, Goto,
       CloseSocket, DestroyNotify, Labels
  <2>2. t \in Apps => l \in Places
    BY <2>1 DEF SendersOnly
  <2>3. QED
    BY <1>2, <2>1, <2>2
<1>6. CASE Peer
  BY <1>1, <1>6 DEF Peer, ReadCompletes, WriteCompletes, WriteSome, Break
<1>7. CASE UNCHANGED vars
  BY <1>1, <1>7 DEF vars
<1>8. QED
  BY <1>3, <1>4, <1>5, <1>6, <1>7 DEF Next, AppCall

\* With one io thread, and application threads that send but leave the closing
\* to the handlers of failed operations and refused data, a session never
\* notifies its closing twice.
THEOREM OneThreadNotifiesOnce ==
    ASSUME NEW io, Ios = {io}
    PROVE  Spec /\ [][\A t \in Apps : ~close(t)]_vars => []NotifiedOnce
<1>1. Init => SendersOnly
  BY DEF Init, SendersOnly, Threads
<1>2. IInv /\ SendersOnly /\ [Next]_vars /\ [\A t \in Apps : ~close(t)]_vars => SendersOnly'
  BY SendersStep
<1>3. SendersOnly => Alone
  BY DEF SendersOnly, Alone, Destroyers, Threads
<1>4. QED
  BY <1>1, <1>2, <1>3, SessionInvariant, DestroyedAloneNotifiesOnce, PTL DEF Spec

-----------------------------------------------------------------------------
(* The send queue.                                                         *)

\* What sending_segs_ and the progress of the write say when no thread is
\* about to start one: the segments are there only while somebody has yet to
\* release them, and are all taken unless the connection has ended.
SegmentsKnown ==
    /\ sendingSegs # <<>> =>
          write # "none" \/ \E t \in Threads : pc[t] \in {"rs_write", "release"}
    /\ write = "pending" => progress <= Len(sendingSegs)
    /\ write = "ok" => progress >= Len(sendingSegs)
    /\ \A t \in Threads : pc[t] = "release" =>
          progress >= Len(sendingSegs) \/ ~Healthy

RInv == IInv /\ SegmentsKnown

-----------------------------------------------------------------------------

\* Every step keeps what is known of the segments.
LEMMA SegmentsStep == ASSUME RInv, [Next]_vars PROVE SegmentsKnown'
<1> USE DEF RInv
<1>t. /\ sendBuffer \in Seq(Nat) /\ sendingSegs \in Seq(Nat) /\ progress \in Nat
      /\ pc \in [Threads -> Labels]
  BY DEF IInv, TypeOK
<1>1. CASE WriteSome
  BY <1>1, <1>t DEF WriteSome, SegmentsKnown, buffers, Healthy, IInv, OneOperation, WriteOwner
<1>2. ASSUME NEW r \in {"ok", "err"}, WriteCompletes(r) PROVE SegmentsKnown'
  BY <1>2, <1>t DEF WriteCompletes, SegmentsKnown, buffers, history, Healthy
<1>3. ASSUME NEW t \in Threads, TakeSegments(t) PROVE SegmentsKnown'
  BY <1>3, <1>t DEF TakeSegments, Goto, SegmentsKnown, socket, Healthy, IInv, OneOperation, WriteOwner
<1>4. ASSUME NEW t \in Threads, AsyncWrite(t) PROVE SegmentsKnown'
  BY <1>4, <1>t DEF AsyncWrite, Goto, SegmentsKnown, buffers, Healthy, IInv, OneOperation, WriteOwner
<1>5. ASSUME NEW t \in Ios, on_send_completed(t) PROVE SegmentsKnown'
  BY <1>5, <1>t DEF on_send_completed, Goto, SegmentsKnown, buffers, Healthy, IInv, Contiguous,
     OneOperation, WriteOwner, Threads
<1>6. ASSUME NEW t \in Threads, ReleaseSegments(t) PROVE SegmentsKnown'
  BY <1>6, <1>t DEF ReleaseSegments, Goto, SegmentsKnown, socket, Healthy, IInv, OneOperation, WriteOwner
<1>7. CASE /\ ~WriteSome
           /\ \A r \in {"ok", "err"} : ~WriteCompletes(r)
           /\ \A t \in Threads : ~TakeSegments(t)
           /\ \A t \in Threads : ~AsyncWrite(t)
           /\ \A t \in Ios : ~on_send_completed(t)
           /\ \A t \in Threads : ~ReleaseSegments(t)
  <2>1. UNCHANGED <<sendingSegs, progress, write>>
    BY <1>7 DEF Next, AppCall, Dispatch, Step, Peer, Break, ReadCompletes, send, AppendData,
       SendIsOpen, ClaimSend, close, CloseSocket, DestroyCheck, DestroyNotify,
       on_recv_completed, RecvFlag, OnRecv, RecvIsOpen, ClaimRecv, AsyncRead, SendFlag,
       vars, flags, socket, buffers, history
  <2>2. ~Healthy => ~Healthy'
    <3>1. /\ UNCHANGED open \/ open' = (open /\ destroyed)
          /\ UNCHANGED broken \/ broken' = TRUE
      BY <1>7 DEF Next, AppCall, Dispatch, Step, Peer, Break, ReadCompletes, send, AppendData,
         SendIsOpen, ClaimSend, close, CloseSocket, DestroyCheck, DestroyNotify,
         on_recv_completed, RecvFlag, OnRecv, RecvIsOpen, ClaimRecv, AsyncRead, SendFlag,
         vars, flags, socket, buffers, history
    <3>2. QED
      BY <3>1 DEF Healthy
  <2>3. \A u \in Threads : /\ pc'[u] = "rs_write" <=> pc[u] = "rs_write"
                           /\ pc'[u] = "release" <=> pc[u] = "release"
    <3>1. \/ UNCHANGED pc
          \/ \E t \in Threads, l \in Labels :
                /\ pc[t] \notin {"rs_write", "release"} /\ l \notin {"rs_write", "release"}
                /\ pc' = [pc EXCEPT ![t] = l]
      BY <1>7 DEF Labels, Goto, Threads, Next, AppCall, Dispatch, Step, Peer, Break,
         ReadCompletes, send, AppendData, SendIsOpen, ClaimSend, close, CloseSocket, DestroyCheck,
         DestroyNotify, on_recv_completed, RecvFlag, OnRecv, RecvIsOpen, ClaimRecv,
         AsyncRead, SendFlag, vars, flags, socket, buffers, history
    <3>2. QED
      BY <3>1, <1>t
  <2>4. QED
    BY <2>1, <2>2, <2>3 DEF SegmentsKnown
<1>8. QED
  BY <1>1, <1>2, <1>3, <1>4, <1>5, <1>6, <1>7

\* The untaken segments are messages.
LEMMA UntakenType == ASSUME RInv PROVE Untaken \in Seq(Nat)
<1>1. sendingSegs \in Seq(Nat) /\ progress \in Nat
  BY DEF RInv, IInv, TypeOK
<1>2. \A i \in progress + 1 .. Len(sendingSegs) : sendingSegs[i] \in Nat
  BY <1>1
<1>3. SubSeq(sendingSegs, progress + 1, Len(sendingSegs)) \in Seq(Nat)
  BY <1>1, <1>2, SubSeqProperties
<1>4. QED
  BY <1>1, <1>3 DEF Untaken

\* A step that leaves the buffers and the connection alone, or only ends it, is
\* a stutter or the end of the queue.
LEMMA QuietStep ==
    ASSUME RInv, UNCHANGED <<sendBuffer, sendingSegs, progress, accepted, delivered>>,
           open' \in BOOLEAN, broken' \in BOOLEAN, open' => open, broken => broken',
           \A u \in Threads : pc'[u] = "rs_write" <=> pc[u] = "rs_write"
    PROVE  [SendQueue!Next]_SendQueue!vars
<1>1. Untaken' = Untaken
  BY DEF Untaken
<1>2. CASE Healthy /\ ~Healthy'
  <2>1. ~(~open \/ broken) /\ (~open \/ broken)' = TRUE
    BY <1>2 DEF Healthy
  <2>2. SendQueue!End
    BY <1>1, <2>1 DEF SendQueue!End
  <2>3. QED
    BY <2>2 DEF SendQueue!Next
<1>3. CASE Healthy = Healthy'
  <2>1. (~open \/ broken)' = (~open \/ broken)
    BY <1>3 DEF Healthy, RInv, IInv, TypeOK
  <2>2. QED
    BY <1>1, <2>1 DEF SendQueue!vars
<1>4. Healthy' => Healthy
  BY DEF Healthy
<1>5. QED
  BY <1>2, <1>3, <1>4 DEF Healthy

-----------------------------------------------------------------------------
(* Sequences that are two sequences one after the other.                   *)

\* The front of a concatenation is the front of its first part.
LEMMA FrontOfConcat ==
    ASSUME NEW s \in Seq(Nat), NEW t \in Seq(Nat), s # <<>>
    PROVE  s \o t # <<>> /\ Head(s \o t) = Head(s) /\ Tail(s \o t) = Tail(s) \o t
<1>1. /\ s \o t \in Seq(Nat) /\ Len(s \o t) = Len(s) + Len(t)
      /\ \A i \in 1 .. Len(s) + Len(t) :
            (s \o t)[i] = IF i <= Len(s) THEN s[i] ELSE t[i - Len(s)]
  BY ConcatProperties
<1>2. Len(s) \in Nat \ {0} /\ Len(t) \in Nat
  BY EmptySeq
<1>3. s \o t # <<>>
  BY <1>1, <1>2
<1>4. (s \o t)[1] = s[1]
  BY <1>1, <1>2
<1>5. Head(s \o t) = Head(s)
  BY <1>1, <1>2, <1>4
<1>6. /\ Tail(s) \in Seq(Nat) /\ Len(Tail(s)) = Len(s) - 1
      /\ \A i \in 1 .. Len(Tail(s)) : Tail(s)[i] = s[i + 1]
  BY HeadTailProperties
<1>7. /\ Tail(s \o t) \in Seq(Nat) /\ Len(Tail(s \o t)) = Len(s) + Len(t) - 1
      /\ \A i \in 1 .. Len(Tail(s \o t)) : Tail(s \o t)[i] = (s \o t)[i + 1]
  BY <1>1, <1>3, HeadTailProperties
<1>8. /\ Tail(s) \o t \in Seq(Nat) /\ Len(Tail(s) \o t) = Len(s) - 1 + Len(t)
      /\ \A i \in 1 .. Len(s) - 1 + Len(t) :
            (Tail(s) \o t)[i] = IF i <= Len(s) - 1 THEN Tail(s)[i] ELSE t[i - (Len(s) - 1)]
  BY <1>6, ConcatProperties
<1>9. Tail(s \o t) = Tail(s) \o t
  <2>1. ASSUME NEW i \in 1 .. Len(s) + Len(t) - 1
        PROVE  Tail(s \o t)[i] = (Tail(s) \o t)[i]
    <3>1. i + 1 \in 1 .. Len(s) + Len(t) /\ i \in 1 .. Len(s) - 1 + Len(t)
      BY <1>2
    <3>2. Tail(s \o t)[i] = IF i + 1 <= Len(s) THEN s[i + 1] ELSE t[i + 1 - Len(s)]
      BY <1>1, <1>7, <3>1
    <3>3. CASE i + 1 <= Len(s)
      <4>1. i \in 1 .. Len(Tail(s)) /\ i <= Len(s) - 1
        BY <1>2, <1>6, <3>3
      <4>2. QED
        BY <1>6, <1>8, <3>1, <3>2, <3>3, <4>1
    <3>4. CASE ~(i + 1 <= Len(s))
      <4>1. ~(i <= Len(s) - 1) /\ i + 1 - Len(s) = i - (Len(s) - 1)
        BY <1>2, <3>4
      <4>2. QED
        BY <1>8, <3>1, <3>2, <3>4, <4>1
    <3>5. QED
      BY <3>3, <3>4
  <2>2. Len(s) + Len(t) - 1 = Len(s) - 1 + Len(t)
    BY <1>2
  <2>3. QED
    BY <1>7, <1>8, <2>1, <2>2, SeqEqual
<1>10. QED
  BY <1>3, <1>5, <1>9

\* Appending to the second part appends to the whole.
LEMMA AppendToConcat ==
    ASSUME NEW s \in Seq(Nat), NEW t \in Seq(Nat), NEW e \in Nat
    PROVE  s \o Append(t, e) = Append(s \o t, e)
<1>1. <<e>> \in Seq(Nat) /\ s \o t \in Seq(Nat)
  BY ConcatProperties
<1>2. Append(t, e) = t \o <<e>> /\ Append(s \o t, e) = (s \o t) \o <<e>>
  BY <1>1, AppendIsConcat
<1>3. (s \o t) \o <<e>> = s \o (t \o <<e>>)
  BY <1>1, ConcatAssociative
<1>4. QED
  BY <1>2, <1>3

\* Without its first part a concatenation is its second part.
LEMMA RestOfConcat ==
    ASSUME NEW s \in Seq(Nat), NEW t \in Seq(Nat)
    PROVE  SubSeq(s \o t, Len(s) + 1, Len(s \o t)) = t
<1>1. /\ s \o t \in Seq(Nat) /\ Len(s \o t) = Len(s) + Len(t)
      /\ \A i \in 1 .. Len(s) + Len(t) :
            (s \o t)[i] = IF i <= Len(s) THEN s[i] ELSE t[i - Len(s)]
  BY ConcatProperties
<1>2. Len(s) \in Nat /\ Len(t) \in Nat
  OBVIOUS
<1>3. CASE t = <<>>
  <2>1. Len(s) + 1 \in Int /\ Len(s) \in Int /\ Len(s) < Len(s) + 1 /\ Len(s \o t) = Len(s)
    BY <1>1, <1>2, <1>3, EmptySeq
  <2>2. SubSeq(s \o t, Len(s) + 1, Len(s)) = <<>>
    BY <2>1, SubSeqEmpty
  <2>3. QED
    BY <1>3, <2>1, <2>2
<1>4. CASE t # <<>>
  <2>1. Len(t) \in Nat \ {0}
    BY <1>4, EmptySeq
  <2>2. /\ Len(s) + 1 \in Len(s) + 1 .. Len(s) + Len(t)
        /\ Len(s) + Len(t) \in Len(s) + 1 .. Len(s) + Len(t)
        /\ Len(s) + 1 - Len(s) = 1 /\ Len(s) + Len(t) - Len(s) = Len(t)
    BY <1>2, <2>1
  <2>3. SubSeq(s \o t, Len(s) + 1, Len(s) + Len(t)) = SubSeq(t, 1, Len(t))
    BY <2>2, SubSeqOfConcat2
  <2>4. QED
    BY <1>1, <2>3, SubSeqFull
<1>5. QED
  BY <1>3, <1>4

-----------------------------------------------------------------------------
(* One lemma per operation that moves messages.                            *)

\* What the socket takes is the front of the queue.
LEMMA WriteSomeDelivers == ASSUME RInv, WriteSome PROVE SendQueue!Deliver
<1> DEFINE n == Len(sendingSegs)
           rest == SubSeq(sendingSegs, progress + 1, n)
<1>1. /\ sendBuffer \in Seq(Nat) /\ sendingSegs \in Seq(Nat) /\ progress \in Nat
      /\ progress < n /\ write = "pending" /\ open /\ ~broken
      /\ delivered' = Append(delivered, sendingSegs[progress + 1])
      /\ progress' = progress + 1
      /\ UNCHANGED <<open, broken, accepted, sendBuffer, sendingSegs, pc>>
  BY DEF WriteSome, buffers, RInv, IInv, TypeOK
<1>2. \A t \in Threads : pc[t] # "rs_write"
  BY <1>1 DEF RInv, IInv, OneOperation, WriteOwner
<1>3. Untaken = rest /\ Untaken \in Seq(Nat)
  BY <1>2, UntakenType DEF Untaken
<1>4. Untaken' = SubSeq(sendingSegs, progress + 2, n)
  <2>1. Untaken' = SubSeq(sendingSegs, progress + 1 + 1, n)
    BY <1>1, <1>2 DEF Untaken
  <2>2. progress + 1 + 1 = progress + 2
    BY <1>1
  <2>3. QED
    BY <2>1, <2>2
<1>5. Head(rest) = sendingSegs[progress + 1] /\ Tail(rest) = SubSeq(sendingSegs, progress + 2, n)
  <2>1. progress + 1 \in 1 .. n /\ n \in progress + 1 .. n /\ progress + 1 + 1 = progress + 2
    BY <1>1
  <2>2. QED
    BY <1>1, <2>1, HeadTailOfSubSeq
<1>6. rest # <<>>
  <2>1. progress + 1 \in Int /\ n \in Int /\ \A i \in progress + 1 .. n : sendingSegs[i] \in Nat
    BY <1>1
  <2>2. Len(rest) = IF progress + 1 <= n THEN n - (progress + 1) + 1 ELSE 0
    BY <2>1, SubSeqProperties
  <2>3. Len(rest) > 0
    BY <1>1, <2>2
  <2> HIDE DEF rest
  <2>4. QED
    BY <2>3, EmptySeq
<1> HIDE DEF rest
<1>7. /\ Untaken \o sendBuffer # <<>>
      /\ Head(Untaken \o sendBuffer) = sendingSegs[progress + 1]
      /\ Tail(Untaken \o sendBuffer) = Untaken' \o sendBuffer
  BY <1>1, <1>3, <1>4, <1>5, <1>6, FrontOfConcat
<1>8. QED
  BY <1>1, <1>7 DEF SendQueue!Deliver

\* What send() appends goes to the end of the queue.
LEMMA AppendAccepts ==
    ASSUME RInv, NEW t \in Threads, AppendData(t) PROVE SendQueue!Accept
<1>1. /\ sendBuffer \in Seq(Nat) /\ accepted \in Nat /\ pc \in [Threads -> Labels]
      /\ pc[t] = "append" /\ pc' = [pc EXCEPT ![t] = "rs_open"]
      /\ sendBuffer' = Append(sendBuffer, accepted + 1) /\ accepted' = accepted + 1
      /\ UNCHANGED <<open, broken, progress, sendingSegs, delivered>>
  BY DEF AppendData, Goto, socket, RInv, IInv, TypeOK
<1>2. Untaken' = Untaken /\ Untaken \in Seq(Nat)
  BY <1>1, UntakenType DEF Untaken
<1>3. Untaken \o Append(sendBuffer, accepted + 1) = Append(Untaken \o sendBuffer, accepted + 1)
  BY <1>1, <1>2, AppendToConcat
<1>4. QED
  BY <1>1, <1>2, <1>3 DEF SendQueue!Accept

\* Taking the segments and starting the write leave the queue as it is.
LEMMA TakeIsQuiet ==
    ASSUME RInv, NEW t \in Threads, TakeSegments(t) PROVE UNCHANGED SendQueue!vars
<1>1. /\ sendBuffer \in Seq(Nat) /\ sendingSegs \in Seq(Nat) /\ progress \in Nat
      /\ pc \in [Threads -> Labels]
      /\ pc[t] = "rs_take" /\ pc' = [pc EXCEPT ![t] = "rs_write"]
      /\ sendingSegs' = sendBuffer /\ sendBuffer' = <<>>
      /\ UNCHANGED <<open, broken, accepted, delivered>>
  BY DEF TakeSegments, Goto, socket, history, RInv, IInv, TypeOK
<1>2. sendingSegs = <<>> /\ \A u \in Threads : pc[u] # "rs_write"
  BY <1>1 DEF RInv, SegmentsKnown, IInv, OneOperation, WriteOwner
<1>3. Untaken = <<>>
  <2>1. Untaken = SubSeq(sendingSegs, progress + 1, 0)
    BY <1>2 DEF Untaken
  <2>2. progress + 1 \in Int /\ 0 \in Int /\ 0 < progress + 1
    BY <1>1
  <2>3. QED
    BY <2>1, <2>2, SubSeqEmpty
<1>4. pc'[t] = "rs_write"
  BY <1>1
<1>5. Untaken' = sendBuffer
  BY <1>1, <1>4 DEF Untaken
<1>6. <<>> \o sendBuffer = sendBuffer /\ sendBuffer \o <<>> = sendBuffer
  BY <1>1, ConcatEmptySeq
<1>7. (Untaken \o sendBuffer)' = Untaken \o sendBuffer
  BY <1>1, <1>3, <1>5, <1>6
<1>8. QED
  BY <1>1, <1>7 DEF SendQueue!vars

\* Starting the write leaves the queue as it is: nothing has been taken yet.
LEMMA StartIsQuiet ==
    ASSUME RInv, NEW t \in Threads, AsyncWrite(t) PROVE UNCHANGED SendQueue!vars
<1>1. /\ sendingSegs \in Seq(Nat) /\ pc \in [Threads -> Labels]
      /\ pc[t] = "rs_write" /\ pc' = [pc EXCEPT ![t] = "idle"] /\ progress' = 0
      /\ UNCHANGED <<open, broken, accepted, delivered, sendBuffer, sendingSegs>>
  BY DEF AsyncWrite, Goto, buffers, history, RInv, IInv, TypeOK
<1>2. \A u \in Threads : pc'[u] # "rs_write"
  BY <1>1 DEF RInv, IInv, OneOperation, WriteOwner
<1>3. Untaken = sendingSegs
  BY <1>1 DEF Untaken
<1>4. Untaken' = SubSeq(sendingSegs, 1, Len(sendingSegs))
  <2>1. 0 + 1 = 1
    OBVIOUS
  <2>2. QED
    BY <1>1, <1>2, <2>1 DEF Untaken
<1>5. Untaken' = Untaken
  BY <1>1, <1>3, <1>4, SubSeqFull
<1>6. QED
  BY <1>1, <1>5 DEF SendQueue!vars

\* Releasing the segments of a write that is done leaves the queue as it is;
\* releasing those of a failed one drops what was left of them.
LEMMA ReleaseDrops ==
    ASSUME RInv, NEW t \in Threads, ReleaseSegments(t)
    PROVE  [SendQueue!Next]_SendQueue!vars
<1>1. /\ sendBuffer \in Seq(Nat) /\ sendingSegs \in Seq(Nat) /\ progress \in Nat
      /\ pc \in [Threads -> Labels]
      /\ pc[t] = "release" /\ pc' = [pc EXCEPT ![t] = "send_flag"] /\ sendingSegs' = <<>>
      /\ UNCHANGED <<open, broken, progress, accepted, delivered, sendBuffer>>
  BY DEF ReleaseSegments, Goto, socket, history, RInv, IInv, TypeOK
<1>2. /\ \A u \in Threads : pc[u] # "rs_write"
      /\ \A u \in Threads : pc'[u] # "rs_write"
  BY <1>1 DEF RInv, IInv, OneOperation, WriteOwner
<1>3. Untaken' = <<>>
  <2>1. Untaken' = SubSeq(<<>>, progress + 1, 0)
    BY <1>1, <1>2 DEF Untaken
  <2>2. progress + 1 \in Int /\ 0 \in Int /\ 0 < progress + 1
    BY <1>1
  <2>3. QED
    BY <2>1, <2>2, SubSeqEmpty
<1>4. (Untaken \o sendBuffer)' = sendBuffer
  BY <1>1, <1>3, ConcatEmptySeq
<1>5. Untaken \in Seq(Nat)
  BY UntakenType
<1>6. CASE Untaken = <<>>
  <2>1. Untaken \o sendBuffer = sendBuffer
    BY <1>1, <1>6, ConcatEmptySeq
  <2>2. QED
    BY <1>1, <1>4, <2>1 DEF SendQueue!vars
<1>7. CASE Untaken # <<>>
  <2>1. ~(progress >= Len(sendingSegs))
    <3>1. ASSUME progress >= Len(sendingSegs) PROVE FALSE
      <4>1. Untaken = SubSeq(sendingSegs, progress + 1, Len(sendingSegs))
        BY <1>2 DEF Untaken
      <4>2. progress + 1 \in Int /\ Len(sendingSegs) \in Int /\ Len(sendingSegs) < progress + 1
        BY <1>1, <3>1
      <4>3. QED
        BY <1>7, <4>1, <4>2, SubSeqEmpty
    <3>2. QED
      BY <3>1
  <2>2. ~open \/ broken
    BY <1>1, <2>1 DEF RInv, SegmentsKnown, Healthy
  <2>3. SubSeq(Untaken \o sendBuffer, Len(Untaken) + 1, Len(Untaken \o sendBuffer)) = sendBuffer
    BY <1>1, <1>5, RestOfConcat
  <2>4. Len(Untaken) \in 1 .. Len(Untaken \o sendBuffer)
    <3>1. Len(Untaken \o sendBuffer) = Len(Untaken) + Len(sendBuffer)
      BY <1>1, <1>5, ConcatProperties
    <3>2. Len(Untaken) \in Nat \ {0} /\ Len(sendBuffer) \in Nat
      BY <1>1, <1>5, <1>7, EmptySeq
    <3>3. QED
      BY <3>1, <3>2
  <2>5. SendQueue!Drop
    BY <1>1, <1>4, <2>2, <2>3, <2>4 DEF SendQueue!Drop
  <2>6. QED
    BY <2>5 DEF SendQueue!Next
<1>8. QED
  BY <1>6, <1>7

-----------------------------------------------------------------------------

\* Every step of a session is a step of the queue or leaves it as it is.
LEMMA StepSimulates == ASSUME RInv, [Next]_vars PROVE [SendQueue!Next]_SendQueue!vars
<1>1. CASE WriteSome
  BY <1>1, WriteSomeDelivers DEF SendQueue!Next
<1>2. ASSUME NEW t \in Threads, AppendData(t) PROVE [SendQueue!Next]_SendQueue!vars
  BY <1>2, AppendAccepts DEF SendQueue!Next
<1>3. ASSUME NEW t \in Threads, TakeSegments(t) PROVE [SendQueue!Next]_SendQueue!vars
  BY <1>3, TakeIsQuiet
<1>4. ASSUME NEW t \in Threads, AsyncWrite(t) PROVE [SendQueue!Next]_SendQueue!vars
  BY <1>4, StartIsQuiet
<1>5. ASSUME NEW t \in Threads, ReleaseSegments(t) PROVE [SendQueue!Next]_SendQueue!vars
  BY <1>5, ReleaseDrops
<1>6. CASE /\ ~WriteSome
           /\ \A t \in Threads : ~AppendData(t)
           /\ \A t \in Threads : ~TakeSegments(t)
           /\ \A t \in Threads : ~AsyncWrite(t)
           /\ \A t \in Threads : ~ReleaseSegments(t)
  <2>1. UNCHANGED <<sendBuffer, sendingSegs, progress, accepted, delivered>>
    BY <1>6 DEF Next, AppCall, Dispatch, Step, Peer, Break, ReadCompletes, WriteCompletes, send,
       SendIsOpen, ClaimSend, close, CloseSocket, DestroyCheck, DestroyNotify,
       on_recv_completed, on_send_completed, RecvFlag, OnRecv, RecvIsOpen, ClaimRecv,
       AsyncRead, SendFlag, vars, flags, socket, buffers, history
  <2>2. /\ UNCHANGED open \/ open' = (open /\ destroyed)
        /\ UNCHANGED broken \/ broken' = TRUE
    BY <1>6 DEF Next, AppCall, Dispatch, Step, Peer, Break, ReadCompletes, WriteCompletes, send,
       SendIsOpen, ClaimSend, close, CloseSocket, DestroyCheck, DestroyNotify,
       on_recv_completed, on_send_completed, RecvFlag, OnRecv, RecvIsOpen, ClaimRecv,
       AsyncRead, SendFlag, vars, flags, socket, buffers, history
  <2>3. \A u \in Threads : pc'[u] = "rs_write" <=> pc[u] = "rs_write"
    <3>1. pc \in [Threads -> Labels]
      BY DEF RInv, IInv, TypeOK
    <3>2. \/ UNCHANGED pc
          \/ \E t \in Threads, l \in Labels :
                pc[t] # "rs_write" /\ l # "rs_write" /\ pc' = [pc EXCEPT ![t] = l]
      BY <1>6 DEF Labels, Goto, Threads, Next, AppCall, Dispatch, Step, Peer, Break,
         ReadCompletes, WriteCompletes, send, SendIsOpen, ClaimSend, close, CloseSocket,
         DestroyCheck, DestroyNotify, on_recv_completed, on_send_completed, RecvFlag, OnRecv,
         RecvIsOpen, ClaimRecv, AsyncRead, SendFlag, vars, flags, socket, buffers, history
    <3>3. QED
      BY <3>1, <3>2
  <2>4. /\ open' \in BOOLEAN /\ broken' \in BOOLEAN
        /\ (open' => open) /\ (broken => broken')
    <3>1. open \in BOOLEAN /\ broken \in BOOLEAN
      BY DEF RInv, IInv, TypeOK
    <3>2. CASE UNCHANGED open
      BY <2>2, <3>1, <3>2, Zenon
    <3>3. CASE open' = (open /\ destroyed)
      BY <2>2, <3>1, <3>3, Zenon
    <3>4. QED
      BY <2>2, <3>2, <3>3, Zenon
  <2>5. QED
    BY <2>1, <2>3, <2>4, QuietStep
<1>7. QED
  BY <1>1, <1>2, <1>3, <1>4, <1>5, <1>6

\* What is known of the segments holds always.
THEOREM SegmentsInvariant == Spec => []RInv
<1>1. Init => RInv
  <2>1. ASSUME Init PROVE RInv
    <3>1. SegmentsKnown
      BY <2>1 DEF Init, SegmentsKnown, Healthy
    <3>2. QED
      BY <2>1, <3>1, InitIInv DEF RInv
  <2>2. QED
    BY <2>1
<1>2. IInv /\ IInv' /\ RInv /\ [Next]_vars => RInv'
  BY SegmentsStep DEF RInv
<1>3. QED
  BY <1>1, <1>2, SessionInvariant, PTL DEF Spec

\* A session implements the safety part of the send queue: what send(),
\* request_send(), the completion handlers, close() and the socket do to the
\* two buffers is, step by step, what the queue allows.
THEOREM SessionImplementsQueue == Spec => SendQueue!SafeSpec
<1>1. Init => SendQueue!Init
  <2>1. ASSUME Init PROVE SendQueue!Init
    <3>1. /\ sendingSegs = <<>> /\ sendBuffer = <<>> /\ progress = 0 /\ accepted = 0
          /\ delivered = <<>> /\ open = TRUE /\ broken = FALSE
          /\ \A t \in Threads : pc[t] # "rs_write"
      BY <2>1 DEF Init
    <3>2. Untaken = <<>>
      <4>1. Untaken = SubSeq(<<>>, 1, 0)
        <5>1. 0 + 1 = 1 /\ Len(<<>>) = 0
          OBVIOUS
        <5>2. QED
          BY <3>1, <5>1 DEF Untaken
      <4>2. 1 \in Int /\ 0 \in Int /\ 0 < 1
        OBVIOUS
      <4>3. QED
        BY <4>1, <4>2, SubSeqEmpty
    <3>3. <<>> \in Seq(Nat)
      BY EmptySeq
    <3>4. <<>> \o <<>> = <<>>
      BY <3>3, ConcatEmptySeq
    <3>5. Untaken \o sendBuffer = <<>> /\ (~open \/ broken) = FALSE
      BY <3>1, <3>2, <3>4
    <3>6. QED
      BY <3>1, <3>5 DEF SendQueue!Init
  <2>2. QED
    BY <2>1
<1>2. RInv /\ [Next]_vars => [SendQueue!Next]_SendQueue!vars
  BY StepSimulates
<1>3. QED
  BY <1>1, <1>2, SegmentsInvariant, PTL DEF Spec, SendQueue!SafeSpec

=============================================================================
