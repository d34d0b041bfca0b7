------------------------------- MODULE Session ------------------------------
(***************************************************************************)
(* lax::net::session: one TCP session, with its send buffer, its one read  *)
(* and one write in progress, and its way from close to destruction        *)
(* (src/net/session.cpp).                                                  *)
(*                                                                         *)
(* Application threads call send() and close(); io threads run completion  *)
(* handlers.  A thread's steps end where it has touched shared state under *)
(* a lock or through the socket.  What a packet handler does to the        *)
(* session from inside on_recv() is one of the interleavings of an         *)
(* application thread, so application threads stand for it too.            *)
(*                                                                         *)
(* The socket is external: a read or write that has been started completes *)
(* once, with success or error, and its completion waits until an io       *)
(* thread takes it.  An operation fails once the socket is closed or the   *)
(* connection is broken; one that succeeded before stays a success.        *)
(***************************************************************************)
EXTENDS Naturals, Sequences, FiniteSets

CONSTANTS Apps,        \* application threads
          Ios,         \* io threads
          MaxSends     \* bound on the number of send() calls that append

ASSUME SessionAssumption ==
    /\ IsFiniteSet(Apps) /\ IsFiniteSet(Ios) /\ Apps \cap Ios = {}
    /\ MaxSends \in Nat

VARIABLES open,            \* socket_.is_open()
          broken,          \* the connection is lost
          recving, sending, destroyed,   \* the members of the same names
          sendBuffer,      \* send_buffer_, as the messages appended to it
          sendingSegs,     \* sending_segs_, what the current write holds
          progress,        \* how much of sendingSegs the socket has taken
          read, write,     \* the operation in progress or its waiting result
          pc, ec,          \* each thread's place and the error code it handles
          accepted,        \* history: the number of messages appended so far
          delivered,       \* history: the messages the socket took
          notified,        \* history: how often destroy() ran to its notifications
          lateOk           \* history: a success was handled after the close

flags   == <<recving, sending, destroyed>>
socket  == <<open, broken, read, write, progress>>
buffers == <<sendBuffer, sendingSegs>>
history == <<accepted, delivered, notified, lateOk>>
vars == <<socket, flags, buffers, pc, ec, history>>

Threads == Apps \cup Ios
Labels == {"idle", "append", "rs_open", "rs_claim", "rs_take", "rs_write", "close", "destroy",
           "notify", "recv_flag", "on_recv", "rr_open", "rr_claim", "rr_read", "release", "send_flag"}
Operations == {"none", "pending", "ok", "err"}

Goto(t, l) == pc' = [pc EXCEPT ![t] = l]

-----------------------------------------------------------------------------

\* The constructor has bound the protocol and requested the first read.
Init ==
    /\ open = TRUE /\ broken = FALSE
    /\ recving = TRUE /\ sending = FALSE /\ destroyed = FALSE
    /\ sendBuffer = <<>> /\ sendingSegs = <<>>
    /\ read = "pending" /\ write = "none" /\ progress = 0
    /\ pc = [t \in Threads |-> "idle"]
    /\ ec = [t \in Threads |-> "ok"]
    /\ accepted = 0 /\ delivered = <<>> /\ notified = 0 /\ lateOk = FALSE

-----------------------------------------------------------------------------
(* The socket and the peer.                                                *)

\* The connection is lost.
Break ==
    /\ ~broken
    /\ broken' = TRUE
    /\ UNCHANGED <<open, read, write, progress, flags, buffers, pc, ec, history>>

\* The read in progress completes.
ReadCompletes(r) ==
    /\ read = "pending"
    /\ r = "ok" => open /\ ~broken
    /\ r = "err" => ~open \/ broken
    /\ read' = r
    /\ UNCHANGED <<open, broken, write, progress, flags, buffers, pc, ec, history>>

\* The socket takes the next message of the write in progress.
WriteSome ==
    /\ write = "pending" /\ open /\ ~broken
    /\ progress < Len(sendingSegs)
    /\ delivered' = Append(delivered, sendingSegs[progress + 1])
    /\ progress' = progress + 1
    /\ UNCHANGED <<open, broken, read, write, flags, buffers, pc, ec, accepted, notified, lateOk>>

\* The write in progress completes, with all of its data or with an error.
WriteCompletes(r) ==
    /\ write = "pending"
    /\ r = "ok" => open /\ ~broken /\ progress = Len(sendingSegs)
    /\ r = "err" => ~open \/ broken
    /\ write' = r
    /\ UNCHANGED <<open, broken, read, progress, flags, buffers, pc, ec, history>>

-----------------------------------------------------------------------------
(* send() and request_send().                                              *)

\* The threads that are about to append.
Appending == {u \in Threads : pc[u] = "append"}

\* send() on an open socket; the bound counts the calls that will append.
send(t) ==
    /\ pc[t] = "idle" /\ open
    /\ accepted + Cardinality(Appending) < MaxSends
    /\ Goto(t, "append")
    /\ UNCHANGED <<socket, flags, buffers, ec, history>>

\* send() appends under send_segs_mutex_.
AppendData(t) ==
    /\ pc[t] = "append"
    /\ sendBuffer' = Append(sendBuffer, accepted + 1)
    /\ accepted' = accepted + 1
    /\ Goto(t, "rs_open")
    /\ UNCHANGED <<socket, flags, sendingSegs, ec, delivered, notified, lateOk>>

\* request_send() returns when the socket is closed.
SendIsOpen(t) ==
    /\ pc[t] = "rs_open"
    /\ Goto(t, IF open THEN "rs_claim" ELSE "idle")
    /\ lateOk' = (lateOk \/ (t \in Ios /\ ~open))
    /\ UNCHANGED <<socket, flags, buffers, ec, accepted, delivered, notified>>

\* A request_send() that does not look at sending_.
ClaimAlways(t) ==
    /\ pc[t] = "rs_claim"
    /\ IF sendBuffer = <<>>
       THEN /\ Goto(t, "idle") /\ UNCHANGED sending
       ELSE /\ Goto(t, "rs_take") /\ sending' = TRUE
    /\ UNCHANGED <<socket, recving, destroyed, buffers, ec, history>>

\* request_send() claims the one write, under session_mutex_.
ClaimSend(t) ==
    /\ pc[t] = "rs_claim"
    /\ IF sending \/ sendBuffer = <<>>
       THEN /\ Goto(t, "idle") /\ UNCHANGED sending
       ELSE /\ Goto(t, "rs_take") /\ sending' = TRUE
    /\ UNCHANGED <<socket, recving, destroyed, buffers, ec, history>>

\* A request_send() that copies the segments and leaves them buffered.
CopySegments(t) ==
    /\ pc[t] = "rs_take"
    /\ sendingSegs' = sendBuffer
    /\ Goto(t, "rs_write")
    /\ UNCHANGED <<socket, flags, sendBuffer, ec, history>>

\* request_send() takes what is buffered, under send_segs_mutex_.
TakeSegments(t) ==
    /\ pc[t] = "rs_take"
    /\ sendingSegs' = sendBuffer
    /\ sendBuffer' = <<>>
    /\ Goto(t, "rs_write")
    /\ UNCHANGED <<socket, flags, ec, history>>

\* request_send() starts the write.
AsyncWrite(t) ==
    /\ pc[t] = "rs_write"
    /\ write' = "pending"
    /\ progress' = 0
    /\ Goto(t, "idle")
    /\ UNCHANGED <<open, broken, read, flags, buffers, ec, history>>

-----------------------------------------------------------------------------
(* close() and destroy().                                                  *)

\* An application thread calls close().
close(t) ==
    /\ pc[t] = "idle"
    /\ Goto(t, "close")
    /\ UNCHANGED <<socket, flags, buffers, ec, history>>

\* close(): nothing if destroyed, else shut the socket down and close it.
CloseSocket(t) ==
    /\ pc[t] = "close"
    /\ open' = (open /\ destroyed)
    /\ Goto(t, IF destroyed THEN "idle" ELSE "destroy")
    /\ UNCHANGED <<broken, read, write, progress, flags, buffers, ec, history>>

\* destroy() leaves if a read or a write is in progress (session_mutex_).
DestroyCheck(t) ==
    /\ pc[t] = "destroy"
    /\ Goto(t, IF sending \/ recving THEN "idle" ELSE "notify")
    /\ UNCHANGED <<socket, flags, buffers, ec, history>>

\* destroy() marks the session, notifies the protocol, the channel and the
\* references, and gives the slot back to the service.
DestroyNotify(t) ==
    /\ pc[t] = "notify"
    /\ destroyed' = TRUE
    /\ notified' = notified + 1
    /\ Goto(t, "idle")
    /\ UNCHANGED <<socket, recving, sending, buffers, ec, accepted, delivered, lateOk>>

-----------------------------------------------------------------------------
(* The completion handlers, on io threads.                                 *)

\* An io thread takes the read's completion.
on_recv_completed(t) ==
    /\ pc[t] = "idle" /\ read \in {"ok", "err"}
    /\ ec' = [ec EXCEPT ![t] = read]
    /\ read' = "none"
    /\ Goto(t, "recv_flag")
    /\ UNCHANGED <<open, broken, write, progress, flags, buffers, history>>

\* on_recv_completed() clears recving_ under session_mutex_.
RecvFlag(t) ==
    /\ pc[t] = "recv_flag"
    /\ recving' = FALSE
    /\ Goto(t, IF ec[t] = "ok" THEN "on_recv" ELSE "close")
    /\ UNCHANGED <<socket, sending, destroyed, buffers, ec, history>>

\* An on_recv_completed() that leaves a protocol error to somebody else.
OnRecvGivesUp(t, ok) ==
    /\ pc[t] = "on_recv"
    /\ Goto(t, IF ok THEN "rr_open" ELSE "idle")
    /\ UNCHANGED <<socket, flags, buffers, ec, history>>

\* The protocol handles the data, and accepts it or not.
OnRecv(t, ok) ==
    /\ pc[t] = "on_recv"
    /\ Goto(t, IF ok THEN "rr_open" ELSE "close")
    /\ UNCHANGED <<socket, flags, buffers, ec, history>>

\* request_recv() returns when the socket is closed.
RecvIsOpen(t) ==
    /\ pc[t] = "rr_open"
    /\ Goto(t, IF open THEN "rr_claim" ELSE "idle")
    /\ lateOk' = (lateOk \/ ~open)
    /\ UNCHANGED <<socket, flags, buffers, ec, accepted, delivered, notified>>

\* request_recv() claims the one read, under session_mutex_.
ClaimRecv(t) ==
    /\ pc[t] = "rr_claim"
    /\ recving' = TRUE
    /\ Goto(t, IF recving THEN "idle" ELSE "rr_read")
    /\ UNCHANGED <<socket, sending, destroyed, buffers, ec, history>>

\* request_recv() starts the read.
AsyncRead(t) ==
    /\ pc[t] = "rr_read"
    /\ read' = "pending"
    /\ Goto(t, "idle")
    /\ UNCHANGED <<open, broken, write, progress, flags, buffers, ec, history>>

\* An io thread takes the write's completion.
on_send_completed(t) ==
    /\ pc[t] = "idle" /\ write \in {"ok", "err"}
    /\ ec' = [ec EXCEPT ![t] = write]
    /\ write' = "none"
    /\ Goto(t, "release")
    /\ UNCHANGED <<open, broken, read, progress, flags, buffers, history>>

\* on_send_completed() releases the segments, under send_segs_mutex_.
ReleaseSegments(t) ==
    /\ pc[t] = "release"
    /\ sendingSegs' = <<>>
    /\ Goto(t, "send_flag")
    /\ UNCHANGED <<socket, flags, sendBuffer, ec, history>>

\* An on_send_completed() that does not look for data appended meanwhile.
SendFlagStops(t) ==
    /\ pc[t] = "send_flag"
    /\ sending' = FALSE
    /\ Goto(t, IF ec[t] = "ok" THEN "idle" ELSE "close")
    /\ UNCHANGED <<socket, recving, destroyed, buffers, ec, history>>

\* An on_send_completed() that leaves the error to the failed read.
SendFlagIgnoresError(t) ==
    /\ pc[t] = "send_flag"
    /\ sending' = FALSE
    /\ Goto(t, IF ec[t] = "ok" THEN "rs_open" ELSE "idle")
    /\ UNCHANGED <<socket, recving, destroyed, buffers, ec, history>>

\* on_send_completed() clears sending_ under session_mutex_ and goes on.
SendFlag(t) ==
    /\ pc[t] = "send_flag"
    /\ sending' = FALSE
    /\ Goto(t, IF ec[t] = "ok" THEN "rs_open" ELSE "close")
    /\ UNCHANGED <<socket, recving, destroyed, buffers, ec, history>>

-----------------------------------------------------------------------------

AppCall(t) == send(t) \/ close(t)

Dispatch(t) == on_recv_completed(t) \/ on_send_completed(t)

\* What a thread does once it is inside a call or a handler.
Step(t) ==
    \/ AppendData(t) \/ SendIsOpen(t) \/ ClaimSend(t) \/ TakeSegments(t) \/ AsyncWrite(t)
    \/ CloseSocket(t) \/ DestroyCheck(t) \/ DestroyNotify(t)
    \/ RecvFlag(t) \/ (\E ok \in BOOLEAN : OnRecv(t, ok))
    \/ RecvIsOpen(t) \/ ClaimRecv(t) \/ AsyncRead(t)
    \/ ReleaseSegments(t) \/ SendFlag(t)

Peer ==
    \/ \E r \in {"ok", "err"} : ReadCompletes(r) \/ WriteCompletes(r)
    \/ WriteSome
    \/ Break

Next ==
    \/ \E t \in Apps : AppCall(t)
    \/ \E t \in Ios : Dispatch(t)
    \/ \E t \in Threads : Step(t)
    \/ Peer

\* A thread inside a call goes on.  The peer takes what is sent and a started
\* operation completes.  The completion port hands completions out in order,
\* so reads that keep arriving do not hold back a write's.
Fairness ==
    /\ \A t \in Threads : WF_vars(Step(t))
    /\ WF_vars(WriteSome)
    /\ WF_vars(\E r \in {"ok", "err"} : WriteCompletes(r))
    /\ SF_vars(\E t \in Ios : on_send_completed(t))

Spec == Init /\ [][Next]_vars /\ Fairness

-----------------------------------------------------------------------------

\* Every variable has its type.
TypeOK ==
    /\ open \in BOOLEAN /\ broken \in BOOLEAN
    /\ recving \in BOOLEAN /\ sending \in BOOLEAN /\ destroyed \in BOOLEAN
    /\ sendBuffer \in Seq(Nat) /\ sendingSegs \in Seq(Nat) /\ progress \in Nat
    /\ read \in Operations /\ write \in Operations
    /\ pc \in [Threads -> Labels]
    /\ ec \in [Threads -> {"ok", "err"}]
    /\ accepted \in 0 .. MaxSends /\ delivered \in Seq(Nat)
    /\ notified \in Nat /\ lateOk \in BOOLEAN

\* The places where a thread owns the write and sending_segs_.
WriteOwner(t) == pc[t] \in {"rs_take", "rs_write", "release", "send_flag"}

\* The places where a thread owns the read and recv_buf_.
ReadOwner(t) == pc[t] \in {"recv_flag", "on_recv", "rr_open", "rr_claim", "rr_read"}

\* One write and one read at a time: sending_ is set exactly while the socket
\* or one thread owns sending_segs_, so no two threads use it at once; and
\* recv_buf_ is never handed to a second read while a handler works on it.
OneOperation ==
    /\ sending <=> (write # "none" \/ \E t \in Threads : WriteOwner(t))
    /\ write # "none" => \A t \in Threads : ~WriteOwner(t)
    /\ \A t, u \in Threads : WriteOwner(t) /\ WriteOwner(u) => t = u
    /\ read # "none" => recving /\ \A t \in Threads : ~ReadOwner(t)
    /\ \A t, u \in Threads : ReadOwner(t) /\ ReadOwner(u) => t = u

\* The socket takes messages in the order in which send() appended them, each
\* once and without a gap, whichever threads send, complete, close or fail.
InOrder == \A i \in DOMAIN delivered : delivered[i] = i

\* Nothing that was appended is forgotten: data in the buffer of an open
\* session has a write in progress or a thread about to start one, or a
\* thread about to close the session.
NoStrandedData ==
    open /\ sendBuffer # <<>>
        => sending \/ \E t \in Threads : pc[t] \in {"rs_open", "rs_claim", "close"}

\* An open session listens: a read is in progress, or its handler has not
\* asked for the next one yet, or a thread is about to close the session.
NeverDeaf ==
    open => recving \/ \E t \in Threads : pc[t] \in {"on_recv", "rr_open", "rr_claim", "close"}

\* Nothing is going on in or about the session any more.
Quiescent == read = "none" /\ write = "none" /\ \A t \in Threads : pc[t] = "idle"

\* The last of close(), the failed read and the failed write destroys a
\* closed session, in whatever order they come, as long as no success was
\* handled after the close.
LastOneDestroys == Quiescent /\ ~open /\ ~lateOk => destroyed

\* The part of sending_segs_ that the socket has not taken: all of it until
\* the write is started.
Untaken ==
    IF \E t \in Threads : pc[t] = "rs_write" THEN sendingSegs
    ELSE SubSeq(sendingSegs, progress + 1, Len(sendingSegs))

SendQueue == INSTANCE SendQueue WITH
    queue <- Untaken \o sendBuffer,
    sent  <- delivered,
    ended <- ~open \/ broken

\* A session implements the send queue: through every interleaving of sends,
\* completions, closes and failures, what request_send() and the handlers do
\* with the two buffers is a FIFO queue that empties unless the connection
\* ends.
ImplementsSendQueue == SendQueue!Spec

\* A session that is closed and has no send or receive in progress has been
\* destroyed: destroy() "handles destruction once it is possible".
ClosedIsDestroyed == Quiescent /\ ~open => destroyed

\* The closing of a session is notified, and its slot given back, once.
NotifiedOnce == notified <= 1

=============================================================================
