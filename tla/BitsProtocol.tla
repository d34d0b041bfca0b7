---------------------------- MODULE BitsProtocol ----------------------------
(***************************************************************************)
(* lax::net::bits_protocol between two sessions: sender threads pack,      *)
(* number and checksum messages and append them to their session; the      *)
(* other side cuts the bytes that arrive into messages again               *)
(* (src/net/protocol/bits/bits_protocol.cpp and protocol/util).  A message *)
(* is packed by send(m), or was serialized before by the caller of         *)
(* send(m, data, len), whose length field stands unless a trailer is added.*)
(*                                                                         *)
(* The stream between them is what module SendQueue promises: the packets  *)
(* in the order in which send() appended them.  How many bytes of it each  *)
(* read returns is open.  Lengths are the real ones, in bytes; contents    *)
(* are left out.  Both sides use the same message classes, hence the same  *)
(* modifiers.  A protocol of a network session is never bound to its       *)
(* cipher (protocol::bind() does not call on_bind()), so the messages here *)
(* do without it, and both counters start at the members' initial 0.       *)
(***************************************************************************)
EXTENDS Naturals, Sequences

CONSTANTS Senders,    \* the threads that call send()
          Kinds,      \* message classes: packed size, and whether they are
                      \* numbered and checksummed
          SeqRange,   \* the number of values of the sequence byte
          MaxSends    \* bound on the calls of send()

header_length == 8
sequence_size == 1
checksum_size == 4

ASSUME ProtocolAssumption ==
    /\ Kinds \subseteq [size : Nat, sequence : BOOLEAN, checksum : BOOLEAN]
    /\ \A k \in Kinds : k.size >= header_length
    /\ SeqRange \in Nat \ {0} /\ MaxSends \in Nat

VARIABLES pc, out,      \* each sender's place and the packet it builds
          sendSeq,      \* the sender's send_seq_
          sends,        \* how often send() was called
          up,           \* the sessions are open
          stream, ends, \* the packets appended to the session, in order, and
                        \* where each of them ends, in bytes
          arrived,      \* how many bytes of the stream were received
          front,        \* the place in the stream of recv_buf_'s first byte
          iter,         \* the place where on_recv() looks for a message
          rpc,          \* whether on_recv() is under way
          recvSeq,      \* the receiver's recv_seq_
          posted,       \* the packets posted as messages, by their place in stream
          failed,       \* on_recv() returned an error
          overlapped    \* history: a number was drawn while a lower one was not yet appended

sender == <<pc, out, sendSeq, sends, overlapped>>
receiver == <<arrived, front, iter, rpc, recvSeq, posted, failed>>
wire == <<stream, ends>>
vars == <<sender, up, wire, receiver>>

-----------------------------------------------------------------------------
(* Packets.                                                                *)

\* The bytes of the length field, as send() and update_length_field() write
\* them.
LengthField(n) ==
    LET high == (n \div 256) % 256 IN <<n % 256, high, high, high>>

get_length(b) == b[1] + b[2] * 256 + b[3] * 65536 + b[4] * 16777216

\* The sizes after sequencer::on_send() and after checksum::on_send(), which
\* leaves an empty message alone.
Numbered(k) == k.size + (IF k.sequence THEN sequence_size ELSE 0)
WireSize(k) ==
    Numbered(k) + (IF k.checksum /\ Numbered(k) > header_length THEN checksum_size ELSE 0)

\* The size that recv_modified() leaves.
FinalSize(k) == k.size

\* The length fields of data that a caller serialized: as pack() leaves it, and
\* as send(m) would write it.
Unset == LengthField(0)
Fields(k) == {Unset, LengthField(k.size)}

\* send_modified(): the trailers rewrite the length field; without any, the
\* one given stands.
Rewritten(k) == WireSize(k) # k.size
Packet(k, field) ==
    [kind |-> k, seq |-> 0,
     length |-> IF Rewritten(k) THEN LengthField(WireSize(k)) ELSE field]

\* Where packet i ends and begins in the stream, in bytes.
EndOf(i) == IF i = 0 THEN 0 ELSE ends[i]
StartOf(i) == EndOf(i - 1)
Total == EndOf(Len(stream))

NoPacket == [kind |-> [size |-> 0, sequence |-> FALSE, checksum |-> FALSE], seq |-> 0,
             length |-> <<0, 0, 0, 0>>]

Init ==
    /\ pc = [t \in Senders |-> "idle"] /\ out = [t \in Senders |-> NoPacket]
    /\ sendSeq = 0 /\ sends = 0 /\ overlapped = FALSE
    /\ up = TRUE /\ stream = <<>> /\ ends = <<>>
    /\ arrived = 0 /\ front = 0 /\ iter = 0 /\ rpc = "wait"
    /\ recvSeq = 0 /\ posted = <<>> /\ failed = FALSE

-----------------------------------------------------------------------------
(* The sending side.                                                       *)

\* send_final(): numbering comes next for a class that wants it.  The checksum
\* is this thread's own work.
send_final(t, k, field) ==
    /\ pc[t] = "idle" /\ sends < MaxSends
    /\ sends' = sends + 1
    /\ out' = [out EXCEPT ![t] = Packet(k, field)]
    /\ pc' = [pc EXCEPT ![t] = IF k.sequence THEN "number" ELSE "append"]
    /\ UNCHANGED <<sendSeq, overlapped, up, wire, receiver>>

\* send(m): the message is packed and its length written into it.  (A message
\* that is null or does not pack is refused, and nothing changes.)
send(t, k) == send_final(t, k, LengthField(k.size))

\* send(m, data, len): the bytes are the caller's, the length field included.
\* (Without a message or data, or with less than a header, it is refused.)
send_data(t, k, field) == send_final(t, k, field)

\* The threads that hold a number whose packet is not in the stream yet.
Holding == {t \in Senders : pc[t] = "append" /\ out[t].kind.sequence}

\* sequencer::on_send(): send_seq_++ is atomic.
Number(t) ==
    /\ pc[t] = "number"
    /\ out' = [out EXCEPT ![t].seq = sendSeq]
    /\ sendSeq' = (sendSeq + 1) % SeqRange
    /\ overlapped' = (overlapped \/ Holding # {})
    /\ pc' = [pc EXCEPT ![t] = "append"]
    /\ UNCHANGED <<sends, up, wire, receiver>>

\* protocol::send(): appended to the session, or refused by a closed one.
AppendPacket(t) ==
    /\ pc[t] = "append"
    /\ IF up
       THEN /\ stream' = Append(stream, out[t])
            /\ ends' = Append(ends, Total + WireSize(out[t].kind))
       ELSE UNCHANGED wire
    /\ pc' = [pc EXCEPT ![t] = "idle"]
    /\ out' = [out EXCEPT ![t] = NoPacket]
    /\ UNCHANGED <<sendSeq, sends, overlapped, up, receiver>>

\* The connection ends.
Lose ==
    /\ up
    /\ up' = FALSE
    /\ UNCHANGED <<sender, wire, receiver>>

-----------------------------------------------------------------------------
(* The receiving side, one read at a time.                                 *)

\* The amounts of data that reads may end at: around the ends of headers and
\* of packets, so that every comparison of on_recv() is met from both sides.
Cuts ==
    UNION {{StartOf(i) + 1, StartOf(i) + header_length, StartOf(i) + header_length + 1,
            EndOf(i) - 1, EndOf(i)} : i \in DOMAIN stream}

\* A read completes and on_recv() appends what it brought to recv_buf_.
on_recv(n) ==
    /\ rpc = "wait" /\ up /\ ~failed
    /\ arrived < n /\ n <= Total
    /\ arrived' = n
    /\ iter' = front
    /\ rpc' = "parse"
    /\ UNCHANGED <<sender, up, wire, front, recvSeq, posted, failed>>

Remained == arrived - iter

\* The packet that begins where on_recv() looks, if one does.
Here == {i \in DOMAIN stream : StartOf(i) = iter}

\* An on_recv() that waits for one byte more than the message.
StopsShort ==
    Remained <= header_length \/ \E i \in Here : Remained <= get_length(stream[i].length)

\* The loop ends: no more than a header is left, or less than the message.
Incomplete ==
    Remained <= header_length \/ \E i \in Here : Remained < get_length(stream[i].length)

\* on_recv() returns, and pops what it has processed from recv_buf_.
RecvDone ==
    /\ rpc = "parse" /\ Incomplete
    /\ front' = iter
    /\ rpc' = "wait"
    /\ UNCHANGED <<sender, up, wire, arrived, iter, recvSeq, posted, failed>>

\* A packet whose length field says its length.
Readable(i) == get_length(stream[i].length) = WireSize(stream[i].kind)

\* An on_recv() that goes on behind the message without its trailers.
SkipFinalSize(i) ==
    /\ rpc = "parse" /\ ~Incomplete /\ i \in Here /\ Readable(i)
    /\ stream[i].kind.sequence => stream[i].seq = recvSeq
    /\ recvSeq' = IF stream[i].kind.sequence THEN (recvSeq + 1) % SeqRange ELSE recvSeq
    /\ posted' = Append(posted, i)
    /\ iter' = iter + FinalSize(stream[i].kind)
    /\ UNCHANGED <<sender, up, wire, arrived, front, rpc, failed>>

\* A complete message in sequence: posted, and the next one looked for.  The
\* checksum holds and unpack() uses up the bytes to the last only if they are
\* those of the message.
PostMessage(i) ==
    /\ rpc = "parse" /\ ~Incomplete /\ i \in Here /\ Readable(i)
    /\ stream[i].kind.sequence => stream[i].seq = recvSeq
    /\ recvSeq' = IF stream[i].kind.sequence THEN (recvSeq + 1) % SeqRange ELSE recvSeq
    /\ posted' = Append(posted, i)
    /\ iter' = iter + get_length(stream[i].length)
    /\ UNCHANGED <<sender, up, wire, arrived, front, rpc, failed>>

\* A message out of sequence, or bytes of another length than its own: on_recv()
\* returns an error and the session is closed.  (Where a length of less than
\* the trailers is read, which takes 65536 bytes, the checks read outside of
\* the message, and this stands for the end of the process as well.)
RecvFails ==
    /\ rpc = "parse" /\ ~Incomplete
    /\ \A i \in Here : Readable(i) => stream[i].kind.sequence /\ stream[i].seq # recvSeq
    /\ failed' = TRUE /\ up' = FALSE /\ rpc' = "wait"
    /\ recvSeq' = IF \E i \in Here : /\ stream[i].kind.sequence
                                     /\ stream[i].kind.checksum => Readable(i)
                  THEN (recvSeq + 1) % SeqRange ELSE recvSeq
    /\ UNCHANGED <<sender, wire, arrived, front, iter, posted>>

-----------------------------------------------------------------------------

Next ==
    \/ \E t \in Senders : \E k \in Kinds :
          send(t, k) \/ \E field \in Fields(k) : send_data(t, k, field)
    \/ \E t \in Senders : Number(t) \/ AppendPacket(t)
    \/ Lose
    \/ \E n \in Cuts : on_recv(n)
    \/ RecvDone
    \/ \E i \in DOMAIN stream : PostMessage(i)
    \/ RecvFails

Spec == Init /\ [][Next]_vars

-----------------------------------------------------------------------------

\* A packet whose length field is wrong and yet no more than what has arrived
\* from its header on: it is taken for a complete one and refused.  That takes
\* data that a caller serialized and left without a length, a packet of 65536
\* bytes or more, or 16 megabytes behind one of 256; else on_recv() waits for
\* the rest for ever.
Misread(i) == ~Readable(i) /\ StartOf(i) + get_length(stream[i].length) <= arrived
Misled == \E i \in DOMAIN stream : Misread(i)

\* What arrived whole is posted: in the order of sending, each message once,
\* when on_recv() has returned nothing is left in recv_buf_ but a part of a
\* message, a last message without contents, or what comes after a packet
\* whose length field is wrong.
ReceivedAsSent ==
    /\ \A i \in DOMAIN posted : posted[i] = i
    /\ rpc = "wait" /\ ~failed =>
          \A k \in DOMAIN stream :
              /\ EndOf(k) <= arrived
              /\ \A i \in 1 .. k : Readable(i)
              /\ WireSize(stream[k].kind) > header_length \/ EndOf(k) < arrived
              => k <= Len(posted)

\* on_recv() refuses what send() sent only if two threads numbered packets at
\* once, or a packet with a wrong length field has arrived: framing, trailers
\* and the wrap of the sequence byte never make the receiver lose its place.
FailsOnlyOnOverlap == failed => overlapped \/ Misled

=============================================================================
