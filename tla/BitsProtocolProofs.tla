------------------------- MODULE BitsProtocolProofs -------------------------
(***************************************************************************)
(* Proofs about the protocol, for any sender threads, message classes,     *)
(* range of the sequence byte and number of messages.                      *)
(***************************************************************************)
EXTENDS BitsProtocol, SequenceTheorems, TLAPS

Classes == [size : Nat, sequence : BOOLEAN, checksum : BOOLEAN]
Packets == [kind : Classes, seq : 0 .. SeqRange - 1, length : Seq(Nat)]
Places  == 0 .. Len(stream)

\* Every variable has its type.
Types ==
    /\ pc \in [Senders -> {"idle", "number", "append"}]
    /\ out \in [Senders -> Packets]
    /\ sendSeq \in 0 .. SeqRange - 1 /\ sends \in 0 .. MaxSends /\ overlapped \in BOOLEAN
    /\ up \in BOOLEAN
    /\ stream \in Seq(Packets) /\ ends \in Seq(Nat)
    /\ arrived \in Nat /\ front \in Nat /\ iter \in Nat
    /\ rpc \in {"wait", "parse"}
    /\ recvSeq \in 0 .. SeqRange - 1 /\ posted \in Seq(Nat \ {0}) /\ failed \in BOOLEAN

\* A packet that is built or sent is of a message class, and its length field
\* holds the bytes for its size, or none; only a packet whose class wants a
\* number is about to get one.
Full(p) == p.length = LengthField(WireSize(p.kind))
Sized(p) == p.kind \in Kinds /\ (Full(p) \/ p.length = Unset)

Built == /\ \A t \in Senders : pc[t] # "idle" => Sized(out[t])
         /\ \A t \in Senders : pc[t] = "number" => out[t].kind.sequence
         /\ \A i \in DOMAIN stream : Sized(stream[i])

\* The packets lie one behind the other.
Contiguous ==
    /\ Len(ends) = Len(stream)
    /\ \A i \in DOMAIN stream : EndOf(i) = EndOf(i - 1) + WireSize(stream[i].kind)
    /\ \A i, j \in Places : i < j => EndOf(i) + header_length <= EndOf(j)

\* What was posted is the front of the stream, and on_recv() is behind it;
\* nothing has arrived that was not sent.
InPlace ==
    /\ arrived <= Total
    /\ Len(posted) <= Len(stream) /\ \A i \in DOMAIN posted : posted[i] = i
    /\ iter = EndOf(Len(posted)) /\ iter <= arrived
    /\ rpc = "wait" /\ ~failed => front = iter

\* Between two reads recv_buf_ holds less than a message, or not more than a
\* header.
Waiting ==
    rpc = "wait" /\ ~failed =>
        \/ Remained <= header_length
        \/ /\ Len(posted) < Len(stream)
           /\ Remained < get_length(stream[Len(posted) + 1].length)

\* s is the number that follows those of the first n packets.
Follows(s, n) ==
    \/ s = 0 /\ \A i \in 1 .. n : ~stream[i].kind.sequence
    \/ \E i \in 1 .. n :
          /\ stream[i].kind.sequence /\ s = (stream[i].seq + 1) % SeqRange
          /\ \A j \in i + 1 .. n : ~stream[j].kind.sequence

\* While no two threads have held numbers at once, each numbered packet has
\* the number that follows, and so has the one that holds a number.
InSequence ==
    ~overlapped =>
        /\ \A i \in DOMAIN stream : stream[i].kind.sequence => Follows(stream[i].seq, i - 1)
        /\ \A t, u \in Holding : t = u
        /\ up => /\ Holding = {} => Follows(sendSeq, Len(stream))
                 /\ \A t \in Holding : /\ Follows(out[t].seq, Len(stream))
                                       /\ sendSeq = (out[t].seq + 1) % SeqRange

\* Without an overlap or a wrong length field, on_recv() has not failed.
Receiving == failed => overlapped \/ Misled

\* The receiver expects the number that follows what it has posted.
Expecting == ~failed => Follows(recvSeq, Len(posted))

\* The inductive invariant.
Received == InPlace /\ Waiting /\ Receiving /\ Expecting
IInv == Types /\ Built /\ Contiguous /\ InSequence /\ Received

-----------------------------------------------------------------------------
(* Packets and their places.                                               *)

\* What a length field is read as.
LEMMA FieldFacts ==
    ASSUME NEW n \in Nat
    PROVE  /\ LengthField(n) \in Seq(Nat) /\ get_length(LengthField(n)) \in Nat
           /\ n < 256 => get_length(LengthField(n)) = n
<1> DEFINE low == n % 256  high == (n \div 256) % 256
<1>1. low \in Nat /\ high \in Nat /\ (n < 256 => low = n /\ high = 0)
  OBVIOUS
<1>2. LengthField(n) = <<low, high, high, high>>
  BY DEF LengthField
<1> HIDE DEF low, high
<1>3. get_length(LengthField(n)) = low + high * 256 + high * 65536 + high * 16777216
  BY <1>2 DEF get_length
<1>4. LengthField(n) \in Seq(Nat)
  BY <1>1, <1>2
<1>5. QED
  BY <1>1, <1>3, <1>4

\* A packet is a header at least, and its length field is read as a number.
LEMMA SizeFacts ==
    ASSUME NEW p \in Packets, Sized(p)
    PROVE  /\ WireSize(p.kind) \in Nat /\ WireSize(p.kind) >= header_length
           /\ get_length(p.length) \in Nat
<1>1. p.kind.size \in Nat /\ p.kind.size >= 8
  BY ProtocolAssumption DEF Packets, Classes, Sized, header_length
<1>2. WireSize(p.kind) \in Nat /\ WireSize(p.kind) >= 8
  BY <1>1 DEF WireSize, Numbered, header_length, sequence_size, checksum_size
<1>3. get_length(p.length) \in Nat
  BY <1>2, FieldFacts DEF Sized, Full, Unset
<1>4. QED
  BY <1>2, <1>3 DEF header_length

\* A full length field of a packet whose length fits into one byte is read right.
LEMMA OneByteIsReadable ==
    ASSUME NEW i \in DOMAIN stream, Sized(stream[i]), stream[i] \in Packets,
           WireSize(stream[i].kind) < 256, Full(stream[i])
    PROVE  Readable(i)
<1>1. WireSize(stream[i].kind) \in Nat
  BY SizeFacts
<1>2. QED
  BY <1>1, FieldFacts DEF Readable, Full

\* Ends of packets are numbers, in order.
LEMMA EndFacts ==
    ASSUME Types, Built, Contiguous
    PROVE  /\ Len(stream) \in Nat /\ DOMAIN stream = 1 .. Len(stream)
           /\ \A i \in Places : EndOf(i) \in Nat /\ EndOf(i) <= Total
           /\ \A i \in DOMAIN stream :
                 /\ i \in Places /\ i - 1 \in Places /\ StartOf(i) = EndOf(i - 1)
                 /\ stream[i] \in Packets
                 /\ WireSize(stream[i].kind) \in Nat /\ WireSize(stream[i].kind) >= header_length
                 /\ get_length(stream[i].length) \in Nat
<1>1. /\ Len(stream) \in Nat /\ DOMAIN stream = 1 .. Len(stream)
      /\ Len(ends) = Len(stream) /\ DOMAIN ends = 1 .. Len(stream)
      /\ \A i \in DOMAIN ends : ends[i] \in Nat
      /\ \A i \in DOMAIN stream : stream[i] \in Packets
  BY DEF Types, Contiguous
<1>2. \A i \in Places : EndOf(i) \in Nat
  BY <1>1 DEF EndOf, Places
<1>3. \A i \in Places : EndOf(i) <= Total
  <2>1. PICK n \in Nat : n = Len(stream)
    BY <1>1
  <2>2. \A i \in 0 .. n : i = n \/ (i < n /\ i \in Nat)
    OBVIOUS
  <2>3. \A i \in 0 .. n : i < n => EndOf(i) + 8 <= EndOf(n)
    BY <2>1 DEF Contiguous, Places, header_length
  <2>4. \A i \in 0 .. n : EndOf(i) \in Nat
    BY <1>2, <2>1 DEF Places
  <2>5. n \in 0 .. n
    OBVIOUS
  <2>6. \A i \in 0 .. n : EndOf(i) <= EndOf(n)
    BY <2>2, <2>3, <2>4, <2>5
  <2>7. QED
    BY <2>1, <2>6 DEF Places, Total
<1>4. \A i \in DOMAIN stream : i \in Places /\ i - 1 \in Places /\ StartOf(i) = EndOf(i - 1)
  BY <1>1 DEF Places, StartOf
<1>5. \A i \in DOMAIN stream :
         /\ WireSize(stream[i].kind) \in Nat /\ WireSize(stream[i].kind) >= header_length
         /\ get_length(stream[i].length) \in Nat
  BY <1>1, SizeFacts DEF Built
<1>6. QED
  BY <1>1, <1>2, <1>3, <1>4, <1>5

\* Only the next packet begins where packet n ends.
LEMMA NextBegins ==
    ASSUME Types, Built, Contiguous, NEW n \in Places, NEW i \in DOMAIN stream,
           StartOf(i) = EndOf(n)
    PROVE  i = n + 1
<1>1. /\ i - 1 \in Places /\ EndOf(i - 1) = EndOf(n) /\ EndOf(n) \in Nat
      /\ Len(stream) \in Nat /\ i \in 1 .. Len(stream)
  BY EndFacts
<1>2. ~(i - 1 < n) /\ ~(n < i - 1)
  BY <1>1 DEF Contiguous, header_length
<1>3. QED
  BY <1>1, <1>2 DEF Places

\* What an append does to the places.
LEMMA AppendFacts ==
    ASSUME Types, Built, Contiguous, NEW p \in Packets, Sized(p),
           stream' = Append(stream, p), ends' = Append(ends, Total + WireSize(p.kind))
    PROVE  /\ Len(stream') = Len(stream) + 1 /\ stream'[Len(stream) + 1] = p
           /\ DOMAIN stream' = 1 .. Len(stream) + 1
           /\ \A i \in DOMAIN stream : stream'[i] = stream[i]
           /\ \A i \in Places : EndOf(i)' = EndOf(i)
           /\ Total' = Total + WireSize(p.kind)
           /\ stream' \in Seq(Packets) /\ ends' \in Seq(Nat) /\ Len(ends') = Len(stream) + 1
<1>1. /\ Len(stream) \in Nat /\ Total \in Nat /\ WireSize(p.kind) \in Nat
      /\ Len(stream) \in Places
  BY EndFacts, SizeFacts DEF Places, Total
<1>2. stream \in Seq(Packets) /\ ends \in Seq(Nat) /\ Len(ends) = Len(stream)
  BY DEF Types, Contiguous
<1> DEFINE e == Total + WireSize(p.kind)
<1>3. e \in Nat
  BY <1>1
<1> HIDE DEF e
<1>4. /\ Append(stream, p) \in Seq(Packets) /\ Len(Append(stream, p)) = Len(stream) + 1
      /\ \A i \in 1 .. Len(stream) : Append(stream, p)[i] = stream[i]
      /\ Append(stream, p)[Len(stream) + 1] = p
  BY <1>2, AppendProperties
<1>5. /\ Append(ends, e) \in Seq(Nat) /\ Len(Append(ends, e)) = Len(stream) + 1
      /\ \A i \in 1 .. Len(stream) : Append(ends, e)[i] = ends[i]
      /\ Append(ends, e)[Len(stream) + 1] = e
  BY <1>2, <1>3, AppendProperties
<1>6. ends' = Append(ends, e) /\ stream' = Append(stream, p)
  BY DEF e
<1>7. \A i \in Places : EndOf(i)' = EndOf(i)
  BY <1>1, <1>5, <1>6 DEF EndOf, Places
<1>8. Total' = e
  BY <1>1, <1>4, <1>5, <1>6 DEF Total, EndOf
<1>9. DOMAIN stream' = 1 .. Len(stream) + 1 /\ DOMAIN stream = 1 .. Len(stream)
  BY <1>2, <1>4, <1>6
<1>10. QED
  BY <1>4, <1>5, <1>6, <1>7, <1>8, <1>9 DEF e

-----------------------------------------------------------------------------
(* Numbers that follow each other.                                         *)

\* There is one number that follows.
LEMMA FollowsOnce ==
    ASSUME NEW n \in Nat, NEW r, NEW s, Follows(r, n), Follows(s, n)
    PROVE  r = s
BY DEF Follows

\* A packet without a number changes nothing.
LEMMA FollowsOn ==
    ASSUME NEW n \in Nat, NEW s, Follows(s, n), ~stream[n + 1].kind.sequence
    PROVE  Follows(s, n + 1)
BY DEF Follows

\* A packet with a number is followed by the next one.
LEMMA FollowsNext ==
    ASSUME NEW n \in Nat, stream[n + 1].kind.sequence
    PROVE  Follows((stream[n + 1].seq + 1) % SeqRange, n + 1)
BY DEF Follows

\* The same, for the packet that is appended.
LEMMA FollowsNew ==
    ASSUME NEW n \in Nat, NEW s,
           \/ /\ Follows(s, n)' /\ ~stream'[n + 1].kind.sequence
           \/ stream'[n + 1].kind.sequence /\ s = (stream'[n + 1].seq + 1) % SeqRange
    PROVE  Follows(s, n + 1)'
BY DEF Follows

\* What follows does not change when the stream goes on.
LEMMA FollowsKept ==
    ASSUME NEW n \in Nat, NEW s, Follows(s, n), \A i \in 1 .. n : stream'[i] = stream[i]
    PROVE  Follows(s, n)'
BY DEF Follows

-----------------------------------------------------------------------------
(* Steps that keep the sender's part.                                      *)

\* The first state.
LEMMA InitInv == ASSUME Init PROVE IInv
<1>1. SeqRange \in Nat \ {0} /\ MaxSends \in Nat
  BY ProtocolAssumption
<1>2. NoPacket \in Packets
  <2>1. <<0, 0, 0, 0>> \in Seq(Nat)
    OBVIOUS
  <2>2. 0 \in 0 .. SeqRange - 1
    BY <1>1
  <2>3. QED
    BY <2>1, <2>2 DEF NoPacket, Packets, Classes
<1>3. Types
  <2>1. pc \in [Senders -> {"idle", "number", "append"}] /\ out \in [Senders -> Packets]
    BY <1>2 DEF Init
  <2>2. sendSeq \in 0 .. SeqRange - 1 /\ sends \in 0 .. MaxSends /\ recvSeq \in 0 .. SeqRange - 1
    BY <1>1 DEF Init
  <2>3. stream \in Seq(Packets) /\ ends \in Seq(Nat) /\ posted \in Seq(Nat \ {0})
    BY DEF Init
  <2>4. QED
    BY <2>1, <2>2, <2>3 DEF Init, Types
<1>4. Len(stream) = 0 /\ Places = {0} /\ DOMAIN stream = {} /\ Len(ends) = 0 /\ Len(posted) = 0
      /\ DOMAIN posted = {}
  BY DEF Init, Places
<1>5. Built /\ Contiguous
  BY <1>4 DEF Init, Built, Contiguous
<1>6. Follows(0, 0)
  BY DEF Follows
<1>7. Holding = {}
  BY DEF Init, Holding
<1>8. InSequence /\ Receiving /\ Expecting
  BY <1>4, <1>6, <1>7 DEF Init, InSequence, Receiving, Expecting
<1>9. InPlace /\ Waiting
  BY <1>4 DEF Init, InPlace, Waiting, Total, EndOf, Remained, header_length
<1>10. QED
  BY <1>3, <1>5, <1>8, <1>9 DEF IInv, Received

\* A message class gives a packet of its size.
LEMMA PacketFacts ==
    ASSUME NEW k \in Kinds, NEW field \in Fields(k)
    PROVE  Packet(k, field) \in Packets /\ Sized(Packet(k, field)) /\ Packet(k, field).kind = k
<1>1. /\ k \in Classes /\ k.size \in Nat /\ k.size >= 8 /\ SeqRange \in Nat \ {0}
  BY ProtocolAssumption DEF Classes, header_length
<1>2. WireSize(k) \in Nat
  BY <1>1 DEF WireSize, Numbered, header_length, sequence_size, checksum_size
<1> DEFINE l == IF Rewritten(k) THEN LengthField(WireSize(k)) ELSE field
<1>3. l = LengthField(WireSize(k)) \/ l = Unset
  BY DEF Rewritten, Fields
<1>4. l \in Seq(Nat)
  BY <1>2, <1>3, FieldFacts DEF Unset
<1>5. Packet(k, field) = [kind |-> k, seq |-> 0, length |-> l]
  BY DEF Packet
<1> HIDE DEF l
<1>6. 0 \in 0 .. SeqRange - 1
  BY <1>1
<1>7. QED
  BY <1>1, <1>3, <1>4, <1>5, <1>6 DEF Packets, Sized, Full

\* The steps, with both ways to send.
LEMMA Steps ==
    ASSUME Next
    PROVE  \/ \E t \in Senders : \E k \in Kinds : \E field \in Fields(k) : send_final(t, k, field)
           \/ \E t \in Senders : Number(t) \/ AppendPacket(t)
           \/ Lose
           \/ \E n \in Cuts : on_recv(n)
           \/ RecvDone
           \/ \E i \in DOMAIN stream : PostMessage(i)
           \/ RecvFails
<1>1. \A k \in Kinds : LengthField(k.size) \in Fields(k)
  BY DEF Fields
<1>2. QED
  BY <1>1 DEF Next, send, send_data

\* Types.
LEMMA TypesStep == ASSUME IInv, Next PROVE Types'
<1> USE DEF IInv
<1>c. SeqRange \in Nat \ {0} /\ MaxSends \in Nat
  BY ProtocolAssumption
<1>t. Types /\ Built /\ Contiguous
  OBVIOUS
<1>1. ASSUME NEW t \in Senders, NEW k \in Kinds, NEW field \in Fields(k),
             send_final(t, k, field) PROVE Types'
  <2>1. Packet(k, field) \in Packets
    BY PacketFacts
  <2>2. sends' \in 0 .. MaxSends
    BY <1>1, <1>c, <1>t DEF send_final, Types
  <2>3. QED
    BY <1>1, <1>t, <2>1, <2>2 DEF send_final, Types, wire, receiver
<1>2. ASSUME NEW t \in Senders, Number(t) PROVE Types'
  <2>1. sendSeq' \in 0 .. SeqRange - 1
    BY <1>2, <1>c, <1>t DEF Number, Types
  <2>2. [out[t] EXCEPT !.seq = sendSeq] \in Packets
    BY <1>2, <1>t DEF Types, Packets
  <2>3. out' \in [Senders -> Packets]
    BY <1>2, <1>t, <2>2 DEF Number, Types
  <2>4. QED
    BY <1>2, <1>t, <2>1, <2>3 DEF Number, Types, wire, receiver
<1>3. ASSUME NEW t \in Senders, AppendPacket(t) PROVE Types'
  <2>1. stream' \in Seq(Packets) /\ ends' \in Seq(Nat)
    <3>1. CASE up
      <4>1. out[t] \in Packets /\ Sized(out[t])
        BY <1>3, <1>t DEF AppendPacket, Types, Built
      <4>2. QED
        BY <1>3, <1>t, <3>1, <4>1, AppendFacts DEF AppendPacket
    <3>2. CASE ~up
      BY <1>3, <1>t, <3>2 DEF AppendPacket, Types, wire
    <3>3. QED
      BY <3>1, <3>2
  <2>2. NoPacket \in Packets
    <3>1. <<0, 0, 0, 0>> \in Seq(Nat)
      OBVIOUS
    <3>2. 0 \in 0 .. SeqRange - 1
      BY <1>c
    <3>3. QED
      BY <3>1, <3>2 DEF NoPacket, Packets, Classes
  <2>3. QED
    BY <1>3, <1>t, <2>1, <2>2 DEF AppendPacket, Types, receiver
<1>4. CASE Lose
  BY <1>4, <1>t DEF Lose, Types, sender, wire, receiver
<1>5. ASSUME NEW n \in Cuts, on_recv(n) PROVE Types'
  <2>1. n \in Int
    <3>1. PICK i \in DOMAIN stream :
             n \in {StartOf(i) + 1, StartOf(i) + header_length, StartOf(i) + header_length + 1,
                    EndOf(i) - 1, EndOf(i)}
      BY DEF Cuts
    <3>2. StartOf(i) \in Nat /\ EndOf(i) \in Nat
      BY <1>t, EndFacts
    <3>3. QED
      BY <3>1, <3>2 DEF header_length
  <2>2. n \in Nat
    BY <1>5, <1>t, <2>1 DEF on_recv, Types
  <2>3. QED
    BY <1>5, <1>t, <2>2 DEF on_recv, Types, sender, wire
<1>6. CASE RecvDone
  BY <1>6, <1>t DEF RecvDone, Types, sender, wire
<1>7. ASSUME NEW i \in DOMAIN stream, PostMessage(i) PROVE Types'
  <2>1. get_length(stream[i].length) \in Nat /\ i \in Nat \ {0}
    BY <1>t, EndFacts
  <2>2. iter' \in Nat
    BY <1>7, <1>t, <2>1 DEF PostMessage, Types
  <2>3. recvSeq' \in 0 .. SeqRange - 1
    BY <1>7, <1>c, <1>t DEF PostMessage, Types
  <2>4. posted' \in Seq(Nat \ {0})
    BY <1>7, <1>t, <2>1 DEF PostMessage, Types
  <2>5. QED
    BY <1>7, <1>t, <2>2, <2>3, <2>4 DEF PostMessage, Types, sender, wire
<1>8. CASE RecvFails
  <2>1. recvSeq' \in 0 .. SeqRange - 1
    BY <1>8, <1>c, <1>t DEF RecvFails, Types
  <2>2. QED
    BY <1>8, <1>t, <2>1 DEF RecvFails, Types, sender, wire
<1>9. QED
  BY <1>1, <1>2, <1>3, <1>4, <1>5, <1>6, <1>7, <1>8, Steps

\* Only an append changes the stream.
LEMMA WireStep ==
    ASSUME Next
    PROVE  UNCHANGED wire \/ \E t \in Senders : AppendPacket(t) /\ up
BY Steps DEF send_final, Number, AppendPacket, Lose, on_recv, RecvDone, PostMessage, RecvFails

\* The packets and their places.
LEMMA WireInv == ASSUME IInv, Next PROVE Built' /\ Contiguous'
<1> USE DEF IInv
<1>t. Types /\ Built /\ Contiguous
  OBVIOUS
<1>1. \A t \in Senders : (pc[t] # "idle")' => Sized(out[t])'
  <2>1. TAKE u \in Senders
  <2>2. CASE out'[u] = out[u] /\ (pc[u] # "idle" \/ pc'[u] = pc[u])
    BY <1>t, <2>2 DEF Built, Sized, Full
  <2>3. ASSUME NEW t \in Senders, NEW k \in Kinds, NEW field \in Fields(k),
             send_final(t, k, field) PROVE (pc[u] # "idle")' => Sized(out[u])'
    <3>1. CASE u = t
      <4>1. out'[u] = Packet(k, field)
        BY <1>t, <2>3, <3>1 DEF send_final, Types
      <4>2. QED
        BY <4>1, PacketFacts DEF Sized
    <3>2. CASE u # t
      BY <1>t, <2>2, <2>3, <3>2 DEF send_final, Types
    <3>3. QED
      BY <3>1, <3>2
  <2>4. ASSUME NEW t \in Senders, Number(t) PROVE (pc[u] # "idle")' => Sized(out[u])'
    <3>1. CASE u = t
      <4>1. /\ out'[u].kind = out[u].kind /\ out'[u].length = out[u].length
            /\ pc[u] # "idle"
        BY <1>t, <2>4, <3>1 DEF Number, Types, Packets
      <4>2. QED
        BY <1>t, <4>1 DEF Built, Sized, Full
    <3>2. CASE u # t
      BY <1>t, <2>2, <2>4, <3>2 DEF Number, Types
    <3>3. QED
      BY <3>1, <3>2
  <2>5. ASSUME NEW t \in Senders, AppendPacket(t) PROVE (pc[u] # "idle")' => Sized(out[u])'
    <3>1. CASE u = t
      BY <1>t, <2>5, <3>1 DEF AppendPacket, Types
    <3>2. CASE u # t
      BY <1>t, <2>2, <2>5, <3>2 DEF AppendPacket, Types
    <3>3. QED
      BY <3>1, <3>2
  <2>6. CASE UNCHANGED <<pc, out>>
    BY <2>2, <2>6
  <2>7. QED
    BY <2>3, <2>4, <2>5, <2>6, Steps DEF Lose, on_recv, RecvDone, PostMessage, RecvFails, sender
<1>n. \A t \in Senders : (pc[t] = "number")' => out'[t].kind.sequence
  <2>1. TAKE u \in Senders
  <2>2. ASSUME NEW t \in Senders, NEW k \in Kinds, NEW field \in Fields(k),
             send_final(t, k, field)
        PROVE  (pc[u] = "number")' => out'[u].kind.sequence
    <3>1. CASE u = t
      <4>1. out'[u] = Packet(k, field)
        BY <1>t, <2>2, <3>1 DEF send_final, Types
      <4>2. pc'[u] = "number" => k.sequence
        BY <1>t, <2>2, <3>1 DEF send_final, Types
      <4>3. QED
        BY <4>1, <4>2, PacketFacts
    <3>2. CASE u # t
      BY <1>t, <2>2, <3>2 DEF send_final, Types, Built
    <3>3. QED
      BY <3>1, <3>2
  <2>3. ASSUME NEW t \in Senders, Number(t) \/ AppendPacket(t)
        PROVE  (pc[u] = "number")' => out'[u].kind.sequence
    BY <1>t, <2>3 DEF Number, AppendPacket, Types, Built
  <2>4. CASE UNCHANGED <<pc, out>>
    BY <1>t, <2>4 DEF Built
  <2>5. QED
    BY <2>2, <2>3, <2>4, Steps DEF Lose, on_recv, RecvDone, PostMessage, RecvFails, sender
<1>2. CASE UNCHANGED wire
  BY <1>1, <1>2, <1>n, <1>t DEF wire, Built, Sized, Contiguous, Places, EndOf
<1>3. ASSUME NEW t \in Senders, AppendPacket(t), up PROVE Built' /\ Contiguous'
  <2>1. /\ out[t] \in Packets /\ Sized(out[t])
        /\ stream' = Append(stream, out[t]) /\ ends' = Append(ends, Total + WireSize(out[t].kind))
    BY <1>3, <1>t DEF AppendPacket, Types, Built
  <2>n. PICK n \in Nat : n = Len(stream)
    BY <1>t, EndFacts
  <2>p. PICK p \in Packets : p = out[t]
    BY <2>1
  <2>2. /\ Len(stream') = n + 1 /\ stream'[n + 1] = p
        /\ DOMAIN stream' = 1 .. n + 1
        /\ \A i \in 1 .. n : stream'[i] = stream[i]
        /\ \A i \in 0 .. n : EndOf(i)' = EndOf(i)
        /\ Total' = Total + WireSize(p.kind)
        /\ Len(ends') = n + 1
    BY <1>t, <2>1, <2>n, <2>p, AppendFacts, EndFacts DEF Places
  <2>3. WireSize(p.kind) \in Nat /\ WireSize(p.kind) >= 8 /\ Sized(p)
    BY <2>1, <2>p, SizeFacts DEF header_length
  <2>4. /\ \A i \in 0 .. n : EndOf(i) \in Nat /\ EndOf(i) <= Total
        /\ Total = EndOf(n)
    BY <1>t, <2>n, EndFacts DEF Places, Total
  <2>5. EndOf(n + 1)' = Total + WireSize(p.kind)
    BY <2>2 DEF Total
  <2>6. \A i \in DOMAIN stream' : Sized(stream'[i])
    BY <1>t, <2>2, <2>3, <2>n DEF Built
  <2>7. Built'
    BY <1>1, <1>n, <2>6 DEF Built, Sized
  <2>8. \A i \in 1 .. n + 1 : EndOf(i)' = EndOf(i - 1)' + WireSize(stream'[i].kind)
    <3>1. TAKE i \in 1 .. n + 1
    <3>2. CASE i \in 1 .. n
      <4>1. EndOf(i) = EndOf(i - 1) + WireSize(stream[i].kind)
        BY <1>t, <2>n, <3>2 DEF Contiguous
      <4>2. i \in 0 .. n /\ i - 1 \in 0 .. n
        BY <2>n, <3>2
      <4>3. QED
        BY <2>2, <3>2, <4>1, <4>2
    <3>3. CASE i = n + 1
      <4>1. EndOf(n)' = Total
        BY <2>2, <2>4
      <4>2. i - 1 = n
        BY <3>3
      <4>3. EndOf(i - 1)' = Total /\ EndOf(i)' = Total + WireSize(p.kind) /\ stream'[i] = p
        BY <2>2, <2>5, <3>3, <4>1, <4>2
      <4>4. QED
        BY <4>3
    <3>4. QED
      BY <3>2, <3>3
  <2>9. \A i, j \in 0 .. n + 1 : i < j => EndOf(i)' + 8 <= EndOf(j)'
    <3>1. TAKE i, j \in 0 .. n + 1
    <3>2. CASE j \in 0 .. n
      <4>1. SUFFICES ASSUME i < j PROVE EndOf(i)' + 8 <= EndOf(j)'
        OBVIOUS
      <4>2. i \in 0 .. n
        BY <3>2, <4>1
      <4>3. EndOf(i) + 8 <= EndOf(j)
        BY <1>t, <2>n, <3>2, <4>1, <4>2 DEF Contiguous, Places, header_length
      <4>4. QED
        BY <2>2, <3>2, <4>2, <4>3
    <3>3. CASE j = n + 1
      <4>1. SUFFICES ASSUME i < j PROVE EndOf(i)' + 8 <= EndOf(j)'
        OBVIOUS
      <4>2. i \in 0 .. n
        BY <3>3, <4>1
      <4>3. EndOf(i)' = EndOf(i) /\ EndOf(i) \in Nat /\ EndOf(i) <= Total /\ Total \in Nat
        BY <2>2, <2>4, <4>2
      <4>4. EndOf(j)' = Total + WireSize(p.kind)
        BY <2>5, <3>3
      <4>5. QED
        BY <2>3, <4>3, <4>4
    <3>4. QED
      BY <3>2, <3>3
  <2>10. Contiguous'
    BY <2>2, <2>8, <2>9 DEF Contiguous, Places, header_length
  <2>11. QED
    BY <2>7, <2>10
<1>4. QED
  BY <1>2, <1>3, WireStep

\* An append of a packet.
LEMMA AppendKeeps ==
    ASSUME IInv, NEW t \in Senders, AppendPacket(t), up
    PROVE  /\ Len(stream') = Len(stream) + 1 /\ stream'[Len(stream) + 1] = out[t]
           /\ DOMAIN stream' = 1 .. Len(stream) + 1
           /\ \A i \in DOMAIN stream : stream'[i] = stream[i]
           /\ \A i \in Places : EndOf(i)' = EndOf(i)
           /\ Total' >= Total
<1>1. Types /\ Built /\ Contiguous
  BY DEF IInv
<1>2. /\ out[t] \in Packets /\ Sized(out[t])
      /\ stream' = Append(stream, out[t]) /\ ends' = Append(ends, Total + WireSize(out[t].kind))
  BY <1>1 DEF AppendPacket, Types, Built
<1>3. Total \in Nat /\ WireSize(out[t].kind) \in Nat
  BY <1>1, <1>2, EndFacts, SizeFacts DEF Places, Total
<1>4. Total' = Total + WireSize(out[t].kind)
  BY <1>1, <1>2, AppendFacts
<1>5. Total' >= Total
  BY <1>3, <1>4
<1>6. QED
  BY <1>1, <1>2, <1>5, AppendFacts

\* A packet that is misread stays so.
LEMMA MisledStays == ASSUME IInv, Next, Misled PROVE Misled'
<1>t. Types /\ Built /\ Contiguous
  BY DEF IInv
<1>1. CASE UNCHANGED wire
  <2>1. PICK i \in DOMAIN stream : Misread(i)
    BY DEF Misled
  <2>2. arrived' \in Nat /\ arrived \in Nat /\ arrived <= arrived'
    <3>1. arrived' \in Nat /\ arrived \in Nat
      BY <1>t, TypesStep DEF Types
    <3>2. arrived' = arrived \/ arrived < arrived'
      BY Steps DEF send_final, Number, AppendPacket, Lose, on_recv, RecvDone, PostMessage,
         RecvFails, receiver
    <3>3. QED
      BY <3>1, <3>2
  <2>3. StartOf(i) \in Nat /\ get_length(stream[i].length) \in Nat
    BY <1>t, EndFacts
  <2>4. /\ i \in DOMAIN stream' /\ Readable(i)' = Readable(i) /\ StartOf(i)' = StartOf(i)
        /\ get_length(stream'[i].length) = get_length(stream[i].length)
    BY <1>1 DEF wire, Readable, StartOf, EndOf
  <2>5. StartOf(i)' + get_length(stream'[i].length) <= arrived'
    BY <2>1, <2>2, <2>3, <2>4 DEF Misread
  <2>6. QED
    BY <2>1, <2>4, <2>5 DEF Misled, Misread
<1>2. ASSUME NEW t \in Senders, AppendPacket(t), up PROVE Misled'
  <2>1. PICK i \in DOMAIN stream : Misread(i)
    BY DEF Misled
  <2>2. /\ stream'[i] = stream[i] /\ DOMAIN stream' = 1 .. Len(stream) + 1
        /\ arrived' = arrived /\ Len(stream) \in Nat /\ DOMAIN stream = 1 .. Len(stream)
    BY <1>2, <1>t, AppendKeeps, EndFacts DEF AppendPacket, receiver
  <2>3. StartOf(i)' = StartOf(i)
    <3>1. i - 1 \in Places
      BY <1>t, EndFacts
    <3>2. EndOf(i - 1)' = EndOf(i - 1)
      BY <1>2, <3>1, AppendKeeps
    <3>3. QED
      BY <3>2 DEF StartOf
  <2>4. i \in DOMAIN stream'
    BY <2>2
  <2>5. Misread(i)'
    BY <2>1, <2>2, <2>3 DEF Misread, Readable
  <2>6. QED
    BY <2>4, <2>5 DEF Misled
<1>3. QED
  BY <1>1, <1>2, WireStep

\* The numbers of the packets.
LEMMA SequenceStep == ASSUME IInv, Next PROVE InSequence'
<1>t. Types /\ Built /\ Contiguous /\ InSequence
  BY DEF IInv
<1>n. PICK n \in Nat : n = Len(stream) /\ DOMAIN stream = 1 .. n
  BY <1>t, EndFacts
<1>1. SUFFICES ASSUME ~overlapped'
               PROVE  /\ \A i \in DOMAIN stream' :
                            stream'[i].kind.sequence => Follows(stream[i].seq, i - 1)'
                      /\ \A t, u \in Holding' : t = u
                      /\ up' => /\ Holding' = {} => Follows(sendSeq, Len(stream))'
                                /\ \A t \in Holding' :
                                      /\ Follows(out[t].seq, Len(stream))'
                                      /\ sendSeq' = (out'[t].seq + 1) % SeqRange
  BY DEF InSequence
<1>2. ~overlapped
  BY <1>1, <1>t, Steps DEF send_final, Number, AppendPacket, Lose, on_recv, RecvDone, PostMessage,
     RecvFails, sender, Types
<1>3. CASE UNCHANGED sender /\ UNCHANGED wire /\ (up' => up)
  BY <1>2, <1>3, <1>t DEF sender, wire, InSequence, Holding, Follows
<1>4. ASSUME NEW t \in Senders, NEW k \in Kinds, NEW field \in Fields(k),
             send_final(t, k, field)
      PROVE  InSequence'
  <2>1. Holding' = Holding /\ \A u \in Holding : out'[u] = out[u]
    <3>1. \A u \in Senders : u # t => pc'[u] = pc[u] /\ out'[u] = out[u]
      BY <1>4, <1>t DEF send_final, Types
    <3>2. t \notin Holding
      BY <1>4 DEF send_final, Holding
    <3>3. out'[t] = Packet(k, field) /\ (pc'[t] = "append" => ~k.sequence)
      BY <1>4, <1>t DEF send_final, Types
    <3>4. out'[t].kind = k
      BY <3>3, PacketFacts
    <3>5. QED
      BY <3>1, <3>2, <3>3, <3>4 DEF Holding
  <2>2. UNCHANGED <<sendSeq, overlapped, up, stream>>
    BY <1>4 DEF send_final, wire
  <2>3. QED
    BY <1>2, <1>t, <2>1, <2>2 DEF InSequence, Follows
<1>5. ASSUME NEW t \in Senders, Number(t)
      PROVE  InSequence'
  <2>1. Holding = {}
    BY <1>1, <1>5 DEF Number
  <2>2. out'[t].seq = sendSeq /\ sendSeq' = (sendSeq + 1) % SeqRange /\ Holding' = {t}
    <3>1. \A u \in Senders : u # t => pc'[u] = pc[u] /\ out'[u] = out[u]
      BY <1>5, <1>t DEF Number, Types
    <3>2. out'[t].seq = sendSeq /\ out'[t].kind = out[t].kind /\ pc'[t] = "append"
      BY <1>5, <1>t DEF Number, Types, Packets
    <3>3. out[t].kind.sequence
      BY <1>5, <1>t DEF Number, Built
    <3>4. QED
      BY <1>5, <2>1, <3>1, <3>2, <3>3 DEF Holding, Number
  <2>3. UNCHANGED <<up, stream>>
    BY <1>5 DEF Number, wire
  <2>4. QED
    BY <1>2, <1>t, <2>1, <2>2, <2>3 DEF InSequence, Follows
<1>6. ASSUME NEW t \in Senders, AppendPacket(t), up
      PROVE  InSequence'
  <2>1. /\ Len(stream') = n + 1 /\ stream'[n + 1] = out[t] /\ DOMAIN stream' = 1 .. n + 1
        /\ \A i \in 1 .. n : stream'[i] = stream[i]
    BY <1>6, <1>n, AppendKeeps
  <2>2. /\ \A u \in Senders : u # t => pc'[u] = pc[u] /\ out'[u] = out[u]
        /\ pc'[t] = "idle" /\ pc[t] = "append" /\ sendSeq' = sendSeq
    BY <1>6, <1>t DEF AppendPacket, Types
  <2>3. \A i \in 1 .. n : stream[i].kind.sequence => Follows(stream[i].seq, i - 1)'
    <3>1. TAKE i \in 1 .. n
    <3>2. SUFFICES ASSUME stream[i].kind.sequence PROVE Follows(stream[i].seq, i - 1)'
      OBVIOUS
    <3>3. PICK s : s = stream[i].seq
      OBVIOUS
    <3>4. Follows(s, i - 1)
      BY <1>2, <1>n, <1>t, <3>2, <3>3 DEF InSequence
    <3>5. i - 1 \in Nat /\ \A j \in 1 .. i - 1 : stream'[j] = stream[j]
      BY <1>n, <2>1
    <3>6. Follows(s, i - 1)'
      BY <3>4, <3>5, FollowsKept
    <3>7. stream'[i].seq = s
      BY <2>1, <3>3
    <3>8. QED
      BY <3>6, <3>7 DEF Follows
  <2>4. CASE t \in Holding
    <3>1. PICK s : s = out[t].seq
      OBVIOUS
    <3>2. Holding' = {} /\ out[t].kind.sequence
      BY <1>2, <1>t, <2>2, <2>4 DEF InSequence, Holding
    <3>3. Follows(s, n) /\ sendSeq = (s + 1) % SeqRange
      BY <1>2, <1>6, <1>n, <1>t, <2>4, <3>1 DEF InSequence
    <3>4. Follows(s, n)'
      BY <2>1, <3>3, FollowsKept
    <3>5. PICK r : r = (s + 1) % SeqRange
      OBVIOUS
    <3>6. Follows(r, n + 1)'
      BY <2>1, <3>1, <3>2, <3>5, FollowsNew
    <3>7. Follows(sendSeq, Len(stream))'
      BY <2>1, <2>2, <3>3, <3>5, <3>6 DEF Follows
    <3>8. \A i \in 1 .. n + 1 : stream'[i].kind.sequence => Follows(stream[i].seq, i - 1)'
      <4>1. Follows(stream[n + 1].seq, n + 1 - 1)'
        <5>1. stream'[n + 1].seq = s /\ n + 1 - 1 = n
          BY <2>1, <3>1
        <5>2. QED
          BY <3>4, <5>1 DEF Follows
      <4>2. QED
        BY <1>n, <2>1, <2>3, <4>1
    <3>9. QED
      BY <2>1, <3>2, <3>7, <3>8 DEF InSequence
  <2>5. CASE t \notin Holding
    <3>1. ~out[t].kind.sequence /\ Holding' = Holding /\ \A u \in Holding : out'[u] = out[u]
      BY <2>2, <2>5 DEF Holding
    <3>2. \A i \in 1 .. n + 1 : stream'[i].kind.sequence => Follows(stream[i].seq, i - 1)'
      BY <1>n, <2>1, <2>3, <3>1
    <3>3. \A s : Follows(s, n) => Follows(s, n + 1)'
      <4>1. TAKE s
      <4>2. SUFFICES ASSUME Follows(s, n) PROVE Follows(s, n + 1)'
        OBVIOUS
      <4>3. Follows(s, n)'
        BY <2>1, <4>2, FollowsKept
      <4>4. QED
        BY <2>1, <3>1, <4>3, FollowsNew
    <3>4. Holding' = {} => Follows(sendSeq, Len(stream))'
      <4>1. PICK s : s = sendSeq
        OBVIOUS
      <4>2. Holding = {} => Follows(s, n)
        BY <1>2, <1>6, <1>n, <1>t, <4>1 DEF InSequence
      <4>3. Holding = {} => Follows(s, n + 1)'
        BY <3>3, <4>2
      <4>4. QED
        BY <2>1, <2>2, <3>1, <4>1, <4>3 DEF Follows
    <3>5. ASSUME NEW u \in Holding
          PROVE  Follows(out[u].seq, Len(stream))' /\ sendSeq' = (out'[u].seq + 1) % SeqRange
      <4>1. PICK s : s = out[u].seq
        OBVIOUS
      <4>2. Follows(s, n) /\ sendSeq = (s + 1) % SeqRange
        BY <1>2, <1>6, <1>n, <1>t, <3>5, <4>1 DEF InSequence
      <4>3. Follows(s, n + 1)'
        BY <3>3, <4>2
      <4>4. out'[u].seq = s
        BY <3>1, <4>1
      <4>5. QED
        BY <2>1, <2>2, <4>2, <4>3, <4>4 DEF Follows
    <3>6. \A v, u \in Holding' : v = u
      BY <1>2, <1>t, <3>1 DEF InSequence
    <3>7. QED
      BY <2>1, <3>1, <3>2, <3>4, <3>5, <3>6 DEF InSequence
  <2>6. QED
    BY <2>4, <2>5
<1>7. ASSUME NEW t \in Senders, AppendPacket(t), ~up
      PROVE  InSequence'
  <2>1. UNCHANGED <<stream, up, sendSeq>> /\ Holding' \subseteq Holding
    BY <1>7, <1>t DEF AppendPacket, wire, Holding, Types
  <2>2. QED
    BY <1>2, <1>7, <1>t, <2>1 DEF InSequence, Follows
<1>8. QED
  BY <1>1, <1>3, <1>4, <1>5, <1>6, <1>7, Steps
     DEF Lose, on_recv, RecvDone, PostMessage, RecvFails, InSequence

-----------------------------------------------------------------------------
(* Steps that keep the receiver's part.                                    *)

\* When the loop of on_recv() goes on, the next packet is there, whole if it is
\* read right.
LEMMA NextIsWhole ==
    ASSUME IInv, rpc = "parse", ~Incomplete, NEW n \in Nat, n = Len(posted)
    PROVE  /\ n + 1 \in DOMAIN stream /\ Here = {n + 1}
           /\ Readable(n + 1) => /\ iter + get_length(stream[n + 1].length) = EndOf(n + 1)
                                /\ EndOf(n + 1) <= arrived
           /\ ~Readable(n + 1) => Misled
<1>t. Types /\ Built /\ Contiguous /\ InPlace
  BY DEF IInv, Received
<1>p. PICK m \in Nat : m = Len(stream) /\ DOMAIN stream = 1 .. m
  BY <1>t, EndFacts
<1>1. iter = EndOf(n) /\ n \in 0 .. m /\ iter \in Nat /\ arrived \in Nat /\ arrived <= Total
  BY <1>t, <1>p DEF InPlace, Types
<1>2. arrived - iter > 8 /\ \A i \in Here : ~(arrived - iter < get_length(stream[i].length))
  BY <1>1 DEF Incomplete, Remained, header_length
<1>3. n # m
  BY <1>1, <1>2, <1>p DEF Total
<1>4. n + 1 \in 1 .. m /\ n + 1 - 1 = n
  BY <1>1, <1>3
<1>5. StartOf(n + 1) = iter
  BY <1>1, <1>4 DEF StartOf
<1>6. \A i \in Here : i = n + 1
  BY <1>1, <1>p, <1>t, NextBegins DEF Here, Places
<1>7. Here = {n + 1}
  BY <1>4, <1>5, <1>6, <1>p DEF Here
<1>8. PICK l \in Nat : l = get_length(stream[n + 1].length)
  BY <1>4, <1>p, <1>t, EndFacts
<1>9. iter + l <= arrived
  <2>1. ~(arrived - iter < l)
    BY <1>2, <1>7, <1>8
  <2>2. QED
    BY <1>1, <2>1
<1>10. ~Readable(n + 1) => Misled
  <2>1. StartOf(n + 1) + l <= arrived
    BY <1>5, <1>9
  <2>2. QED
    BY <1>4, <1>8, <1>p, <2>1 DEF Misled, Misread
<1>11. Readable(n + 1) => iter + l = EndOf(n + 1)
  BY <1>1, <1>4, <1>8, <1>p, <1>t DEF Contiguous, Readable
<1>12. QED
  BY <1>4, <1>7, <1>8, <1>9, <1>10, <1>11, <1>p

\* The receiver.
LEMMA ReceivedStep == ASSUME IInv, Next PROVE Received'
<1>m. Misled => Misled'
  BY MisledStays
<1>t. Types /\ Built /\ Contiguous /\ InSequence
  BY DEF IInv
<1>r. InPlace /\ Waiting /\ Receiving /\ Expecting
  BY DEF IInv, Received
<1>n. PICK n \in Nat : n = Len(posted)
  BY <1>t DEF Types
<1>p. PICK m \in Nat : m = Len(stream) /\ DOMAIN stream = 1 .. m
  BY <1>t, EndFacts
<1>b. n \in 0 .. m /\ arrived \in Nat /\ iter \in Nat /\ front \in Nat
  BY <1>n, <1>p, <1>r, <1>t DEF InPlace, Types
<1>1. ASSUME NEW t \in Senders,
             (\E k \in Kinds : \E field \in Fields(k) : send_final(t, k, field)) \/ Number(t)
      PROVE  Received'
  <2>1. UNCHANGED receiver /\ UNCHANGED wire
    BY <1>1 DEF send_final, Number, wire
  <2>2. overlapped => overlapped'
    BY <1>1, <1>t DEF send_final, Number, Types
  <2>3. QED
    BY <1>m, <1>r, <2>1, <2>2 DEF receiver, wire, Received, InPlace, Waiting, Receiving, Expecting, Total,
       EndOf, Remained, Follows
<1>2. CASE Lose
  BY <1>2, <1>m, <1>r DEF Lose, sender, receiver, wire, Received, InPlace, Waiting, Receiving, Expecting,
     Total, EndOf, Remained, Follows
<1>3. ASSUME NEW t \in Senders, AppendPacket(t) PROVE Received'
  <2>1. UNCHANGED <<receiver, overlapped>>
    BY <1>3 DEF AppendPacket
  <2>2. CASE ~up
    <3>1. UNCHANGED wire
      BY <1>3, <2>2 DEF AppendPacket
    <3>2. QED
      BY <1>m, <1>r, <2>1, <3>1 DEF receiver, wire, Received, InPlace, Waiting, Receiving, Expecting,
         Total, EndOf, Remained, Follows
  <2>3. CASE up
    <3>1. /\ Len(stream') = m + 1 /\ \A i \in 1 .. m : stream'[i] = stream[i]
          /\ \A i \in 0 .. m : EndOf(i)' = EndOf(i)
          /\ Total' >= Total
      BY <1>3, <1>p, <2>3, AppendKeeps DEF Places
    <3>2. Total' \in Nat /\ Total \in Nat
      <4>1. Types' /\ Built' /\ Contiguous'
        BY TypesStep, WireInv
      <4>2. Len(stream') \in 0 .. Len(stream')
        BY <3>1, <1>p
      <4>3. EndOf(Len(stream))' \in Nat
        BY <4>1, <4>2, <3>1 DEF EndOf, Types, Contiguous
      <4>4. QED
        BY <1>p, <1>t, <4>3, EndFacts DEF Places, Total
    <3>3. EndOf(n)' = EndOf(n) /\ posted' = posted /\ iter' = iter /\ arrived' = arrived
          /\ front' = front /\ rpc' = rpc /\ failed' = failed /\ recvSeq' = recvSeq
      BY <1>b, <2>1, <3>1 DEF receiver
    <3>4. InPlace'
      <4>1. arrived' <= Total'
        BY <1>b, <1>r, <3>1, <3>2, <3>3 DEF InPlace
      <4>2. Len(posted') <= Len(stream')
        BY <1>b, <1>n, <3>1, <3>3
      <4>3. iter' = EndOf(Len(posted))'
        BY <1>n, <1>r, <3>3 DEF InPlace
      <4>4. QED
        BY <1>r, <3>3, <4>1, <4>2, <4>3 DEF InPlace
    <3>5. Waiting'
      <4>1. n < m => stream'[n + 1] = stream[n + 1] /\ n < m + 1
        BY <1>b, <3>1
      <4>2. QED
        BY <1>n, <1>p, <1>r, <3>1, <3>3, <4>1 DEF Waiting, Remained
    <3>6. Expecting'
      <4>1. PICK s : s = recvSeq
        OBVIOUS
      <4>2. ~failed => Follows(s, n)
        BY <1>n, <1>r, <4>1 DEF Expecting
      <4>3. \A i \in 1 .. n : stream'[i] = stream[i]
        BY <1>b, <3>1
      <4>4. ~failed => Follows(s, n)'
        BY <4>2, <4>3, FollowsKept
      <4>5. QED
        BY <1>n, <3>3, <4>1, <4>4 DEF Expecting, Follows
    <3>7. QED
      BY <1>m, <1>r, <2>1, <3>3, <3>4, <3>5, <3>6 DEF Received, Receiving
  <2>4. QED
    BY <2>2, <2>3
<1>4. ASSUME NEW c \in Cuts, on_recv(c) PROVE Received'
  <2>1. /\ arrived' = c /\ c <= Total /\ arrived < c /\ iter' = front /\ rpc = "wait" /\ rpc' = "parse"
        /\ ~failed /\ UNCHANGED <<sender, wire, recvSeq, posted, failed>>
    BY <1>4 DEF on_recv
  <2>2. arrived' \in Nat
    BY TypesStep DEF Types
  <2>3. iter' = iter /\ iter <= arrived'
    BY <1>b, <1>r, <2>1, <2>2 DEF InPlace
  <2>4. InPlace'
    BY <1>r, <2>1, <2>3 DEF InPlace, wire, Total, EndOf
  <2>5. QED
    BY <1>m, <1>r, <2>1, <2>4 DEF Received, Waiting, Receiving, Expecting, Follows, wire, sender
<1>5. CASE RecvDone
  <2>1. front' = iter /\ rpc' = "wait" /\ Incomplete
        /\ UNCHANGED <<sender, wire, arrived, iter, recvSeq, posted, failed>>
    BY <1>5 DEF RecvDone
  <2>2. \/ Remained <= header_length
        \/ n < m /\ Remained < get_length(stream[n + 1].length)
    <3>1. ASSUME NEW i \in Here, Remained < get_length(stream[i].length)
          PROVE  n < m /\ Remained < get_length(stream[n + 1].length)
      <4>1. i = n + 1
        BY <1>b, <1>n, <1>p, <1>r, <1>t, NextBegins DEF Here, InPlace, Places
      <4>2. QED
        BY <1>p, <3>1, <4>1 DEF Here
    <3>2. QED
      BY <2>1, <3>1 DEF Incomplete
  <2>3. Waiting'
    BY <1>n, <1>p, <2>1, <2>2 DEF Waiting, Remained, wire
  <2>4. QED
    BY <1>m, <1>r, <2>1, <2>3 DEF Received, InPlace, Receiving, Expecting, Total, EndOf, Follows, wire, sender
<1>6. ASSUME NEW i \in DOMAIN stream, PostMessage(i) PROVE Received'
  <2>1. /\ rpc = "parse" /\ rpc' = "parse" /\ ~Incomplete /\ i \in Here /\ Readable(i)
        /\ stream[i].kind.sequence => stream[i].seq = recvSeq
        /\ recvSeq' = IF stream[i].kind.sequence THEN (recvSeq + 1) % SeqRange ELSE recvSeq
        /\ posted' = Append(posted, i)
        /\ iter' = iter + get_length(stream[i].length)
        /\ UNCHANGED <<sender, wire, arrived, front, failed>>
    BY <1>6 DEF PostMessage
  <2>2. /\ n + 1 \in DOMAIN stream /\ i = n + 1
        /\ iter' = EndOf(n + 1) /\ EndOf(n + 1) <= arrived
    BY <1>n, <2>1, NextIsWhole
  <2>3. Len(posted') = n + 1 /\ \A j \in 1 .. n + 1 : posted'[j] = j
    <3>1. posted \in Seq(Nat \ {0}) /\ DOMAIN posted = 1 .. n /\ n + 1 \in Nat \ {0}
      BY <1>n, <1>t DEF Types
    <3>2. posted' = Append(posted, n + 1)
      BY <2>1, <2>2
    <3>3. /\ Len(posted') = n + 1 /\ posted'[n + 1] = n + 1
          /\ \A j \in 1 .. n : posted'[j] = posted[j]
      BY <1>n, <3>1, <3>2, AppendProperties
    <3>4. \A j \in 1 .. n : posted'[j] = j
      BY <1>r, <3>1, <3>3 DEF InPlace
    <3>5. QED
      BY <3>3, <3>4
  <2>4. DOMAIN posted' = 1 .. n + 1
    BY <1>n, <1>t, <2>1, <2>2, <2>3 DEF Types
  <2>5. InPlace'
    BY <1>p, <1>r, <2>1, <2>2, <2>3, <2>4 DEF InPlace, wire, Total, EndOf
  <2>6. Expecting'
    <3>1. PICK s : s = recvSeq
      OBVIOUS
    <3>2. ~failed => Follows(s, n)
      BY <1>n, <1>r, <3>1 DEF Expecting
    <3>3. ~failed => Follows(recvSeq', n + 1)
      <4>1. CASE stream[n + 1].kind.sequence
        BY <2>1, <2>2, <4>1, FollowsNext
      <4>2. CASE ~stream[n + 1].kind.sequence
        BY <2>1, <2>2, <3>1, <3>2, <4>2, FollowsOn
      <4>3. QED
        BY <4>1, <4>2
    <3>4. QED
      BY <2>1, <2>3, <3>3 DEF Expecting, Follows, wire
  <2>7. QED
    BY <1>m, <1>r, <2>1, <2>5, <2>6 DEF Received, Waiting, Receiving, sender
<1>7. CASE RecvFails
  <2>1. /\ rpc = "parse" /\ ~Incomplete
        /\ \A i \in Here : Readable(i) => stream[i].kind.sequence /\ stream[i].seq # recvSeq
        /\ failed' = TRUE /\ UNCHANGED <<sender, wire, arrived, front, iter, posted>>
    BY <1>7 DEF RecvFails
  <2>2. /\ n + 1 \in DOMAIN stream /\ Here = {n + 1} /\ n + 1 - 1 = n
        /\ ~Readable(n + 1) => Misled
    BY <1>n, <2>1, NextIsWhole
  <2>3. overlapped \/ Misled
    <3>1. SUFFICES ASSUME ~overlapped, ~Misled PROVE FALSE
      OBVIOUS
    <3>2. stream[n + 1].kind.sequence /\ stream[n + 1].seq # recvSeq
      BY <2>1, <2>2, <3>1
    <3>3. Follows(stream[n + 1].seq, n)
      BY <1>t, <2>2, <3>1, <3>2 DEF InSequence
    <3>4. Follows(recvSeq, n)
      BY <1>n, <1>r, <3>1 DEF Receiving, Expecting
    <3>5. QED
      BY <3>2, <3>3, <3>4, FollowsOnce
  <2>4. InPlace'
    BY <1>r, <2>1 DEF InPlace, wire, Total, EndOf
  <2>5. QED
    BY <1>m, <2>1, <2>3, <2>4 DEF Received, Waiting, Receiving, Expecting, sender
<1>8. QED
  BY <1>1, <1>2, <1>3, <1>4, <1>5, <1>6, <1>7, Steps

-----------------------------------------------------------------------------

\* The inductive invariant of the protocol.
THEOREM ProtocolInvariant == Spec => []IInv
<1>1. Init => IInv
  BY InitInv
<1>2. IInv /\ [Next]_vars => IInv'
  <2>1. SUFFICES ASSUME IInv, [Next]_vars PROVE IInv'
    OBVIOUS
  <2>2. CASE Next
    BY <2>1, <2>2, TypesStep, WireInv, SequenceStep, ReceivedStep DEF IInv
  <2>3. CASE UNCHANGED vars
    <3>1. UNCHANGED sender /\ UNCHANGED receiver /\ UNCHANGED wire /\ UNCHANGED up
      BY <2>3 DEF vars
    <3>2. Types' = Types /\ Built' = Built /\ Contiguous' = Contiguous
      BY <3>1 DEF sender, receiver, wire, Types, Built, Sized, Contiguous, Places, EndOf
    <3>3. InSequence' = InSequence
      BY <3>1 DEF sender, wire, InSequence, Holding, Follows
    <3>4. Misled' = Misled
      BY <3>1 DEF wire, receiver, Misled, Misread, Readable, StartOf, EndOf
    <3>5. InPlace' = InPlace /\ Waiting' = Waiting
      BY <3>1 DEF receiver, wire, InPlace, Waiting, Remained, EndOf, Total
    <3>6. Receiving' = Receiving /\ Expecting' = Expecting
      BY <3>1, <3>4 DEF sender, receiver, wire, Receiving, Expecting, Follows
    <3>7. QED
      BY <2>1, <3>2, <3>3, <3>4, <3>5, <3>6 DEF IInv, Received
  <2>4. QED
    BY <2>1, <2>2, <2>3
<1>3. QED
  BY <1>1, <1>2, PTL DEF Spec

\* on_recv() posts what arrived whole, in the order in which it was sent and
\* once, and leaves no whole message in recv_buf_ when it returns.
THEOREM WhatIsSentIsReceived == Spec => []ReceivedAsSent
<1>1. IInv => ReceivedAsSent
  <2>1. SUFFICES ASSUME IInv PROVE ReceivedAsSent
    OBVIOUS
  <2>t. Types /\ Built /\ Contiguous /\ InPlace /\ Waiting
    BY <2>1 DEF IInv, Received
  <2>2. SUFFICES ASSUME rpc = "wait", ~failed, NEW k \in DOMAIN stream, EndOf(k) <= arrived,
                        \A i \in 1 .. k : Readable(i),
                        WireSize(stream[k].kind) > header_length \/ EndOf(k) < arrived
                 PROVE  k <= Len(posted)
    BY <2>1, <2>t DEF ReceivedAsSent, InPlace
  <2>n. PICK n \in Nat : n = Len(posted)
    BY <2>t DEF Types
  <2>p. PICK m \in Nat : m = Len(stream) /\ DOMAIN stream = 1 .. m
    BY <2>t, EndFacts
  <2>3. SUFFICES ASSUME k > n PROVE FALSE
    BY <2>n, <2>p
  <2>4. /\ n \in 0 .. m /\ n + 1 \in 1 .. m /\ n + 1 - 1 = n /\ k \in 0 .. m /\ n + 1 \in 1 .. k
        /\ k \in 1 .. m
    BY <2>2, <2>3, <2>n, <2>p, <2>t DEF InPlace
  <2>5. /\ iter = EndOf(n) /\ iter \in Nat /\ arrived \in Nat
        /\ EndOf(n + 1) = EndOf(n) + WireSize(stream[n + 1].kind)
    <3>1. iter = EndOf(n) /\ iter \in Nat /\ arrived \in Nat
      BY <2>n, <2>t DEF InPlace, Types
    <3>2. n + 1 \in DOMAIN stream
      BY <2>4, <2>p
    <3>3. EndOf(n + 1) = EndOf(n + 1 - 1) + WireSize(stream[n + 1].kind)
      BY <2>t, <3>2 DEF Contiguous
    <3>4. QED
      BY <2>4, <3>1, <3>3
  <2>6. /\ EndOf(n + 1) \in Nat /\ EndOf(k) \in Nat
        /\ WireSize(stream[n + 1].kind) \in Nat /\ WireSize(stream[n + 1].kind) >= 8
    BY <2>4, <2>p, <2>t, EndFacts DEF Places, header_length
  <2>7. n + 1 # k => EndOf(n + 1) + 8 <= EndOf(k)
    BY <2>4, <2>p, <2>t DEF Contiguous, Places, header_length
  <2>8. CASE Remained <= header_length
    <3>1. arrived - iter <= 8
      BY <2>8 DEF Remained, header_length
    <3>2. n + 1 = k
      BY <2>2, <2>5, <2>6, <2>7, <3>1
    <3>3. WireSize(stream[k].kind) <= 8 /\ ~(EndOf(k) < arrived)
      BY <2>2, <2>5, <2>6, <3>1, <3>2
    <3>4. QED
      BY <2>2, <2>6, <3>2, <3>3 DEF header_length
  <2>9. CASE Remained < get_length(stream[n + 1].length)
    <3>1. arrived - iter < WireSize(stream[n + 1].kind)
      BY <2>2, <2>4, <2>9 DEF Readable, Remained
    <3>2. EndOf(n + 1) <= arrived
      BY <2>2, <2>5, <2>6, <2>7
    <3>3. QED
      BY <2>5, <2>6, <3>1, <3>2
  <2>10. QED
    BY <2>2, <2>8, <2>9, <2>n, <2>t DEF Waiting
<1>2. QED
  BY <1>1, ProtocolInvariant, PTL

\* The receiver refuses a message only after two threads numbered at once, or
\* for a wrong length field.
THEOREM FailsOnlyAfterOverlap == Spec => []FailsOnlyOnOverlap
<1>1. IInv => FailsOnlyOnOverlap
  BY DEF IInv, Received, Receiving, FailsOnlyOnOverlap
<1>2. QED
  BY <1>1, ProtocolInvariant, PTL

-----------------------------------------------------------------------------
(* Short messages that say their length.                                   *)

\* Data that its caller left without a length is sent for classes with a
\* trailer only.
UnsetRewritten ==
    \A t \in Senders, k \in Kinds : send_data(t, k, Unset) => Rewritten(k)

\* Every packet says its length.
AllFull == /\ \A t \in Senders : pc[t] # "idle" => Full(out[t])
           /\ \A i \in DOMAIN stream : Full(stream[i])

\* A step that leaves no length unset.
LEMMA FullStep ==
    ASSUME IInv, AllFull, [Next]_vars, [UnsetRewritten]_vars
    PROVE  AllFull'
<1>t. Types /\ Built /\ Contiguous
  BY DEF IInv
<1>1. CASE UNCHANGED vars
  BY <1>1 DEF vars, sender, wire, AllFull, Full
<1>2. CASE Next /\ UnsetRewritten
  <2>1. ASSUME NEW t \in Senders, NEW k \in Kinds, NEW field \in Fields(k), send_final(t, k, field)
        PROVE  AllFull'
    <3>1. Full(Packet(k, field))
      <4>1. CASE Rewritten(k)
        BY <4>1 DEF Packet, Full
      <4>2. CASE ~Rewritten(k)
        <5>1. field = LengthField(k.size)
          BY <1>2, <2>1, <4>2 DEF UnsetRewritten, send_data, Fields
        <5>2. QED
          BY <4>2, <5>1 DEF Packet, Full, Rewritten
      <4>3. QED
        BY <4>1, <4>2
    <3>2. /\ out'[t] = Packet(k, field) /\ \A u \in Senders \ {t} : out'[u] = out[u] /\ pc'[u] = pc[u]
          /\ stream' = stream
      BY <1>t, <2>1 DEF send_final, Types, wire
    <3>3. QED
      BY <3>1, <3>2 DEF AllFull, Full
  <2>2. ASSUME NEW t \in Senders, Number(t) PROVE AllFull'
    <3>1. /\ out'[t].kind = out[t].kind /\ out'[t].length = out[t].length /\ pc[t] # "idle"
          /\ \A u \in Senders \ {t} : out'[u] = out[u] /\ pc'[u] = pc[u]
          /\ stream' = stream
      BY <1>t, <2>2 DEF Number, Types, Packets, wire
    <3>2. QED
      BY <3>1 DEF AllFull, Full
  <2>3. ASSUME NEW t \in Senders, AppendPacket(t) PROVE AllFull'
    <3>1. /\ pc'[t] = "idle" /\ pc[t] # "idle"
          /\ \A u \in Senders \ {t} : out'[u] = out[u] /\ pc'[u] = pc[u]
      BY <1>t, <2>3 DEF AppendPacket, Types
    <3>2. \A u \in Senders : pc'[u] # "idle" => Full(out[u])'
      BY <3>1 DEF AllFull, Full
    <3>3. \A i \in DOMAIN stream' : Full(stream[i])'
      <4>1. CASE up
        <5>1. PICK n \in Nat : n = Len(stream) /\ DOMAIN stream = 1 .. n
          BY <1>t, EndFacts
        <5>2. /\ stream'[n + 1] = out[t] /\ DOMAIN stream' = 1 .. n + 1
              /\ \A i \in 1 .. n : stream'[i] = stream[i]
          BY <2>3, <4>1, <5>1, AppendKeeps
        <5>3. QED
          BY <3>1, <5>1, <5>2 DEF AllFull, Full
      <4>2. CASE ~up
        BY <2>3, <4>2 DEF AppendPacket, wire, AllFull, Full
      <4>3. QED
        BY <4>1, <4>2
    <3>4. QED
      BY <3>2, <3>3 DEF AllFull
  <2>4. CASE UNCHANGED <<pc, out, stream>>
    BY <2>4 DEF AllFull, Full
  <2>5. QED
    BY <1>2, <2>1, <2>2, <2>3, <2>4, Steps
       DEF Lose, on_recv, RecvDone, PostMessage, RecvFails, sender, wire
<1>3. QED
  BY <1>1, <1>2

\* While messages have up to 255 bytes, trailers included, and no data that a
\* caller serialized goes without its length, no packet is misread, and the
\* receiver fails only on an overlap, without any other condition.
THEOREM ShortMessagesAreSafe ==
    ASSUME \A k \in Kinds : WireSize(k) < 256
    PROVE  Spec /\ [][UnsetRewritten]_vars => [](~Misled /\ (failed => overlapped))
<1>1. Init => AllFull
  BY DEF Init, AllFull
<1>2. IInv /\ AllFull /\ [Next]_vars /\ [UnsetRewritten]_vars => AllFull'
  BY FullStep
<1>3. IInv /\ AllFull => ~Misled /\ (failed => overlapped)
  <2>1. SUFFICES ASSUME IInv, AllFull PROVE ~Misled
    BY DEF IInv, Received, Receiving
  <2>2. \A i \in DOMAIN stream : stream[i] \in Packets /\ Sized(stream[i])
    BY <2>1, EndFacts DEF IInv, Built
  <2>3. \A i \in DOMAIN stream : Readable(i)
    BY <2>1, <2>2, OneByteIsReadable DEF Sized, AllFull
  <2>4. QED
    BY <2>3 DEF Misled, Misread
<1>4. QED
  BY <1>1, <1>2, <1>3, ProtocolInvariant, PTL DEF Spec

=============================================================================
