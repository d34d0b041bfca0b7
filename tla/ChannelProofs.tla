---------------------------- MODULE ChannelProofs ---------------------------
(***************************************************************************)
(* Proofs about a channel, for any threads, topics, keys and calls from    *)
(* callbacks, and for every bound on messages, subscriptions and depth.    *)
(***************************************************************************)
EXTENDS Channel, SequenceTheorems, TLAPS

\* Only a thread's innermost call is anywhere but in a callback.
Stacked ==
    \A t \in Threads : \A i \in DOMAIN frames[t] :
        i < Len(frames[t]) => frames[t][i].at = "callback"

\* The last two topics on which post() works are the message's own.
PostsOn(f) ==
    \/ f.topics = TopicsOf(f.msg)
    \/ Len(f.topics) = 4 /\ f.topics[3] = f.msg.topic /\ f.topics[4] = group_topic(f.msg.topic)

\* Where a call of each kind can be, and what it has there, when there have
\* been n messages.
FrameKnown(t, f, n) ==
    /\ f.at \in {"lock", "drain"} <=> f.op \in {"subscribe", "unsubscribe"}
    /\ f.at \in {"has_topic", "has_group", "enqueue"} => f.op = "publish"
    /\ f.at = "pop" => f.op = "execute"
    /\ f.op = "subscribe" => f.topics # <<>> /\ f.topics[1] \in Topics
    /\ f.op = "unsubscribe" => f.key \in Keys
    /\ f.op \in {"publish", "post"} =>
          f.mode = "immediate" /\ f.msg \in Messages /\ f.msg.by = t /\ PostsOn(f)
    /\ f.op = "execute" =>
          /\ f.mode = "delayed" /\ t = Owner
          /\ f.at # "pop" => f.msg \in Messages /\ f.topics = TopicsOf(f.msg)
    /\ f.msg.id <= n

FramesKnown ==
    \A t \in Threads : \A i \in DOMAIN frames[t] : FrameKnown(t, frames[t][i], published)

\* No message in the queue or delivered is newer than the last one.
MessagesKnown ==
    /\ \A i \in DOMAIN q : q[i].id <= published
    /\ \A k \in Keys : \A i \in DOMAIN delivered[k] : delivered[k][i].id <= published

\* The messages that are queued or that a call works on.
InHand == {q[i] : i \in DOMAIN q}
            \cup UNION {{frames[t][i].msg : i \in DOMAIN frames[t]} : t \in Threads}

\* What is owed is owed to a subscriber, for a message on its topic.
OwedKnown ==
    \A o \in owed :
        /\ o[1] \in DOMAIN keys /\ is_valid(keys[o[1]].topic) /\ o[2] <= published
        /\ \A m \in InHand : m.id = o[2] => match(keys[o[1]].topic, m.topic)

\* enqueue_checked() will find the delayed subscribers that are owed.
LooksFor(f) ==
    \A o \in owed : o[2] = f.msg.id /\ keys[o[1]].mode = "delayed" =>
        /\ f.at = "has_topic" => keys[o[1]].topic \in {f.topics[1], f.topics[2]}
        /\ f.at = "has_group" => keys[o[1]].topic = f.topics[2]

AllLookedFor == \A t \in Threads : \A i \in DOMAIN frames[t] : LooksFor(frames[t][i])

\* The invariant for what a subscriber gets at all.
GInv ==
    /\ TypeOK /\ Stacked /\ FramesKnown /\ MessagesKnown /\ KeysMatchEntries /\ NoLateCallback
    /\ OwedKnown /\ AllLookedFor /\ NothingMissed

-----------------------------------------------------------------------------
(* Order.                                                                  *)

\* x comes before y if one thread published both.
Before(x, y) == x.by = y.by => x.id < y.id

\* A message that is about to be enqueued, and one that execute() has popped.
Publishing(f) == f.at \in {"has_topic", "has_group", "enqueue"}
Executing(f)  == f.op = "execute" /\ f.at # "pop"

\* execute() is on the outside of its thread's calls, and nowhere else.
OneExecute ==
    \A t \in Threads : \A i \in DOMAIN frames[t] : frames[t][i].op = "execute" => t = Owner /\ i = 1

\* What is about to enter the queue is later than all that ever did, and what
\* has left it is earlier than what is there.
FrameInOrder(f) ==
    /\ Publishing(f) =>
          /\ \A j \in DOMAIN q : Before(q[j], f.msg)
          /\ \A k \in Keys : \A j \in DOMAIN delivered[k] : Before(delivered[k][j], f.msg)
    /\ Executing(f) => \A j \in DOMAIN q : Before(f.msg, q[j])

\* The queue keeps the order of each publisher.
QueueInOrder ==
    /\ \A i, j \in DOMAIN q : i < j => Before(q[i], q[j])
    /\ \A k \in Keys : \A i \in DOMAIN delivered[k], j \in DOMAIN q : Before(delivered[k][i], q[j])
    /\ \A t \in Threads : \A i \in DOMAIN frames[t] : FrameInOrder(frames[t][i])

\* What execute() works on was published before what is about to be queued.
ExecutedEarlier ==
    \A t, u \in Threads : \A i \in DOMAIN frames[t], j \in DOMAIN frames[u] :
        Executing(frames[t][i]) /\ Publishing(frames[u][j]) =>
            Before(frames[t][i].msg, frames[u][j].msg)

\* x was given to a subscriber before m, or m twice because of its group.
Given(x, m) == x.by = m.by => x.id < m.id \/ (x.id = m.id /\ x.topic.type = 0)

\* What execute() still has to visit has not been given the message yet.
VisitsInOrder(f) ==
    Executing(f) =>
        /\ f.at = "lock_shared" => \A k \in Keys : \A i \in DOMAIN delivered[k] :
                                       Before(delivered[k][i], f.msg)
        /\ Reads(f) => \A j \in DOMAIN f.todo : \A i \in DOMAIN delivered[f.todo[j].key] :
                           Given(delivered[f.todo[j].key][i], f.msg)
        /\ Reads(f) /\ f.msg.topic.type # 0 =>
              \A i, j \in DOMAIN f.todo : f.todo[i].key = f.todo[j].key => i = j

DeliveredInOrder ==
    /\ \A k \in Keys : \A i, j \in DOMAIN delivered[k] :
          i < j => Given(delivered[k][i], delivered[k][j])
    /\ \A t \in Threads : \A i \in DOMAIN frames[t] : VisitsInOrder(frames[t][i])

\* The invariant for the order, while no callback calls execute().
OInv == "execute" \notin Reentrant =>
            OneExecute /\ QueueInOrder /\ ExecutedEarlier /\ DeliveredInOrder

\* The inductive invariant.
IInv == GInv /\ OInv

-----------------------------------------------------------------------------
(* Steps on the stack of a thread's calls.                                 *)

\* The innermost call of t becomes g.
Turn(t, g) == frames' = [frames EXCEPT ![t] = [frames[t] EXCEPT ![Len(frames[t])] = g]]

\* Every call is one that was there, or it is g at place n of t.
OldOrNew(t, n, g) ==
    \A u \in Threads : \A i \in DOMAIN frames'[u] :
        \/ i \in DOMAIN frames[u] /\ frames'[u][i] = frames[u][i]
        \/ u = t /\ i = n /\ frames'[u][i] = g

\* Every call but the innermost of t is still there.
AllButTop(t) ==
    \A u \in Threads : \A i \in DOMAIN frames[u] :
        \/ i \in DOMAIN frames'[u] /\ frames'[u][i] = frames[u][i]
        \/ u = t /\ i = Len(frames[t])

\* A thread that makes a call keeps the ones it is in.
LEMMA Pushed ==
    ASSUME TypeOK, NEW t \in Threads, NEW f \in Frame, Call(t, f)
    PROVE  /\ frames' \in [Threads -> Seq(Frame)]
           /\ \A u \in Threads : Len(frames'[u]) = IF u = t THEN Len(frames[t]) + 1 ELSE Len(frames[u])
           /\ OldOrNew(t, Len(frames[t]) + 1, f)
           /\ \A u \in Threads : \A i \in DOMAIN frames[u] :
                 i \in DOMAIN frames'[u] /\ frames'[u][i] = frames[u][i]
           /\ Len(frames[t]) + 1 \in DOMAIN frames'[t] /\ frames'[t][Len(frames[t]) + 1] = f
<1>1. /\ frames \in [Threads -> Seq(Frame)] /\ frames[t] \in Seq(Frame)
      /\ frames' = [frames EXCEPT ![t] = Append(frames[t], f)]
  BY DEF TypeOK, Call
<1>2. /\ frames'[t] = Append(frames[t], f) /\ \A u \in Threads : u # t => frames'[u] = frames[u]
  BY <1>1
<1>3. /\ Len(frames[t]) \in Nat /\ DOMAIN frames[t] = 1 .. Len(frames[t])
      /\ Append(frames[t], f) \in Seq(Frame)
      /\ DOMAIN Append(frames[t], f) = 1 .. Len(frames[t]) + 1
      /\ Len(Append(frames[t], f)) = Len(frames[t]) + 1
      /\ Append(frames[t], f)[Len(frames[t]) + 1] = f
      /\ \A i \in 1 .. Len(frames[t]) : Append(frames[t], f)[i] = frames[t][i]
  BY <1>1
<1>4. frames' \in [Threads -> Seq(Frame)]
  BY <1>1, <1>3
<1>5. \A i \in 1 .. Len(frames[t]) + 1 : i \in 1 .. Len(frames[t]) \/ i = Len(frames[t]) + 1
  BY <1>3
<1>6. OldOrNew(t, Len(frames[t]) + 1, f)
  BY <1>2, <1>3, <1>5 DEF OldOrNew
<1>7. \A u \in Threads : \A i \in DOMAIN frames[u] :
          i \in DOMAIN frames'[u] /\ frames'[u][i] = frames[u][i]
  BY <1>2, <1>3
<1>8. Len(frames[t]) + 1 \in DOMAIN frames'[t] /\ frames'[t][Len(frames[t]) + 1] = f
  BY <1>2, <1>3
<1>9. QED
  BY <1>2, <1>3, <1>4, <1>6, <1>7, <1>8

\* A thread that goes on in its innermost call changes that call only.
LEMMA Turned ==
    ASSUME TypeOK, NEW t \in Threads, frames[t] # <<>>, NEW g \in Frame, Turn(t, g)
    PROVE  /\ frames' \in [Threads -> Seq(Frame)]
           /\ \A u \in Threads : Len(frames'[u]) = Len(frames[u])
           /\ OldOrNew(t, Len(frames[t]), g) /\ AllButTop(t)
           /\ Len(frames[t]) \in DOMAIN frames'[t] /\ frames'[t][Len(frames[t])] = g
<1> DEFINE n == Len(frames[t])
<1>1. /\ frames \in [Threads -> Seq(Frame)] /\ frames[t] \in Seq(Frame)
      /\ frames' = [frames EXCEPT ![t] = [frames[t] EXCEPT ![n] = g]]
  BY DEF TypeOK, Turn
<1>2. n \in Nat /\ n # 0 /\ DOMAIN frames[t] = 1 .. n
  BY <1>1, EmptySeq
<1>3. n \in 1 .. n
  BY <1>2
<1>4. /\ [frames[t] EXCEPT ![n] = g] \in Seq(Frame)
      /\ Len([frames[t] EXCEPT ![n] = g]) = n
  BY <1>1, <1>3, ExceptSeq
<1>5. /\ frames'[t] = [frames[t] EXCEPT ![n] = g]
      /\ \A u \in Threads : u # t => frames'[u] = frames[u]
  BY <1>1
<1>6. /\ DOMAIN frames'[t] = 1 .. n /\ frames'[t][n] = g
      /\ \A i \in 1 .. n : i # n => frames'[t][i] = frames[t][i]
  BY <1>2, <1>3, <1>5
<1>7. frames' \in [Threads -> Seq(Frame)]
  BY <1>1, <1>4
<1>8. QED
  BY <1>2, <1>3, <1>4, <1>5, <1>6, <1>7 DEF OldOrNew, AllButTop

\* A thread that returns leaves the calls around the one it was in.
LEMMA Returned ==
    ASSUME TypeOK, NEW t \in Threads, frames[t] # <<>>, Return(t)
    PROVE  /\ frames' \in [Threads -> Seq(Frame)]
           /\ \A u \in Threads : Len(frames'[u]) = IF u = t THEN Len(frames[t]) - 1 ELSE Len(frames[u])
           /\ \A u \in Threads : \A i \in DOMAIN frames'[u] :
                 i \in DOMAIN frames[u] /\ frames'[u][i] = frames[u][i]
           /\ AllButTop(t)
<1> DEFINE n == Len(frames[t])  s == SubSeq(frames[t], 1, n - 1)
<1>1. /\ frames \in [Threads -> Seq(Frame)] /\ frames[t] \in Seq(Frame)
      /\ frames' = [frames EXCEPT ![t] = s]
  BY DEF TypeOK, Return
<1>2. n \in Nat /\ n # 0 /\ DOMAIN frames[t] = 1 .. n
  BY <1>1, EmptySeq
<1>3. /\ s \in Seq(Frame) /\ Len(s) = n - 1 /\ DOMAIN s = 1 .. n - 1
      /\ \A i \in 1 .. n - 1 : s[i] = frames[t][i]
  BY <1>1, <1>2, SubSeqProperties
<1> HIDE DEF s
<1>4. frames'[t] = s /\ \A u \in Threads : u # t => frames'[u] = frames[u]
  BY <1>1
<1>5. frames' \in [Threads -> Seq(Frame)]
  BY <1>1, <1>3
<1>6. \A i \in 1 .. n : i \in 1 .. n - 1 \/ i = n
  BY <1>2
<1>7. \A i \in 1 .. n - 1 : i \in 1 .. n
  BY <1>2
<1>8. AllButTop(t)
  BY <1>2, <1>3, <1>4, <1>6 DEF AllButTop
<1>9. \A u \in Threads : \A i \in DOMAIN frames'[u] :
          i \in DOMAIN frames[u] /\ frames'[u][i] = frames[u][i]
  BY <1>2, <1>3, <1>4, <1>7
<1>10. QED
  BY <1>3, <1>4, <1>5, <1>8, <1>9

-----------------------------------------------------------------------------
(* Calls fit their places.                                                 *)

\* Call g is well formed at its place in t after the step.
Fits(t, g) == g \in Frame /\ FrameKnown(t, g, published')

\* t calls f, from outside or from a callback.
Calling(t, f) ==
    /\ Call(t, f) /\ Fits(t, f) /\ f.todo = <<>>
    /\ frames[t] = <<>> \/ (At(t, "callback") /\ f.op \in Reentrant /\ Len(frames[t]) < MaxDepth)
    /\ f.at \in {"lock", "has_topic", "lock_shared", "pop"}

\* Topics and the topics of their groups are topics.
LEMMA TopicsAreTopics ==
    ASSUME NEW tp \in Topics
    PROVE  /\ tp \in Topic /\ group_topic(tp) \in Topic
           /\ group_topic(tp).group = tp.group /\ group_topic(tp).type = 0
<1>1. tp \in Topic
  BY ChannelAssumption DEF Topic
<1>2. QED
  BY <1>1 DEF Topic, group_topic

\* The empty call.
LEMMA NewFrameFits ==
    /\ NewFrame \in Frame /\ NoMessage.id = 0 /\ NoMessage \in Messages \cup {NoMessage}
    /\ NewFrame.op = "execute" /\ NewFrame.at = "pop" /\ NewFrame.mode = "delayed"
    /\ NewFrame.msg = NoMessage /\ NewFrame.key = 0 /\ NewFrame.topics = <<>> /\ NewFrame.todo = <<>>
<1>1. <<>> \in Seq(Topic) /\ <<>> \in Seq([key : Keys, topic : Topic])
  BY EmptySeq
<1>2. QED
  BY <1>1 DEF NewFrame, Frame, Calls, Modes, NoMessage

\* subscribe() starts well.
LEMMA CallSubscribeFits ==
    ASSUME TypeOK, NEW t \in Threads, NEW link \in Links, CallSubscribe(t, link)
    PROVE  \E f : /\ Calling(t, f) /\ f.op = "subscribe" /\ f.msg.id = 0 /\ f.at = "lock"
<1> DEFINE f == [NewFrame EXCEPT !.op = "subscribe", !.at = "lock", !.mode = link.mode,
                                  !.topics = <<link.topic>>]
<1>1. link.mode \in Modes /\ link.topic \in Topics /\ link.topic \in Topic
  BY TopicsAreTopics DEF Links
<1>2. <<link.topic>> \in Seq(Topic) /\ <<link.topic>> # <<>> /\ <<link.topic>>[1] = link.topic
  BY <1>1
<1>3. /\ f.op = "subscribe" /\ f.at = "lock" /\ f.mode = link.mode /\ f.topics = <<link.topic>>
      /\ f.msg = NoMessage /\ f.todo = <<>> /\ f.key = 0 /\ f \in Frame
  BY <1>1, <1>2, NewFrameFits DEF Frame, Calls, NewFrame
<1>4. /\ Call(t, f) /\ MayCall(t, "subscribe") /\ published' = published /\ published >= 0
  BY DEF CallSubscribe, TypeOK
<1> HIDE DEF f
<1>5. FrameKnown(t, f, published')
  BY <1>1, <1>2, <1>3, <1>4, NewFrameFits DEF FrameKnown
<1>6. QED
  BY <1>3, <1>4, <1>5, NewFrameFits DEF Calling, Fits, MayCall

\* unsubscribe() starts well.
LEMMA CallUnsubscribeFits ==
    ASSUME TypeOK, NEW t \in Threads, NEW k \in Keys, CallUnsubscribe(t, k)
    PROVE  \E f : Calling(t, f) /\ f.op = "unsubscribe" /\ f.msg.id = 0 /\ f.at = "lock"
<1> DEFINE f == [NewFrame EXCEPT !.op = "unsubscribe", !.at = "lock", !.key = k]
<1>1. /\ f.op = "unsubscribe" /\ f.at = "lock" /\ f.key = k
      /\ f.msg = NoMessage /\ f.todo = <<>> /\ f \in Frame
  BY NewFrameFits DEF Frame, Calls, NewFrame
<1>2. /\ Call(t, f) /\ MayCall(t, "unsubscribe") /\ published' = published /\ published >= 0
  BY DEF CallUnsubscribe, TypeOK, bounds
<1> HIDE DEF f
<1>3. FrameKnown(t, f, published')
  BY <1>1, <1>2, NewFrameFits DEF FrameKnown
<1>4. QED
  BY <1>1, <1>2, <1>3, NewFrameFits DEF Calling, Fits, MayCall

\* execute() starts well.
LEMMA ExecuteFits ==
    ASSUME TypeOK, NEW t \in Threads, execute(t)
    PROVE  Calling(t, NewFrame) /\ NewFrame.op = "execute" /\ NewFrame.msg.id = 0
<1>1. Call(t, NewFrame) /\ MayCall(t, "execute") /\ t = Owner /\ published' = published /\ published >= 0
  BY DEF execute, TypeOK, bounds
<1>2. FrameKnown(t, NewFrame, published')
  BY <1>1, NewFrameFits DEF FrameKnown
<1>3. QED
  BY <1>1, <1>2, NewFrameFits DEF Calling, Fits, MayCall

\* A new message.
LEMMA MessageFits ==
    ASSUME TypeOK, NEW t \in Threads, NEW tp \in Topics, published < MaxMessages
    PROVE  /\ Message(t, tp) \in Messages /\ Message(t, tp).by = t /\ Message(t, tp).topic = tp
           /\ Message(t, tp).id = published + 1 /\ published \in Nat
           /\ published + 1 \in 0 .. MaxMessages
           /\ TopicsOf(Message(t, tp)) = <<tp, group_topic(tp)>>
<1>1. published + 1 \in 1 .. MaxMessages /\ published \in Nat
  BY ChannelAssumption DEF TypeOK
<1>2. QED
  BY <1>1 DEF Message, Messages, TopicsOf

\* publish() starts well, with the message's own topics last.
LEMMA PublishFits ==
    ASSUME TypeOK, NEW t \in Threads, NEW tp \in Topics, NEW more, publish(t, tp, more),
           more = <<>> \/ \E other \in Topics : more = <<other, group_topic(other)>>
    PROVE  \E f : /\ Calling(t, f) /\ f.op = "publish" /\ f.at = "has_topic"
                  /\ f.msg = Message(t, tp) /\ f.topics = more \o TopicsOf(f.msg)
<1> DEFINE m == Message(t, tp)
           tps == more \o TopicsOf(m)
           f == [NewFrame EXCEPT !.op = "publish", !.at = "has_topic", !.mode = "immediate",
                                 !.msg = m, !.topics = tps]
<1>1. /\ Call(t, f) /\ MayCall(t, "publish") /\ published < MaxMessages
      /\ published' = published + 1
  BY DEF publish
<1>2. /\ m \in Messages /\ m.by = t /\ m.topic = tp /\ m.id = published + 1 /\ published \in Nat
      /\ TopicsOf(m) = <<tp, group_topic(tp)>>
  BY <1>1, MessageFits
<1>3. tp \in Topic /\ group_topic(tp) \in Topic
  BY TopicsAreTopics
<1> HIDE DEF m
<1>4. /\ tps \in Seq(Topic)
      /\ \/ tps = TopicsOf(m)
         \/ Len(tps) = 4 /\ tps[3] = tp /\ tps[4] = group_topic(tp)
  <2>1. CASE more = <<>>
    <3>1. TopicsOf(m) \in Seq(Topic)
      BY <1>2, <1>3
    <3>2. tps = TopicsOf(m)
      BY <2>1, <3>1, ConcatEmptySeq
    <3>3. QED
      BY <3>1, <3>2
  <2>2. CASE \E other \in Topics : more = <<other, group_topic(other)>>
    <3>1. PICK other \in Topics : more = <<other, group_topic(other)>>
      BY <2>2
    <3>2. other \in Topic /\ group_topic(other) \in Topic
      BY TopicsAreTopics
    <3>3. /\ tps = <<other, group_topic(other)>> \o <<tp, group_topic(tp)>>
          /\ <<other, group_topic(other)>> \in Seq(Topic) /\ <<tp, group_topic(tp)>> \in Seq(Topic)
      BY <1>2, <1>3, <3>1, <3>2
    <3>4. QED
      BY <3>3
  <2>3. QED
    BY <2>1, <2>2
<1> HIDE DEF tps
<1>5. /\ f.op = "publish" /\ f.at = "has_topic" /\ f.mode = "immediate" /\ f.topics = tps
      /\ f.msg = m /\ f.todo = <<>> /\ f \in Frame
  BY <1>2, <1>4, NewFrameFits DEF Frame, Calls, Modes, NewFrame
<1> HIDE DEF f
<1>6. FrameKnown(t, f, published')
  BY <1>1, <1>2, <1>4, <1>5 DEF FrameKnown, PostsOn
<1>7. QED
  BY <1>1, <1>5, <1>6 DEF Calling, Fits, MayCall, m, tps

\* post() starts well.
LEMMA PostFits ==
    ASSUME TypeOK, NEW t \in Threads, NEW tp \in Topics, post(t, tp)
    PROVE  \E f : Calling(t, f) /\ f.op = "post" /\ f.at = "lock_shared" /\ f.msg = Message(t, tp)
<1> DEFINE m == Message(t, tp)
           f == [NewFrame EXCEPT !.op = "post", !.at = "lock_shared", !.mode = "immediate",
                                 !.msg = m, !.topics = TopicsOf(m)]
<1>1. /\ Call(t, f) /\ MayCall(t, "post") /\ published < MaxMessages
      /\ published' = published + 1
  BY DEF post
<1>2. /\ m \in Messages /\ m.by = t /\ m.topic = tp /\ m.id = published + 1 /\ published \in Nat
      /\ TopicsOf(m) = <<tp, group_topic(tp)>>
  BY <1>1, MessageFits
<1>3. TopicsOf(m) \in Seq(Topic)
  BY <1>2, TopicsAreTopics
<1> HIDE DEF m
<1>4. /\ f.op = "post" /\ f.at = "lock_shared" /\ f.mode = "immediate" /\ f.topics = TopicsOf(m)
      /\ f.msg = m /\ f.todo = <<>> /\ f \in Frame
  BY <1>2, <1>3, NewFrameFits DEF Frame, Calls, Modes, NewFrame
<1> HIDE DEF f
<1>5. FrameKnown(t, f, published')
  BY <1>1, <1>2, <1>4 DEF FrameKnown, PostsOn
<1>6. QED
  BY <1>1, <1>4, <1>5 DEF Calling, Fits, MayCall, m

\* The innermost call is a call, and known.
LEMMA TopFits ==
    ASSUME TypeOK, FramesKnown, NEW t \in Threads, frames[t] # <<>>
    PROVE  /\ Top(t) \in Frame /\ FrameKnown(t, Top(t), published)
           /\ Len(frames[t]) \in DOMAIN frames[t] /\ Top(t) = frames[t][Len(frames[t])]
<1>1. frames[t] \in Seq(Frame)
  BY DEF TypeOK
<1>2. Len(frames[t]) \in Nat /\ Len(frames[t]) # 0 /\ DOMAIN frames[t] = 1 .. Len(frames[t])
  BY <1>1, EmptySeq
<1>3. Len(frames[t]) \in DOMAIN frames[t]
  BY <1>2
<1>4. frames[t][Len(frames[t])] \in Frame
  BY <1>1, <1>2, <1>3, ElementOfSeq
<1>5. QED
  BY <1>3, <1>4 DEF Top, FramesKnown

\* A thread that moves on in its innermost call changes its place only.
LEMMA GotoTurns ==
    ASSUME TypeOK, FramesKnown, NEW t \in Threads, frames[t] # <<>>,
           NEW l \in {"drain", "has_group", "enqueue", "lock_shared", "pop"}, Goto(t, l)
    PROVE  \E g \in Frame : /\ Turn(t, g) /\ g.at = l
                            /\ g.op = Top(t).op /\ g.mode = Top(t).mode /\ g.msg = Top(t).msg
                            /\ g.topics = Top(t).topics /\ g.key = Top(t).key
                            /\ g.todo = Top(t).todo
<1> DEFINE g == [Top(t) EXCEPT !.at = l]
<1>1. Top(t) \in Frame /\ Top(t) = frames[t][Len(frames[t])]
  BY TopFits
<1>2. Turn(t, g)
  BY <1>1 DEF Goto, Turn
<1>3. /\ g \in Frame /\ g.at = l
      /\ g.op = Top(t).op /\ g.mode = Top(t).mode /\ g.msg = Top(t).msg
      /\ g.topics = Top(t).topics /\ g.key = Top(t).key /\ g.todo = Top(t).todo
  BY <1>1 DEF Frame
<1>4. QED
  BY <1>2, <1>3

\* Top becomes g, which fits, and is like Top in what does not change.
Turning(t, g) ==
    /\ frames[t] # <<>> /\ Turn(t, g) /\ Fits(t, g)
    /\ g.op = Top(t).op /\ g.mode = Top(t).mode

\* A writer closes the mutex.
LEMMA LockUniqueFits ==
    ASSUME TypeOK, FramesKnown, NEW t \in Threads, LockUnique(t)
    PROVE  \E g : Turning(t, g) /\ g.at = "drain" /\ g.msg = Top(t).msg
<1>1. At(t, "lock") /\ Goto(t, "drain") /\ published' = published
  BY DEF LockUnique, bounds
<1>2. frames[t] # <<>> /\ Top(t).at = "lock"
  BY <1>1 DEF At
<1>3. FrameKnown(t, Top(t), published)
  BY <1>2, TopFits
<1>4. PICK g \in Frame : /\ Turn(t, g) /\ g.at = "drain"
                         /\ g.op = Top(t).op /\ g.mode = Top(t).mode /\ g.msg = Top(t).msg
                         /\ g.topics = Top(t).topics /\ g.key = Top(t).key
                         /\ g.todo = Top(t).todo
  BY <1>1, <1>2, GotoTurns
<1>5. FrameKnown(t, g, published')
  BY <1>1, <1>2, <1>3, <1>4 DEF FrameKnown, PostsOn
<1>6. QED
  BY <1>2, <1>4, <1>5 DEF Turning, Fits

\* enqueue_checked() goes on with its message when it has looked at the topic.
LEMMA HasTopicFits ==
    ASSUME TypeOK, FramesKnown, NEW t \in Threads, HasTopic(t)
    PROVE  \E g : /\ Turning(t, g) /\ g.msg = Top(t).msg /\ g.topics = Top(t).topics
                  /\ g.op = "publish" /\ Top(t).at = "has_topic"
                  /\ g.at = IF has_delayed_sub(Top(t).topics[1]) THEN "enqueue" ELSE "has_group"
<1> DEFINE l == IF has_delayed_sub(Top(t).topics[1]) THEN "enqueue" ELSE "has_group"
<1>1. /\ At(t, "has_topic") /\ Goto(t, l) /\ published' = published
      /\ l \in {"enqueue", "has_group"}
  BY DEF HasTopic, bounds
<1>2. frames[t] # <<>> /\ Top(t).at = "has_topic"
  BY <1>1 DEF At
<1> HIDE DEF l
<1>3. FrameKnown(t, Top(t), published)
  BY <1>2, TopFits
<1>4. PICK g \in Frame : /\ Turn(t, g) /\ g.at = l
                         /\ g.op = Top(t).op /\ g.mode = Top(t).mode /\ g.msg = Top(t).msg
                         /\ g.topics = Top(t).topics /\ g.key = Top(t).key
                         /\ g.todo = Top(t).todo
  BY <1>1, <1>2, GotoTurns
<1>5. FrameKnown(t, g, published') /\ g.op = "publish"
  BY <1>1, <1>2, <1>3, <1>4 DEF FrameKnown, PostsOn
<1>6. QED
  BY <1>2, <1>4, <1>5 DEF Turning, Fits, l

\* enqueue_checked() goes on with its message when it has looked at the group.
LEMMA HasGroupFits ==
    ASSUME TypeOK, FramesKnown, NEW t \in Threads, HasGroup(t)
    PROVE  \E g : /\ Turning(t, g) /\ g.msg = Top(t).msg /\ g.topics = Top(t).topics
                  /\ g.op = "publish" /\ Top(t).at = "has_group"
                  /\ g.at = IF has_delayed_sub(Top(t).topics[2]) THEN "enqueue" ELSE "lock_shared"
<1> DEFINE l == IF has_delayed_sub(Top(t).topics[2]) THEN "enqueue" ELSE "lock_shared"
<1>1. /\ At(t, "has_group") /\ Goto(t, l) /\ published' = published
      /\ l \in {"enqueue", "lock_shared"}
  BY DEF HasGroup, bounds
<1>2. frames[t] # <<>> /\ Top(t).at = "has_group"
  BY <1>1 DEF At
<1> HIDE DEF l
<1>3. FrameKnown(t, Top(t), published)
  BY <1>2, TopFits
<1>4. PICK g \in Frame : /\ Turn(t, g) /\ g.at = l
                         /\ g.op = Top(t).op /\ g.mode = Top(t).mode /\ g.msg = Top(t).msg
                         /\ g.topics = Top(t).topics /\ g.key = Top(t).key
                         /\ g.todo = Top(t).todo
  BY <1>1, <1>2, GotoTurns
<1>5. FrameKnown(t, g, published') /\ g.op = "publish"
  BY <1>1, <1>2, <1>3, <1>4 DEF FrameKnown, PostsOn
<1>6. QED
  BY <1>2, <1>4, <1>5 DEF Turning, Fits, l

\* enqueue_checked() goes on to post() when it has pushed its message.
LEMMA EnqueueFits ==
    ASSUME TypeOK, FramesKnown, NEW t \in Threads, Enqueue(t)
    PROVE  /\ Top(t).msg \in Messages /\ Top(t).at = "enqueue"
           /\ \E g : /\ Turning(t, g) /\ g.msg = Top(t).msg
                     /\ g.op = "publish" /\ g.at = "lock_shared"
<1>1. At(t, "enqueue") /\ Goto(t, "lock_shared") /\ published' = published
  BY DEF Enqueue, bounds
<1>2. frames[t] # <<>> /\ Top(t).at = "enqueue"
  BY <1>1 DEF At
<1>3. FrameKnown(t, Top(t), published)
  BY <1>2, TopFits
<1>4. PICK g \in Frame : /\ Turn(t, g) /\ g.at = "lock_shared"
                         /\ g.op = Top(t).op /\ g.mode = Top(t).mode /\ g.msg = Top(t).msg
                         /\ g.topics = Top(t).topics /\ g.key = Top(t).key
                         /\ g.todo = Top(t).todo
  BY <1>1, <1>2, GotoTurns
<1>5. FrameKnown(t, g, published') /\ g.op = "publish" /\ Top(t).msg \in Messages
  BY <1>1, <1>2, <1>3, <1>4 DEF FrameKnown, PostsOn
<1>6. QED
  BY <1>2, <1>4, <1>5 DEF Turning, Fits

\* execute() goes on to post() with the message that it popped.
LEMMA PopFits ==
    ASSUME TypeOK, FramesKnown, MessagesKnown, NEW t \in Threads, Pop(t)
    PROVE  /\ Top(t).at = "pop" /\ Top(t).op = "execute" /\ Head(q) \in Messages
           /\ \E g : Turning(t, g) /\ g.msg = Head(q) /\ g.at = "lock_shared"
<1> DEFINE g == [Top(t) EXCEPT !.at = "lock_shared", !.msg = Head(q), !.topics = TopicsOf(Head(q))]
<1>1. At(t, "pop") /\ q # <<>> /\ published' = published
  BY DEF Pop, bounds
<1>2. frames[t] # <<>> /\ Top(t).at = "pop"
  BY <1>1 DEF At
<1>3. FrameKnown(t, Top(t), published) /\ Top(t) \in Frame
      /\ Top(t) = frames[t][Len(frames[t])] /\ Len(frames[t]) \in DOMAIN frames[t]
  BY <1>2, TopFits
<1>4. Head(q) \in Messages /\ Head(q).id <= published /\ Head(q).topic \in Topics
  <2>1. q \in Seq(Messages)
    BY DEF TypeOK
  <2>2. Len(q) \in Nat /\ Len(q) # 0 /\ DOMAIN q = 1 .. Len(q)
    BY <1>1, <2>1, EmptySeq
  <2>3. 1 \in DOMAIN q /\ Head(q) = q[1] /\ q[1] \in Messages
    BY <2>1, <2>2, ElementOfSeq
  <2>4. QED
    BY <2>3 DEF MessagesKnown, Messages
<1>5. TopicsOf(Head(q)) \in Seq(Topic)
  BY <1>4, TopicsAreTopics DEF TopicsOf
<1>6. Turn(t, g)
  BY <1>3 DEF Pop, Turn, TypeOK
<1>7. /\ g \in Frame /\ g.at = "lock_shared" /\ g.msg = Head(q) /\ g.topics = TopicsOf(Head(q))
      /\ g.op = Top(t).op /\ g.mode = Top(t).mode /\ g.key = Top(t).key
  BY <1>3, <1>4, <1>5 DEF Frame
<1> HIDE DEF g
<1>8. FrameKnown(t, g, published') /\ Top(t).op = "execute"
  BY <1>1, <1>2, <1>3, <1>4, <1>7 DEF FrameKnown, PostsOn
<1>9. QED
  BY <1>2, <1>4, <1>6, <1>7, <1>8 DEF Turning, Fits

-----------------------------------------------------------------------------
(* What post() visits.                                                     *)

Visit == [key : Keys, topic : Topic]

\* post_on_topic() visits the subscriptions on its topic, each once.
LEMMA SubsOnAre ==
    ASSUME TypeOK, KeysMatchEntries, NEW mode \in Modes, NEW tp \in Topic
    PROVE  /\ SubsOn(mode, tp) \in Seq(Visit)
           /\ \A s \in Range(SubsOn(mode, tp)) :
                 s.topic = tp /\ s.key \in DOMAIN keys /\ keys[s.key] = [topic |-> tp, mode |-> mode]
           /\ \A k \in DOMAIN keys : is_valid(tp) /\ keys[k] = [topic |-> tp, mode |-> mode] =>
                 \E s \in Range(SubsOn(mode, tp)) : s.key = k
           /\ \A i, j \in DOMAIN SubsOn(mode, tp) :
                 SubsOn(mode, tp)[i].key = SubsOn(mode, tp)[j].key => i = j
<1>1. CASE is_valid(tp) /\ tp \in DOMAIN entries[mode]
  <2> DEFINE e == entries[mode][tp]  v == SubsOn(mode, tp)
  <2>1. e \in Seq(Keys) /\ IsInjective(e)
        /\ Range(e) = {k \in DOMAIN keys : keys[k] = [topic |-> tp, mode |-> mode]}
    BY <1>1 DEF TypeOK, KeysMatchEntries
  <2>2. v = [i \in DOMAIN e |-> [key |-> e[i], topic |-> tp]]
    BY <1>1 DEF SubsOn
  <2> HIDE DEF e, v
  <2>3. DOMAIN e = 1 .. Len(e) /\ Len(e) \in Nat /\ \A i \in 1 .. Len(e) : e[i] \in Keys
    BY <2>1, ElementOfSeq
  <2>4. v \in Seq(Visit) /\ DOMAIN v = DOMAIN e
    BY <2>2, <2>3 DEF Visit
  <2>5. \A i \in DOMAIN e : v[i].key = e[i] /\ v[i].topic = tp
    BY <2>2
  <2>6. \A x \in Range(v) : \E i \in DOMAIN e : x = v[i]
    BY <2>4 DEF Range
  <2>7. \A x \in Range(v) : x.topic = tp /\ x.key \in Range(e)
    BY <2>5, <2>6 DEF Range
  <2>8. \A k \in Range(e) : \E x \in Range(v) : x.key = k
    BY <2>4, <2>5 DEF Range
  <2>9. \A i, j \in DOMAIN v : v[i].key = v[j].key => i = j
    BY <2>1, <2>4, <2>5 DEF IsInjective
  <2>10. QED
    BY <2>1, <2>4, <2>7, <2>8, <2>9 DEF v
<1>2. CASE ~(is_valid(tp) /\ tp \in DOMAIN entries[mode])
  <2>1. SubsOn(mode, tp) = <<>>
    BY <1>2 DEF SubsOn
  <2>2. <<>> \in Seq(Visit) /\ Range(<<>>) = {}
    BY EmptySeq DEF Range
  <2>3. \A k \in DOMAIN keys : keys[k] = [topic |-> tp, mode |-> mode] => tp \in DOMAIN entries[mode]
    BY DEF KeysMatchEntries
  <2>4. QED
    BY <1>2, <2>1, <2>2, <2>3
<1>3. QED
  BY <1>1, <1>2

\* The visits in s are to subscriptions of the given mode; k is among them.
Good(s, mode) ==
    /\ s \in Seq(Visit)
    /\ \A x \in Range(s) : x.key \in DOMAIN keys /\ keys[x.key] = [topic |-> x.topic, mode |-> mode]
Covers(s, k) == \E x \in Range(s) : x.key = k

\* One list of visits after another.
LEMMA GoodConcat ==
    ASSUME NEW mode \in Modes, NEW a \in Seq(Visit), NEW b \in Seq(Visit),
           Good(a, mode), Good(b, mode)
    PROVE  Good(a \o b, mode) /\ Range(a \o b) = Range(a) \cup Range(b)
<1>1. a \in Seq(Visit) /\ b \in Seq(Visit)
  BY DEF Good
<1>2. a \o b \in Seq(Visit) /\ Range(a \o b) = Range(a) \cup Range(b)
  BY <1>1, ConcatProperties, RangeConcatenation
<1>3. QED
  BY <1>2 DEF Good

\* post() visits the subscriptions on its topics, and nothing else; on two
\* different topics it visits each once.
LEMMA VisitsAre ==
    ASSUME TypeOK, KeysMatchEntries, NEW mode \in Modes, NEW tps \in Seq(Topic), Len(tps) \in {2, 4}
    PROVE  /\ Good(Visits(mode, tps), mode)
           /\ \A k \in DOMAIN keys, j \in 1 .. Len(tps) :
                 is_valid(tps[j]) /\ keys[k] = [topic |-> tps[j], mode |-> mode] =>
                     Covers(Visits(mode, tps), k)
           /\ Len(tps) = 2 /\ tps[1] # tps[2] =>
                 \A i, j \in DOMAIN Visits(mode, tps) :
                     Visits(mode, tps)[i].key = Visits(mode, tps)[j].key => i = j
<1> DEFINE S(n) == SubsOn(mode, tps[n])  v == Visits(mode, tps)
<1>1. \A n \in 1 .. Len(tps) :
         /\ Good(S(n), mode) /\ S(n) \in Seq(Visit)
         /\ \A x \in Range(S(n)) : keys[x.key].topic = tps[n]
         /\ \A k \in DOMAIN keys : is_valid(tps[n]) /\ keys[k] = [topic |-> tps[n], mode |-> mode] =>
               Covers(S(n), k)
         /\ \A i, j \in DOMAIN S(n) : S(n)[i].key = S(n)[j].key => i = j
  <2>1. TAKE n \in 1 .. Len(tps)
  <2>2. tps[n] \in Topic
    BY <2>1, ElementOfSeq
  <2>3. /\ S(n) \in Seq(Visit)
        /\ \A x \in Range(S(n)) :
              x.topic = tps[n] /\ x.key \in DOMAIN keys /\ keys[x.key] = [topic |-> tps[n], mode |-> mode]
        /\ \A k \in DOMAIN keys : is_valid(tps[n]) /\ keys[k] = [topic |-> tps[n], mode |-> mode] =>
              \E x \in Range(S(n)) : x.key = k
        /\ \A i, j \in DOMAIN S(n) : S(n)[i].key = S(n)[j].key => i = j
    BY <2>2, SubsOnAre
  <2> HIDE DEF S
  <2>4. QED
    BY <2>3 DEF Good, Covers
<1>2. CASE Len(tps) = 2
  <2> DEFINE a == S(1)  b == S(2)
  <2>1. v = a \o b
    BY <1>2 DEF Visits
  <2>2. 1 \in 1 .. Len(tps) /\ 2 \in 1 .. Len(tps) /\ \A n \in 1 .. Len(tps) : n = 1 \/ n = 2
    BY <1>2
  <2>3. /\ Good(a, mode) /\ a \in Seq(Visit) /\ \A x \in Range(a) : keys[x.key].topic = tps[1]
        /\ \A k \in DOMAIN keys : is_valid(tps[1]) /\ keys[k] = [topic |-> tps[1], mode |-> mode] =>
              Covers(a, k)
        /\ \A i, j \in DOMAIN a : a[i].key = a[j].key => i = j
    BY <1>1, <2>2
  <2>4. /\ Good(b, mode) /\ b \in Seq(Visit) /\ \A x \in Range(b) : keys[x.key].topic = tps[2]
        /\ \A k \in DOMAIN keys : is_valid(tps[2]) /\ keys[k] = [topic |-> tps[2], mode |-> mode] =>
              Covers(b, k)
        /\ \A i, j \in DOMAIN b : b[i].key = b[j].key => i = j
    BY <1>1, <2>2
  <2> HIDE DEF a, b, v, S
  <2>5. Good(v, mode) /\ Range(v) = Range(a) \cup Range(b)
    BY <2>1, <2>3, <2>4, GoodConcat
  <2>6. \A k \in DOMAIN keys, j \in 1 .. Len(tps) :
            is_valid(tps[j]) /\ keys[k] = [topic |-> tps[j], mode |-> mode] => Covers(v, k)
    BY <2>2, <2>3, <2>4, <2>5 DEF Covers
  <2>7. ASSUME tps[1] # tps[2], NEW i \in DOMAIN v, NEW j \in DOMAIN v, v[i].key = v[j].key
        PROVE  i = j
    <3>1. /\ DOMAIN v = 1 .. Len(a) + Len(b) /\ Len(a) \in Nat /\ Len(b) \in Nat
          /\ DOMAIN a = 1 .. Len(a) /\ DOMAIN b = 1 .. Len(b)
          /\ \A n \in DOMAIN v : /\ n <= Len(a) => v[n] = a[n]
                                 /\ n > Len(a) => v[n] = b[n - Len(a)]
      BY <2>1, <2>3, <2>4
    <3>2. \A n \in DOMAIN v : /\ n <= Len(a) => n \in DOMAIN a /\ v[n] = a[n]
                              /\ n > Len(a) => n - Len(a) \in DOMAIN b /\ v[n] = b[n - Len(a)]
      BY <3>1
    <3>3. \A n \in DOMAIN v : /\ n <= Len(a) => keys[v[n].key].topic = tps[1]
                              /\ n > Len(a) => keys[v[n].key].topic = tps[2]
      <4>1. \A n \in DOMAIN a : keys[a[n].key].topic = tps[1]
        BY <2>3 DEF Range
      <4>2. \A n \in DOMAIN b : keys[b[n].key].topic = tps[2]
        BY <2>4 DEF Range
      <4>3. QED
        BY <3>2, <4>1, <4>2
    <3>4. CASE i <= Len(a) /\ j <= Len(a)
      BY <2>3, <2>7, <3>2, <3>4
    <3>5. CASE i > Len(a) /\ j > Len(a)
      <4>1. i - Len(a) = j - Len(a)
        BY <2>4, <2>7, <3>2, <3>5
      <4>2. QED
        BY <3>1, <4>1
    <3>6. CASE (i <= Len(a) /\ j > Len(a)) \/ (i > Len(a) /\ j <= Len(a))
      BY <2>7, <3>3, <3>6
    <3>7. QED
      BY <3>1, <3>4, <3>5, <3>6
  <2>8. QED
    BY <2>5, <2>6, <2>7 DEF v
<1>3. CASE Len(tps) = 4
  <2> DEFINE a == S(1)  b == S(2)  c == S(3)  d == S(4)  ab == a \o b  abc == ab \o c
  <2>1. v = abc \o d
    BY <1>3 DEF Visits
  <2>2. /\ 1 \in 1 .. Len(tps) /\ 2 \in 1 .. Len(tps) /\ 3 \in 1 .. Len(tps) /\ 4 \in 1 .. Len(tps)
        /\ \A n \in 1 .. Len(tps) : n = 1 \/ n = 2 \/ n = 3 \/ n = 4
    BY <1>3
  <2>3. /\ Good(a, mode) /\ Good(b, mode) /\ Good(c, mode) /\ Good(d, mode)
        /\ \A k \in DOMAIN keys : is_valid(tps[1]) /\ keys[k] = [topic |-> tps[1], mode |-> mode] =>
              Covers(a, k)
        /\ \A k \in DOMAIN keys : is_valid(tps[2]) /\ keys[k] = [topic |-> tps[2], mode |-> mode] =>
              Covers(b, k)
        /\ \A k \in DOMAIN keys : is_valid(tps[3]) /\ keys[k] = [topic |-> tps[3], mode |-> mode] =>
              Covers(c, k)
        /\ \A k \in DOMAIN keys : is_valid(tps[4]) /\ keys[k] = [topic |-> tps[4], mode |-> mode] =>
              Covers(d, k)
    BY <1>1, <2>2
  <2> HIDE DEF a, b, c, d, v, S
  <2>s. a \in Seq(Visit) /\ b \in Seq(Visit) /\ c \in Seq(Visit) /\ d \in Seq(Visit)
    BY <2>3 DEF Good
  <2>4. Good(ab, mode) /\ ab \in Seq(Visit) /\ Range(ab) = Range(a) \cup Range(b)
    BY <2>3, <2>s, GoodConcat, ConcatProperties
  <2> HIDE DEF ab
  <2>5. Good(abc, mode) /\ abc \in Seq(Visit) /\ Range(abc) = Range(ab) \cup Range(c)
    BY <2>3, <2>4, <2>s, GoodConcat, ConcatProperties
  <2> HIDE DEF abc
  <2>6. Good(v, mode) /\ Range(v) = Range(abc) \cup Range(d)
    BY <2>1, <2>3, <2>5, <2>s, GoodConcat
  <2>7. Range(a) \subseteq Range(v) /\ Range(b) \subseteq Range(v) /\ Range(c) \subseteq Range(v)
        /\ Range(d) \subseteq Range(v)
    BY <2>4, <2>5, <2>6
  <2>8. \A k \in DOMAIN keys, j \in 1 .. Len(tps) :
            is_valid(tps[j]) /\ keys[k] = [topic |-> tps[j], mode |-> mode] => Covers(v, k)
    BY <2>2, <2>3, <2>7 DEF Covers
  <2>9. QED
    BY <1>3, <2>6, <2>8 DEF v
<1>4. QED
  BY <1>2, <1>3

\* A topic that matches a message's is one of those that post() works on.
LEMMA MatchingTopic ==
    ASSUME NEW f \in Frame, PostsOn(f), f.msg \in Messages, NEW tp \in Topics, match(tp, f.msg.topic)
    PROVE  /\ Len(f.topics) \in {2, 4} /\ \E j \in 1 .. Len(f.topics) : f.topics[j] = tp
<1>1. /\ tp \in Topic /\ f.msg.topic \in Topic
      /\ group_topic(f.msg.topic).group = f.msg.topic.group /\ group_topic(f.msg.topic).type = 0
      /\ group_topic(f.msg.topic) \in Topic
  BY TopicsAreTopics DEF Messages
<1>2. tp = f.msg.topic \/ tp = group_topic(f.msg.topic)
  BY <1>1 DEF match, Topic
<1>3. CASE f.topics = TopicsOf(f.msg)
  <2>1. Len(f.topics) = 2 /\ f.topics[1] = f.msg.topic /\ f.topics[2] = group_topic(f.msg.topic)
    BY <1>3 DEF TopicsOf
  <2>2. QED
    BY <1>2, <2>1
<1>4. CASE /\ Len(f.topics) = 4 /\ f.topics[3] = f.msg.topic
           /\ f.topics[4] = group_topic(f.msg.topic)
  BY <1>2, <1>4
<1>5. QED
  BY <1>3, <1>4 DEF PostsOn

\* LockShared() takes the subscriptions on the call's topics.
LEMMA LockSharedFits ==
    ASSUME TypeOK, FramesKnown, KeysMatchEntries, NEW t \in Threads, LockShared(t)
    PROVE  /\ Top(t).at = "lock_shared" /\ Top(t).op \in {"publish", "post", "execute"}
           /\ PostsOn(Top(t)) /\ Top(t).msg \in Messages
           /\ \E g : /\ Turning(t, g) /\ g.msg = Top(t).msg /\ g.at = "posting"
                     /\ g.topics = Top(t).topics
                     /\ g.todo = Visits(Top(t).mode, Top(t).topics)
<1> DEFINE v == Visits(Top(t).mode, Top(t).topics)
           g == [Top(t) EXCEPT !.at = "posting", !.todo = v]
<1>1. At(t, "lock_shared") /\ published' = published
  BY DEF LockShared, bounds
<1>2. frames[t] # <<>> /\ Top(t).at = "lock_shared"
  BY <1>1 DEF At
<1>3. FrameKnown(t, Top(t), published) /\ Top(t) \in Frame
      /\ Top(t) = frames[t][Len(frames[t])] /\ Len(frames[t]) \in DOMAIN frames[t]
  BY <1>2, TopFits
<1>4. Top(t).op \in Calls /\ Top(t).mode \in Modes /\ Top(t).topics \in Seq(Topic)
  BY <1>3 DEF Frame
<1>5. Top(t).op \in {"publish", "post", "execute"}
  BY <1>2, <1>3, <1>4 DEF FrameKnown, Calls
<1>6. PostsOn(Top(t)) /\ Top(t).msg \in Messages
  BY <1>2, <1>3, <1>5 DEF FrameKnown, PostsOn
<1>7. Len(Top(t).topics) \in {2, 4}
  BY <1>6 DEF PostsOn, TopicsOf
<1>8. v \in Seq(Visit)
  BY <1>4, <1>7, VisitsAre DEF Good
<1>9. Turn(t, g)
  BY <1>3 DEF LockShared, Turn, TypeOK
<1> HIDE DEF v
<1>10. /\ g \in Frame /\ g.at = "posting" /\ g.msg = Top(t).msg /\ g.topics = Top(t).topics
       /\ g.op = Top(t).op /\ g.mode = Top(t).mode /\ g.key = Top(t).key /\ g.todo = v
  BY <1>3, <1>8 DEF Frame, Visit
<1> HIDE DEF g
<1>11. FrameKnown(t, g, published')
  BY <1>1, <1>2, <1>3, <1>5, <1>10 DEF FrameKnown, PostsOn
<1>12. QED
  BY <1>2, <1>5, <1>6, <1>9, <1>10, <1>11 DEF Turning, Fits, v

\* Deliver() goes on to the next subscription.
LEMMA DeliverFits ==
    ASSUME TypeOK, FramesKnown, NEW t \in Threads, Deliver(t)
    PROVE  /\ frames[t] # <<>> /\ Reads(Top(t)) /\ Top(t).todo # <<>>
           /\ Top(t).todo \in Seq(Visit) /\ Top(t).op \in {"publish", "post", "execute"}
           /\ Top(t).msg \in Messages
           /\ \E g : /\ Turning(t, g) /\ g.msg = Top(t).msg
                     /\ g.at = (IF match(Head(Top(t).todo).topic, Top(t).msg.topic)
                                THEN "callback" ELSE "posting")
                     /\ g.topics = Top(t).topics /\ g.todo = Tail(Top(t).todo)
<1> DEFINE l == IF match(Head(Top(t).todo).topic, Top(t).msg.topic) THEN "callback" ELSE "posting"
           g == [Top(t) EXCEPT !.at = l, !.todo = Tail(Top(t).todo)]
<1>1. frames[t] # <<>> /\ Reads(Top(t)) /\ Top(t).todo # <<>> /\ published' = published
  BY DEF Deliver, bounds
<1>2. FrameKnown(t, Top(t), published) /\ Top(t) \in Frame
      /\ Top(t) = frames[t][Len(frames[t])] /\ Len(frames[t]) \in DOMAIN frames[t]
  BY <1>1, TopFits
<1>3. Top(t).op \in Calls /\ Top(t).mode \in Modes /\ Top(t).todo \in Seq(Visit)
  BY <1>2 DEF Frame, Visit
<1>4. Top(t).op \in {"publish", "post", "execute"} /\ Top(t).msg \in Messages
  BY <1>1, <1>2, <1>3 DEF FrameKnown, Calls, Reads
<1>5. Tail(Top(t).todo) \in Seq(Visit)
  BY <1>1, <1>3, HeadTailProperties
<1>6. Turn(t, g)
  BY <1>2 DEF Deliver, Turn, TypeOK
<1>7. l \in {"callback", "posting"}
  OBVIOUS
<1> HIDE DEF l
<1>8. /\ g \in Frame /\ g.at = l /\ g.msg = Top(t).msg /\ g.topics = Top(t).topics
      /\ g.op = Top(t).op /\ g.mode = Top(t).mode /\ g.key = Top(t).key
      /\ g.todo = Tail(Top(t).todo)
  BY <1>2, <1>5, <1>7 DEF Frame, Visit
<1> HIDE DEF g
<1>9. FrameKnown(t, g, published')
  BY <1>1, <1>2, <1>4, <1>7, <1>8 DEF FrameKnown, PostsOn, Reads
<1>10. QED
  BY <1>1, <1>3, <1>4, <1>6, <1>8, <1>9 DEF Turning, Fits, l

\* Posted() ends a call or goes back for the next message.
LEMMA PostedFits ==
    ASSUME TypeOK, FramesKnown, NEW t \in Threads, Posted(t)
    PROVE  /\ frames[t] # <<>> /\ Reads(Top(t)) /\ Top(t).todo = <<>>
           /\ \/ Return(t)
              \/ \E g : Turning(t, g) /\ g.at = "pop" /\ g.msg = Top(t).msg
<1>1. /\ frames[t] # <<>> /\ Reads(Top(t)) /\ Top(t).todo = <<>> /\ published' = published
      /\ (Top(t).op = "execute" /\ Goto(t, "pop")) \/ Return(t)
  BY DEF Posted, bounds
<1>2. FrameKnown(t, Top(t), published)
  BY <1>1, TopFits
<1>3. ASSUME Top(t).op = "execute", Goto(t, "pop")
      PROVE  \E g : Turning(t, g) /\ g.at = "pop" /\ g.msg = Top(t).msg
  <2>1. PICK g \in Frame : /\ Turn(t, g) /\ g.at = "pop"
                           /\ g.op = Top(t).op /\ g.mode = Top(t).mode /\ g.msg = Top(t).msg
                           /\ g.topics = Top(t).topics /\ g.key = Top(t).key
                           /\ g.todo = Top(t).todo
    BY <1>1, <1>3, GotoTurns
  <2>2. FrameKnown(t, g, published')
    BY <1>1, <1>2, <1>3, <2>1 DEF FrameKnown
  <2>3. QED
    BY <1>1, <2>1, <2>2 DEF Turning, Fits
<1>4. QED
  BY <1>1, <1>3

-----------------------------------------------------------------------------
(* The stacks.                                                             *)

\* A step on t's stack of calls.
Moves(t) ==
    \/ \E f : Calling(t, f)
    \/ \E g : Turning(t, g)
    \/ frames[t] # <<>> /\ Return(t)

\* The stacks keep their shape.
LEMMA StacksStep ==
    ASSUME TypeOK, Stacked, FramesKnown, NEW t \in Threads, Moves(t),
           published' \in Nat, published <= published'
    PROVE  /\ frames' \in [Threads -> Seq(Frame)] /\ \A u \in Threads : Len(frames'[u]) <= MaxDepth
           /\ Stacked' /\ FramesKnown'
<1>t. /\ frames \in [Threads -> Seq(Frame)] /\ published \in Nat /\ MaxDepth \in Nat /\ MaxDepth >= 1
      /\ \A u \in Threads : Len(frames[u]) \in Nat /\ Len(frames[u]) <= MaxDepth
                           /\ DOMAIN frames[u] = 1 .. Len(frames[u])
  BY ChannelAssumption DEF TypeOK
<1>m. \A u \in Threads : \A i \in DOMAIN frames[u] : FrameKnown(u, frames[u][i], published')
  <2>1. TAKE u \in Threads
  <2>2. TAKE i \in DOMAIN frames[u]
  <2>3. FrameKnown(u, frames[u][i], published)
    BY DEF FramesKnown
  <2>4. frames[u][i].msg.id \in Nat
    <3>1. frames[u][i] \in Frame
      BY <1>t, ElementOfSeq
    <3>2. frames[u][i].msg \in Messages \cup {NoMessage}
      BY <3>1 DEF Frame
    <3>3. QED
      BY <3>2 DEF Messages, NoMessage
  <2>5. QED
    BY <1>t, <2>3, <2>4 DEF FrameKnown
<1>1. CASE \E f : Calling(t, f)
  <2>1. PICK f : Calling(t, f)
    BY <1>1
  <2>2. /\ Call(t, f) /\ f \in Frame /\ FrameKnown(t, f, published')
        /\ frames[t] = <<>> \/ (At(t, "callback") /\ Len(frames[t]) < MaxDepth)
    BY <2>1 DEF Calling, Fits
  <2>3. /\ frames' \in [Threads -> Seq(Frame)]
        /\ \A u \in Threads : Len(frames'[u]) = IF u = t THEN Len(frames[t]) + 1 ELSE Len(frames[u])
        /\ OldOrNew(t, Len(frames[t]) + 1, f)
    BY <2>2, Pushed
  <2>4. frames[t] = <<>> => Len(frames[t]) = 0
    OBVIOUS
  <2>5. \A u \in Threads : Len(frames'[u]) <= MaxDepth
    BY <1>t, <2>2, <2>3, <2>4
  <2>6. Stacked'
    <3>1. SUFFICES ASSUME NEW u \in Threads, NEW i \in DOMAIN frames'[u], i < Len(frames'[u])
                   PROVE  frames'[u][i].at = "callback"
      BY DEF Stacked
    <3>2. i \in DOMAIN frames[u] /\ frames'[u][i] = frames[u][i]
      BY <1>t, <2>3, <3>1 DEF OldOrNew
    <3>3. CASE i < Len(frames[u])
      BY <3>2, <3>3 DEF Stacked
    <3>4. CASE ~(i < Len(frames[u]))
      <4>1. u = t /\ i = Len(frames[t]) /\ i \in 1 .. Len(frames[u])
        BY <1>t, <2>3, <3>1, <3>2, <3>4
      <4>2. frames[t] # <<>>
        BY <1>t, <2>4, <4>1
      <4>3. QED
        BY <2>2, <3>2, <4>1, <4>2 DEF At, Top
    <3>5. QED
      BY <3>3, <3>4
  <2>7. FramesKnown'
    BY <1>m, <2>2, <2>3 DEF FramesKnown, OldOrNew
  <2>8. QED
    BY <2>3, <2>5, <2>6, <2>7
<1>2. CASE \E g : Turning(t, g)
  <2>1. PICK g : Turning(t, g)
    BY <1>2
  <2>2. frames[t] # <<>> /\ Turn(t, g) /\ g \in Frame /\ FrameKnown(t, g, published')
    BY <2>1 DEF Turning, Fits
  <2>3. /\ frames' \in [Threads -> Seq(Frame)]
        /\ \A u \in Threads : Len(frames'[u]) = Len(frames[u])
        /\ OldOrNew(t, Len(frames[t]), g)
    BY <2>2, Turned
  <2>4. Stacked'
    BY <1>t, <2>3 DEF Stacked, OldOrNew
  <2>5. FramesKnown'
    BY <1>m, <2>2, <2>3 DEF FramesKnown, OldOrNew
  <2>6. QED
    BY <1>t, <2>3, <2>4, <2>5
<1>3. CASE frames[t] # <<>> /\ Return(t)
  <2>1. /\ frames' \in [Threads -> Seq(Frame)]
        /\ \A u \in Threads : Len(frames'[u]) = IF u = t THEN Len(frames[t]) - 1 ELSE Len(frames[u])
        /\ \A u \in Threads : \A i \in DOMAIN frames'[u] :
              i \in DOMAIN frames[u] /\ frames'[u][i] = frames[u][i]
    BY <1>3, Returned
  <2>2. \A u \in Threads : Len(frames'[u]) <= Len(frames[u]) /\ Len(frames'[u]) <= MaxDepth
    BY <1>t, <2>1
  <2>3. \A u \in Threads : DOMAIN frames'[u] = 1 .. Len(frames'[u]) /\ Len(frames'[u]) \in Nat
    BY <2>1
  <2>4. Stacked'
    BY <1>t, <2>1, <2>2, <2>3 DEF Stacked
  <2>5. FramesKnown'
    BY <1>m, <2>1 DEF FramesKnown
  <2>6. QED
    BY <2>1, <2>2, <2>4, <2>5
<1>4. QED
  BY <1>1, <1>2, <1>3 DEF Moves

-----------------------------------------------------------------------------
(* What a step has to show for the parts of the invariant that speak of    *)
(* calls and messages.                                                     *)

\* The call's visits are to subscriptions.
NoLate(f) == Reads(f) => \A s \in Range(f.todo) :
                 s.key \in DOMAIN keys /\ keys[s.key] = [topic |-> s.topic, mode |-> f.mode]

\* Every call of the new state is an old one, or it is g.
OnlyNew(g) ==
    \A u \in Threads : \A i \in DOMAIN frames'[u] :
        (i \in DOMAIN frames[u] /\ frames'[u][i] = frames[u][i]) \/ frames'[u][i] = g

\* Only one call can have new visits.
LEMMA NoLateStep ==
    ASSUME NoLateCallback, keys' = keys, NEW g, OnlyNew(g), Reads(g) => Good(g.todo, g.mode)
    PROVE  NoLateCallback'
<1>1. SUFFICES ASSUME NEW u \in Threads, NEW i \in DOMAIN frames'[u], Reads(frames'[u][i]),
                      NEW s \in Range(frames'[u][i].todo)
               PROVE  /\ s.key \in DOMAIN keys
                      /\ keys[s.key] = [topic |-> s.topic, mode |-> frames'[u][i].mode]
  BY DEF NoLateCallback, Reads
<1>2. CASE i \in DOMAIN frames[u] /\ frames'[u][i] = frames[u][i]
  <2>1. Reads(frames[u][i]) /\ s \in Range(frames[u][i].todo)
    BY <1>1, <1>2
  <2>2. s.key \in DOMAIN keys /\ keys[s.key] = [topic |-> s.topic, mode |-> frames[u][i].mode]
    BY <1>2, <2>1 DEF NoLateCallback
  <2>3. QED
    BY <1>2, <2>2
<1>3. CASE frames'[u][i] = g
  <2>1. Reads(g) /\ s \in Range(g.todo)
    BY <1>1, <1>3
  <2>2. QED
    BY <1>3, <2>1 DEF Good
<1>4. QED
  BY <1>2, <1>3 DEF OnlyNew

\* While nobody posts, nothing is visited.
LEMMA NoLateQuiet ==
    ASSUME TypeOK, ~Reading, NEW t \in Threads, frames[t] # <<>>, Return(t)
    PROVE  NoLateCallback'
<1>1. \A u \in Threads : \A i \in DOMAIN frames'[u] :
          i \in DOMAIN frames[u] /\ frames'[u][i] = frames[u][i]
  BY Returned
<1>2. \A u \in Threads : \A i \in DOMAIN frames[u] : ~Reads(frames[u][i])
  BY DEF Reading
<1>3. \A u \in Threads : \A i \in DOMAIN frames'[u] : ~Reads(frames'[u][i])
  BY <1>1, <1>2
<1>4. QED
  BY <1>3 DEF NoLateCallback, Reads

\* The messages in hand come from the queue and from the calls.
LEMMA InHandStep ==
    ASSUME NEW g, OnlyNew(g), NEW m \in InHand'
    PROVE  m \in InHand \/ m = g.msg \/ \E i \in DOMAIN q' : m = q'[i]
<1>1. CASE \E i \in DOMAIN q' : m = q'[i]
  BY <1>1
<1>2. CASE \E u \in Threads : \E i \in DOMAIN frames'[u] : m = frames'[u][i].msg
  <2>0. PICK u \in Threads : \E i \in DOMAIN frames'[u] : m = frames'[u][i].msg
    BY <1>2
  <2>1. PICK i \in DOMAIN frames'[u] : m = frames'[u][i].msg
    BY <2>0
  <2>2. CASE i \in DOMAIN frames[u] /\ frames'[u][i] = frames[u][i]
    BY <2>1, <2>2 DEF InHand
  <2>3. QED
    BY <2>1, <2>2 DEF OnlyNew
<1>3. QED
  BY <1>1, <1>2 DEF InHand

\* What is owed stays known when nothing new is owed.
LEMMA OwedStep ==
    ASSUME TypeOK, OwedKnown, published' \in Nat, published <= published', owed' \subseteq owed,
           \A o \in owed' : o[1] \in DOMAIN keys' /\ keys'[o[1]] = keys[o[1]],
           \A m \in InHand' : m \in InHand \/ m.id = 0 \/ m.id = published + 1
    PROVE  OwedKnown'
<1>1. published \in Nat /\ \A o \in owed : o[2] \in Nat /\ o[2] # 0
  BY ChannelAssumption DEF TypeOK
<1>2. SUFFICES ASSUME NEW o \in owed'
               PROVE  /\ o[1] \in DOMAIN keys' /\ is_valid(keys'[o[1]].topic) /\ o[2] <= published'
                      /\ \A m \in InHand' : m.id = o[2] => match(keys'[o[1]].topic, m.topic)
  BY DEF OwedKnown, is_valid, match
<1>3. /\ o \in owed /\ is_valid(keys[o[1]].topic) /\ o[2] <= published
      /\ \A m \in InHand : m.id = o[2] => match(keys[o[1]].topic, m.topic)
  BY <1>2 DEF OwedKnown
<1>4. o[1] \in DOMAIN keys' /\ is_valid(keys'[o[1]].topic) /\ o[2] <= published'
  BY <1>1, <1>2, <1>3
<1>5. ASSUME NEW m \in InHand', m.id = o[2] PROVE match(keys'[o[1]].topic, m.topic)
  <2>1. m \in InHand
    BY <1>1, <1>3, <1>5
  <2>2. QED
    BY <1>2, <1>3, <1>5, <2>1
<1>6. QED
  BY <1>4, <1>5

\* enqueue_checked() goes on looking when nothing new is owed.
LEMMA LooksStep ==
    ASSUME AllLookedFor, owed' \subseteq owed, \A o \in owed' : keys'[o[1]] = keys[o[1]],
           NEW g, OnlyNew(g), LooksFor(g)
    PROVE  AllLookedFor'
<1>1. SUFFICES ASSUME NEW u \in Threads, NEW i \in DOMAIN frames'[u], NEW o \in owed',
                      o[2] = frames'[u][i].msg.id, keys'[o[1]].mode = "delayed"
               PROVE  /\ frames'[u][i].at = "has_topic" =>
                            keys'[o[1]].topic \in {frames'[u][i].topics[1], frames'[u][i].topics[2]}
                      /\ frames'[u][i].at = "has_group" =>
                            keys'[o[1]].topic = frames'[u][i].topics[2]
  BY DEF AllLookedFor, LooksFor
<1>2. o \in owed /\ keys'[o[1]] = keys[o[1]]
  BY <1>1
<1>3. CASE i \in DOMAIN frames[u] /\ frames'[u][i] = frames[u][i]
  <2>1. LooksFor(frames[u][i])
    BY <1>3 DEF AllLookedFor
  <2>2. QED
    BY <1>1, <1>2, <1>3, <2>1 DEF LooksFor
<1>4. CASE frames'[u][i] = g
  BY <1>1, <1>2, <1>4 DEF LooksFor
<1>5. QED
  BY <1>3, <1>4 DEF OnlyNew

\* Somebody will deliver o.
Served(o) ==
    \/ keys[o[1]].mode = "delayed" /\ \E i \in DOMAIN q : q[i].id = o[2]
    \/ \E t \in Threads : \E i \in DOMAIN frames[t] : WillDeliver(frames[t][i], o[1], o[2])

\* Nothing is missed if what the queue and the innermost call of t are going
\* to deliver is served still.
LEMMA MissedStep ==
    ASSUME NothingMissed, NEW t \in Threads, AllButTop(t), owed' \subseteq owed,
           \A o \in owed' : keys'[o[1]] = keys[o[1]],
           \A o \in owed' : /\ keys[o[1]].mode = "delayed"
                            /\ \E i \in DOMAIN q : q[i].id = o[2]
                            => Served(o)',
           \A o \in owed' : Len(frames[t]) \in DOMAIN frames[t] /\ WillDeliver(Top(t), o[1], o[2])
                            => Served(o)'
    PROVE  NothingMissed'
<1>1. SUFFICES ASSUME NEW o \in owed' PROVE Served(o)'
  BY DEF NothingMissed, Served
<1>2. o \in owed /\ keys'[o[1]] = keys[o[1]]
  BY <1>1
<1>3. CASE keys[o[1]].mode = "delayed" /\ \E i \in DOMAIN q : q[i].id = o[2]
  BY <1>1, <1>3
<1>4. ASSUME NEW u \in Threads, NEW i \in DOMAIN frames[u], WillDeliver(frames[u][i], o[1], o[2])
      PROVE  Served(o)'
  <2>1. CASE i \in DOMAIN frames'[u] /\ frames'[u][i] = frames[u][i]
    <3>1. WillDeliver(frames[u][i], o[1], o[2])'
      BY <1>2, <1>4, <2>1 DEF WillDeliver
    <3>2. QED
      BY <2>1, <3>1 DEF Served
  <2>2. CASE u = t /\ i = Len(frames[t])
    BY <1>1, <1>4, <2>2 DEF Top
  <2>3. QED
    BY <2>1, <2>2 DEF AllButTop
<1>5. QED
  BY <1>2, <1>3, <1>4 DEF NothingMissed

\* The innermost call is in hand.
LEMMA TopInHand ==
    ASSUME TypeOK, NEW t \in Threads, frames[t] # <<>>
    PROVE  Top(t).msg \in InHand /\ Len(frames[t]) \in DOMAIN frames[t]
<1>1. frames[t] \in Seq(Frame)
  BY DEF TypeOK
<1>2. Len(frames[t]) \in Nat /\ Len(frames[t]) # 0 /\ DOMAIN frames[t] = 1 .. Len(frames[t])
  BY <1>1, EmptySeq
<1>3. Len(frames[t]) \in DOMAIN frames[t]
  BY <1>2
<1>4. QED
  BY <1>3 DEF Top, InHand

-----------------------------------------------------------------------------
(* Steps that change nothing but a call.                                   *)

\* A step on the calls alone keeps what is said of the rest.
LEMMA CallsOnly ==
    ASSUME GInv, NEW t \in Threads, Moves(t), UNCHANGED <<entries, keys, q, delivered>>,
           owed' \subseteq Keys \X (1 .. MaxMessages), subscribed' \in 0 .. MaxSubs,
           published' \in 0 .. MaxMessages, published <= published'
    PROVE  TypeOK' /\ Stacked' /\ FramesKnown' /\ MessagesKnown' /\ KeysMatchEntries'
<1>t. TypeOK /\ Stacked /\ FramesKnown /\ MessagesKnown /\ KeysMatchEntries
  BY DEF GInv
<1>u. entries' = entries /\ keys' = keys /\ q' = q /\ delivered' = delivered
  OBVIOUS
<1>1. published' \in Nat /\ published \in Nat
  BY <1>t, ChannelAssumption DEF TypeOK
<1>2. /\ frames' \in [Threads -> Seq(Frame)] /\ \A u \in Threads : Len(frames'[u]) <= MaxDepth
      /\ Stacked' /\ FramesKnown'
  BY <1>t, <1>1, StacksStep
<1>3. TypeOK'
  BY <1>t, <1>u, <1>2 DEF TypeOK
<1>4. MessagesKnown'
  <2>1. \A i \in DOMAIN q : q[i].id \in Nat /\ q[i].id <= published
    <3>1. \A i \in DOMAIN q : q[i] \in Messages
      BY <1>t, ElementOfSeq DEF TypeOK
    <3>2. QED
      BY <1>t, <3>1 DEF MessagesKnown, Messages
  <2>2. \A k \in Keys : \A i \in DOMAIN delivered[k] :
            delivered[k][i].id \in Nat /\ delivered[k][i].id <= published
    <3>1. \A k \in Keys : \A i \in DOMAIN delivered[k] : delivered[k][i] \in Messages
      BY <1>t, ElementOfSeq DEF TypeOK
    <3>2. QED
      BY <1>t, <3>1 DEF MessagesKnown, Messages
  <2>3. QED
    BY <1>1, <1>u, <2>1, <2>2 DEF MessagesKnown
<1>5. KeysMatchEntries'
  BY <1>t, <1>u DEF KeysMatchEntries
<1>6. QED
  BY <1>2, <1>3, <1>4, <1>5

\* A call goes on, and may take from the queue, add to it or deliver.
LEMMA TurnStep ==
    ASSUME GInv, NEW t \in Threads, NEW g, Turning(t, g), UNCHANGED <<entries, keys, bounds>>,
           q' \in Seq(Messages), delivered' \in [Keys -> Seq(Messages)], MessagesKnown',
           owed' \subseteq owed, \A i \in DOMAIN q' : q'[i] \in InHand, g.msg \in InHand,
           Reads(g) => Good(g.todo, g.mode), LooksFor(g),
           \A o \in owed' : /\ keys[o[1]].mode = "delayed"
                            /\ \E i \in DOMAIN q : q[i].id = o[2]
                            => Served(o)',
           \A o \in owed' : WillDeliver(Top(t), o[1], o[2]) => Served(o)'
    PROVE  GInv'
<1>t. /\ TypeOK /\ Stacked /\ FramesKnown /\ KeysMatchEntries /\ NoLateCallback /\ OwedKnown
      /\ AllLookedFor /\ NothingMissed /\ published \in Nat
  BY ChannelAssumption DEF GInv, TypeOK
<1>u. /\ entries' = entries /\ keys' = keys /\ published' = published /\ subscribed' = subscribed
  BY DEF bounds
<1>1. /\ frames' \in [Threads -> Seq(Frame)] /\ \A u \in Threads : Len(frames'[u]) <= MaxDepth
      /\ Stacked' /\ FramesKnown'
  <2>1. published' \in Nat /\ published <= published' /\ Moves(t)
    BY <1>t, <1>u DEF Moves
  <2>2. QED
    BY <1>t, <2>1, StacksStep
<1>2. TypeOK' /\ KeysMatchEntries'
  <2>1. TypeOK'
    BY <1>t, <1>u, <1>1 DEF TypeOK
  <2>2. QED
    BY <1>t, <1>u, <2>1 DEF KeysMatchEntries
<1>3. frames[t] # <<>> /\ Turn(t, g) /\ g \in Frame
  BY DEF Turning, Fits
<1>4. OldOrNew(t, Len(frames[t]), g) /\ AllButTop(t)
  BY <1>t, <1>3, Turned
<1>5. OnlyNew(g)
  BY <1>4 DEF OldOrNew, OnlyNew
<1>6. NoLateCallback'
  BY <1>t, <1>u, <1>5, NoLateStep
<1>7. \A m \in InHand' : m \in InHand
  BY <1>5, InHandStep
<1>8. OwedKnown'
  <2>1. \A o \in owed' : o[1] \in DOMAIN keys' /\ keys'[o[1]] = keys[o[1]]
    BY <1>t, <1>u DEF OwedKnown
  <2>2. QED
    BY <1>t, <1>u, <1>7, <2>1, OwedStep
<1>9. AllLookedFor'
  BY <1>t, <1>u, <1>5, LooksStep
<1>10. NothingMissed'
  BY <1>t, <1>u, <1>4, MissedStep
<1>11. QED
  BY <1>1, <1>2, <1>6, <1>8, <1>9, <1>10 DEF GInv

\* What the call is going to deliver after the step is served.
LEMMA TurnServes ==
    ASSUME TypeOK, NEW t \in Threads, NEW g, Turning(t, g), keys' = keys,
           NEW o, WillDeliver(g, o[1], o[2])
    PROVE  Served(o)'
<1>1. frames[t] # <<>> /\ Turn(t, g) /\ g \in Frame
  BY DEF Turning, Fits
<1>2. Len(frames[t]) \in DOMAIN frames'[t] /\ frames'[t][Len(frames[t])] = g
  BY <1>1, Turned
<1>3. \E i \in DOMAIN frames'[t] : WillDeliver(frames'[t][i], o[1], o[2])
  BY <1>2
<1>4. QED
  BY <1>3 DEF Served, WillDeliver

\* A call goes on and changes nothing else.
LEMMA TurnQuiet ==
    ASSUME GInv, NEW t \in Threads, NEW g, Turning(t, g),
           UNCHANGED <<entries, keys, q, bounds, history>>, g.msg = Top(t).msg,
           Reads(g) => Good(g.todo, g.mode), LooksFor(g),
           \A o \in owed : WillDeliver(Top(t), o[1], o[2]) => WillDeliver(g, o[1], o[2])
    PROVE  GInv'
<1>t. TypeOK /\ MessagesKnown
  BY DEF GInv
<1>u. /\ entries' = entries /\ keys' = keys /\ q' = q /\ published' = published
      /\ owed' = owed /\ delivered' = delivered /\ UNCHANGED <<entries, keys, bounds>>
  BY DEF history, bounds
<1>1. q' \in Seq(Messages) /\ delivered' \in [Keys -> Seq(Messages)] /\ MessagesKnown'
  BY <1>t, <1>u DEF TypeOK, MessagesKnown
<1>2. \A i \in DOMAIN q' : q'[i] \in InHand
  BY <1>u DEF InHand
<1>3. g.msg \in InHand
  BY <1>t, TopInHand DEF Turning
<1>4. \A o \in owed' : keys[o[1]].mode = "delayed" /\ (\E i \in DOMAIN q : q[i].id = o[2]) => Served(o)'
  BY <1>u DEF Served
<1>5. \A o \in owed' : WillDeliver(Top(t), o[1], o[2]) => Served(o)'
  BY <1>t, <1>u, TurnServes
<1>6. QED
  BY <1>u, <1>1, <1>2, <1>3, <1>4, <1>5, TurnStep

\* A call that has nothing left to deliver returns.
LEMMA ReturnQuiet ==
    ASSUME GInv, NEW t \in Threads, frames[t] # <<>>, Return(t),
           UNCHANGED <<entries, keys, q, bounds, history>>,
           \A o \in owed : ~WillDeliver(Top(t), o[1], o[2])
    PROVE  GInv'
<1>t. TypeOK /\ NoLateCallback /\ OwedKnown /\ AllLookedFor /\ NothingMissed
      /\ published \in Nat /\ subscribed \in 0 .. MaxSubs
  BY ChannelAssumption DEF GInv, TypeOK
<1>u. /\ entries' = entries /\ keys' = keys /\ q' = q /\ published' = published
      /\ owed' = owed /\ delivered' = delivered /\ subscribed' = subscribed
  BY DEF history, bounds
<1>1. TypeOK' /\ Stacked' /\ FramesKnown' /\ MessagesKnown' /\ KeysMatchEntries'
  <2>1. /\ owed' \subseteq Keys \X (1 .. MaxMessages) /\ published' \in 0 .. MaxMessages
        /\ published <= published' /\ Moves(t)
    BY <1>t, <1>u DEF TypeOK, Moves
  <2>2. QED
    BY <1>t, <1>u, <2>1, CallsOnly
<1>2. /\ \A u \in Threads : \A i \in DOMAIN frames'[u] :
            i \in DOMAIN frames[u] /\ frames'[u][i] = frames[u][i]
      /\ AllButTop(t)
  BY <1>t, Returned
<1>3. OnlyNew(Top(t)) /\ LooksFor(Top(t)) /\ (Reads(Top(t)) => Good(Top(t).todo, Top(t).mode))
  <2>1. Len(frames[t]) \in DOMAIN frames[t] /\ Top(t) = frames[t][Len(frames[t])]
    BY <1>t, TopInHand DEF Top
  <2>2. frames[t][Len(frames[t])] \in Frame
    BY <1>t, <2>1, ElementOfSeq DEF TypeOK
  <2>3. Top(t).todo \in Seq(Visit)
    BY <2>1, <2>2 DEF Frame, Visit
  <2>4. QED
    BY <1>2, <1>t, <2>1, <2>3 DEF OnlyNew, AllLookedFor, NoLateCallback, Good
<1>4. NoLateCallback'
  BY <1>t, <1>u, <1>3, NoLateStep
<1>5. \A m \in InHand' : m \in InHand
  BY <1>u, <1>2 DEF InHand
<1>6. OwedKnown'
  <2>1. \A o \in owed' : o[1] \in DOMAIN keys' /\ keys'[o[1]] = keys[o[1]]
    BY <1>t, <1>u DEF OwedKnown
  <2>2. QED
    BY <1>t, <1>u, <1>5, <2>1, OwedStep
<1>7. AllLookedFor'
  BY <1>t, <1>u, <1>3, LooksStep
<1>8. NothingMissed'
  <2>1. ASSUME NEW o \in owed', keys[o[1]].mode = "delayed", \E i \in DOMAIN q : q[i].id = o[2]
        PROVE Served(o)'
    BY <1>u, <2>1 DEF Served
  <2>2. QED
    BY <1>t, <1>u, <1>2, <2>1, MissedStep
<1>9. QED
  BY <1>1, <1>4, <1>6, <1>7, <1>8 DEF GInv

\* A call begins that has nothing to do with what is owed.
LEMMA CallQuiet ==
    ASSUME GInv, NEW t \in Threads, NEW f, Calling(t, f), UNCHANGED <<entries, keys, q, history>>,
           subscribed' \in 0 .. MaxSubs, published' \in 0 .. MaxMessages, published <= published',
           f.msg.id = 0 \/ f.msg.id = published + 1, f.at # "has_topic"
    PROVE  GInv'
<1>t. TypeOK /\ NoLateCallback /\ OwedKnown /\ AllLookedFor /\ NothingMissed
      /\ published \in Nat /\ published' \in Nat
  BY ChannelAssumption DEF GInv, TypeOK
<1>u. /\ entries' = entries /\ keys' = keys /\ q' = q
      /\ owed' = owed /\ delivered' = delivered
  BY DEF history
<1>1. TypeOK' /\ Stacked' /\ FramesKnown' /\ MessagesKnown' /\ KeysMatchEntries'
  <2>1. owed' \subseteq Keys \X (1 .. MaxMessages) /\ Moves(t)
    BY <1>t, <1>u DEF TypeOK, Moves
  <2>2. QED
    BY <1>t, <1>u, <2>1, CallsOnly
<1>2. /\ Call(t, f) /\ f \in Frame /\ f.todo = <<>> /\ f.at \in {"lock", "lock_shared", "pop"}
  BY DEF Calling, Fits
<1>3. /\ OldOrNew(t, Len(frames[t]) + 1, f)
      /\ \A u \in Threads : \A i \in DOMAIN frames[u] :
            i \in DOMAIN frames'[u] /\ frames'[u][i] = frames[u][i]
  BY <1>t, <1>2, Pushed
<1>4. OnlyNew(f) /\ ~Reads(f) /\ LooksFor(f) /\ AllButTop(t)
  BY <1>2, <1>3 DEF OldOrNew, OnlyNew, Reads, LooksFor, AllButTop
<1>5. NoLateCallback'
  BY <1>t, <1>u, <1>4, NoLateStep
<1>6. \A m \in InHand' : m \in InHand \/ m.id = 0 \/ m.id = published + 1
  <2>1. \A i \in DOMAIN q' : q'[i] \in InHand
    BY <1>u DEF InHand
  <2>2. QED
    BY <1>4, <2>1, InHandStep
<1>7. OwedKnown'
  <2>1. \A o \in owed' : o[1] \in DOMAIN keys' /\ keys'[o[1]] = keys[o[1]]
    BY <1>t, <1>u DEF OwedKnown
  <2>2. QED
    BY <1>t, <1>u, <1>6, <2>1, OwedStep
<1>8. AllLookedFor'
  BY <1>t, <1>u, <1>4, LooksStep
<1>9. NothingMissed'
  <2>1. ASSUME NEW o \in owed', Len(frames[t]) \in DOMAIN frames[t], WillDeliver(Top(t), o[1], o[2])
        PROVE  Served(o)'
    <3>1. Len(frames[t]) \in DOMAIN frames'[t] /\ frames'[t][Len(frames[t])] = Top(t)
      BY <1>3, <2>1 DEF Top
    <3>2. \E i \in DOMAIN frames'[t] : WillDeliver(frames'[t][i], o[1], o[2])
      BY <2>1, <3>1
    <3>3. QED
      BY <1>u, <3>2 DEF Served, WillDeliver
  <2>2. ASSUME NEW o \in owed', keys[o[1]].mode = "delayed", \E i \in DOMAIN q : q[i].id = o[2]
        PROVE Served(o)'
    BY <1>u, <2>2 DEF Served
  <2>3. QED
    BY <1>t, <1>u, <1>4, <2>1, <2>2, MissedStep
<1>10. QED
  BY <1>1, <1>5, <1>7, <1>8, <1>9 DEF GInv

\* No message in hand is newer than the last one.
LEMMA InHandOld ==
    ASSUME TypeOK, FramesKnown, MessagesKnown, NEW m \in InHand
    PROVE  m.id <= published
<1>1. CASE \E i \in DOMAIN q : m = q[i]
  BY <1>1 DEF MessagesKnown
<1>2. CASE \E u \in Threads : \E i \in DOMAIN frames[u] : m = frames[u][i].msg
  BY <1>2 DEF FramesKnown, FrameKnown
<1>3. QED
  BY <1>1, <1>2 DEF InHand

\* publish() owes the new message, and will look for those it owes it to.
LEMMA PublishStep ==
    ASSUME GInv, NEW t \in Threads, NEW tp \in Topics, NEW more, publish(t, tp, more),
           more = <<>> \/ \E other \in Topics : more = <<other, group_topic(other)>>
    PROVE  GInv'
<1>t. /\ TypeOK /\ FramesKnown /\ MessagesKnown /\ NoLateCallback /\ OwedKnown /\ AllLookedFor
      /\ NothingMissed /\ published \in Nat /\ subscribed \in 0 .. MaxSubs
  BY ChannelAssumption DEF GInv, TypeOK
<1> DEFINE n == published + 1
<1>1. PICK f : /\ Calling(t, f) /\ f.op = "publish" /\ f.at = "has_topic"
               /\ f.msg = Message(t, tp) /\ f.topics = more \o TopicsOf(f.msg)
  BY <1>t, PublishFits
<1>u. /\ entries' = entries /\ keys' = keys /\ q' = q /\ delivered' = delivered
      /\ subscribed' = subscribed /\ published < MaxMessages /\ published' = n
      /\ owed' = owed \cup Owes(f.msg, f.topics)
  BY <1>1 DEF publish
<1>2. f.msg.id = n /\ f.msg.topic = tp /\ n \in 1 .. MaxMessages
  BY <1>t, <1>1, <1>u, MessageFits, ChannelAssumption
<1>3. ASSUME NEW o \in Owes(f.msg, f.topics)
      PROVE  /\ o[2] = n /\ o[1] \in DOMAIN keys /\ is_valid(keys[o[1]].topic)
             /\ match(keys[o[1]].topic, tp) /\ o \in Keys \X (1 .. MaxMessages)
             /\ keys[o[1]].mode = "immediate" \/ keys[o[1]].topic \in {f.topics[1], f.topics[2]}
  <2>1. PICK k \in DOMAIN keys :
             /\ is_valid(keys[k].topic) /\ match(keys[k].topic, f.msg.topic)
             /\ keys[k].mode = "immediate" \/ keys[k].topic \in {f.topics[1], f.topics[2]}
             /\ o = <<k, f.msg.id>>
    BY DEF Owes
  <2>2. k \in Keys
    BY <1>t DEF TypeOK
  <2>3. QED
    BY <1>2, <2>1, <2>2
<1>4. \A o \in owed : o[1] \in DOMAIN keys /\ is_valid(keys[o[1]].topic) /\ o[2] \in Nat
                     /\ o[2] <= published /\ o[2] # n
  <2>1. TAKE o \in owed
  <2>2. o[1] \in DOMAIN keys /\ is_valid(keys[o[1]].topic) /\ o[2] <= published
    BY <1>t DEF OwedKnown
  <2>3. o[2] \in Nat
    BY <1>t, ChannelAssumption DEF TypeOK
  <2>4. QED
    BY <1>t, <2>2, <2>3
<1>5. TypeOK' /\ Stacked' /\ FramesKnown' /\ MessagesKnown' /\ KeysMatchEntries'
  <2>1. owed' \subseteq Keys \X (1 .. MaxMessages)
    BY <1>t, <1>u, <1>3 DEF TypeOK
  <2>2. published' \in 0 .. MaxMessages /\ published <= published' /\ Moves(t)
    BY <1>t, <1>u, <1>1, <1>2 DEF Moves
  <2>3. QED
    BY <1>t, <1>u, <2>1, <2>2, CallsOnly
<1>6. /\ Call(t, f) /\ f \in Frame
  BY <1>1 DEF Calling, Fits
<1>7. /\ OldOrNew(t, Len(frames[t]) + 1, f)
      /\ \A u \in Threads : \A i \in DOMAIN frames[u] :
            i \in DOMAIN frames'[u] /\ frames'[u][i] = frames[u][i]
      /\ Len(frames[t]) + 1 \in DOMAIN frames'[t] /\ frames'[t][Len(frames[t]) + 1] = f
  BY <1>t, <1>6, Pushed
<1>8. OnlyNew(f) /\ ~Reads(f)
  BY <1>1, <1>7 DEF OldOrNew, OnlyNew, Reads
<1>9. NoLateCallback'
  BY <1>t, <1>u, <1>8, NoLateStep
<1>10. \A m \in InHand' : (m \in InHand /\ m.id # n) \/ m = f.msg
  <2>1. \A i \in DOMAIN q' : q'[i] \in InHand
    BY <1>u DEF InHand
  <2>2. \A m \in InHand : m.id # n
    BY <1>t, InHandOld
  <2>3. QED
    BY <1>8, <2>1, <2>2, InHandStep
<1>11. OwedKnown'
  <2>1. ASSUME NEW o \in owed'
        PROVE  /\ o[1] \in DOMAIN keys /\ is_valid(keys[o[1]].topic) /\ o[2] <= n
               /\ \A m \in InHand' : m.id = o[2] => match(keys[o[1]].topic, m.topic)
    <3>1. CASE o \in owed
      <4>1. o[2] <= n
        BY <1>4, <1>t, <3>1
      <4>2. \A m \in InHand' : m.id = o[2] => m \in InHand
        BY <1>2, <1>4, <1>10, <3>1
      <4>3. QED
        BY <1>4, <1>t, <3>1, <4>1, <4>2 DEF OwedKnown
    <3>2. CASE o \in Owes(f.msg, f.topics)
      <4>1. /\ o[2] = n /\ o[1] \in DOMAIN keys /\ is_valid(keys[o[1]].topic)
            /\ match(keys[o[1]].topic, tp)
        BY <1>3, <3>2
      <4>2. n <= n
        BY <1>t
      <4>3. \A m \in InHand' : m.id = n => m = f.msg
        BY <1>10
      <4>4. QED
        BY <1>2, <4>1, <4>2, <4>3
    <3>3. QED
      BY <1>u, <3>1, <3>2
  <2>2. QED
    BY <1>u, <2>1 DEF OwedKnown, is_valid, match
<1>12. AllLookedFor'
  <2>1. SUFFICES ASSUME NEW u \in Threads, NEW i \in DOMAIN frames'[u], NEW o \in owed',
                        o[2] = frames'[u][i].msg.id, keys[o[1]].mode = "delayed"
                 PROVE  /\ frames'[u][i].at = "has_topic" =>
                              keys[o[1]].topic \in {frames'[u][i].topics[1], frames'[u][i].topics[2]}
                        /\ frames'[u][i].at = "has_group" =>
                              keys[o[1]].topic = frames'[u][i].topics[2]
    BY <1>u DEF AllLookedFor, LooksFor
  <2>2. CASE i \in DOMAIN frames[u] /\ frames'[u][i] = frames[u][i]
    <3>1. frames[u][i].msg.id <= published
      BY <1>t, <2>2 DEF FramesKnown, FrameKnown
    <3>2. o \in owed
      <4>1. frames[u][i].msg.id # n
        BY <1>t, <3>1
      <4>2. QED
        BY <1>3, <1>u, <2>1, <2>2, <4>1
    <3>3. LooksFor(frames[u][i])
      BY <1>t, <2>2 DEF AllLookedFor
    <3>4. QED
      BY <2>1, <2>2, <3>2, <3>3 DEF LooksFor
  <2>3. CASE frames'[u][i] = f
    <3>1. o \in Owes(f.msg, f.topics)
      BY <1>2, <1>4, <1>u, <2>1, <2>3
    <3>2. QED
      BY <1>1, <1>3, <2>1, <2>3, <3>1
  <2>4. QED
    BY <1>8, <2>2, <2>3 DEF OnlyNew
<1>13. NothingMissed'
  <2>1. SUFFICES ASSUME NEW o \in owed' PROVE Served(o)'
    BY DEF NothingMissed, Served
  <2>2. CASE o \in Owes(f.msg, f.topics)
    <3>1. WillDeliver(f, o[1], o[2])
      BY <1>1, <1>2, <1>3, <2>2 DEF WillDeliver
    <3>2. \E i \in DOMAIN frames'[t] : WillDeliver(frames'[t][i], o[1], o[2])
      BY <1>7, <3>1
    <3>3. QED
      BY <1>u, <3>2 DEF Served, WillDeliver
  <2>3. CASE o \in owed
    <3>1. CASE keys[o[1]].mode = "delayed" /\ \E i \in DOMAIN q : q[i].id = o[2]
      BY <1>u, <3>1 DEF Served
    <3>2. ASSUME NEW u \in Threads, NEW i \in DOMAIN frames[u], WillDeliver(frames[u][i], o[1], o[2])
          PROVE  Served(o)'
      <4>1. i \in DOMAIN frames'[u] /\ WillDeliver(frames'[u][i], o[1], o[2])
        BY <1>7, <3>2
      <4>2. QED
        BY <1>u, <4>1 DEF Served, WillDeliver
    <3>3. QED
      BY <1>t, <2>3, <3>1, <3>2 DEF NothingMissed
  <2>4. QED
    BY <1>u, <2>2, <2>3
<1>14. QED
  BY <1>5, <1>9, <1>11, <1>12, <1>13 DEF GInv

-----------------------------------------------------------------------------
(* One step per action.                                                    *)

\* subscribe(), unsubscribe(), post() and execute() are called.
LEMMA BeginStep ==
    ASSUME GInv, NEW t \in Threads, Begin(t)
    PROVE  GInv'
<1>t. TypeOK /\ published \in 0 .. MaxMessages /\ subscribed \in 0 .. MaxSubs
      /\ MaxSubs \in Nat /\ MaxMessages \in Nat
  BY ChannelAssumption DEF GInv, TypeOK
<1>1. ASSUME NEW link \in Links, CallSubscribe(t, link) PROVE GInv'
  <2>1. PICK f : Calling(t, f) /\ f.msg.id = 0 /\ f.at = "lock"
    BY <1>t, <1>1, CallSubscribeFits
  <2>2. /\ UNCHANGED <<entries, keys, q, history>> /\ published' = published
        /\ subscribed < MaxSubs /\ subscribed' = subscribed + 1
    BY <1>1 DEF CallSubscribe
  <2>3. subscribed' \in 0 .. MaxSubs /\ published' \in 0 .. MaxMessages /\ published <= published'
    BY <1>t, <2>2
  <2>4. QED
    BY <2>1, <2>2, <2>3, CallQuiet
<1>2. ASSUME NEW k \in Keys, CallUnsubscribe(t, k) PROVE GInv'
  <2>1. PICK f : Calling(t, f) /\ f.msg.id = 0 /\ f.at = "lock"
    BY <1>t, <1>2, CallUnsubscribeFits
  <2>2. UNCHANGED <<entries, keys, q, history>> /\ published' = published /\ subscribed' = subscribed
    BY <1>2 DEF CallUnsubscribe, bounds
  <2>3. subscribed' \in 0 .. MaxSubs /\ published' \in 0 .. MaxMessages /\ published <= published'
    BY <1>t, <2>2
  <2>4. QED
    BY <2>1, <2>2, <2>3, CallQuiet
<1>3. ASSUME NEW tp \in Topics, publish(t, tp, <<>>) PROVE GInv'
  BY <1>3, PublishStep
<1>4. ASSUME NEW tp \in Topics, NEW other \in Topics, publish(t, tp, <<other, group_topic(other)>>)
      PROVE  GInv'
  BY <1>4, PublishStep
<1>5. ASSUME NEW tp \in Topics, post(t, tp) PROVE GInv'
  <2>1. PICK f : Calling(t, f) /\ f.at = "lock_shared" /\ f.msg = Message(t, tp)
    BY <1>t, <1>5, PostFits
  <2>2. /\ UNCHANGED <<entries, keys, q, history>> /\ published' = published + 1
        /\ subscribed' = subscribed /\ published < MaxMessages
    BY <1>5 DEF post
  <2>3. subscribed' \in 0 .. MaxSubs /\ published' \in 0 .. MaxMessages /\ published <= published'
    BY <1>t, <2>2
  <2>4. f.msg.id = published + 1
    BY <1>t, <2>1, <2>2, MessageFits
  <2>5. QED
    BY <2>1, <2>2, <2>3, <2>4, CallQuiet
<1>6. ASSUME execute(t) PROVE GInv'
  <2>1. Calling(t, NewFrame) /\ NewFrame.msg.id = 0 /\ NewFrame.at = "pop"
    BY <1>t, <1>6, ExecuteFits, NewFrameFits
  <2>2. UNCHANGED <<entries, keys, q, history>> /\ published' = published /\ subscribed' = subscribed
    BY <1>6 DEF execute, bounds
  <2>3. subscribed' \in 0 .. MaxSubs /\ published' \in 0 .. MaxMessages /\ published <= published'
    BY <1>t, <2>2
  <2>4. QED
    BY <2>1, <2>2, <2>3, CallQuiet
<1>7. QED
  BY <1>1, <1>2, <1>3, <1>4, <1>5, <1>6 DEF Begin

\* The steps that lock, look and return.
LEMMA LockUniqueStep ==
    ASSUME GInv, NEW t \in Threads, LockUnique(t)
    PROVE  GInv'
<1>t. TypeOK /\ FramesKnown
  BY DEF GInv
<1>1. PICK g : Turning(t, g) /\ g.at = "drain" /\ g.msg = Top(t).msg
  BY <1>t, LockUniqueFits
<1>2. UNCHANGED <<entries, keys, q, bounds, history>> /\ frames[t] # <<>> /\ Top(t).at = "lock"
  BY DEF LockUnique, At
<1>3. FrameKnown(t, Top(t), published)
  BY <1>t, <1>2, TopFits
<1>4. \A o \in owed : ~WillDeliver(Top(t), o[1], o[2])
  BY <1>2, <1>3 DEF WillDeliver, FrameKnown
<1>5. ~Reads(g) /\ LooksFor(g)
  BY <1>1 DEF Reads, LooksFor
<1>6. QED
  BY <1>1, <1>2, <1>4, <1>5, TurnQuiet

\* If the topic has no delayed subscribers, what is owed is owed to the group's.
LEMMA HasTopicStep ==
    ASSUME GInv, NEW t \in Threads, HasTopic(t)
    PROVE  GInv'
<1>t. TypeOK /\ FramesKnown /\ KeysMatchEntries /\ OwedKnown /\ AllLookedFor
  BY DEF GInv
<1>1. PICK g : /\ Turning(t, g) /\ g.msg = Top(t).msg /\ g.topics = Top(t).topics
               /\ g.op = "publish" /\ Top(t).at = "has_topic"
               /\ g.at = IF has_delayed_sub(Top(t).topics[1]) THEN "enqueue" ELSE "has_group"
  BY <1>t, HasTopicFits
<1>2. UNCHANGED <<entries, keys, q, bounds, history>> /\ frames[t] # <<>>
  BY DEF HasTopic, At
<1>3. g.at \in {"enqueue", "has_group"}
  BY <1>1
<1>4. \A o \in owed : WillDeliver(Top(t), o[1], o[2]) => WillDeliver(g, o[1], o[2])
  BY <1>1, <1>3 DEF WillDeliver
<1>5. LooksFor(g)
  <2>1. SUFFICES ASSUME NEW o \in owed, o[2] = g.msg.id, keys[o[1]].mode = "delayed",
                        g.at = "has_group"
                 PROVE  keys[o[1]].topic = g.topics[2]
    BY <1>3 DEF LooksFor
  <2>2. LooksFor(Top(t))
    BY <1>t, <1>2, TopFits DEF AllLookedFor
  <2>3. keys[o[1]].topic \in {g.topics[1], g.topics[2]}
    BY <1>1, <2>1, <2>2 DEF LooksFor
  <2>4. keys[o[1]].topic \in DOMAIN entries["delayed"]
    BY <1>t, <2>1 DEF KeysMatchEntries, OwedKnown
  <2>5. ~has_delayed_sub(g.topics[1])
    BY <1>1, <2>1
  <2>6. QED
    BY <2>3, <2>4, <2>5 DEF has_delayed_sub
<1>6. ~Reads(g)
  BY <1>3 DEF Reads
<1>7. QED
  BY <1>1, <1>2, <1>4, <1>5, <1>6, TurnQuiet

\* If the group has none either, the message is owed to immediate ones only.
LEMMA HasGroupStep ==
    ASSUME GInv, NEW t \in Threads, HasGroup(t)
    PROVE  GInv'
<1>t. TypeOK /\ FramesKnown /\ KeysMatchEntries /\ OwedKnown /\ AllLookedFor
  BY DEF GInv
<1>1. PICK g : /\ Turning(t, g) /\ g.msg = Top(t).msg /\ g.topics = Top(t).topics
               /\ g.op = "publish" /\ Top(t).at = "has_group"
               /\ g.at = IF has_delayed_sub(Top(t).topics[2]) THEN "enqueue" ELSE "lock_shared"
  BY <1>t, HasGroupFits
<1>2. UNCHANGED <<entries, keys, q, bounds, history>> /\ frames[t] # <<>>
  BY DEF HasGroup, At
<1>3. g.at \in {"enqueue", "lock_shared"} /\ g.mode = "immediate"
  BY <1>1 DEF Turning, Fits, FrameKnown
<1>4. ASSUME NEW o \in owed, WillDeliver(Top(t), o[1], o[2]) PROVE WillDeliver(g, o[1], o[2])
  <2>1. o[2] = g.msg.id /\ g.op = "publish" /\ g.at # "pop" /\ g.at \notin {"has_topic", "has_group"}
    BY <1>1, <1>3, <1>4 DEF WillDeliver
  <2>2. CASE g.at = "enqueue"
    BY <2>1, <2>2 DEF WillDeliver
  <2>3. CASE g.at = "lock_shared"
    <3>1. keys[o[1]].mode \in Modes /\ o[1] \in DOMAIN keys
      BY <1>t DEF OwedKnown, TypeOK, Links
    <3>2. CASE keys[o[1]].mode = "immediate"
      BY <1>3, <2>1, <2>3, <3>2 DEF WillDeliver
    <3>3. CASE keys[o[1]].mode = "delayed"
      <4>1. LooksFor(Top(t))
        BY <1>t, <1>2, TopFits DEF AllLookedFor
      <4>2. keys[o[1]].topic = Top(t).topics[2]
        BY <1>1, <2>1, <3>3, <4>1 DEF LooksFor
      <4>3. keys[o[1]].topic \in DOMAIN entries["delayed"]
        BY <1>t, <3>1, <3>3 DEF KeysMatchEntries
      <4>4. QED
        BY <1>1, <2>3, <4>2, <4>3 DEF has_delayed_sub
    <3>4. QED
      BY <3>1, <3>2, <3>3 DEF Modes
  <2>4. QED
    BY <1>3, <2>2, <2>3
<1>5. ~Reads(g) /\ LooksFor(g)
  BY <1>3 DEF Reads, LooksFor
<1>6. QED
  BY <1>1, <1>2, <1>4, <1>5, TurnQuiet

\* post() visits everybody to whom it owes its message.
LEMMA LockSharedStep ==
    ASSUME GInv, NEW t \in Threads, LockShared(t)
    PROVE  GInv'
<1>t. TypeOK /\ FramesKnown /\ KeysMatchEntries /\ OwedKnown
  BY DEF GInv
<1>1. /\ Top(t).at = "lock_shared" /\ PostsOn(Top(t)) /\ Top(t).msg \in Messages
      /\ Top(t).op \in {"publish", "post", "execute"}
  BY <1>t, LockSharedFits
<1>2. PICK g : /\ Turning(t, g) /\ g.msg = Top(t).msg /\ g.at = "posting"
               /\ g.topics = Top(t).topics /\ g.todo = Visits(Top(t).mode, Top(t).topics)
  BY <1>t, LockSharedFits
<1>3. UNCHANGED <<entries, keys, q, bounds, history>> /\ frames[t] # <<>>
  BY DEF LockShared, At
<1>4. Top(t) \in Frame /\ g.mode = Top(t).mode /\ g.op = Top(t).op
  BY <1>2, <1>3, <1>t, TopFits DEF Turning
<1>5. Top(t).mode \in Modes /\ Top(t).topics \in Seq(Topic)
  BY <1>4 DEF Frame
<1>6. Len(Top(t).topics) \in {2, 4}
  BY <1>1 DEF PostsOn, TopicsOf
<1>7. /\ Good(g.todo, g.mode)
      /\ \A k \in DOMAIN keys, j \in 1 .. Len(Top(t).topics) :
            is_valid(Top(t).topics[j]) /\ keys[k] = [topic |-> Top(t).topics[j], mode |-> g.mode] =>
                Covers(g.todo, k)
  BY <1>2, <1>4, <1>5, <1>6, <1>t, VisitsAre
<1>8. ASSUME NEW o \in owed, WillDeliver(Top(t), o[1], o[2]) PROVE WillDeliver(g, o[1], o[2])
  <2>1. /\ Top(t).op \in {"publish", "execute"} /\ Top(t).msg.id = o[2]
        /\ Top(t).mode = keys[o[1]].mode
    BY <1>1, <1>8 DEF WillDeliver
  <2>2. o[1] \in DOMAIN keys /\ is_valid(keys[o[1]].topic) /\ keys[o[1]] \in Links
    BY <1>t DEF OwedKnown, TypeOK
  <2>3. match(keys[o[1]].topic, Top(t).msg.topic)
    BY <1>3, <1>t, <2>1, TopInHand DEF OwedKnown
  <2>4. PICK j \in 1 .. Len(Top(t).topics) : Top(t).topics[j] = keys[o[1]].topic
    BY <1>1, <1>4, <2>2, <2>3, MatchingTopic DEF Links
  <2>5. keys[o[1]] = [topic |-> Top(t).topics[j], mode |-> g.mode]
    BY <1>4, <2>1, <2>2, <2>4 DEF Links
  <2>6. Covers(g.todo, o[1])
    BY <1>7, <2>2, <2>4, <2>5
  <2>7. QED
    BY <1>2, <1>4, <2>1, <2>6 DEF WillDeliver, Covers
<1>9. LooksFor(g)
  BY <1>2 DEF LooksFor
<1>10. QED
  BY <1>2, <1>3, <1>7, <1>8, <1>9, TurnQuiet

\* post() has nothing left to deliver when it ends.
LEMMA PostedStep ==
    ASSUME GInv, NEW t \in Threads, Posted(t)
    PROVE  GInv'
<1>t. TypeOK /\ FramesKnown
  BY DEF GInv
<1>1. /\ frames[t] # <<>> /\ Reads(Top(t)) /\ Top(t).todo = <<>>
      /\ UNCHANGED <<entries, keys, q, bounds, history>>
  BY DEF Posted
<1>2. \A o \in owed : ~WillDeliver(Top(t), o[1], o[2])
  <2>1. Range(<<>>) = {}
    BY EmptySeq DEF Range
  <2>2. QED
    BY <1>1, <2>1 DEF WillDeliver, Reads
<1>3. CASE Return(t)
  BY <1>1, <1>2, <1>3, ReturnQuiet
<1>4. ASSUME NEW g, Turning(t, g), g.at = "pop", g.msg = Top(t).msg PROVE GInv'
  <2>1. ~Reads(g) /\ LooksFor(g)
    BY <1>4 DEF Reads, LooksFor
  <2>2. QED
    BY <1>1, <1>2, <1>4, <2>1, TurnQuiet
<1>5. QED
  BY <1>t, <1>3, <1>4, PostedFits

\* execute() returns with nothing in hand.
LEMMA PopNothingStep ==
    ASSUME GInv, NEW t \in Threads, PopNothing(t)
    PROVE  GInv'
<1>1. /\ frames[t] # <<>> /\ Top(t).at = "pop" /\ Return(t)
      /\ UNCHANGED <<entries, keys, q, bounds, history>>
  BY DEF PopNothing, At
<1>2. \A o \in owed : ~WillDeliver(Top(t), o[1], o[2])
  BY <1>1 DEF WillDeliver
<1>3. QED
  BY <1>1, <1>2, ReturnQuiet

\* enqueue_checked() hands what it owes to delayed subscribers to the queue.
LEMMA EnqueueStep ==
    ASSUME GInv, NEW t \in Threads, Enqueue(t)
    PROVE  GInv'
<1>t. TypeOK /\ FramesKnown /\ MessagesKnown /\ OwedKnown /\ q \in Seq(Messages)
  BY DEF GInv, TypeOK
<1>1. Top(t).msg \in Messages /\ Top(t).at = "enqueue"
  BY <1>t, EnqueueFits
<1>2. PICK g : Turning(t, g) /\ g.msg = Top(t).msg /\ g.op = "publish" /\ g.at = "lock_shared"
  BY <1>t, EnqueueFits
<1>u. /\ entries' = entries /\ keys' = keys /\ owed' = owed /\ delivered' = delivered
      /\ published' = published /\ UNCHANGED <<entries, keys, bounds>>
      /\ frames[t] # <<>> /\ q' = Append(q, Top(t).msg)
  BY DEF Enqueue, At, history, bounds
<1>3. g.mode = "immediate" /\ g.msg.id <= published
  BY <1>2, <1>u DEF Turning, Fits, FrameKnown
<1>4. /\ Len(q) \in Nat /\ DOMAIN q = 1 .. Len(q) /\ q' \in Seq(Messages)
      /\ DOMAIN q' = 1 .. Len(q) + 1 /\ q'[Len(q) + 1] = g.msg
      /\ \A i \in 1 .. Len(q) : q'[i] = q[i]
  BY <1>t, <1>1, <1>2, <1>u
<1>5. /\ \A i \in DOMAIN q' : (i \in DOMAIN q /\ q'[i] = q[i]) \/ q'[i] = g.msg
      /\ \A i \in DOMAIN q : i \in DOMAIN q' /\ q'[i] = q[i]
      /\ Len(q) + 1 \in DOMAIN q'
  BY <1>4
<1>6. MessagesKnown'
  BY <1>t, <1>u, <1>3, <1>5 DEF MessagesKnown
<1>7. g.msg \in InHand
  BY <1>t, <1>2, <1>u, TopInHand
<1>8. \A i \in DOMAIN q' : q'[i] \in InHand
  BY <1>5, <1>7 DEF InHand
<1>9. ~Reads(g) /\ LooksFor(g)
  BY <1>2 DEF Reads, LooksFor
<1>10. \A o \in owed' : keys[o[1]].mode = "delayed" /\ (\E i \in DOMAIN q : q[i].id = o[2]) => Served(o)'
  BY <1>5, <1>u DEF Served
<1>11. ASSUME NEW o \in owed', WillDeliver(Top(t), o[1], o[2]) PROVE Served(o)'
  <2>1. o[2] = g.msg.id
    BY <1>2, <1>11 DEF WillDeliver
  <2>2. o[1] \in DOMAIN keys /\ keys[o[1]].mode \in Modes
    BY <1>t, <1>u DEF OwedKnown, TypeOK, Links
  <2>3. CASE keys[o[1]].mode = "delayed"
    BY <1>4, <1>5, <1>u, <2>1, <2>3 DEF Served
  <2>4. CASE keys[o[1]].mode = "immediate"
    <3>1. WillDeliver(g, o[1], o[2])
      BY <1>2, <1>3, <2>1, <2>4 DEF WillDeliver
    <3>2. QED
      BY <1>2, <1>t, <1>u, <3>1, TurnServes
  <2>5. QED
    BY <2>2, <2>3, <2>4 DEF Modes
<1>12. q' \in Seq(Messages) /\ delivered' \in [Keys -> Seq(Messages)] /\ owed' \subseteq owed
  BY <1>4, <1>t, <1>u DEF TypeOK
<1>13. QED
  BY <1>2, <1>6, <1>7, <1>8, <1>9, <1>10, <1>11, <1>12, <1>u, TurnStep

\* execute() takes the oldest message over from the queue.
LEMMA PopStep ==
    ASSUME GInv, NEW t \in Threads, Pop(t)
    PROVE  GInv'
<1>t. TypeOK /\ FramesKnown /\ MessagesKnown /\ OwedKnown /\ q \in Seq(Messages)
  BY DEF GInv, TypeOK
<1>1. Top(t).at = "pop" /\ Top(t).op = "execute" /\ Head(q) \in Messages
  BY <1>t, PopFits
<1>2. PICK g : Turning(t, g) /\ g.msg = Head(q) /\ g.at = "lock_shared"
  BY <1>t, PopFits
<1>u. /\ entries' = entries /\ keys' = keys /\ owed' = owed /\ delivered' = delivered
      /\ published' = published /\ UNCHANGED <<entries, keys, bounds>>
      /\ q # <<>> /\ q' = Tail(q)
  BY DEF Pop, history, bounds
<1>3. g.op = "execute" /\ g.mode = "delayed"
  BY <1>1, <1>2 DEF Turning, Fits, FrameKnown
<1>4. Len(q) \in Nat /\ Len(q) # 0 /\ DOMAIN q = 1 .. Len(q)
  BY <1>t, <1>u, EmptySeq
<1>5. /\ q' \in Seq(Messages) /\ Head(q) = q[1] /\ DOMAIN q' = 1 .. Len(q) - 1
      /\ \A i \in 1 .. Len(q) - 1 : q'[i] = q[i + 1]
  BY <1>t, <1>u, <1>4, HeadTailProperties
<1>6. /\ \A i \in DOMAIN q' : i + 1 \in DOMAIN q /\ q'[i] = q[i + 1]
      /\ \A i \in DOMAIN q : i = 1 \/ (i - 1 \in DOMAIN q' /\ q'[i - 1] = q[i])
      /\ 1 \in DOMAIN q
  BY <1>4, <1>5
<1>7. MessagesKnown'
  BY <1>t, <1>u, <1>6 DEF MessagesKnown
<1>8. g.msg \in InHand /\ \A i \in DOMAIN q' : q'[i] \in InHand
  BY <1>2, <1>5, <1>6 DEF InHand
<1>9. ~Reads(g) /\ LooksFor(g)
  BY <1>2 DEF Reads, LooksFor
<1>10. ASSUME NEW o \in owed', keys[o[1]].mode = "delayed", NEW i \in DOMAIN q, q[i].id = o[2]
       PROVE  Served(o)'
  <2>1. CASE i = 1
    <3>1. WillDeliver(g, o[1], o[2])
      BY <1>2, <1>3, <1>5, <1>10, <2>1 DEF WillDeliver
    <3>2. QED
      BY <1>2, <1>t, <1>u, <3>1, TurnServes
  <2>2. CASE i - 1 \in DOMAIN q' /\ q'[i - 1] = q[i]
    BY <1>u, <1>10, <2>2 DEF Served
  <2>3. QED
    BY <1>6, <2>1, <2>2
<1>11. \A o \in owed' : ~WillDeliver(Top(t), o[1], o[2])
  BY <1>1 DEF WillDeliver
<1>12. delivered' \in [Keys -> Seq(Messages)] /\ owed' \subseteq owed
  BY <1>t, <1>u DEF TypeOK
<1>13. QED
  BY <1>2, <1>5, <1>7, <1>8, <1>9, <1>10, <1>11, <1>12, <1>u, TurnStep

\* sub::post() gives the message to a subscriber to whom it is owed.
LEMMA DeliverStep ==
    ASSUME GInv, NEW t \in Threads, Deliver(t)
    PROVE  GInv'
<1>t. TypeOK /\ FramesKnown /\ MessagesKnown /\ OwedKnown /\ NoLateCallback
  BY DEF GInv, TypeOK
<1> DEFINE f == Top(t)  k == Head(f.todo).key  m == f.msg  hits == match(Head(f.todo).topic, m.topic)
<1>1. /\ frames[t] # <<>> /\ Reads(f) /\ f.todo # <<>> /\ f.todo \in Seq(Visit)
      /\ f.op \in {"publish", "post", "execute"} /\ m \in Messages
  BY <1>t, DeliverFits
<1>2. PICK g : /\ Turning(t, g) /\ g.msg = m /\ g.at = (IF hits THEN "callback" ELSE "posting")
               /\ g.topics = f.topics /\ g.todo = Tail(f.todo)
  BY <1>t, DeliverFits
<1>u. /\ entries' = entries /\ keys' = keys /\ q' = q /\ published' = published
      /\ UNCHANGED <<entries, keys, bounds>>
      /\ owed' = IF hits THEN owed \ {<<k, m.id>>} ELSE owed
      /\ delivered' = IF hits /\ f.mode = "delayed"
                      THEN [delivered EXCEPT ![k] = Append(@, m)] ELSE delivered
  BY DEF Deliver, bounds
<1>3. /\ Len(frames[t]) \in DOMAIN frames[t] /\ f = frames[t][Len(frames[t])]
      /\ f \in Frame /\ f.mode = g.mode /\ f.op = g.op /\ m.id <= published
  BY <1>1, <1>2, <1>t, TopFits DEF Turning, FrameKnown
<1> HIDE DEF f
<1>4. /\ Head(f.todo) \in Visit /\ Tail(f.todo) \in Seq(Visit)
      /\ Range(f.todo) = {Head(f.todo)} \cup Range(Tail(f.todo))
  <2>1. /\ Len(f.todo) \in Nat /\ Len(f.todo) # 0 /\ DOMAIN f.todo = 1 .. Len(f.todo)
    BY <1>1, EmptySeq
  <2>2. /\ Head(f.todo) \in Visit /\ Tail(f.todo) \in Seq(Visit) /\ Head(f.todo) = f.todo[1]
        /\ DOMAIN Tail(f.todo) = 1 .. Len(f.todo) - 1
        /\ \A i \in 1 .. Len(f.todo) - 1 : Tail(f.todo)[i] = f.todo[i + 1]
    BY <1>1, <2>1, HeadTailProperties, ElementOfSeq
  <2>3. /\ \A i \in DOMAIN f.todo : i = 1 \/ (i - 1 \in DOMAIN Tail(f.todo)
                                              /\ Tail(f.todo)[i - 1] = f.todo[i])
        /\ \A i \in DOMAIN Tail(f.todo) : i + 1 \in DOMAIN f.todo /\ Tail(f.todo)[i] = f.todo[i + 1]
        /\ 1 \in DOMAIN f.todo
    BY <2>1, <2>2
  <2>4. QED
    BY <2>2, <2>3 DEF Range
<1>5. \A s \in Range(f.todo) : s.key \in DOMAIN keys /\ keys[s.key] = [topic |-> s.topic, mode |-> f.mode]
  BY <1>1, <1>3, <1>t DEF NoLateCallback
<1>6. Good(g.todo, g.mode)
  BY <1>2, <1>3, <1>4, <1>5 DEF Good
<1>7. k \in Keys
  BY <1>4 DEF Visit
<1>8. owed' \subseteq owed
  BY <1>u
<1>9. /\ delivered \in [Keys -> Seq(Messages)] /\ delivered[k] \in Seq(Messages)
  BY <1>t, <1>7 DEF TypeOK
<1>10. delivered' \in [Keys -> Seq(Messages)] /\ MessagesKnown'
  <2>1. CASE hits /\ f.mode = "delayed"
    <3>1. delivered' = [delivered EXCEPT ![k] = Append(delivered[k], m)]
      BY <1>u, <2>1
    <3> HIDE DEF hits, m, k
    <3>2. /\ Append(delivered[k], m) \in Seq(Messages) /\ Len(delivered[k]) \in Nat
          /\ DOMAIN delivered[k] = 1 .. Len(delivered[k])
          /\ DOMAIN Append(delivered[k], m) = 1 .. Len(delivered[k]) + 1
          /\ Append(delivered[k], m)[Len(delivered[k]) + 1] = m
          /\ \A i \in 1 .. Len(delivered[k]) : Append(delivered[k], m)[i] = delivered[k][i]
      BY <1>1, <1>9
    <3>3. \A i \in DOMAIN Append(delivered[k], m) :
              (i \in DOMAIN delivered[k] /\ Append(delivered[k], m)[i] = delivered[k][i])
              \/ Append(delivered[k], m)[i] = m
      BY <3>2
    <3>4. delivered' \in [Keys -> Seq(Messages)]
      BY <1>9, <3>1, <3>2
    <3>5. \A j \in Keys : delivered'[j] = IF j = k THEN Append(delivered[k], m) ELSE delivered[j]
      BY <1>9, <3>1
    <3>6. \A j \in Keys : \A i \in DOMAIN delivered'[j] : delivered'[j][i].id <= published
      <4>1. TAKE j \in Keys
      <4>2. TAKE i \in DOMAIN delivered'[j]
      <4>3. CASE j = k
        BY <1>3, <1>7, <1>t, <3>3, <3>5, <4>3 DEF MessagesKnown, m
      <4>4. CASE j # k
        BY <1>t, <3>5, <4>4 DEF MessagesKnown
      <4>5. QED
        BY <4>3, <4>4
    <3>7. QED
      BY <1>t, <1>u, <3>4, <3>6 DEF MessagesKnown
  <2>2. CASE ~(hits /\ f.mode = "delayed")
    <3>1. delivered' = delivered
      BY <1>u, <2>2
    <3>2. QED
      BY <1>9, <1>t, <1>u, <3>1 DEF MessagesKnown
  <2>3. QED
    BY <2>1, <2>2
<1>11. q' \in Seq(Messages) /\ \A i \in DOMAIN q' : q'[i] \in InHand
  BY <1>t, <1>u DEF TypeOK, InHand
<1>12. g.msg \in InHand
  BY <1>1, <1>2, <1>t, TopInHand DEF f
<1>13. g.at \in {"callback", "posting"} /\ LooksFor(g)
  BY <1>2 DEF LooksFor
<1>14. \A o \in owed' : keys[o[1]].mode = "delayed" /\ (\E i \in DOMAIN q : q[i].id = o[2]) => Served(o)'
  BY <1>u DEF Served
<1>15. ASSUME NEW o \in owed', WillDeliver(f, o[1], o[2]) PROVE Served(o)'
  <2>1. /\ f.op \in {"publish", "execute"} /\ m.id = o[2] /\ f.mode = keys[o[1]].mode
        /\ \E s \in Range(f.todo) : s.key = o[1]
    BY <1>1, <1>15 DEF WillDeliver, Reads
  <2>2. PICK s \in Range(f.todo) : s.key = o[1]
    BY <2>1
  <2>3. CASE s \in Range(Tail(f.todo))
    <3>1. WillDeliver(g, o[1], o[2])
      BY <1>2, <1>3, <1>13, <2>1, <2>2, <2>3 DEF WillDeliver
    <3>2. QED
      BY <1>2, <1>t, <1>u, <3>1, TurnServes
  <2>4. CASE s = Head(f.todo)
    <3>0. keys[s.key] = [topic |-> s.topic, mode |-> f.mode] /\ o \in owed
      BY <1>5, <1>8
    <3>1. o \in owed /\ keys[o[1]].topic = Head(f.todo).topic /\ o[1] = k
      BY <2>2, <2>4, <3>0
    <3>2. match(keys[o[1]].topic, m.topic)
      BY <1>2, <1>12, <1>t, <2>1, <3>1 DEF OwedKnown
    <3>3. hits
      BY <3>1, <3>2
    <3>4. o = <<k, m.id>>
      <4>1. o \in Keys \X (1 .. MaxMessages)
        BY <1>t, <3>1 DEF TypeOK
      <4>2. QED
        BY <2>1, <3>1, <4>1
    <3>5. QED
      BY <1>u, <1>15, <3>3, <3>4
  <2>5. QED
    BY <1>4, <2>2, <2>3, <2>4
<1>16. QED
  BY <1>2, <1>6, <1>8, <1>10, <1>11, <1>12, <1>13, <1>14, <1>15, <1>u, TurnStep DEF f

-----------------------------------------------------------------------------
(* The lists of subscriptions.                                             *)

\* A key that is not in a list is added to it.
LEMMA AddedOnce ==
    ASSUME NEW e \in Seq(Keys), NEW k \in Keys, IsInjective(e), k \notin Range(e)
    PROVE  /\ Append(e, k) \in Seq(Keys) /\ IsInjective(Append(e, k))
           /\ Range(Append(e, k)) = Range(e) \cup {k}
<1> DEFINE a == Append(e, k)  n == Len(e)
<1>1. /\ a \in Seq(Keys) /\ n \in Nat /\ DOMAIN e = 1 .. n /\ DOMAIN a = 1 .. n + 1
      /\ a[n + 1] = k /\ \A i \in 1 .. n : a[i] = e[i]
  OBVIOUS
<1> HIDE DEF a, n
<1>2. /\ \A i \in DOMAIN a : (i \in DOMAIN e /\ a[i] = e[i]) \/ (i = n + 1 /\ a[i] = k)
      /\ \A i \in DOMAIN e : i \in DOMAIN a /\ a[i] = e[i]
      /\ n + 1 \in DOMAIN a
  BY <1>1
<1>3. \A i \in DOMAIN e : e[i] # k
  BY DEF Range
<1>4. IsInjective(a)
  BY <1>2, <1>3 DEF IsInjective
<1>5. Range(a) = Range(e) \cup {k}
  BY <1>1, <1>2 DEF Range
<1>6. QED
  BY <1>1, <1>4, <1>5 DEF a

\* A key that is in a list once is taken out of it.
LEMMA RemovedOnce ==
    ASSUME NEW S, NEW e \in Seq(S), NEW k \in S, IsInjective(e), k \in Range(e)
    PROVE  /\ RemoveFirst(e, k) \in Seq(S) /\ IsInjective(RemoveFirst(e, k))
           /\ Range(RemoveFirst(e, k)) = Range(e) \ {k}
<1> DEFINE n == Len(e)  r == RemoveFirst(e, k)
<1>1. n \in Nat /\ DOMAIN e = 1 .. n
  OBVIOUS
<1>2. PICK x \in 1 .. n : e[x] = k
  BY <1>1 DEF Range
<1>3. {i \in 1 .. n : e[i] = k} = {x}
  BY <1>1, <1>2 DEF IsInjective
<1>4. Min({x}) = x
  BY <1>1, <1>2 DEF Min
<1>5. SelectInSeq(e, LAMBDA v : v = k) = x
  BY <1>3, <1>4 DEF SelectInSeq
<1>6. r = SubSeq(e, 1, x - 1) \o SubSeq(e, x + 1, n)
  BY <1>2, <1>5 DEF RemoveFirst, RemoveAt
<1> DEFINE a == SubSeq(e, 1, x - 1)  b == SubSeq(e, x + 1, n)
<1>7. /\ a \in Seq(S) /\ Len(a) = x - 1 /\ \A i \in 1 .. x - 1 : a[i] = e[i]
  BY <1>1, <1>2, SubSeqProperties
<1>8. /\ b \in Seq(S) /\ Len(b) = n - x /\ \A i \in 1 .. n - x : b[i] = e[x + i]
  <2>1. x + 1 \in 1 .. n + 1 /\ n \in x .. n
    BY <1>1, <1>2
  <2>2. /\ b \in Seq(S) /\ Len(b) = (IF x + 1 <= n THEN n - (x + 1) + 1 ELSE 0)
        /\ \A i \in 1 .. n - (x + 1) + 1 : b[i] = e[x + 1 + i - 1]
    BY <1>1, <1>2, <2>1, SubSeqProperties
  <2> HIDE DEF b
  <2>3. n - (x + 1) + 1 = n - x /\ \A i \in 1 .. n - x : x + 1 + i - 1 = x + i
    BY <1>1, <1>2
  <2>4. Len(b) = n - x
    <3>1. CASE x + 1 <= n
      BY <2>2, <2>3, <3>1
    <3>2. CASE ~(x + 1 <= n)
      <4>0. x \in Nat /\ n \in Nat /\ x <= n
        BY <1>1, <1>2
      <4>1. n - x = 0
        <5> HIDE DEF n
        <5>1. x = n
          BY <3>2, <4>0
        <5>2. QED
          BY <4>0, <5>1
      <4>2. QED
        BY <2>2, <3>2, <4>1
    <3>3. QED
      BY <3>1, <3>2
  <2>5. QED
    BY <2>2, <2>3, <2>4
<1> HIDE DEF a, b, r
<1>9. /\ r \in Seq(S) /\ Len(r) = n - 1 /\ DOMAIN r = 1 .. n - 1
      /\ \A i \in 1 .. n - 1 : r[i] = IF i < x THEN e[i] ELSE e[i + 1]
  <2>1. r = a \o b
    BY <1>6 DEF a, b
  <2>2. /\ r \in Seq(S) /\ Len(r) = Len(a) + Len(b)
        /\ \A i \in 1 .. Len(a) + Len(b) : r[i] = IF i <= Len(a) THEN a[i] ELSE b[i - Len(a)]
    BY <1>7, <1>8, <2>1, ConcatProperties
  <2>3. Len(a) + Len(b) = n - 1 /\ DOMAIN r = 1 .. n - 1
    BY <1>1, <1>2, <1>7, <1>8, <2>2
  <2>4. ASSUME NEW i \in 1 .. n - 1 PROVE r[i] = IF i < x THEN e[i] ELSE e[i + 1]
    <3>1. CASE i < x
      <4>1. i \in 1 .. x - 1 /\ i <= Len(a)
        BY <1>2, <1>7, <3>1
      <4>2. r[i] = a[i]
        BY <2>2, <2>3, <4>1
      <4>3. QED
        BY <1>7, <3>1, <4>1, <4>2
    <3>2. CASE ~(i < x)
      <4>1. i - (x - 1) \in 1 .. n - x /\ ~(i <= Len(a)) /\ x + (i - (x - 1)) = i + 1
        BY <1>1, <1>2, <1>7, <3>2
      <4>2. r[i] = b[i - (x - 1)]
        BY <1>7, <2>2, <2>3, <4>1
      <4>3. b[i - (x - 1)] = e[x + (i - (x - 1))]
        BY <1>8, <4>1
      <4>4. QED
        BY <3>2, <4>1, <4>2, <4>3
    <3>3. QED
      BY <3>1, <3>2
  <2>5. QED
    BY <2>2, <2>3, <2>4
<1>i. \A i \in 1 .. n - 1 : /\ (IF i < x THEN i ELSE i + 1) \in 1 .. n
                           /\ (IF i < x THEN i ELSE i + 1) # x
                           /\ r[i] = e[IF i < x THEN i ELSE i + 1]
  <2>1. TAKE i \in 1 .. n - 1
  <2>2. CASE i < x
    <3>1. i \in 1 .. n /\ i # x
      BY <1>1, <1>2, <2>2
    <3>2. r[i] = e[i]
      BY <1>9, <2>2
    <3>3. QED
      BY <2>2, <3>1, <3>2
  <2>3. CASE ~(i < x)
    <3>1. i + 1 \in 1 .. n /\ i + 1 # x
      BY <1>1, <1>2, <2>3
    <3>2. r[i] = e[i + 1]
      BY <1>9, <2>3
    <3>3. QED
      BY <2>3, <3>1, <3>2
  <2>4. QED
    BY <2>2, <2>3
<1>10. IsInjective(r)
  <2>1. SUFFICES ASSUME NEW i \in 1 .. n - 1, NEW j \in 1 .. n - 1, r[i] = r[j] PROVE i = j
    BY <1>9 DEF IsInjective
  <2>2. PICK ii \in 1 .. n : ii = (IF i < x THEN i ELSE i + 1) /\ r[i] = e[ii]
    BY <1>i
  <2>3. PICK jj \in 1 .. n : jj = (IF j < x THEN j ELSE j + 1) /\ r[j] = e[jj]
    BY <1>i
  <2>4. ii = jj
    BY <1>1, <2>1, <2>2, <2>3 DEF IsInjective
  <2>5. QED
    BY <1>2, <2>2, <2>3, <2>4
<1>11. Range(r) = Range(e) \ {k}
  <2>1. ASSUME NEW i \in 1 .. n - 1 PROVE r[i] \in Range(e) \ {k}
    <3>1. PICK ii \in 1 .. n : ii # x /\ r[i] = e[ii]
      BY <1>i
    <3>2. QED
      BY <1>1, <1>2, <3>1 DEF Range, IsInjective
  <2>2. ASSUME NEW i \in 1 .. n, e[i] # k PROVE \E j \in 1 .. n - 1 : r[j] = e[i]
    <3>1. CASE i < x
      <4>1. i \in 1 .. n - 1 /\ r[i] = e[i]
        BY <1>1, <1>2, <1>9, <3>1
      <4>2. QED
        BY <4>1
    <3>2. CASE i > x
      <4>1. i - 1 \in 1 .. n - 1 /\ r[i - 1] = e[i]
        BY <1>1, <1>2, <1>9, <3>2
      <4>2. QED
        BY <4>1
    <3>3. QED
      BY <1>1, <1>2, <2>2, <3>1, <3>2
  <2>3. \A y \in Range(r) : y \in Range(e) \ {k}
    BY <1>9, <2>1 DEF Range
  <2>4. \A y \in Range(e) : y # k => y \in Range(r)
    <3>1. ASSUME NEW i \in 1 .. n, e[i] # k PROVE e[i] \in Range(r)
      <4>1. PICK j \in 1 .. n - 1 : r[j] = e[i]
        BY <2>2, <3>1
      <4>2. QED
        BY <1>9, <4>1 DEF Range
    <3>2. QED
      BY <1>1, <3>1 DEF Range
  <2>5. QED
    BY <2>3, <2>4
<1>12. QED
  BY <1>9, <1>10, <1>11 DEF r

\* The two maps of subscriptions and their keys have their types.
MapsOK ==
    /\ DOMAIN entries = Modes
    /\ \A mode \in Modes : /\ DOMAIN entries[mode] \subseteq Topics
                           /\ \A tp \in DOMAIN entries[mode] : entries[mode][tp] \in Seq(Keys)
    /\ DOMAIN keys \subseteq Keys /\ \A k \in DOMAIN keys : keys[k] \in Links

\* A new subscription goes into the list of its link, and into no other.
LEMMA SubscribeMaps ==
    ASSUME MapsOK, KeysMatchEntries, NEW link \in Links, NEW k \in Keys, k \notin DOMAIN keys,
           DOMAIN entries' = Modes,
           \A mode \in Modes : mode # link.mode => entries'[mode] = entries[mode],
           DOMAIN entries'[link.mode] = DOMAIN entries[link.mode] \cup {link.topic},
           entries'[link.mode][link.topic] =
               Append(IF link.topic \in DOMAIN entries[link.mode]
                      THEN entries[link.mode][link.topic] ELSE <<>>, k),
           \A tp \in DOMAIN entries[link.mode] : tp # link.topic =>
               entries'[link.mode][tp] = entries[link.mode][tp],
           DOMAIN keys' = DOMAIN keys \cup {k}, keys'[k] = link,
           \A x \in DOMAIN keys : keys'[x] = keys[x]
    PROVE  MapsOK' /\ KeysMatchEntries'
<1> DEFINE lm == link.mode  lt == link.topic
           subs == IF lt \in DOMAIN entries[lm] THEN entries[lm][lt] ELSE <<>>  a == Append(subs, k)
<1>1. lm \in Modes /\ lt \in Topics /\ link = [topic |-> lt, mode |-> lm]
  BY DEF Links
<1>2. /\ DOMAIN entries' = Modes /\ DOMAIN entries'[lm] = DOMAIN entries[lm] \cup {lt}
      /\ entries'[lm][lt] = a
      /\ \A mode \in Modes : mode # lm => entries'[mode] = entries[mode]
      /\ \A tp \in DOMAIN entries[lm] : tp # lt => entries'[lm][tp] = entries[lm][tp]
  OBVIOUS
<1>3. subs \in Seq(Keys) /\ IsInjective(subs) /\ Range(subs) = {x \in DOMAIN keys : keys[x] = link}
  <2>1. CASE lt \in DOMAIN entries[lm]
    <3>1. subs = entries[lm][lt]
      BY <2>1
    <3>2. QED
      BY <1>1, <2>1, <3>1 DEF MapsOK, KeysMatchEntries
  <2>2. CASE lt \notin DOMAIN entries[lm]
    <3>1. subs = <<>> /\ DOMAIN <<>> = {} /\ <<>> \in Seq(Keys)
      BY <2>2, EmptySeq
    <3>2. Range(subs) = {} /\ IsInjective(subs)
      BY <3>1 DEF Range, IsInjective
    <3>3. \A x \in DOMAIN keys : keys[x] # link
      BY <2>2 DEF KeysMatchEntries
    <3>4. QED
      BY <3>1, <3>2, <3>3
  <2>3. QED
    BY <2>1, <2>2
<1>4. k \notin Range(subs)
  BY <1>3
<1> HIDE DEF subs
<1>5. a \in Seq(Keys) /\ IsInjective(a) /\ Range(a) = Range(subs) \cup {k}
  BY <1>3, <1>4, AddedOnce
<1> HIDE DEF a, lm, lt
<1>6. /\ DOMAIN keys' = DOMAIN keys \cup {k} /\ keys'[k] = link
      /\ \A x \in DOMAIN keys : x \in DOMAIN keys' /\ keys'[x] = keys[x]
  OBVIOUS
<1>8. ASSUME NEW mode \in Modes, NEW tp \in DOMAIN entries'[mode]
      PROVE  \/ tp = lt /\ mode = lm /\ entries'[mode][tp] = a
             \/ /\ tp # lt \/ mode # lm
                /\ tp \in DOMAIN entries[mode] /\ entries'[mode][tp] = entries[mode][tp]
  <2>1. CASE mode = lm
    BY <1>2, <2>1
  <2>2. CASE mode # lm
    BY <1>2, <2>2
  <2>3. QED
    BY <2>1, <2>2
<1>9. \A mode \in Modes : DOMAIN entries[mode] \subseteq DOMAIN entries'[mode]
  BY <1>2
<1>10. lt \in DOMAIN entries'[lm]
  BY <1>2
<1>11. MapsOK'
  <2>1. \A mode \in Modes : \A tp \in DOMAIN entries'[mode] :
            tp \in Topics /\ entries'[mode][tp] \in Seq(Keys)
    BY <1>1, <1>5, <1>8 DEF MapsOK
  <2>2. DOMAIN keys' \subseteq Keys /\ \A x \in DOMAIN keys' : keys'[x] \in Links
    BY <1>6 DEF MapsOK
  <2>3. QED
    BY <1>2, <2>1, <2>2 DEF MapsOK
<1>12. \A x \in DOMAIN keys' : keys'[x].topic \in DOMAIN entries'[keys'[x].mode]
  <2>1. TAKE x \in DOMAIN keys'
  <2>2. CASE x = k
    BY <1>6, <1>10, <2>2 DEF lt, lm
  <2>3. CASE x \in DOMAIN keys
    <3>1. keys[x].mode \in Modes /\ keys[x].topic \in DOMAIN entries[keys[x].mode]
      BY <2>3 DEF MapsOK, KeysMatchEntries, Links
    <3>2. QED
      BY <1>6, <1>9, <2>3, <3>1
  <2>4. QED
    BY <1>6, <2>2, <2>3
<1>13. ASSUME NEW mode \in Modes, NEW tp \in DOMAIN entries'[mode]
       PROVE  /\ IsInjective(entries'[mode][tp])
              /\ Range(entries'[mode][tp]) =
                    {x \in DOMAIN keys' : keys'[x] = [topic |-> tp, mode |-> mode]}
  <2>1. CASE tp = lt /\ mode = lm /\ entries'[mode][tp] = a
    <3>1. [topic |-> tp, mode |-> mode] = link
      BY <1>1, <2>1
    <3>2. {x \in DOMAIN keys' : keys'[x] = link} = {x \in DOMAIN keys : keys[x] = link} \cup {k}
      BY <1>6
    <3>3. QED
      BY <1>3, <1>5, <2>1, <3>1, <3>2
  <2>2. CASE /\ tp # lt \/ mode # lm
             /\ tp \in DOMAIN entries[mode] /\ entries'[mode][tp] = entries[mode][tp]
    <3>1. [topic |-> tp, mode |-> mode] # link
      BY <2>2 DEF lt, lm
    <3>2. {x \in DOMAIN keys' : keys'[x] = [topic |-> tp, mode |-> mode]} =
             {x \in DOMAIN keys : keys[x] = [topic |-> tp, mode |-> mode]}
      BY <1>6, <3>1
    <3>3. IsInjective(entries[mode][tp]) /\ Range(entries[mode][tp]) =
             {x \in DOMAIN keys : keys[x] = [topic |-> tp, mode |-> mode]}
      BY <2>2 DEF KeysMatchEntries
    <3>4. QED
      BY <2>2, <3>2, <3>3
  <2>3. QED
    BY <1>8, <2>1, <2>2
<1>14. KeysMatchEntries'
  BY <1>12, <1>13 DEF KeysMatchEntries
<1>15. QED
  BY <1>6, <1>11, <1>14

\* The end of a subscription takes its key out of the list of its link.
LEMMA UnsubscribeMaps ==
    ASSUME MapsOK, KeysMatchEntries, NEW k \in DOMAIN keys,
           entries' = [entries EXCEPT ![keys[k].mode][keys[k].topic] = RemoveFirst(@, k)],
           keys' = [x \in DOMAIN keys \ {k} |-> keys[x]]
    PROVE  /\ MapsOK' /\ KeysMatchEntries'
           /\ \A x \in DOMAIN keys : x # k => x \in DOMAIN keys' /\ keys'[x] = keys[x]
<1> DEFINE lm == keys[k].mode  lt == keys[k].topic  e == entries[lm][lt]  r == RemoveFirst(e, k)
           e2 == [entries[lm] EXCEPT ![lt] = r]
<1>1. /\ lm \in Modes /\ lt \in Topics /\ keys[k] = [topic |-> lt, mode |-> lm] /\ k \in Keys
      /\ lt \in DOMAIN entries[lm]
  BY DEF MapsOK, Links, KeysMatchEntries
<1>2. entries' = [entries EXCEPT ![lm] = e2]
  OBVIOUS
<1>3. e \in Seq(Keys) /\ IsInjective(e) /\ Range(e) = {x \in DOMAIN keys : keys[x] = keys[k]}
  BY <1>1 DEF MapsOK, KeysMatchEntries
<1>4. r \in Seq(Keys) /\ IsInjective(r) /\ Range(r) = Range(e) \ {k}
  <2>1. k \in Range(e)
    BY <1>3
  <2> HIDE DEF e
  <2>2. QED
    BY <1>1, <1>3, <2>1, RemovedOnce
<1> HIDE DEF r
<1>5. /\ DOMAIN e2 = DOMAIN entries[lm] /\ e2[lt] = r
      /\ \A tp \in DOMAIN entries[lm] : tp # lt => e2[tp] = entries[lm][tp]
  BY <1>1
<1> HIDE DEF e2
<1>6. /\ DOMAIN entries' = Modes /\ entries'[lm] = e2
      /\ \A mode \in Modes : mode # lm => entries'[mode] = entries[mode]
  BY <1>1, <1>2 DEF MapsOK
<1>7. /\ DOMAIN keys' = DOMAIN keys \ {k}
      /\ \A x \in DOMAIN keys : x # k => x \in DOMAIN keys' /\ keys'[x] = keys[x]
  OBVIOUS
<1> HIDE DEF e, lm, lt
<1>8. \A mode \in Modes : DOMAIN entries'[mode] = DOMAIN entries[mode]
  BY <1>5, <1>6
<1>9. ASSUME NEW mode \in Modes, NEW tp \in DOMAIN entries[mode]
      PROVE  \/ tp = lt /\ mode = lm /\ entries'[mode][tp] = r
             \/ (tp # lt \/ mode # lm) /\ entries'[mode][tp] = entries[mode][tp]
  <2>1. CASE mode = lm
    BY <1>5, <1>6, <2>1
  <2>2. CASE mode # lm
    BY <1>6, <2>2
  <2>3. QED
    BY <2>1, <2>2
<1>10. MapsOK'
  <2>1. \A mode \in Modes : \A tp \in DOMAIN entries'[mode] :
            tp \in Topics /\ entries'[mode][tp] \in Seq(Keys)
    BY <1>4, <1>8, <1>9 DEF MapsOK
  <2>2. DOMAIN keys' \subseteq Keys /\ \A x \in DOMAIN keys' : keys'[x] \in Links
    BY <1>7 DEF MapsOK
  <2>3. QED
    BY <1>6, <2>1, <2>2 DEF MapsOK
<1>11. \A x \in DOMAIN keys' : keys'[x].topic \in DOMAIN entries'[keys'[x].mode]
  <2>1. TAKE x \in DOMAIN keys'
  <2>2. x \in DOMAIN keys /\ keys'[x] = keys[x]
    BY <1>7
  <2>3. keys[x].mode \in Modes /\ keys[x].topic \in DOMAIN entries[keys[x].mode]
    BY <2>2 DEF MapsOK, KeysMatchEntries, Links
  <2>4. QED
    BY <1>8, <2>2, <2>3
<1>12. ASSUME NEW mode \in Modes, NEW tp \in DOMAIN entries'[mode]
       PROVE  /\ IsInjective(entries'[mode][tp])
              /\ Range(entries'[mode][tp]) =
                    {x \in DOMAIN keys' : keys'[x] = [topic |-> tp, mode |-> mode]}
  <2>0. tp \in DOMAIN entries[mode]
    BY <1>8
  <2>1. CASE tp = lt /\ mode = lm /\ entries'[mode][tp] = r
    <3>1. [topic |-> tp, mode |-> mode] = keys[k]
      BY <1>1, <2>1
    <3>2. {x \in DOMAIN keys' : keys'[x] = keys[k]} = {x \in DOMAIN keys : keys[x] = keys[k]} \ {k}
      BY <1>7
    <3>3. QED
      BY <1>3, <1>4, <2>1, <3>1, <3>2
  <2>2. CASE (tp # lt \/ mode # lm) /\ entries'[mode][tp] = entries[mode][tp]
    <3>1. [topic |-> tp, mode |-> mode] # keys[k]
      BY <2>2 DEF lt, lm
    <3>2. {x \in DOMAIN keys' : keys'[x] = [topic |-> tp, mode |-> mode]} =
             {x \in DOMAIN keys : keys[x] = [topic |-> tp, mode |-> mode]}
      BY <1>7, <3>1
    <3>3. IsInjective(entries[mode][tp]) /\ Range(entries[mode][tp]) =
             {x \in DOMAIN keys : keys[x] = [topic |-> tp, mode |-> mode]}
      BY <2>0 DEF KeysMatchEntries
    <3>4. QED
      BY <2>2, <3>2, <3>3
  <2>3. QED
    BY <1>9, <2>0, <2>1, <2>2
<1>13. KeysMatchEntries'
  BY <1>11, <1>12 DEF KeysMatchEntries
<1>14. QED
  BY <1>7, <1>10, <1>13

\* subscribe() and unsubscribe() return when they have changed the maps.
LEMMA LeaveStep ==
    ASSUME GInv, NEW t \in Threads, frames[t] # <<>>, Top(t).op \in {"subscribe", "unsubscribe"},
           Return(t), ~Reading, UNCHANGED <<q, bounds>>, MapsOK', KeysMatchEntries',
           delivered' \in [Keys -> Seq(Messages)], MessagesKnown', owed' \subseteq owed,
           \A o \in owed' : o[1] \in DOMAIN keys' /\ keys'[o[1]] = keys[o[1]]
    PROVE  GInv'
<1>t. /\ TypeOK /\ Stacked /\ FramesKnown /\ OwedKnown /\ AllLookedFor /\ NothingMissed
      /\ published \in Nat
  BY ChannelAssumption DEF GInv, TypeOK
<1>u. q' = q /\ published' = published /\ subscribed' = subscribed
  BY DEF bounds
<1>1. /\ frames' \in [Threads -> Seq(Frame)] /\ \A u \in Threads : Len(frames'[u]) <= MaxDepth
      /\ Stacked' /\ FramesKnown'
  <2>1. published' \in Nat /\ published <= published' /\ Moves(t)
    BY <1>t, <1>u DEF Moves
  <2>2. QED
    BY <1>t, <2>1, StacksStep
<1>2. TypeOK'
  BY <1>t, <1>u, <1>1 DEF TypeOK, MapsOK
<1>3. /\ \A u \in Threads : \A i \in DOMAIN frames'[u] :
            i \in DOMAIN frames[u] /\ frames'[u][i] = frames[u][i]
      /\ AllButTop(t)
  BY <1>t, Returned
<1>4. NoLateCallback'
  BY <1>t, NoLateQuiet
<1>5. \A m \in InHand' : m \in InHand
  BY <1>u, <1>3 DEF InHand
<1>6. OwedKnown'
  BY <1>t, <1>u, <1>5, OwedStep
<1>7. AllLookedFor'
  <2>1. OnlyNew(Top(t))
    BY <1>3 DEF OnlyNew
  <2>2. LooksFor(Top(t))
    BY <1>t, TopFits DEF AllLookedFor
  <2>3. QED
    BY <1>t, <2>1, <2>2, LooksStep
<1>8. NothingMissed'
  <2>1. \A o \in owed' : keys[o[1]].mode = "delayed" /\ (\E i \in DOMAIN q : q[i].id = o[2]) => Served(o)'
    BY <1>u DEF Served
  <2>2. \A o \in owed' : ~WillDeliver(Top(t), o[1], o[2])
    BY DEF WillDeliver
  <2>3. QED
    BY <1>t, <1>3, <2>1, <2>2, MissedStep
<1>9. QED
  BY <1>1, <1>2, <1>4, <1>6, <1>7, <1>8 DEF GInv

\* A subscription is added to its list, at its end.
LEMMA SubscribeStep ==
    ASSUME GInv, NEW t \in Threads, NEW k \in Keys, subscribe(t, k)
    PROVE  GInv'
<1>t. TypeOK /\ FramesKnown /\ MessagesKnown /\ KeysMatchEntries /\ OwedKnown /\ MapsOK
  BY DEF GInv, TypeOK, MapsOK
<1> DEFINE link == [topic |-> Top(t).topics[1], mode |-> Top(t).mode]
           em   == entries[link.mode]
           subs == IF link.topic \in DOMAIN em THEN em[link.topic] ELSE <<>>
<1>1. /\ frames[t] # <<>> /\ Top(t).op = "subscribe" /\ ~Reading /\ k \in Keys \ DOMAIN keys
      /\ Return(t) /\ UNCHANGED <<q, bounds>> /\ owed' = owed /\ delivered' = delivered
      /\ q' = q /\ published' = published
  BY DEF subscribe, At, history, bounds
<1>2. /\ entries' = [entries EXCEPT ![link.mode] =
            [tp \in DOMAIN em \cup {link.topic} |->
                IF tp = link.topic THEN Append(subs, k) ELSE em[tp]]]
      /\ keys' = [x \in DOMAIN keys \cup {k} |-> IF x = k THEN link ELSE keys[x]]
  BY DEF subscribe
<1>3. link \in Links
  <2>1. FrameKnown(t, Top(t), published) /\ Top(t) \in Frame
    BY <1>t, <1>1, TopFits
  <2>2. Top(t).topics[1] \in Topics /\ Top(t).mode \in Modes
    BY <1>1, <2>1 DEF FrameKnown, Frame
  <2>3. QED
    BY <2>2 DEF Links
<1> HIDE DEF link
<1>4. /\ MapsOK' /\ KeysMatchEntries'
      /\ \A x \in DOMAIN keys : x \in DOMAIN keys' /\ keys'[x] = keys[x]
  <2> DEFINE e2 == [tp \in DOMAIN em \cup {link.topic} |->
                        IF tp = link.topic THEN Append(subs, k) ELSE em[tp]]
  <2>1. /\ DOMAIN e2 = DOMAIN em \cup {link.topic} /\ e2[link.topic] = Append(subs, k)
        /\ \A tp \in DOMAIN em : tp # link.topic => e2[tp] = em[tp]
    OBVIOUS
  <2>2. entries' = [entries EXCEPT ![link.mode] = e2] /\ DOMAIN entries = Modes /\ link.mode \in Modes
    BY <1>2, <1>3, <1>t DEF MapsOK, Links
  <2> HIDE DEF e2
  <2>3. /\ DOMAIN entries' = Modes /\ entries'[link.mode] = e2
        /\ \A mode \in Modes : mode # link.mode => entries'[mode] = entries[mode]
    BY <2>2
  <2>4. /\ DOMAIN keys' = DOMAIN keys \cup {k} /\ keys'[k] = link
        /\ \A x \in DOMAIN keys : keys'[x] = keys[x]
    BY <1>1, <1>2
  <2>5. MapsOK' /\ KeysMatchEntries'
    BY <1>1, <1>3, <1>t, <2>1, <2>3, <2>4, SubscribeMaps
  <2>6. QED
    BY <2>4, <2>5
<1>5. delivered' \in [Keys -> Seq(Messages)] /\ MessagesKnown' /\ owed' \subseteq owed
  BY <1>t, <1>1 DEF TypeOK, MessagesKnown
<1>6. \A o \in owed' : o[1] \in DOMAIN keys' /\ keys'[o[1]] = keys[o[1]]
  BY <1>t, <1>1, <1>4 DEF OwedKnown
<1>7. QED
  BY <1>1, <1>4, <1>5, <1>6, LeaveStep

\* A subscription ends, and with it what it was owed.
LEMMA UnsubscribeStep ==
    ASSUME GInv, NEW t \in Threads, unsubscribe(t)
    PROVE  GInv'
<1>t. TypeOK /\ FramesKnown /\ MessagesKnown /\ KeysMatchEntries /\ OwedKnown /\ MapsOK
  BY DEF GInv, TypeOK, MapsOK
<1> DEFINE k == Top(t).key
<1>1. /\ frames[t] # <<>> /\ Top(t).op = "unsubscribe" /\ ~Reading
      /\ Return(t) /\ UNCHANGED <<q, bounds>> /\ q' = q /\ published' = published
  BY DEF unsubscribe, At, bounds
<1>2. CASE k \notin DOMAIN keys
  <2>1. entries' = entries /\ keys' = keys /\ owed' = owed /\ delivered' = delivered
    BY <1>2 DEF unsubscribe, history
  <2>2. MapsOK' /\ KeysMatchEntries' /\ MessagesKnown' /\ delivered' \in [Keys -> Seq(Messages)]
    BY <1>t, <1>1, <2>1 DEF MapsOK, KeysMatchEntries, MessagesKnown, TypeOK
  <2>3. owed' \subseteq owed /\ \A o \in owed' : o[1] \in DOMAIN keys' /\ keys'[o[1]] = keys[o[1]]
    BY <1>t, <2>1 DEF OwedKnown
  <2>4. QED
    BY <1>1, <2>2, <2>3, LeaveStep
<1>3. CASE k \in DOMAIN keys
  <2>1. /\ entries' = [entries EXCEPT ![keys[k].mode][keys[k].topic] = RemoveFirst(@, k)]
        /\ keys' = [x \in DOMAIN keys \ {k} |-> keys[x]]
        /\ owed' = {o \in owed : o[1] # k} /\ delivered' = [delivered EXCEPT ![k] = <<>>]
    BY <1>3 DEF unsubscribe, Forget
  <2> HIDE DEF k
  <2>2. /\ MapsOK' /\ KeysMatchEntries'
        /\ \A x \in DOMAIN keys : x # k => x \in DOMAIN keys' /\ keys'[x] = keys[x]
    BY <1>3, <1>t, <2>1, UnsubscribeMaps
  <2>3. k \in Keys /\ delivered \in [Keys -> Seq(Messages)] /\ <<>> \in Seq(Messages)
    BY <1>3, <1>t, EmptySeq DEF TypeOK
  <2>4. /\ delivered' \in [Keys -> Seq(Messages)]
        /\ \A j \in Keys : delivered'[j] = IF j = k THEN <<>> ELSE delivered[j]
    BY <2>1, <2>3
  <2>5. MessagesKnown'
    <3>1. DOMAIN <<>> = {}
      OBVIOUS
    <3>2. QED
      BY <1>t, <1>1, <2>4, <3>1 DEF MessagesKnown
  <2>6. owed' \subseteq owed /\ \A o \in owed' : o[1] \in DOMAIN keys' /\ keys'[o[1]] = keys[o[1]]
    BY <1>t, <2>1, <2>2 DEF OwedKnown
  <2>7. QED
    BY <1>1, <2>2, <2>4, <2>5, <2>6, LeaveStep
<1>4. QED
  BY <1>2, <1>3

\* Every step keeps the first part of the invariant.
LEMMA GStep == ASSUME GInv, [Next]_vars PROVE GInv'
<1>1. ASSUME NEW t \in Threads, Step(t) PROVE GInv'
  BY <1>1, LockUniqueStep, SubscribeStep, UnsubscribeStep, HasTopicStep, HasGroupStep, EnqueueStep,
     PopStep, PopNothingStep, LockSharedStep, DeliverStep, PostedStep DEF Step
<1>2. ASSUME UNCHANGED vars PROVE GInv'
  <2>1. /\ entries' = entries /\ keys' = keys /\ q' = q /\ frames' = frames
        /\ published' = published /\ subscribed' = subscribed /\ owed' = owed
        /\ delivered' = delivered
    BY <1>2 DEF vars
  <2>2. TypeOK' /\ Stacked' /\ FramesKnown' /\ MessagesKnown' /\ KeysMatchEntries'
    BY <2>1 DEF GInv, TypeOK, Stacked, FramesKnown, MessagesKnown, KeysMatchEntries
  <2>3. NoLateCallback' /\ AllLookedFor' /\ NothingMissed'
    BY <2>1 DEF GInv, NoLateCallback, Reads, AllLookedFor, LooksFor, NothingMissed, WillDeliver
  <2>4. OwedKnown'
    <3>1. InHand' = InHand
      BY <2>1 DEF InHand
    <3>2. QED
      BY <2>1, <3>1 DEF GInv, OwedKnown
  <2>5. QED
    BY <2>2, <2>3, <2>4 DEF GInv
<1>3. QED
  BY <1>1, <1>2, BeginStep DEF Next

-----------------------------------------------------------------------------
(* The order of delayed messages.                                          *)

\* The parts of the order together.
Ordered == QueueInOrder /\ ExecutedEarlier /\ DeliveredInOrder

\* No callback calls execute(), so it stays on the outside.
LEMMA OneExecuteStep ==
    ASSUME TypeOK, FramesKnown, "execute" \notin Reentrant, OneExecute, NEW t \in Threads, Moves(t)
    PROVE  OneExecute'
<1>1. CASE \E f : Calling(t, f)
  <2>1. PICK f : Calling(t, f)
    BY <1>1
  <2>2. /\ Call(t, f) /\ f \in Frame /\ FrameKnown(t, f, published')
        /\ frames[t] = <<>> \/ f.op \in Reentrant
    BY <2>1 DEF Calling, Fits
  <2>3. OldOrNew(t, Len(frames[t]) + 1, f)
    BY <2>2, Pushed
  <2>4. f.op = "execute" => t = Owner /\ Len(frames[t]) + 1 = 1
    BY <2>2 DEF FrameKnown
  <2>5. QED
    BY <2>3, <2>4 DEF OneExecute, OldOrNew
<1>2. CASE \E g : Turning(t, g)
  <2>1. PICK g : Turning(t, g)
    BY <1>2
  <2>2. frames[t] # <<>> /\ Turn(t, g) /\ g \in Frame /\ g.op = Top(t).op
    BY <2>1 DEF Turning, Fits
  <2>3. OldOrNew(t, Len(frames[t]), g)
    BY <2>2, Turned
  <2>4. g.op = "execute" => t = Owner /\ Len(frames[t]) = 1
    BY <2>2, TopFits DEF OneExecute
  <2>5. QED
    BY <2>3, <2>4 DEF OneExecute, OldOrNew
<1>3. CASE frames[t] # <<>> /\ Return(t)
  <2>1. \A u \in Threads : \A i \in DOMAIN frames'[u] :
              i \in DOMAIN frames[u] /\ frames'[u][i] = frames[u][i]
    BY <1>3, Returned
  <2>2. QED
    BY <2>1 DEF OneExecute
<1>4. QED
  BY <1>1, <1>2, <1>3 DEF Moves

\* Visits are to keys.
LEMMA VisitsToKeys ==
    ASSUME TypeOK, NEW u \in Threads, NEW i \in DOMAIN frames[u], NEW j \in DOMAIN frames[u][i].todo
    PROVE  frames[u][i].todo[j].key \in Keys
<1>1. frames[u][i] \in Frame
  BY ElementOfSeq DEF TypeOK
<1>2. frames[u][i].todo \in Seq(Visit)
  BY <1>1 DEF Frame, Visit
<1>3. frames[u][i].todo[j] \in Visit
  BY <1>2, ElementOfSeq
<1>4. QED
  BY <1>3 DEF Visit

\* A step that leaves the queue alone and delivers nothing keeps the order if
\* the call it makes or changes fits in.
LEMMA OrderQuiet ==
    ASSUME TypeOK, TypeOK', Ordered, NEW g, OnlyNew(g), q' = q,
           \A k \in Keys : delivered'[k] = delivered[k] \/ delivered'[k] = <<>>,
           FrameInOrder(g), VisitsInOrder(g), ~(Executing(g) /\ Publishing(g)),
           \A j \in DOMAIN g.todo : g.todo[j].key \in Keys,
           \A u \in Threads : \A j \in DOMAIN frames[u] :
               /\ Executing(g) /\ Publishing(frames[u][j]) => Before(g.msg, frames[u][j].msg)
               /\ Publishing(g) /\ Executing(frames[u][j]) => Before(frames[u][j].msg, g.msg)
    PROVE  Ordered'
<1>t. QueueInOrder /\ ExecutedEarlier /\ DeliveredInOrder
  BY DEF Ordered
<1>d. \A k \in Keys : \A i \in DOMAIN delivered'[k] :
          i \in DOMAIN delivered[k] /\ delivered'[k][i] = delivered[k][i]
  <2>1. DOMAIN <<>> = {}
    OBVIOUS
  <2>2. QED
    BY <2>1
<1>1. ASSUME NEW f, FrameInOrder(f), VisitsInOrder(f), \A j \in DOMAIN f.todo : f.todo[j].key \in Keys
      PROVE  FrameInOrder(f)' /\ VisitsInOrder(f)'
  <2>1. FrameInOrder(f)'
    BY <1>d, <1>1 DEF FrameInOrder, Publishing, Executing, Before
  <2>2. VisitsInOrder(f)'
    <3>1. SUFFICES ASSUME Executing(f)
                   PROVE  /\ f.at = "lock_shared" => \A k \in Keys : \A i \in DOMAIN delivered'[k] :
                                                         Before(delivered'[k][i], f.msg)
                          /\ Reads(f) => \A j \in DOMAIN f.todo : \A i \in DOMAIN delivered'[f.todo[j].key] :
                                             Given(delivered'[f.todo[j].key][i], f.msg)
                          /\ Reads(f) /\ f.msg.topic.type # 0 =>
                                \A i, j \in DOMAIN f.todo : f.todo[i].key = f.todo[j].key => i = j
      BY DEF VisitsInOrder, Executing, Reads, Before, Given
    <3>2. /\ f.at = "lock_shared" => \A k \in Keys : \A i \in DOMAIN delivered[k] :
                                          Before(delivered[k][i], f.msg)
          /\ Reads(f) => \A j \in DOMAIN f.todo : \A i \in DOMAIN delivered[f.todo[j].key] :
                              Given(delivered[f.todo[j].key][i], f.msg)
          /\ Reads(f) /\ f.msg.topic.type # 0 =>
                \A i, j \in DOMAIN f.todo : f.todo[i].key = f.todo[j].key => i = j
      BY <1>1, <3>1 DEF VisitsInOrder
    <3>3. QED
      BY <1>d, <1>1, <3>2
  <2>3. QED
    BY <2>1, <2>2
<1>2. ASSUME NEW u \in Threads, NEW i \in DOMAIN frames'[u]
      PROVE  FrameInOrder(frames[u][i])' /\ VisitsInOrder(frames[u][i])'
  <2>1. CASE i \in DOMAIN frames[u] /\ frames'[u][i] = frames[u][i]
    <3>1. FrameInOrder(frames[u][i]) /\ VisitsInOrder(frames[u][i])
      BY <1>t, <2>1 DEF QueueInOrder, DeliveredInOrder
    <3>2. \A j \in DOMAIN frames[u][i].todo : frames[u][i].todo[j].key \in Keys
      BY <2>1, VisitsToKeys
    <3>3. PICK f : f = frames[u][i]
      OBVIOUS
    <3>4. FrameInOrder(f)' /\ VisitsInOrder(f)'
      BY <1>1, <3>1, <3>2, <3>3
    <3>5. f = frames'[u][i]
      BY <2>1, <3>3
    <3>6. QED
      BY <3>4, <3>5
  <2>2. CASE frames'[u][i] = g
    <3>1. FrameInOrder(g)' /\ VisitsInOrder(g)'
      BY <1>1
    <3>2. QED
      BY <2>2, <3>1
  <2>3. QED
    BY <2>1, <2>2 DEF OnlyNew
<1>3. QueueInOrder'
  <2>1. /\ \A i, j \in DOMAIN q' : i < j => Before(q'[i], q'[j])
        /\ \A k \in Keys : \A i \in DOMAIN delivered'[k], j \in DOMAIN q' : Before(delivered'[k][i], q'[j])
    BY <1>d, <1>t DEF QueueInOrder
  <2>2. QED
    BY <1>2, <2>1 DEF QueueInOrder, Before
<1>4. ExecutedEarlier'
  <2>1. SUFFICES ASSUME NEW a \in Threads, NEW b \in Threads,
                        NEW i \in DOMAIN frames'[a], NEW j \in DOMAIN frames'[b],
                        Executing(frames'[a][i]), Publishing(frames'[b][j])
                 PROVE  Before(frames'[a][i].msg, frames'[b][j].msg)
    BY DEF ExecutedEarlier, Executing, Publishing, Before
  <2>2. (i \in DOMAIN frames[a] /\ frames'[a][i] = frames[a][i]) \/ frames'[a][i] = g
    BY DEF OnlyNew
  <2>3. (j \in DOMAIN frames[b] /\ frames'[b][j] = frames[b][j]) \/ frames'[b][j] = g
    BY DEF OnlyNew
  <2>4. QED
    BY <1>t, <2>1, <2>2, <2>3 DEF ExecutedEarlier
<1>5. DeliveredInOrder'
  <2>1. \A k \in Keys : \A i, j \in DOMAIN delivered'[k] :
            i < j => Given(delivered'[k][i], delivered'[k][j])
    BY <1>d, <1>t DEF DeliveredInOrder
  <2>2. QED
    BY <1>2, <2>1 DEF DeliveredInOrder, Given
<1>6. QED
  BY <1>3, <1>4, <1>5 DEF Ordered

\* What is in order of the innermost call.
LEMMA TopInOrder ==
    ASSUME TypeOK, FramesKnown, Ordered, NEW t \in Threads, frames[t] # <<>>
    PROVE  /\ FrameInOrder(Top(t)) /\ VisitsInOrder(Top(t)) /\ ~(Executing(Top(t)) /\ Publishing(Top(t)))
           /\ \A j \in DOMAIN Top(t).todo : Top(t).todo[j].key \in Keys
           /\ \A u \in Threads : \A j \in DOMAIN frames[u] :
                 /\ Executing(Top(t)) /\ Publishing(frames[u][j]) => Before(Top(t).msg, frames[u][j].msg)
                 /\ Publishing(Top(t)) /\ Executing(frames[u][j]) => Before(frames[u][j].msg, Top(t).msg)
<1>1. /\ Len(frames[t]) \in DOMAIN frames[t] /\ Top(t) = frames[t][Len(frames[t])]
      /\ FrameKnown(t, Top(t), published)
  BY TopFits
<1>2. FrameInOrder(Top(t)) /\ VisitsInOrder(Top(t))
  BY <1>1 DEF Ordered, QueueInOrder, DeliveredInOrder
<1>3. ~(Executing(Top(t)) /\ Publishing(Top(t)))
  BY <1>1 DEF Executing, Publishing, FrameKnown
<1>4. \A j \in DOMAIN Top(t).todo : Top(t).todo[j].key \in Keys
  BY <1>1, VisitsToKeys
<1>5. ExecutedEarlier
  BY DEF Ordered
<1>6. QED
  BY <1>1, <1>2, <1>3, <1>4, <1>5 DEF ExecutedEarlier

\* A call that goes on with its message, and no nearer to the queue, keeps
\* the order.
LEMMA OrderTurn ==
    ASSUME TypeOK, FramesKnown, TypeOK', Ordered, NEW t \in Threads, NEW g, Turning(t, g),
           q' = q, delivered' = delivered, g.msg = Top(t).msg,
           Publishing(g) => Publishing(Top(t)), Executing(g) => Executing(Top(t)), VisitsInOrder(g)
    PROVE  Ordered'
<1>1. frames[t] # <<>> /\ Turn(t, g) /\ g \in Frame
  BY DEF Turning, Fits
<1>2. OldOrNew(t, Len(frames[t]), g)
  BY <1>1, Turned
<1>3. OnlyNew(g)
  BY <1>2 DEF OldOrNew, OnlyNew
<1>4. \A j \in DOMAIN g.todo : g.todo[j].key \in Keys
  <2>1. g.todo \in Seq(Visit)
    BY <1>1 DEF Frame, Visit
  <2>2. \A j \in DOMAIN g.todo : g.todo[j] \in Visit
    BY <2>1, ElementOfSeq
  <2>3. QED
    BY <2>2 DEF Visit
<1>5. /\ FrameInOrder(Top(t)) /\ ~(Executing(Top(t)) /\ Publishing(Top(t)))
      /\ \A u \in Threads : \A j \in DOMAIN frames[u] :
            /\ Executing(Top(t)) /\ Publishing(frames[u][j]) => Before(Top(t).msg, frames[u][j].msg)
            /\ Publishing(Top(t)) /\ Executing(frames[u][j]) => Before(frames[u][j].msg, Top(t).msg)
  BY <1>1, TopInOrder
<1>6. FrameInOrder(g) /\ ~(Executing(g) /\ Publishing(g))
  BY <1>5 DEF FrameInOrder
<1>7. QED
  BY <1>3, <1>4, <1>5, <1>6, OrderQuiet

\* A call that returns keeps the order.
LEMMA OrderReturn ==
    ASSUME TypeOK, FramesKnown, TypeOK', Ordered, NEW t \in Threads, frames[t] # <<>>, Return(t), q' = q,
           \A k \in Keys : delivered'[k] = delivered[k] \/ delivered'[k] = <<>>
    PROVE  Ordered'
<1>1. OnlyNew(Top(t))
  BY Returned DEF OnlyNew
<1>2. QED
  BY <1>1, TopInOrder, OrderQuiet

\* A call that begins with a new message, or with none, keeps the order.
LEMMA OrderCall ==
    ASSUME TypeOK, FramesKnown, MessagesKnown, TypeOK', Ordered, NEW t \in Threads, NEW f,
           Calling(t, f), q' = q, delivered' = delivered,
           f.op # "execute" \/ f.at = "pop", f.at # "has_topic" \/ f.msg.id = published + 1
    PROVE  Ordered'
<1>1. /\ Call(t, f) /\ f \in Frame /\ f.todo = <<>>
      /\ f.at \in {"lock", "has_topic", "lock_shared", "pop"}
  BY DEF Calling, Fits
<1>2. OldOrNew(t, Len(frames[t]) + 1, f)
  BY <1>1, Pushed
<1>3. OnlyNew(f)
  BY <1>2 DEF OldOrNew, OnlyNew
<1>4. ~Executing(f) /\ VisitsInOrder(f)
  BY DEF Executing, VisitsInOrder
<1>5. published \in Nat
  BY ChannelAssumption DEF TypeOK
<1>6. \A x \in Messages : x.id \in Nat
  BY ChannelAssumption DEF Messages
<1>7. \A i \in DOMAIN q : q[i].id \in Nat /\ q[i].id <= published
  <2>1. \A i \in DOMAIN q : q[i] \in Messages
    BY ElementOfSeq DEF TypeOK
  <2>2. QED
    BY <1>6, <2>1 DEF MessagesKnown
<1>8. \A k \in Keys : \A i \in DOMAIN delivered[k] :
          delivered[k][i].id \in Nat /\ delivered[k][i].id <= published
  <2>1. \A k \in Keys : \A i \in DOMAIN delivered[k] : delivered[k][i] \in Messages
    BY ElementOfSeq DEF TypeOK
  <2>2. QED
    BY <1>6, <2>1 DEF MessagesKnown
<1>9. ASSUME NEW u \in Threads, NEW j \in DOMAIN frames[u], Publishing(f), Executing(frames[u][j])
      PROVE  Before(frames[u][j].msg, f.msg)
  <2>1. frames[u][j].msg \in Messages /\ frames[u][j].msg.id <= published
    BY <1>9 DEF FramesKnown, FrameKnown, Executing
  <2>2. f.msg.id = published + 1
    BY <1>1, <1>9 DEF Publishing
  <2>3. QED
    BY <1>5, <1>6, <2>1, <2>2 DEF Before
<1>10. FrameInOrder(f)
  <2>1. SUFFICES ASSUME Publishing(f)
                 PROVE  /\ \A j \in DOMAIN q : Before(q[j], f.msg)
                        /\ \A k \in Keys : \A j \in DOMAIN delivered[k] : Before(delivered[k][j], f.msg)
    BY <1>4 DEF FrameInOrder
  <2>2. f.msg.id = published + 1
    BY <1>1, <2>1 DEF Publishing
  <2>3. QED
    BY <1>5, <1>7, <1>8, <2>2 DEF Before
<1>11. \A j \in DOMAIN f.todo : f.todo[j].key \in Keys
  <2>1. DOMAIN <<>> = {}
    OBVIOUS
  <2>2. QED
    BY <1>1, <2>1
<1>12. QED
  BY <1>3, <1>4, <1>9, <1>10, <1>11, OrderQuiet

\* Nothing is delivered: the visits of a call stay in order.
LEMMA VisitsKept ==
    ASSUME NEW f, VisitsInOrder(f), delivered' = delivered
    PROVE  VisitsInOrder(f)'
<1>1. SUFFICES ASSUME Executing(f)
               PROVE  /\ f.at = "lock_shared" => \A k \in Keys : \A i \in DOMAIN delivered'[k] :
                                                     Before(delivered'[k][i], f.msg)
                      /\ Reads(f) => \A j \in DOMAIN f.todo : \A i \in DOMAIN delivered'[f.todo[j].key] :
                                         Given(delivered'[f.todo[j].key][i], f.msg)
                      /\ Reads(f) /\ f.msg.topic.type # 0 =>
                            \A i, j \in DOMAIN f.todo : f.todo[i].key = f.todo[j].key => i = j
  BY DEF VisitsInOrder, Executing, Reads, Before, Given
<1>2. QED
  BY <1>1 DEF VisitsInOrder

\* What enqueue_checked() adds comes after all that was queued.
LEMMA OrderEnqueue ==
    ASSUME GInv, TypeOK', Ordered, NEW t \in Threads, Enqueue(t)
    PROVE  Ordered'
<1>t. TypeOK /\ Stacked /\ FramesKnown /\ q \in Seq(Messages)
  BY DEF GInv, TypeOK
<1>1. Top(t).msg \in Messages /\ Top(t).at = "enqueue"
  BY <1>t, EnqueueFits
<1>2. PICK g : Turning(t, g) /\ g.msg = Top(t).msg /\ g.op = "publish" /\ g.at = "lock_shared"
  BY <1>t, EnqueueFits
<1> DEFINE m == Top(t).msg  n == Len(frames[t])
<1>u. frames[t] # <<>> /\ q' = Append(q, m) /\ delivered' = delivered
  BY DEF Enqueue, At, history
<1>3. /\ Len(q) \in Nat /\ DOMAIN q = 1 .. Len(q) /\ DOMAIN q' = 1 .. Len(q) + 1
      /\ q'[Len(q) + 1] = m /\ \A i \in 1 .. Len(q) : q'[i] = q[i]
  BY <1>t, <1>1, <1>u
<1>4. \A i \in DOMAIN q' : (i \in DOMAIN q /\ q'[i] = q[i]) \/ (i = Len(q) + 1 /\ q'[i] = m)
  BY <1>3
<1>5. Publishing(Top(t)) /\ FrameKnown(t, Top(t), published) /\ n \in DOMAIN frames[t]
  BY <1>1, <1>t, <1>u, TopFits DEF Publishing
<1>6. /\ \A j \in DOMAIN q : Before(q[j], m)
      /\ \A k \in Keys : \A j \in DOMAIN delivered[k] : Before(delivered[k][j], m)
      /\ \A u \in Threads : \A j \in DOMAIN frames[u] : Executing(frames[u][j]) => Before(frames[u][j].msg, m)
  BY <1>5, <1>t, <1>u, TopInOrder DEF FrameInOrder
<1>7. m.by = t
  BY <1>1, <1>5 DEF FrameKnown
<1>8. /\ OldOrNew(t, n, g) /\ n \in DOMAIN frames'[t] /\ frames'[t][n] = g
  <2>1. Turn(t, g) /\ g \in Frame
    BY <1>2 DEF Turning, Fits
  <2>2. QED
    BY <1>t, <1>u, <2>1, Turned
<1>9. ~Publishing(g) /\ ~Executing(g)
  BY <1>2 DEF Publishing, Executing
<1>10. ASSUME NEW u \in Threads, NEW i \in DOMAIN frames'[u]
       PROVE  FrameInOrder(frames[u][i])' /\ VisitsInOrder(frames[u][i])'
  <2>1. CASE frames'[u][i] = g
    BY <1>9, <2>1 DEF FrameInOrder, VisitsInOrder, Publishing, Executing
  <2>2. CASE frames'[u][i] # g
    <3>1. i \in DOMAIN frames[u] /\ frames'[u][i] = frames[u][i] /\ ~(u = t /\ i = n)
      BY <1>8, <2>2 DEF OldOrNew
    <3>2. FrameInOrder(frames[u][i]) /\ VisitsInOrder(frames[u][i]) /\ FrameKnown(u, frames[u][i], published)
      BY <1>t, <3>1 DEF Ordered, QueueInOrder, DeliveredInOrder, FramesKnown
    <3>3. Publishing(frames[u][i]) => Before(m, frames[u][i].msg)
      <4>1. SUFFICES ASSUME Publishing(frames[u][i]) PROVE u # t /\ frames[u][i].msg.by = u
        BY <1>7 DEF Before
      <4>2. frames[u][i].msg.by = u
        BY <3>2, <4>1 DEF FrameKnown, Publishing
      <4>3. u # t
        <5>1. SUFFICES ASSUME u = t PROVE FALSE
          OBVIOUS
        <5>2. i < n
          BY <1>t, <3>1, <5>1 DEF TypeOK
        <5>3. frames[u][i].at = "callback"
          BY <1>t, <3>1, <5>1, <5>2 DEF Stacked
        <5>4. QED
          BY <4>1, <5>3 DEF Publishing
      <4>4. QED
        BY <4>2, <4>3
    <3>4. FrameInOrder(frames[u][i])'
      <4>1. Publishing(frames'[u][i]) =>
               /\ \A j \in DOMAIN q' : Before(q'[j], frames'[u][i].msg)
               /\ \A k \in Keys : \A j \in DOMAIN delivered'[k] : Before(delivered'[k][j], frames'[u][i].msg)
        BY <1>4, <1>u, <3>1, <3>2, <3>3 DEF FrameInOrder
      <4>2. Executing(frames'[u][i]) => \A j \in DOMAIN q' : Before(frames'[u][i].msg, q'[j])
        BY <1>4, <1>6, <3>1, <3>2 DEF FrameInOrder
      <4>3. QED
        BY <4>1, <4>2 DEF FrameInOrder, Publishing, Executing, Before
    <3>5. VisitsInOrder(frames[u][i])'
      <4>1. PICK f : f = frames[u][i]
        OBVIOUS
      <4>2. VisitsInOrder(f)'
        BY <1>u, <3>2, <4>1, VisitsKept
      <4>3. f = frames'[u][i]
        BY <3>1, <4>1
      <4>4. QED
        BY <4>2, <4>3
    <3>6. QED
      BY <3>4, <3>5
  <2>3. QED
    BY <2>1, <2>2
<1>11. QueueInOrder'
  <2>1. \A i, j \in DOMAIN q' : i < j => Before(q'[i], q'[j])
    <3>1. SUFFICES ASSUME NEW i \in DOMAIN q', NEW j \in DOMAIN q', i < j PROVE Before(q'[i], q'[j])
      OBVIOUS
    <3>2. i \in DOMAIN q /\ q'[i] = q[i]
      BY <1>3, <1>4, <3>1
    <3>3. CASE j \in DOMAIN q /\ q'[j] = q[j]
      BY <3>1, <3>2, <3>3 DEF Ordered, QueueInOrder
    <3>4. CASE q'[j] = m
      BY <1>6, <3>2, <3>4
    <3>5. QED
      BY <1>4, <3>3, <3>4
  <2>2. \A k \in Keys : \A i \in DOMAIN delivered'[k], j \in DOMAIN q' : Before(delivered'[k][i], q'[j])
    BY <1>4, <1>6, <1>u DEF Ordered, QueueInOrder
  <2>3. QED
    BY <1>10, <2>1, <2>2 DEF QueueInOrder, Before
<1>12. ExecutedEarlier'
  <2>1. SUFFICES ASSUME NEW a \in Threads, NEW b \in Threads,
                        NEW i \in DOMAIN frames'[a], NEW j \in DOMAIN frames'[b],
                        Executing(frames'[a][i]), Publishing(frames'[b][j])
                 PROVE  Before(frames'[a][i].msg, frames'[b][j].msg)
    BY DEF ExecutedEarlier, Executing, Publishing, Before
  <2>2. /\ i \in DOMAIN frames[a] /\ frames'[a][i] = frames[a][i]
        /\ j \in DOMAIN frames[b] /\ frames'[b][j] = frames[b][j]
    BY <1>8, <1>9, <2>1 DEF OldOrNew
  <2>3. QED
    BY <2>1, <2>2 DEF Ordered, ExecutedEarlier
<1>13. DeliveredInOrder'
  <2>1. \A k \in Keys : \A i, j \in DOMAIN delivered'[k] :
            i < j => Given(delivered'[k][i], delivered'[k][j])
    BY <1>u DEF Ordered, DeliveredInOrder
  <2>2. QED
    BY <1>10, <2>1 DEF DeliveredInOrder, Given
<1>14. QED
  BY <1>11, <1>12, <1>13 DEF Ordered

\* execute() pops what comes before all that stays in the queue.
LEMMA OrderPop ==
    ASSUME GInv, TypeOK', Ordered, NEW t \in Threads, Pop(t)
    PROVE  Ordered'
<1>t. TypeOK /\ FramesKnown /\ MessagesKnown /\ q \in Seq(Messages)
  BY DEF GInv, TypeOK
<1>o. QueueInOrder /\ ExecutedEarlier /\ DeliveredInOrder
  BY DEF Ordered
<1>1. Top(t).at = "pop" /\ Top(t).op = "execute"
  BY <1>t, PopFits
<1>2. PICK g : Turning(t, g) /\ g.msg = Head(q) /\ g.at = "lock_shared"
  BY <1>t, PopFits
<1>u. frames[t] # <<>> /\ q # <<>> /\ q' = Tail(q) /\ delivered' = delivered
  BY DEF Pop, At, history
<1>3. /\ Len(q) \in Nat /\ Len(q) # 0 /\ DOMAIN q = 1 .. Len(q) /\ Head(q) = q[1]
      /\ DOMAIN q' = 1 .. Len(q) - 1 /\ \A i \in 1 .. Len(q) - 1 : q'[i] = q[i + 1]
  BY <1>t, <1>u, EmptySeq, HeadTailProperties
<1>4. 1 \in DOMAIN q /\ \A i \in DOMAIN q' : i + 1 \in DOMAIN q /\ q'[i] = q[i + 1] /\ 1 < i + 1
  BY <1>3
<1>5. /\ OldOrNew(t, Len(frames[t]), g) /\ g \in Frame /\ g.op = "execute"
  <2>1. Turn(t, g) /\ g \in Frame /\ g.op = "execute"
    BY <1>1, <1>2 DEF Turning, Fits
  <2>2. QED
    BY <1>t, <1>u, <2>1, Turned
<1>6. ~Publishing(g) /\ ~Reads(g) /\ g.msg = q[1]
  BY <1>2, <1>3 DEF Publishing, Reads
<1>7. /\ \A j \in DOMAIN q' : Before(q[1], q'[j])
      /\ \A k \in Keys : \A i \in DOMAIN delivered'[k] : Before(delivered'[k][i], q[1])
  BY <1>4, <1>o, <1>u DEF QueueInOrder
<1>8. FrameInOrder(g)' /\ VisitsInOrder(g)'
  <2>1. FrameInOrder(g)'
    BY <1>6, <1>7 DEF FrameInOrder, Publishing, Executing, Before
  <2>2. VisitsInOrder(g)'
    BY <1>6, <1>7 DEF VisitsInOrder, Executing, Reads, Before
  <2>3. QED
    BY <2>1, <2>2
<1>9. ASSUME NEW u \in Threads, NEW i \in DOMAIN frames'[u]
      PROVE  FrameInOrder(frames[u][i])' /\ VisitsInOrder(frames[u][i])'
  <2>1. CASE frames'[u][i] = g
    BY <1>8, <2>1
  <2>2. CASE i \in DOMAIN frames[u] /\ frames'[u][i] = frames[u][i]
    <3>1. PICK f : f = frames[u][i]
      OBVIOUS
    <3>2. FrameInOrder(f) /\ VisitsInOrder(f)
      BY <1>o, <2>2, <3>1 DEF QueueInOrder, DeliveredInOrder
    <3>3. VisitsInOrder(f)'
      BY <1>u, <3>2, VisitsKept
    <3>4. FrameInOrder(f)'
      <4>1. \A j \in DOMAIN q' : \E l \in DOMAIN q : q'[j] = q[l]
        BY <1>4
      <4>2. Publishing(f) =>
               /\ \A j \in DOMAIN q' : Before(q'[j], f.msg)
               /\ \A k \in Keys : \A j \in DOMAIN delivered'[k] : Before(delivered'[k][j], f.msg)
        BY <1>u, <3>2, <4>1 DEF FrameInOrder
      <4>3. Executing(f) => \A j \in DOMAIN q' : Before(f.msg, q'[j])
        BY <3>2, <4>1 DEF FrameInOrder
      <4>4. QED
        BY <4>2, <4>3 DEF FrameInOrder, Publishing, Executing, Before
    <3>5. f = frames'[u][i]
      BY <2>2, <3>1
    <3>6. QED
      BY <3>3, <3>4, <3>5
  <2>3. QED
    BY <1>5, <2>1, <2>2 DEF OldOrNew
<1>10. QueueInOrder'
  <2>1. \A i, j \in DOMAIN q' : i < j => Before(q'[i], q'[j])
    <3>1. SUFFICES ASSUME NEW i \in DOMAIN q', NEW j \in DOMAIN q', i < j PROVE Before(q'[i], q'[j])
      OBVIOUS
    <3>2. i + 1 < j + 1
      BY <1>3, <3>1
    <3>3. QED
      BY <1>4, <1>o, <3>2 DEF QueueInOrder
  <2>2. \A k \in Keys : \A i \in DOMAIN delivered'[k], j \in DOMAIN q' : Before(delivered'[k][i], q'[j])
    BY <1>4, <1>o, <1>u DEF QueueInOrder
  <2>3. QED
    BY <1>9, <2>1, <2>2 DEF QueueInOrder, Before
<1>11. ExecutedEarlier'
  <2>1. SUFFICES ASSUME NEW a \in Threads, NEW b \in Threads,
                        NEW i \in DOMAIN frames'[a], NEW j \in DOMAIN frames'[b],
                        Executing(frames'[a][i]), Publishing(frames'[b][j])
                 PROVE  Before(frames'[a][i].msg, frames'[b][j].msg)
    BY DEF ExecutedEarlier, Executing, Publishing, Before
  <2>2. j \in DOMAIN frames[b] /\ frames'[b][j] = frames[b][j]
    BY <1>5, <1>6, <2>1 DEF OldOrNew
  <2>3. CASE i \in DOMAIN frames[a] /\ frames'[a][i] = frames[a][i]
    BY <1>o, <2>1, <2>2, <2>3 DEF ExecutedEarlier
  <2>4. CASE frames'[a][i] = g
    <3>1. FrameInOrder(frames[b][j])
      BY <1>o, <2>2 DEF QueueInOrder
    <3>2. QED
      BY <1>4, <1>6, <2>1, <2>2, <2>4, <3>1 DEF FrameInOrder
  <2>5. QED
    BY <1>5, <2>3, <2>4 DEF OldOrNew
<1>12. DeliveredInOrder'
  <2>1. \A k \in Keys : \A i, j \in DOMAIN delivered'[k] :
            i < j => Given(delivered'[k][i], delivered'[k][j])
    BY <1>o, <1>u DEF DeliveredInOrder
  <2>2. QED
    BY <1>9, <2>1 DEF DeliveredInOrder, Given
<1>13. QED
  BY <1>10, <1>11, <1>12 DEF Ordered

\* execute() visits subscriptions that have not been given its message, each
\* once if the message's topic is not a group's.
LEMMA OrderLockShared ==
    ASSUME GInv, TypeOK', Ordered, NEW t \in Threads, LockShared(t)
    PROVE  Ordered'
<1>t. TypeOK /\ FramesKnown /\ KeysMatchEntries
  BY DEF GInv
<1>1. /\ Top(t).at = "lock_shared" /\ Top(t).msg \in Messages
  BY <1>t, LockSharedFits
<1>2. PICK g : /\ Turning(t, g) /\ g.msg = Top(t).msg /\ g.at = "posting"
               /\ g.topics = Top(t).topics /\ g.todo = Visits(Top(t).mode, Top(t).topics)
  BY <1>t, LockSharedFits
<1>u. q' = q /\ delivered' = delivered
  BY DEF LockShared, history
<1>3. /\ frames[t] # <<>> /\ g.op = Top(t).op /\ g \in Frame
  BY <1>2 DEF Turning, Fits
<1>4. /\ VisitsInOrder(Top(t)) /\ FrameKnown(t, Top(t), published) /\ Top(t) \in Frame
  BY <1>3, <1>t, TopFits, TopInOrder
<1>5. VisitsInOrder(g)
  <2>1. SUFFICES ASSUME Executing(g)
                 PROVE  /\ \A j \in DOMAIN g.todo : \A i \in DOMAIN delivered[g.todo[j].key] :
                                Given(delivered[g.todo[j].key][i], g.msg)
                        /\ g.msg.topic.type # 0 =>
                              \A i, j \in DOMAIN g.todo : g.todo[i].key = g.todo[j].key => i = j
    BY <1>2 DEF VisitsInOrder
  <2>2. Executing(Top(t)) /\ Top(t).topics = TopicsOf(Top(t).msg)
    BY <1>1, <1>3, <1>4, <2>1 DEF Executing, FrameKnown
  <2>3. \A k \in Keys : \A i \in DOMAIN delivered[k] : Before(delivered[k][i], g.msg)
    BY <1>1, <1>2, <1>4, <2>2 DEF VisitsInOrder
  <2>4. \A j \in DOMAIN g.todo : g.todo[j].key \in Keys
    <3>1. g.todo \in Seq(Visit)
      BY <1>3 DEF Frame, Visit
    <3>2. \A j \in DOMAIN g.todo : g.todo[j] \in Visit
      BY <3>1, ElementOfSeq
    <3>3. QED
      BY <3>2 DEF Visit
  <2>5. \A j \in DOMAIN g.todo : \A i \in DOMAIN delivered[g.todo[j].key] :
             Given(delivered[g.todo[j].key][i], g.msg)
    BY <2>3, <2>4 DEF Given, Before
  <2>6. ASSUME g.msg.topic.type # 0
        PROVE  \A i, j \in DOMAIN g.todo : g.todo[i].key = g.todo[j].key => i = j
    <3>0. Top(t).mode \in Modes /\ Top(t).topics \in Seq(Topic)
      BY <1>4 DEF Frame
    <3>1. /\ Len(Top(t).topics) = 2
          /\ Top(t).topics[1] = g.msg.topic /\ Top(t).topics[2] = group_topic(g.msg.topic)
      BY <1>2, <2>2 DEF TopicsOf
    <3>2. Top(t).topics[1] # Top(t).topics[2]
      BY <2>6, <3>1 DEF group_topic
    <3>3. QED
      BY <1>2, <1>t, <3>0, <3>1, <3>2, VisitsAre
  <2>7. QED
    BY <2>5, <2>6
<1>6. ~Publishing(g) /\ (Executing(g) => Executing(Top(t)))
  BY <1>1, <1>2, <1>3 DEF Publishing, Executing
<1>7. QED
  BY <1>2, <1>5, <1>6, <1>t, <1>u, OrderTurn

\* sub::post() from execute(): no other call executes, and the subscription
\* has not been given the message.
LEMMA OrderGiven ==
    ASSUME GInv, TypeOK', Ordered, OneExecute,
           NEW t \in Threads, NEW g, NEW k \in Keys, NEW m \in Messages,
           Turning(t, g), Executing(Top(t)), Reads(Top(t)), Top(t).todo # <<>>,
           k = Head(Top(t).todo).key, m = Top(t).msg,
           g.msg = m, Reads(g), g.todo = Tail(Top(t).todo), q' = q,
           delivered' = [delivered EXCEPT ![k] = Append(@, m)]
    PROVE  Ordered'
<1>t. /\ TypeOK /\ FramesKnown /\ frames[t] # <<>> /\ delivered \in [Keys -> Seq(Messages)]
      /\ delivered[k] \in Seq(Messages)
  BY DEF GInv, TypeOK, Turning
<1>o. QueueInOrder /\ ExecutedEarlier /\ DeliveredInOrder
  BY DEF Ordered
<1> DEFINE f == Top(t)
<1>1. /\ Len(frames[t]) \in DOMAIN frames[t] /\ f = frames[t][Len(frames[t])] /\ f \in Frame
      /\ f.todo \in Seq(Visit) /\ FrameInOrder(f) /\ VisitsInOrder(f)
      /\ \A u \in Threads : \A j \in DOMAIN frames[u] : Publishing(frames[u][j]) => Before(m, frames[u][j].msg)
  <2>1. Len(frames[t]) \in DOMAIN frames[t] /\ f = frames[t][Len(frames[t])] /\ f \in Frame
    BY <1>t, TopFits
  <2>2. f.todo \in Seq(Visit)
    BY <2>1 DEF Frame, Visit
  <2>3. /\ FrameInOrder(f) /\ VisitsInOrder(f)
        /\ \A u \in Threads : \A j \in DOMAIN frames[u] :
              Publishing(frames[u][j]) => Before(m, frames[u][j].msg)
    BY <1>t, TopInOrder
  <2>4. QED
    BY <2>1, <2>2, <2>3
<1>2. t = Owner /\ Len(frames[t]) = 1
  BY <1>1 DEF OneExecute, Executing
<1>3. OldOrNew(t, Len(frames[t]), g) /\ g.op = "execute" /\ ~Publishing(g) /\ Executing(g)
  <2>1. Turn(t, g) /\ g \in Frame /\ g.op = f.op
    BY DEF Turning, Fits
  <2>2. OldOrNew(t, Len(frames[t]), g)
    BY <1>t, <2>1, Turned
  <2>3. g.op = "execute" /\ g.at # "pop" /\ ~Publishing(g)
    BY <2>1 DEF Executing, Reads, Publishing
  <2>4. QED
    BY <2>2, <2>3 DEF Executing
<1>4. /\ k = f.todo[1] .key /\ 1 \in DOMAIN f.todo
      /\ \A j \in DOMAIN g.todo : j + 1 \in DOMAIN f.todo /\ g.todo[j] = f.todo[j + 1] /\ j + 1 # 1
      /\ \A i, j \in DOMAIN g.todo : i + 1 = j + 1 => i = j
  <2>1. Len(f.todo) \in Nat /\ Len(f.todo) # 0 /\ DOMAIN f.todo = 1 .. Len(f.todo)
    BY <1>1, EmptySeq
  <2>2. /\ Head(f.todo) = f.todo[1] /\ DOMAIN Tail(f.todo) = 1 .. Len(f.todo) - 1
        /\ \A i \in 1 .. Len(f.todo) - 1 : Tail(f.todo)[i] = f.todo[i + 1]
    BY <1>1, <2>1, HeadTailProperties
  <2>3. QED
    BY <2>1, <2>2
<1> HIDE DEF f
<1>5. \A j \in DOMAIN f.todo : f.todo[j].key \in Keys
  <2>1. \A j \in DOMAIN f.todo : f.todo[j] \in Visit
    BY <1>1, ElementOfSeq
  <2>2. QED
    BY <2>1 DEF Visit
<1>6. /\ \A x \in Keys : x # k => delivered'[x] = delivered[x]
      /\ DOMAIN delivered[k] = 1 .. Len(delivered[k]) /\ Len(delivered[k]) \in Nat
      /\ DOMAIN delivered'[k] = 1 .. Len(delivered[k]) + 1 /\ delivered'[k][Len(delivered[k]) + 1] = m
      /\ \A i \in 1 .. Len(delivered[k]) : delivered'[k][i] = delivered[k][i]
  <2>1. delivered'[k] = Append(delivered[k], m) /\ \A x \in Keys : x # k => delivered'[x] = delivered[x]
    BY <1>t
  <2>2. QED
    BY <1>t, <2>1
<1>7. \A x \in Keys : \A i \in DOMAIN delivered'[x] :
         \/ i \in DOMAIN delivered[x] /\ delivered'[x][i] = delivered[x][i]
         \/ x = k /\ i = Len(delivered[k]) + 1 /\ delivered'[x][i] = m
  BY <1>6
<1>8. /\ \A j \in DOMAIN q : Before(m, q[j])
      /\ \A j \in DOMAIN f.todo : \A i \in DOMAIN delivered[f.todo[j].key] :
             Given(delivered[f.todo[j].key][i], m)
      /\ m.topic.type # 0 => \A i, j \in DOMAIN f.todo : f.todo[i].key = f.todo[j].key => i = j
  BY <1>1 DEF FrameInOrder, VisitsInOrder, f
<1>9. FrameInOrder(g)' /\ VisitsInOrder(g)'
  <2>1. FrameInOrder(g)'
    BY <1>3, <1>8 DEF FrameInOrder, Publishing, Executing, Before
  <2>2. \A j \in DOMAIN g.todo : \A i \in DOMAIN delivered'[g.todo[j].key] :
             Given(delivered'[g.todo[j].key][i], m)
    <3>1. SUFFICES ASSUME NEW j \in DOMAIN g.todo, NEW i \in DOMAIN delivered'[g.todo[j].key]
                   PROVE  Given(delivered'[g.todo[j].key][i], m)
      OBVIOUS
    <3>2. j + 1 \in DOMAIN f.todo /\ g.todo[j] = f.todo[j + 1] /\ j + 1 # 1 /\ g.todo[j].key \in Keys
      BY <1>4, <1>5
    <3>3. CASE i \in DOMAIN delivered[g.todo[j].key]
               /\ delivered'[g.todo[j].key][i] = delivered[g.todo[j].key][i]
      BY <1>8, <3>2, <3>3
    <3>4. CASE g.todo[j].key = k /\ delivered'[g.todo[j].key][i] = m
      <4>1. m.topic.type = 0
        BY <1>4, <1>8, <3>2, <3>4
      <4>2. QED
        BY <3>4, <4>1 DEF Given
    <3>5. QED
      BY <1>7, <3>1, <3>2, <3>3, <3>4
  <2>3. m.topic.type # 0 => \A i, j \in DOMAIN g.todo : g.todo[i].key = g.todo[j].key => i = j
    BY <1>4, <1>8
  <2>4. VisitsInOrder(g)'
    <3>1. g.at # "lock_shared"
      BY DEF Reads
    <3>2. QED
      BY <2>2, <2>3, <3>1 DEF VisitsInOrder, Executing, Reads, Given
  <2>5. QED
    BY <2>1, <2>4
<1>10. ASSUME NEW u \in Threads, NEW i \in DOMAIN frames'[u]
       PROVE  FrameInOrder(frames[u][i])' /\ VisitsInOrder(frames[u][i])'
  <2>1. CASE frames'[u][i] = g
    BY <1>9, <2>1
  <2>2. CASE frames'[u][i] # g
    <3>0. i \in DOMAIN frames[u] /\ frames'[u][i] = frames[u][i] /\ ~(u = t /\ i = 1)
      <4>1. i \in DOMAIN frames[u] /\ frames'[u][i] = frames[u][i]
        BY <1>3, <2>2 DEF OldOrNew
      <4>2. ASSUME u = t, i = 1 PROVE FALSE
        <5>1. Turn(t, g) /\ g \in Frame
          BY DEF Turning, Fits
        <5>2. frames'[t][Len(frames[t])] = g
          BY <1>t, <5>1, Turned
        <5>3. QED
          BY <1>2, <2>2, <4>2, <5>2
      <4>3. QED
        BY <4>1, <4>2
    <3>1. PICK x : x = frames[u][i]
      OBVIOUS
    <3>2. FrameInOrder(x) /\ ~Executing(x) /\ (Publishing(x) => Before(m, x.msg))
      BY <1>1, <1>2, <1>o, <3>0, <3>1 DEF QueueInOrder, OneExecute, Executing
    <3>3. VisitsInOrder(x)'
      BY <3>2 DEF VisitsInOrder, Executing
    <3>4. Publishing(x) =>
             /\ \A j \in DOMAIN q : Before(q[j], x.msg)
             /\ \A y \in Keys : \A j \in DOMAIN delivered'[y] : Before(delivered'[y][j], x.msg)
      BY <1>7, <3>2 DEF FrameInOrder
    <3>5. FrameInOrder(x)'
      BY <3>2, <3>4 DEF FrameInOrder, Publishing, Executing, Before
    <3>6. x = frames'[u][i]
      BY <3>0, <3>1
    <3>7. QED
      BY <3>3, <3>5, <3>6
  <2>3. QED
    BY <2>1, <2>2
<1>11. QueueInOrder'
  <2>1. /\ \A i, j \in DOMAIN q' : i < j => Before(q'[i], q'[j])
        /\ \A x \in Keys : \A i \in DOMAIN delivered'[x], j \in DOMAIN q' : Before(delivered'[x][i], q'[j])
    BY <1>7, <1>8, <1>o DEF QueueInOrder
  <2>2. QED
    BY <1>10, <2>1 DEF QueueInOrder, Before
<1>12. ExecutedEarlier'
  <2>1. SUFFICES ASSUME NEW a \in Threads, NEW b \in Threads,
                        NEW i \in DOMAIN frames'[a], NEW j \in DOMAIN frames'[b],
                        Executing(frames'[a][i]), Publishing(frames'[b][j])
                 PROVE  Before(frames'[a][i].msg, frames'[b][j].msg)
    BY DEF ExecutedEarlier, Executing, Publishing, Before
  <2>2. j \in DOMAIN frames[b] /\ frames'[b][j] = frames[b][j]
    BY <1>3, <2>1 DEF OldOrNew
  <2>3. CASE i \in DOMAIN frames[a] /\ frames'[a][i] = frames[a][i]
    BY <1>o, <2>1, <2>2, <2>3 DEF ExecutedEarlier
  <2>4. CASE frames'[a][i] = g
    BY <1>1, <2>1, <2>2, <2>4
  <2>5. QED
    BY <1>3, <2>3, <2>4 DEF OldOrNew
<1>13. DeliveredInOrder'
  <2>1. ASSUME NEW x \in Keys, NEW i \in DOMAIN delivered'[x], NEW j \in DOMAIN delivered'[x], i < j
        PROVE  Given(delivered'[x][i], delivered'[x][j])
    <3>1. i \in DOMAIN delivered[x] /\ delivered'[x][i] = delivered[x][i]
      BY <1>6, <1>7, <2>1
    <3>2. CASE j \in DOMAIN delivered[x] /\ delivered'[x][j] = delivered[x][j]
      BY <1>o, <2>1, <3>1, <3>2 DEF DeliveredInOrder
    <3>3. CASE x = k /\ delivered'[x][j] = m
      <4>1. \A l \in DOMAIN delivered[k] : Given(delivered[k][l], m)
        BY <1>4, <1>8
      <4>2. QED
        BY <3>1, <3>3, <4>1
    <3>4. QED
      BY <1>7, <3>2, <3>3
  <2>2. QED
    BY <1>10, <2>1 DEF DeliveredInOrder, Given
<1>14. QED
  BY <1>11, <1>12, <1>13 DEF Ordered

\* A delivery keeps the order.
LEMMA OrderDeliver ==
    ASSUME GInv, TypeOK', Ordered, OneExecute, NEW t \in Threads, Deliver(t)
    PROVE  Ordered'
<1>t. TypeOK /\ FramesKnown
  BY DEF GInv
<1> DEFINE f == Top(t)  k == Head(f.todo).key  m == f.msg  hits == match(Head(f.todo).topic, m.topic)
<1>1. /\ frames[t] # <<>> /\ Reads(f) /\ f.todo # <<>> /\ f.todo \in Seq(Visit)
      /\ f.op \in {"publish", "post", "execute"} /\ m \in Messages
  BY <1>t, DeliverFits
<1>2. PICK g : /\ Turning(t, g) /\ g.msg = m /\ g.at = (IF hits THEN "callback" ELSE "posting")
               /\ g.todo = Tail(f.todo)
  BY <1>t, DeliverFits
<1>u. /\ q' = q
      /\ delivered' = IF hits /\ f.mode = "delayed"
                      THEN [delivered EXCEPT ![k] = Append(@, m)] ELSE delivered
  BY DEF Deliver
<1>3. FrameKnown(t, f, published) /\ VisitsInOrder(f)
  BY <1>1, <1>t, TopFits, TopInOrder
<1>4. /\ Reads(g) /\ ~Publishing(g) /\ g.op = f.op
      /\ Executing(g) => Executing(f)
  BY <1>1, <1>2 DEF Reads, Publishing, Turning, Executing
<1> HIDE DEF f, hits
<1>5. /\ Head(f.todo) \in Visit /\ Head(f.todo) = f.todo[1]
      /\ \A j \in DOMAIN g.todo : j + 1 \in DOMAIN f.todo /\ g.todo[j] = f.todo[j + 1]
      /\ \A i, j \in DOMAIN g.todo : i + 1 = j + 1 => i = j
  <2>1. Len(f.todo) \in Nat /\ Len(f.todo) # 0 /\ DOMAIN f.todo = 1 .. Len(f.todo)
    BY <1>1, EmptySeq
  <2>2. /\ Head(f.todo) \in Visit /\ Head(f.todo) = f.todo[1]
        /\ DOMAIN Tail(f.todo) = 1 .. Len(f.todo) - 1
        /\ \A i \in 1 .. Len(f.todo) - 1 : Tail(f.todo)[i] = f.todo[i + 1]
    BY <1>1, <2>1, HeadTailProperties, ElementOfSeq
  <2>3. QED
    BY <1>2, <2>1, <2>2
<1>6. CASE hits /\ f.mode = "delayed"
  <2>1. Executing(f)
    BY <1>1, <1>3, <1>6 DEF FrameKnown, Executing, Reads
  <2>2. k \in Keys
    BY <1>5 DEF Visit
  <2>3. delivered' = [delivered EXCEPT ![k] = Append(@, m)]
    BY <1>6, <1>u
  <2>4. QED
    BY <1>1, <1>2, <1>4, <1>u, <2>1, <2>2, <2>3, OrderGiven DEF f
<1>7. CASE ~(hits /\ f.mode = "delayed")
  <2>1. delivered' = delivered
    BY <1>7, <1>u
  <2>2. VisitsInOrder(g)
    <3>1. SUFFICES ASSUME Executing(g)
                   PROVE  /\ \A j \in DOMAIN g.todo : \A i \in DOMAIN delivered[g.todo[j].key] :
                                  Given(delivered[g.todo[j].key][i], g.msg)
                          /\ g.msg.topic.type # 0 =>
                                \A i, j \in DOMAIN g.todo : g.todo[i].key = g.todo[j].key => i = j
      BY <1>4 DEF VisitsInOrder, Reads
    <3>2. /\ \A j \in DOMAIN f.todo : \A i \in DOMAIN delivered[f.todo[j].key] :
                 Given(delivered[f.todo[j].key][i], m)
          /\ m.topic.type # 0 =>
                \A i, j \in DOMAIN f.todo : f.todo[i].key = f.todo[j].key => i = j
      BY <1>1, <1>3, <1>4, <3>1 DEF VisitsInOrder
    <3>3. \A j \in DOMAIN g.todo : \A i \in DOMAIN delivered[g.todo[j].key] :
               Given(delivered[g.todo[j].key][i], m)
      BY <1>5, <3>2
    <3>4. m.topic.type # 0 => \A i, j \in DOMAIN g.todo : g.todo[i].key = g.todo[j].key => i = j
      BY <1>5, <3>2
    <3>5. QED
      BY <1>2, <3>3, <3>4
  <2>3. QED
    BY <1>2, <1>4, <1>t, <1>u, <2>1, <2>2, OrderTurn DEF f
<1>8. QED
  BY <1>6, <1>7

\* A step within a call keeps the order.
LEMMA OrderStep ==
    ASSUME GInv, TypeOK', Ordered, OneExecute, NEW t \in Threads, Step(t)
    PROVE  Ordered' /\ Moves(t)
<1>t. TypeOK /\ FramesKnown /\ MessagesKnown /\ KeysMatchEntries
  BY DEF GInv
<1>1. ASSUME LockUnique(t) PROVE Ordered' /\ Moves(t)
  <2>1. PICK g : Turning(t, g) /\ g.at = "drain" /\ g.msg = Top(t).msg
    BY <1>t, <1>1, LockUniqueFits
  <2>2. q' = q /\ delivered' = delivered /\ frames[t] # <<>> /\ Top(t).at = "lock"
    BY <1>1 DEF LockUnique, At, history
  <2>3. FrameKnown(t, Top(t), published) /\ g.op = Top(t).op
    BY <1>t, <2>1, <2>2, TopFits DEF Turning
  <2>4. ~Publishing(g) /\ ~Executing(g) /\ VisitsInOrder(g)
    BY <2>1, <2>2, <2>3 DEF FrameKnown, Publishing, Executing, VisitsInOrder
  <2>5. QED
    BY <1>t, <2>1, <2>2, <2>4, OrderTurn DEF Moves
<1>2. ASSUME NEW k \in Keys, subscribe(t, k) PROVE Ordered' /\ Moves(t)
  <2>1. frames[t] # <<>> /\ Return(t) /\ q' = q /\ delivered' = delivered
    BY <1>2 DEF subscribe, At, history
  <2>2. QED
    BY <1>t, <2>1, OrderReturn DEF Moves
<1>3. ASSUME unsubscribe(t) PROVE Ordered' /\ Moves(t)
  <2>1. /\ frames[t] # <<>> /\ Return(t) /\ q' = q
        /\ delivered' = delivered \/ delivered' = [delivered EXCEPT ![Top(t).key] = <<>>]
    BY <1>3 DEF unsubscribe, At, history, Forget
  <2>2. delivered \in [Keys -> Seq(Messages)]
    BY <1>t DEF TypeOK
  <2>3. \A x \in Keys : delivered'[x] = delivered[x] \/ delivered'[x] = <<>>
    BY <2>1, <2>2
  <2>4. QED
    BY <1>t, <2>1, <2>3, OrderReturn DEF Moves
<1>4. ASSUME HasTopic(t) \/ HasGroup(t) PROVE Ordered' /\ Moves(t)
  <2>1. PICK g : /\ Turning(t, g) /\ g.msg = Top(t).msg /\ g.op = "publish"
                 /\ Top(t).at \in {"has_topic", "has_group"}
    BY <1>t, <1>4, HasTopicFits, HasGroupFits
  <2>2. q' = q /\ delivered' = delivered
    BY <1>4 DEF HasTopic, HasGroup, history
  <2>3. Publishing(Top(t)) /\ ~Executing(g) /\ VisitsInOrder(g)
    BY <2>1 DEF Publishing, Executing, VisitsInOrder
  <2>4. QED
    BY <1>t, <2>1, <2>2, <2>3, OrderTurn DEF Moves
<1>5. ASSUME Enqueue(t) PROVE Ordered' /\ Moves(t)
  BY <1>t, <1>5, OrderEnqueue, EnqueueFits DEF Moves
<1>6. ASSUME Pop(t) PROVE Ordered' /\ Moves(t)
  BY <1>t, <1>6, OrderPop, PopFits DEF Moves
<1>7. ASSUME PopNothing(t) PROVE Ordered' /\ Moves(t)
  <2>1. frames[t] # <<>> /\ Return(t) /\ q' = q /\ delivered' = delivered
    BY <1>7 DEF PopNothing, At, history
  <2>2. QED
    BY <1>t, <2>1, OrderReturn DEF Moves
<1>8. ASSUME LockShared(t) PROVE Ordered' /\ Moves(t)
  BY <1>t, <1>8, OrderLockShared, LockSharedFits DEF Moves
<1>9. ASSUME Deliver(t) PROVE Ordered' /\ Moves(t)
  BY <1>t, <1>9, OrderDeliver, DeliverFits DEF Moves
<1>10. ASSUME Posted(t) PROVE Ordered' /\ Moves(t)
  <2>1. q' = q /\ delivered' = delivered /\ frames[t] # <<>>
    BY <1>10 DEF Posted, history
  <2>2. CASE Return(t)
    BY <1>t, <2>1, <2>2, OrderReturn DEF Moves
  <2>3. ASSUME NEW g, Turning(t, g), g.at = "pop", g.msg = Top(t).msg PROVE Ordered' /\ Moves(t)
    <3>1. ~Publishing(g) /\ ~Executing(g) /\ VisitsInOrder(g)
      BY <2>3 DEF Publishing, Executing, VisitsInOrder
    <3>2. QED
      BY <1>t, <2>1, <2>3, <3>1, OrderTurn DEF Moves
  <2>4. QED
    BY <1>t, <1>10, <2>2, <2>3, PostedFits
<1>11. QED
  BY <1>1, <1>2, <1>3, <1>4, <1>5, <1>6, <1>7, <1>8, <1>9, <1>10 DEF Step

\* A call that begins keeps the order.
LEMMA OrderBegin ==
    ASSUME GInv, TypeOK', Ordered, NEW t \in Threads, Begin(t)
    PROVE  Ordered' /\ Moves(t)
<1>t. TypeOK /\ FramesKnown /\ MessagesKnown
  BY DEF GInv
<1>1. ASSUME NEW link \in Links, CallSubscribe(t, link) PROVE Ordered' /\ Moves(t)
  <2>1. PICK f : Calling(t, f) /\ f.op = "subscribe" /\ f.at = "lock"
    BY <1>t, <1>1, CallSubscribeFits
  <2>2. q' = q /\ delivered' = delivered
    BY <1>1 DEF CallSubscribe, history
  <2>3. QED
    BY <1>t, <2>1, <2>2, OrderCall DEF Moves
<1>2. ASSUME NEW k \in Keys, CallUnsubscribe(t, k) PROVE Ordered' /\ Moves(t)
  <2>1. PICK f : Calling(t, f) /\ f.op = "unsubscribe" /\ f.at = "lock"
    BY <1>t, <1>2, CallUnsubscribeFits
  <2>2. q' = q /\ delivered' = delivered
    BY <1>2 DEF CallUnsubscribe, history
  <2>3. QED
    BY <1>t, <2>1, <2>2, OrderCall DEF Moves
<1>3. ASSUME NEW tp \in Topics, NEW more, publish(t, tp, more),
             more = <<>> \/ \E other \in Topics : more = <<other, group_topic(other)>>
      PROVE  Ordered' /\ Moves(t)
  <2>1. PICK f : Calling(t, f) /\ f.op = "publish" /\ f.msg = Message(t, tp)
    BY <1>t, <1>3, PublishFits
  <2>2. q' = q /\ delivered' = delivered /\ published < MaxMessages
    BY <1>3 DEF publish
  <2>3. f.msg.id = published + 1
    BY <1>t, <2>1, <2>2, MessageFits
  <2>4. QED
    BY <1>t, <2>1, <2>2, <2>3, OrderCall DEF Moves
<1>4. ASSUME NEW tp \in Topics, post(t, tp) PROVE Ordered' /\ Moves(t)
  <2>1. PICK f : Calling(t, f) /\ f.op = "post" /\ f.at = "lock_shared"
    BY <1>t, <1>4, PostFits
  <2>2. q' = q /\ delivered' = delivered
    BY <1>4 DEF post, history
  <2>3. QED
    BY <1>t, <2>1, <2>2, OrderCall DEF Moves
<1>5. ASSUME execute(t) PROVE Ordered' /\ Moves(t)
  <2>1. Calling(t, NewFrame) /\ NewFrame.at = "pop"
    BY <1>t, <1>5, ExecuteFits, NewFrameFits
  <2>2. q' = q /\ delivered' = delivered
    BY <1>5 DEF execute, history
  <2>3. QED
    BY <1>t, <2>1, <2>2, OrderCall DEF Moves
<1>6. QED
  BY <1>1, <1>2, <1>3, <1>4, <1>5 DEF Begin

\* Every step keeps the second part of the invariant.
LEMMA OStep == ASSUME GInv, OInv, [Next]_vars PROVE OInv'
<1>1. SUFFICES ASSUME "execute" \notin Reentrant PROVE OneExecute' /\ Ordered'
  BY DEF OInv, Ordered
<1>2. TypeOK /\ FramesKnown /\ TypeOK' /\ OneExecute /\ Ordered
  BY <1>1, GStep DEF GInv, OInv, Ordered
<1>3. ASSUME NEW t \in Threads, Begin(t) \/ Step(t) PROVE OneExecute' /\ Ordered'
  <2>1. Ordered' /\ Moves(t)
    BY <1>2, <1>3, OrderBegin, OrderStep
  <2>2. QED
    BY <1>1, <1>2, <2>1, OneExecuteStep
<1>4. ASSUME UNCHANGED vars PROVE OneExecute' /\ Ordered'
  <2>1. q' = q /\ frames' = frames /\ delivered' = delivered
    BY <1>4 DEF vars
  <2>2. OneExecute'
    BY <1>2, <2>1 DEF OneExecute
  <2>3. ExecutedEarlier'
    BY <1>2, <2>1 DEF Ordered, ExecutedEarlier, Executing, Publishing, Before
  <2>4. QueueInOrder'
    BY <1>2, <2>1 DEF Ordered, QueueInOrder, FrameInOrder, Executing, Publishing, Before
  <2>5. DeliveredInOrder'
    <3>1. ASSUME NEW u \in Threads, NEW i \in DOMAIN frames'[u] PROVE VisitsInOrder(frames[u][i])'
      <4>1. PICK f : f = frames[u][i]
        OBVIOUS
      <4>2. VisitsInOrder(f)'
        BY <1>2, <2>1, <4>1, VisitsKept DEF Ordered, DeliveredInOrder
      <4>3. f = frames'[u][i]
        BY <2>1, <4>1
      <4>4. QED
        BY <4>2, <4>3
    <3>2. \A k \in Keys : \A i, j \in DOMAIN delivered'[k] :
              i < j => Given(delivered'[k][i], delivered'[k][j])
      BY <1>2, <2>1 DEF Ordered, DeliveredInOrder
    <3>3. QED
      BY <3>1, <3>2 DEF DeliveredInOrder, Given
  <2>6. QED
    BY <2>2, <2>3, <2>4, <2>5 DEF Ordered
<1>5. QED
  BY <1>3, <1>4 DEF Next

\* The invariant holds before any call.
LEMMA InitIInv == ASSUME Init PROVE IInv
<1>1. /\ entries = [mode \in Modes |-> <<>>] /\ keys = <<>> /\ q = <<>> /\ owed = {}
      /\ frames = [t \in Threads |-> <<>>] /\ published = 0 /\ subscribed = 0
      /\ delivered = [k \in Keys |-> <<>>]
  BY DEF Init
<1>2. /\ DOMAIN <<>> = {} /\ Len(<<>>) = 0 /\ <<>> \in Seq(Messages) /\ <<>> \in Seq(Frame)
  BY EmptySeq
<1>3. /\ DOMAIN entries = Modes /\ \A mode \in Modes : DOMAIN entries[mode] = {}
      /\ DOMAIN keys = {} /\ DOMAIN q = {}
      /\ \A t \in Threads : frames[t] = <<>> /\ DOMAIN frames[t] = {}
      /\ \A k \in Keys : DOMAIN delivered[k] = {}
  BY <1>1, <1>2
<1>4. TypeOK
  <2>1. frames \in [Threads -> Seq(Frame)] /\ delivered \in [Keys -> Seq(Messages)] /\ q \in Seq(Messages)
    BY <1>1, <1>2
  <2>2. \A t \in Threads : Len(frames[t]) <= MaxDepth
    BY <1>2, <1>3, ChannelAssumption
  <2>3. published \in 0 .. MaxMessages /\ subscribed \in 0 .. MaxSubs
    BY <1>1, ChannelAssumption
  <2>4. QED
    BY <1>1, <1>3, <2>1, <2>2, <2>3 DEF TypeOK
<1>5. Stacked /\ FramesKnown /\ MessagesKnown /\ KeysMatchEntries /\ NoLateCallback
  BY <1>3 DEF Stacked, FramesKnown, MessagesKnown, KeysMatchEntries, NoLateCallback
<1>6. OwedKnown /\ AllLookedFor /\ NothingMissed
  BY <1>1, <1>3 DEF OwedKnown, AllLookedFor, NothingMissed
<1>7. OInv
  BY <1>3 DEF OInv, OneExecute, QueueInOrder, ExecutedEarlier, DeliveredInOrder
<1>8. QED
  BY <1>4, <1>5, <1>6, <1>7 DEF IInv, GInv

-----------------------------------------------------------------------------
(* The theorems.                                                           *)

\* The parts of IInv hold for ever: the stacks of calls have their shape, the
\* maps agree, what is owed is in hand, and publishers' messages stay in order.
THEOREM ChannelInvariant == Spec => []IInv
<1>1. Init => IInv
  BY InitIInv
<1>2. IInv /\ [Next]_vars => IInv'
  BY GStep, OStep DEF IInv
<1>3. QED
  BY <1>1, <1>2, PTL DEF Spec

\* The variables of sub_map, of the queue and of the calls keep their types.
THEOREM ChannelTypeCorrect == Spec => []TypeOK
<1>1. IInv => TypeOK
  BY DEF IInv, GInv
<1>2. QED
  BY <1>1, ChannelInvariant, PTL

\* keys_ and the entry maps of sub_map agree after any interleaving of
\* subscribe() and unsubscribe(), from callbacks too.
THEOREM KeysMatch == Spec => []KeysMatchEntries
<1>1. IInv => KeysMatchEntries
  BY DEF IInv, GInv
<1>2. QED
  BY <1>1, ChannelInvariant, PTL

\* No post() has a subscription to visit that unsubscribe() has ended.
THEOREM NoLateCallbacks == Spec => []NoLateCallback
<1>1. IInv => NoLateCallback
  BY DEF IInv, GInv
<1>2. QED
  BY <1>1, ChannelInvariant, PTL

\* What publish() owes a subscriber is in the queue or in the hands of a call
\* that will deliver it.
THEOREM NobodyIsMissed == Spec => []NothingMissed
<1>1. IInv => NothingMissed
  BY DEF IInv, GInv
<1>2. QED
  BY <1>1, ChannelInvariant, PTL

\* While no callback calls execute(), a delayed subscriber gets a publisher's
\* messages in the order of publish().
THEOREM DelayedAreInOrder == Spec => []DelayedInOrder
<1>1. IInv => DelayedInOrder
  BY DEF IInv, GInv, OInv, TypeOK, DeliveredInOrder, Given, DelayedInOrder
<1>2. QED
  BY <1>1, ChannelInvariant, PTL

=============================================================================
