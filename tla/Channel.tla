------------------------------- MODULE Channel ------------------------------
(***************************************************************************)
(* lax::channel: a channel with its subscriptions (sub_map) and its queue  *)
(* for delayed subscribers (src/channel/channel.cpp, sub_map.cpp).         *)
(*                                                                         *)
(* Any thread subscribes, unsubscribes, publishes and posts; the channel's *)
(* owner calls execute().  sub_map is guarded by a shared_timed_mutex, and *)
(* callbacks run while their thread holds it shared; a callback may call   *)
(* the channel again.  The mutex is the platform's: a writer first closes  *)
(* it to new readers and then waits for the readers that are inside.       *)
(*                                                                         *)
(* A subscriber's own condition and the statistics are left out.           *)
(***************************************************************************)
EXTENDS Naturals, Sequences, SequencesExt

CONSTANTS Threads,
          Owner,         \* the thread that calls execute()
          Subscribers,   \* the threads that subscribe and unsubscribe
          Topics,        \* the topics in use, records [group, type]
          Keys,          \* subscription keys
          Reentrant,     \* the calls that a callback may make
          MaxDepth,      \* bound on calls within callbacks
          MaxMessages,   \* bound on the messages published or posted
          MaxSubs        \* bound on the calls of subscribe()

Calls == {"subscribe", "unsubscribe", "publish", "post", "execute"}

ASSUME ChannelAssumption ==
    /\ Owner \in Threads /\ Subscribers \subseteq Threads /\ Reentrant \subseteq Calls
    /\ Keys \subseteq Nat \ {0}
    /\ Topics \subseteq [group : Nat, type : Nat] /\ Topics # {}
    /\ MaxDepth \in Nat \ {0} /\ MaxMessages \in Nat /\ MaxSubs \in Nat

VARIABLES entries,    \* entries_immediate_ and entries_delayed_: keys by topic, in order
          keys,       \* keys_: the topic and mode of each subscription
          q,          \* q_, the messages for delayed subscribers
          frames,     \* each thread's calls, the innermost last
          published,  \* how many messages there were
          subscribed, \* how many calls of subscribe() there were
          owed,       \* history: deliveries that publish() owes, as <<key, message id>>
          delivered   \* history: what each delayed subscription was given, in order

vars == <<entries, keys, q, frames, published, subscribed, owed, delivered>>
bounds == <<published, subscribed>>
history == <<owed, delivered>>

Modes == {"immediate", "delayed"}
Links == [topic : Topics, mode : Modes]
Topic == [group : Nat, type : Nat]
Messages == [id : 1 .. MaxMessages, by : Threads, topic : Topics]

group_topic(tp) == [group |-> tp.group, type |-> 0]
is_valid(tp) == tp.group > 0 \/ tp.type > 0
match(tp, other) == tp.group = other.group /\ (tp.type = 0 \/ tp.type = other.type)

\* The topics that a message is posted on.
TopicsOf(m) == <<m.topic, group_topic(m.topic)>>

-----------------------------------------------------------------------------
(* A thread's calls.                                                       *)

Top(t) == frames[t][Len(frames[t])]
At(t, l) == frames[t] # <<>> /\ Top(t).at = l

\* A call: where it is, what it was given, and what a post() is still to visit.
NoMessage == [id |-> 0, by |-> Owner, topic |-> [group |-> 0, type |-> 0]]
NewFrame == [op |-> "execute", at |-> "pop", mode |-> "delayed", msg |-> NoMessage,
             topics |-> <<>>, key |-> 0, todo |-> <<>>]

Call(t, f) == frames' = [frames EXCEPT ![t] = Append(@, f)]
Goto(t, l) == frames' = [frames EXCEPT ![t][Len(frames[t])].at = l]
Return(t) == frames' = [frames EXCEPT ![t] = SubSeq(@, 1, Len(@) - 1)]

\* A thread makes call c from outside of the channel, or from a callback.
MayCall(t, c) ==
    \/ frames[t] = <<>>
    \/ At(t, "callback") /\ c \in Reentrant /\ Len(frames[t]) < MaxDepth

\* The frames that hold mutex_ shared, and whether a writer has closed it.
Reads(f) == f.at \in {"posting", "callback"}
Reading == \E t \in Threads : \E i \in DOMAIN frames[t] : Reads(frames[t][i])
Writing == \E t \in Threads : \E i \in DOMAIN frames[t] : frames[t][i].at = "drain"

-----------------------------------------------------------------------------

Init ==
    /\ entries = [mode \in Modes |-> <<>>]
    /\ keys = <<>>
    /\ q = <<>>
    /\ frames = [t \in Threads |-> <<>>]
    /\ published = 0 /\ subscribed = 0
    /\ owed = {} /\ delivered = [k \in Keys |-> <<>>]

\* subscribe() and unsubscribe() are called.
CallSubscribe(t, link) ==
    /\ t \in Subscribers /\ MayCall(t, "subscribe") /\ subscribed < MaxSubs
    /\ Call(t, [NewFrame EXCEPT !.op = "subscribe", !.at = "lock", !.mode = link.mode,
                         !.topics = <<link.topic>>])
    /\ subscribed' = subscribed + 1
    /\ UNCHANGED <<entries, keys, q, published, history>>

CallUnsubscribe(t, k) ==
    /\ t \in Subscribers /\ MayCall(t, "unsubscribe") /\ k \in DOMAIN keys
    /\ Call(t, [NewFrame EXCEPT !.op = "unsubscribe", !.at = "lock", !.key = k])
    /\ UNCHANGED <<entries, keys, q, bounds, history>>

\* use_lock_unique closes the mutex to new readers.
LockUnique(t) ==
    /\ At(t, "lock") /\ ~Writing
    /\ Goto(t, "drain")
    /\ UNCHANGED <<entries, keys, q, bounds, history>>

\* subscribe() once the readers have left: a new key at the end of its topic's
\* list.  The key is one that is not in use (module Sequence): the least, which
\* brings a key back as early as the pool could.
subscribe(t, k) ==
    /\ At(t, "drain") /\ Top(t).op = "subscribe" /\ ~Reading
    /\ k \in Keys \ DOMAIN keys /\ \A j \in Keys \ DOMAIN keys : k <= j
    /\ LET link == [topic |-> Top(t).topics[1], mode |-> Top(t).mode]
           em   == entries[link.mode]
           subs == IF link.topic \in DOMAIN em THEN em[link.topic] ELSE <<>>
       IN  /\ entries' = [entries EXCEPT ![link.mode] =
                  [tp \in DOMAIN em \cup {link.topic} |->
                      IF tp = link.topic THEN Append(subs, k) ELSE em[tp]]]
           /\ keys' = [x \in DOMAIN keys \cup {k} |-> IF x = k THEN link ELSE keys[x]]
    /\ Return(t)
    /\ UNCHANGED <<q, bounds, history>>

\* The history that goes with the end of subscription k.
Forget(k) ==
    /\ owed' = {o \in owed : o[1] # k}
    /\ delivered' = [delivered EXCEPT ![k] = <<>>]

\* An unsubscribe() that does not wait for the readers.
UnsubscribeAtOnce(t) ==
    /\ At(t, "drain") /\ Top(t).op = "unsubscribe"
    /\ Return(t)
    /\ LET k == Top(t).key
       IN  IF k \notin DOMAIN keys
           THEN UNCHANGED <<entries, keys, history>>
           ELSE /\ entries' = [entries EXCEPT ![keys[k].mode][keys[k].topic] =
                                  RemoveFirst(@, k)]
                /\ keys' = [x \in DOMAIN keys \ {k} |-> keys[x]]
                /\ Forget(k)
    /\ UNCHANGED <<q, bounds>>

\* An unsubscribe() that takes every subscription for an immediate one.
UnsubscribeImmediate(t) ==
    /\ At(t, "drain") /\ Top(t).op = "unsubscribe" /\ ~Reading
    /\ Return(t)
    /\ LET k == Top(t).key
       IN  IF k \notin DOMAIN keys
           THEN UNCHANGED <<entries, keys, history>>
           ELSE /\ entries' =
                      IF keys[k].topic \in DOMAIN entries["immediate"]
                      THEN [entries EXCEPT !["immediate"][keys[k].topic] =
                                RemoveFirst(@, k)]
                      ELSE entries
                /\ keys' = [x \in DOMAIN keys \ {k} |-> keys[x]]
                /\ Forget(k)
    /\ UNCHANGED <<q, bounds>>

\* unsubscribe() once the readers have left; the topic keeps its entry.
unsubscribe(t) ==
    /\ At(t, "drain") /\ Top(t).op = "unsubscribe" /\ ~Reading
    /\ Return(t)
    /\ LET k == Top(t).key
       IN  IF k \notin DOMAIN keys
           THEN UNCHANGED <<entries, keys, history>>
           ELSE /\ entries' = [entries EXCEPT ![keys[k].mode][keys[k].topic] =
                                  RemoveFirst(@, k)]
                /\ keys' = [x \in DOMAIN keys \ {k} |-> keys[x]]
                /\ Forget(k)
    /\ UNCHANGED <<q, bounds>>

-----------------------------------------------------------------------------
(* publish(), post() and execute().                                        *)

Message(t, tp) == [id |-> published + 1, by |-> t, topic |-> tp]

\* Whom publish() looks for: the immediate subscribers of the message's topic
\* and of its group; and, since enqueue_checked() is given one topic, the
\* delayed ones on tps[1] and its group tps[2] only.  These are the message's
\* own for publish(m), the given ones for publish(topic, m).
Owes(m, tps) ==
    {<<k, m.id>> : k \in {x \in DOMAIN keys :
        /\ is_valid(keys[x].topic) /\ match(keys[x].topic, m.topic)
        /\ keys[x].mode = "immediate" \/ keys[x].topic \in {tps[1], tps[2]}}}

\* publish(m), or publish(topic, m) with more topics in front.
publish(t, tp, more) ==
    LET m   == Message(t, tp)
        tps == more \o TopicsOf(m)
    IN  /\ MayCall(t, "publish") /\ published < MaxMessages
        /\ Call(t, [NewFrame EXCEPT !.op = "publish", !.at = "has_topic", !.mode = "immediate",
                                    !.msg = m, !.topics = tps])
        /\ published' = published + 1
        /\ owed' = owed \cup Owes(m, tps)
        /\ UNCHANGED <<entries, keys, q, subscribed, delivered>>

\* post(m): for immediate subscribers only.
post(t, tp) ==
    LET m == Message(t, tp)
    IN  /\ MayCall(t, "post") /\ published < MaxMessages
        /\ Call(t, [NewFrame EXCEPT !.op = "post", !.at = "lock_shared", !.mode = "immediate",
                                    !.msg = m, !.topics = TopicsOf(m)])
        /\ published' = published + 1
        /\ UNCHANGED <<entries, keys, q, subscribed, history>>

has_delayed_sub(tp) == tp \in DOMAIN entries["delayed"]

\* enqueue_checked() looks for delayed subscribers on the topic ...
HasTopic(t) ==
    /\ At(t, "has_topic") /\ ~Writing
    /\ Goto(t, IF has_delayed_sub(Top(t).topics[1]) THEN "enqueue" ELSE "has_group")
    /\ UNCHANGED <<entries, keys, q, bounds, history>>

\* An enqueue_checked() that forgets the group.
HasNoGroup(t) ==
    /\ At(t, "has_group") /\ ~Writing
    /\ Goto(t, "lock_shared")
    /\ UNCHANGED <<entries, keys, q, bounds, history>>

\* ... and, with the lock taken anew, on its group.
HasGroup(t) ==
    /\ At(t, "has_group") /\ ~Writing
    /\ Goto(t, IF has_delayed_sub(Top(t).topics[2]) THEN "enqueue" ELSE "lock_shared")
    /\ UNCHANGED <<entries, keys, q, bounds, history>>

\* A queue that is a stack.
EnqueueFirst(t) ==
    /\ At(t, "enqueue")
    /\ q' = <<Top(t).msg>> \o q
    /\ Goto(t, "lock_shared")
    /\ UNCHANGED <<entries, keys, bounds, history>>

\* enqueue_checked() pushes the message.
Enqueue(t) ==
    /\ At(t, "enqueue")
    /\ q' = Append(q, Top(t).msg)
    /\ Goto(t, "lock_shared")
    /\ UNCHANGED <<entries, keys, bounds, history>>

\* execute() is called by the channel's owner (with an empty queue it only returns).
execute(t) ==
    /\ MayCall(t, "execute") /\ t = Owner /\ q # <<>>
    /\ Call(t, NewFrame)
    /\ UNCHANGED <<entries, keys, q, bounds, history>>

\* execute() pops the next message.
Pop(t) ==
    /\ At(t, "pop") /\ q # <<>>
    /\ frames' = [frames EXCEPT ![t][Len(frames[t])].at = "lock_shared",
                                ![t][Len(frames[t])].msg = Head(q),
                                ![t][Len(frames[t])].topics = TopicsOf(Head(q))]
    /\ q' = Tail(q)
    /\ UNCHANGED <<entries, keys, bounds, history>>

\* execute() finds the queue empty.
PopNothing(t) ==
    /\ At(t, "pop") /\ q = <<>>
    /\ Return(t)
    /\ UNCHANGED <<entries, keys, q, bounds, history>>

\* The subscriptions that post_on_topic() visits for a topic: key and topic_.
SubsOn(mode, tp) ==
    IF is_valid(tp) /\ tp \in DOMAIN entries[mode]
    THEN [i \in DOMAIN entries[mode][tp] |-> [key |-> entries[mode][tp][i], topic |-> tp]]
    ELSE <<>>

\* The subscriptions that post() visits, topic after topic.
Visits(mode, tps) ==
    IF Len(tps) = 2
    THEN SubsOn(mode, tps[1]) \o SubsOn(mode, tps[2])
    ELSE SubsOn(mode, tps[1]) \o SubsOn(mode, tps[2]) \o SubsOn(mode, tps[3])
         \o SubsOn(mode, tps[4])

\* A post() that locks exclusively.
LockExclusive(t) ==
    /\ At(t, "lock_shared") /\ ~Writing /\ ~Reading
    /\ frames' = [frames EXCEPT ![t][Len(frames[t])].at = "posting",
                                ![t][Len(frames[t])].todo = Visits(Top(t).mode, Top(t).topics)]
    /\ UNCHANGED <<entries, keys, q, bounds, history>>

\* use_lock_shared; nothing can change the lists until the lock is released.
LockShared(t) ==
    /\ At(t, "lock_shared") /\ ~Writing
    /\ frames' = [frames EXCEPT ![t][Len(frames[t])].at = "posting",
                                ![t][Len(frames[t])].todo = Visits(Top(t).mode, Top(t).topics)]
    /\ UNCHANGED <<entries, keys, q, bounds, history>>

\* sub::post() for the next subscription: its callback if the topics match.
Deliver(t) ==
    /\ frames[t] # <<>> /\ Reads(Top(t)) /\ Top(t).todo # <<>>
    /\ LET k    == Head(Top(t).todo).key
           m    == Top(t).msg
           hits == match(Head(Top(t).todo).topic, m.topic)
       IN  /\ frames' = [frames EXCEPT
                 ![t][Len(frames[t])].at = IF hits THEN "callback" ELSE "posting",
                 ![t][Len(frames[t])].todo = Tail(@)]
           /\ owed' = IF hits THEN owed \ {<<k, m.id>>} ELSE owed
           /\ delivered' = IF hits /\ Top(t).mode = "delayed"
                           THEN [delivered EXCEPT ![k] = Append(@, m)] ELSE delivered
    /\ UNCHANGED <<entries, keys, q, bounds>>

\* All are served: the lock is released; execute() goes on, the others return.
Posted(t) ==
    /\ frames[t] # <<>> /\ Reads(Top(t)) /\ Top(t).todo = <<>>
    /\ IF Top(t).op = "execute" THEN Goto(t, "pop") ELSE Return(t)
    /\ UNCHANGED <<entries, keys, q, bounds, history>>

-----------------------------------------------------------------------------

Begin(t) ==
    \/ \E link \in Links : CallSubscribe(t, link)
    \/ \E k \in Keys : CallUnsubscribe(t, k)
    \/ \E tp \in Topics : publish(t, tp, <<>>)
    \/ \E tp \in Topics : \E other \in Topics \ {tp} : publish(t, tp, <<other, group_topic(other)>>)
    \/ \E tp \in Topics : post(t, tp)
    \/ execute(t)

\* What a thread does once it is inside a call.
Step(t) ==
    \/ LockUnique(t) \/ (\E k \in Keys : subscribe(t, k)) \/ unsubscribe(t)
    \/ HasTopic(t) \/ HasGroup(t) \/ Enqueue(t)
    \/ Pop(t) \/ PopNothing(t)
    \/ LockShared(t) \/ Deliver(t) \/ Posted(t)

Next == \E t \in Threads : Begin(t) \/ Step(t)

\* A thread inside a call goes on.  (The bounds on calls let the contention for
\* the mutex end.)
Fairness == \A t \in Threads : WF_vars(Step(t))

Spec == Init /\ [][Next]_vars /\ Fairness

-----------------------------------------------------------------------------

Frame ==
    [op : Calls,
     at : {"lock", "drain", "has_topic", "has_group", "enqueue", "pop", "lock_shared",
           "posting", "callback"},
     mode : Modes, msg : Messages \cup {NoMessage}, topics : Seq(Topic),
     key : Keys \cup {0}, todo : Seq([key : Keys, topic : Topic])]

\* Every variable has its type.
TypeOK ==
    /\ DOMAIN entries = Modes
    /\ \A mode \in Modes : /\ DOMAIN entries[mode] \subseteq Topics
                           /\ \A tp \in DOMAIN entries[mode] : entries[mode][tp] \in Seq(Keys)
    /\ DOMAIN keys \subseteq Keys /\ \A k \in DOMAIN keys : keys[k] \in Links
    /\ q \in Seq(Messages)
    /\ frames \in [Threads -> Seq(Frame)]
    /\ \A t \in Threads : Len(frames[t]) <= MaxDepth
    /\ published \in 0 .. MaxMessages /\ subscribed \in 0 .. MaxSubs
    /\ owed \subseteq Keys \X (1 .. MaxMessages)
    /\ delivered \in [Keys -> Seq(Messages)]

\* keys_ and the two entry maps tell the same story: a key is in the list that
\* keys_ links it to, once, and in no other, whatever was subscribed,
\* unsubscribed and subscribed again under a key that came back.
KeysMatchEntries ==
    /\ \A k \in DOMAIN keys : keys[k].topic \in DOMAIN entries[keys[k].mode]
    /\ \A mode \in Modes : \A tp \in DOMAIN entries[mode] :
          /\ IsInjective(entries[mode][tp])
          /\ Range(entries[mode][tp]) =
                {k \in DOMAIN keys : keys[k] = [topic |-> tp, mode |-> mode]}

\* No callback runs for a subscription that has ended: what a post() is still
\* to visit is subscribed, on that topic and in the mode of the post().  So when
\* unsubscribe() has returned, the callback is not called again.
NoLateCallback ==
    \A t \in Threads : \A i \in DOMAIN frames[t] :
        LET f == frames[t][i]
        IN  Reads(f) => \A s \in Range(f.todo) :
                           /\ s.key \in DOMAIN keys
                           /\ keys[s.key] = [topic |-> s.topic, mode |-> f.mode]

\* The frame will still deliver message id to subscription k.
WillDeliver(f, k, id) ==
    /\ f.op \in {"publish", "execute"} /\ f.at \notin {"pop"} /\ f.msg.id = id
    /\ \/ f.at \in {"has_topic", "has_group", "enqueue"}
       \/ f.mode = keys[k].mode /\ (f.at = "lock_shared" \/ \E s \in Range(f.todo) : s.key = k)

\* A subscriber that publish() looks for (Owes), which was there when publish()
\* began and still is, has been given the message or will be: it is in the
\* queue (if the subscriber is a delayed one) or in the hands of a thread that
\* is going to deliver it.  For publish(m) these are all the subscribers of the
\* message; for publish(topic, m) the delayed ones of the message's own topic
\* are not among them, although its header says that it calls publish(m).
NothingMissed ==
    \A o \in owed :
        \/ keys[o[1]].mode = "delayed" /\ \E i \in DOMAIN q : q[i].id = o[2]
        \/ \E t \in Threads : \E i \in DOMAIN frames[t] : WillDeliver(frames[t][i], o[1], o[2])

\* A delayed subscriber gets the messages of one publisher in the order in
\* which they were published, and each once if its topic is not a group's,
\* as long as no callback calls execute().
DelayedInOrder ==
    "execute" \notin Reentrant =>
      \A k \in DOMAIN keys : keys[k].mode = "delayed" =>
        \A i, j \in DOMAIN delivered[k] :
            i < j /\ delivered[k][i].by = delivered[k][j].by =>
                \/ delivered[k][i].id < delivered[k][j].id
                \/ delivered[k][i].id = delivered[k][j].id /\ delivered[k][i].topic.type = 0

\* The one way to wait for ever: a callback calls the channel again while its
\* thread holds mutex_ shared, and a writer has closed the mutex (or, if the
\* callback subscribes or unsubscribes, the thread waits for itself).
Stuck ==
    \E t \in Threads :
        /\ \E i \in DOMAIN frames[t] : Reads(frames[t][i])
        /\ \/ Top(t).at \in {"lock_shared", "has_topic", "has_group"} /\ Writing
           \/ Top(t).at \in {"lock", "drain"}

\* Every call returns, unless a callback gets stuck in the channel's own lock.
CallsReturn ==
    \A t \in Threads : frames[t] # <<>> ~> (frames[t] = <<>> \/ Stuck)

=============================================================================
