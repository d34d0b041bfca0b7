-------------------------- MODULE ServiceImplProofs -------------------------
(***************************************************************************)
(* Proofs about the service, for every number of threads, of slots, of     *)
(* connections and of calls, and for any range of the counters.            *)
(***************************************************************************)
EXTENDS ServiceImpl, FiniteSetTheorems, SequenceTheorems, TLAPS

\* The bound on calls counts those that have yet to take a key.
Bounded == keys + Cardinality(Calling) <= MaxKeys

\* The parts of a session's way in and out of its slot: a thread constructs
\* it, is about to store it, or is in error() for it; a thread that destroys
\* a session, be it the second to, has the session's id.
Constructing(t) == pc[t] = "construct"
Storing(t)      == pc[t] \in {"lock2", "store"}
Ending(t)       == pc[t] \in {"error_lock", "error"}
Leaving(t)      == pc[t] \in {"late", "error_lock", "error"}

\* Handlers run on io threads, calls for keys on application threads; a thread
\* that has a slot has a valid id for it.
ThreadsKnown ==
    /\ \A t \in Threads :
          pc[t] \in {"lock", "find", "construct", "lock2", "store", "erase", "unlock",
                     "cf_lock", "cf_erase"} => t \in Ios
    /\ \A t \in Threads : pc[t] \in {"listen_lock", "listen", "dial_lock", "dial", "insert"} =>
          t \in Apps
    /\ \A t \in Threads : Pending(t) \/ Leaving(t) => loc[t].seq # 0

\* A thread with a connection or a connector of its own has its key.
EnteringKnown ==
    /\ \A t \in Threads :
          pc[t] \in {"insert", "lock", "find", "construct", "lock2", "store", "erase", "unlock",
                     "cf_lock", "cf_erase"} => loc[t].key \in Keys
    /\ \A t \in Threads : pc[t] = "erase" => ~loc[t].accepted

\* finish() leaves no thread in a call or a handler.
AllIdleWhenFinished ==
    /\ service # "running" => \A t \in Apps : pc[t] = "idle"
    /\ service = "finished" => \A t \in Threads : pc[t] = "idle"

\* No index that anybody has is past the end of sessions_.
InRange ==
    service # "finished" =>
        /\ \A i \in Range(freeSlots) : i < Len(slots)
        /\ \A id \in live : id.idx < Len(slots)
        /\ \A t \in Threads : Pending(t) \/ Leaving(t) => loc[t].idx < Len(slots)

\* Who answers for a slot: free_slots_, the thread that constructs a session
\* for it, the session that lives in it or the thread in error() for it.
\* There is one for each slot, and no second, until a session is destroyed twice.
OneHolder ==
    /\ IsInjective(freeSlots)
    /\ \A id \in live : id.idx \notin Range(freeSlots)
    /\ \A id, other \in live : id.idx = other.idx => id = other
    /\ \A t \in Threads : Constructing(t) \/ Ending(t) =>
          /\ loc[t].idx \notin Range(freeSlots)
          /\ \A id \in live : id.idx # loc[t].idx
          /\ \A u \in Threads : (Constructing(u) \/ Ending(u)) /\ loc[u].idx = loc[t].idx => u = t

EveryHolder ==
    service # "finished" =>
        \A i \in 0 .. Len(slots) - 1 :
            \/ i \in Range(freeSlots)
            \/ \E id \in live : id.idx = i
            \/ \E t \in Threads : (Constructing(t) \/ Ending(t)) /\ loc[t].idx = i

\* What a slot holds while no session fails before it is stored.
TableKnown ==
    ~early /\ service # "finished" =>
        /\ \A i \in Range(freeSlots) : slots[i + 1].session = NoSession
        /\ \A t \in Threads : Pending(t) => slots[loc[t].idx + 1].session = NoSession
        /\ \A t \in Threads : Storing(t) => IdOf(t) \in live
        /\ \A t, u \in Threads : Storing(t) /\ Storing(u) /\ loc[t].idx = loc[u].idx => t = u
        /\ \A t \in Threads : Ending(t) => slots[loc[t].idx + 1].session = IdOf(t)
        /\ \A id \in live :
              slots[id.idx + 1].session = id \/ \E t \in Threads : Storing(t) /\ IdOf(t) = id
        /\ sessionCount = Cardinality(Held) % Wrap

\* An io thread that handles the end of connect k.
Handling(t, k) ==
    /\ loc[t].key = k
    /\ \/ pc[t] \in {"lock", "find", "construct", "lock2", "store", "erase"} /\ ~loc[t].accepted
       \/ pc[t] \in {"cf_lock", "cf_erase"}

\* connect k is in progress or its end is being handled.
Busy(k) == k \in connecting \/ \E t \in Threads : Handling(t, k)

\* connect k is about to enter the map.
Entering(k) == \E t \in Threads : pc[t] = "insert" /\ loc[t].key = k

\* The keys in use have been given out.
KeysKnown ==
    /\ \A k \in accepting \cup connectors \cup connecting : k <= keys
    /\ \A t \in Threads : loc[t].key <= keys

\* A connector is handled once, in the map until then, and counted.
ConnectorsKnown ==
    ~raced /\ service # "finished" =>
        /\ Exclusive
        /\ \A k \in connectors : Busy(k) /\ ~Entering(k)
        /\ \A k \in Keys : Entering(k) => Busy(k)
        /\ \A k \in connecting : k \in connectors \/ Entering(k)
        /\ \A t \in Threads, k \in Keys : Handling(t, k) =>
              /\ k \notin connecting
              /\ \A u \in Threads : Handling(u, k) => u = t
              /\ k \in connectors \/ (pc[t] \in {"lock", "cf_lock"} /\ Entering(k))
        /\ connectorCount = Cardinality(connectors) % Wrap

SlotsKnown == OneHolder /\ EveryHolder /\ TableKnown

\* The inductive invariant.
IInv ==
    /\ TypeOK /\ Bounded /\ ThreadsKnown /\ EnteringKnown /\ AllIdleWhenFinished
    /\ InRange /\ (~doubled => SlotsKnown)
    /\ KeysKnown /\ ConnectorsKnown

-----------------------------------------------------------------------------
(* Counters that wrap.                                                     *)

\* A quotient and its remainder determine each other.
LEMMA RemainderIs ==
    ASSUME NEW W \in Nat \ {0}, NEW q \in Int, NEW r \in 0 .. W - 1, NEW c \in Int, c = W * q + r
    PROVE  c % W = r
<1> DEFINE d == c \div W  m == c % W
<1>1. c = W * d + m /\ d \in Int /\ m \in 0 .. W - 1
  OBVIOUS
<1> HIDE DEF d, m
<1>2. W * (q - d) = m - r
  BY <1>1
<1>3. q - d = 0
  <2>1. ASSUME q - d >= 1 PROVE FALSE
    <3>1. W * (q - d) >= W
      BY <1>1, <2>1
    <3>2. QED
      BY <1>1, <1>2, <3>1
  <2>2. ASSUME q - d <= -1 PROVE FALSE
    <3>1. W * (q - d) <= -W
      BY <1>1, <2>2
    <3>2. QED
      BY <1>1, <1>2, <3>1
  <2>3. QED
    BY <1>1, <2>1, <2>2
<1>4. QED
  BY <1>1, <1>2, <1>3 DEF m

\* Counting up and down modulo W counts.
LEMMA WrapCounts ==
    ASSUME NEW W \in Nat \ {0}, NEW c \in Nat
    PROVE  /\ ((c % W) + 1) % W = (c + 1) % W
           /\ ((c % W) + W - 1) % W = (c - 1) % W
<1> DEFINE q == c \div W  next == q + 1  prev == q - 1  r == c % W  top == W - 1
            up == c + 1  down == c - 1  u == r + 1  d == r + W - 1
<1>1. c = W * q + r /\ q \in Int /\ r \in 0 .. W - 1
  OBVIOUS
<1>2. up \in Int /\ down \in Int /\ u \in Int /\ d \in Int /\ next \in Int /\ prev \in Int
      /\ up = c + 1 /\ down = c - 1 /\ u = r + 1 /\ d = r + W - 1
      /\ next = q + 1 /\ prev = q - 1 /\ top = W - 1
  BY <1>1
<1> HIDE DEF q, next, prev, top, r, up, down, u, d
<1>3. u % W = up % W
  <2>1. CASE r + 1 < W
    <3>1. u \in 0 .. W - 1 /\ up = W * q + u /\ u = W * 0 + u
      BY <1>1, <1>2, <2>1
    <3>2. up % W = u
      BY <1>1, <1>2, <3>1, RemainderIs
    <3>3. u % W = u
      BY <1>2, <3>1, RemainderIs
    <3>4. QED
      BY <3>2, <3>3
  <2>2. CASE r + 1 = W
    <3>1. 0 \in 0 .. W - 1 /\ up = W * next + 0 /\ u = W * 1 + 0
      BY <1>1, <1>2, <2>2
    <3>2. up % W = 0
      BY <1>2, <3>1, RemainderIs
    <3>3. u % W = 0
      BY <1>2, <3>1, RemainderIs
    <3>4. QED
      BY <3>2, <3>3
  <2>3. QED
    BY <1>1, <2>1, <2>2
<1>4. d % W = down % W
  <2>1. CASE r > 0
    <3>1. r - 1 \in 0 .. W - 1 /\ down = W * q + (r - 1) /\ d = W * 1 + (r - 1)
      BY <1>1, <1>2, <2>1
    <3>2. down % W = r - 1
      BY <1>1, <1>2, <3>1, RemainderIs
    <3>3. d % W = r - 1
      BY <1>2, <3>1, RemainderIs
    <3>4. QED
      BY <3>2, <3>3
  <2>2. CASE r = 0
    <3>1. top \in 0 .. W - 1 /\ down = W * prev + top /\ d = W * 0 + top
      BY <1>1, <1>2, <2>2
    <3>2. down % W = top
      BY <1>2, <3>1, RemainderIs
    <3>3. d % W = top
      BY <1>2, <3>1, RemainderIs
    <3>4. QED
      BY <3>2, <3>3
  <2>3. QED
    BY <1>1, <2>1, <2>2
<1>5. QED
  BY <1>3, <1>4 DEF r, u, d, up, down

-----------------------------------------------------------------------------
(* Steps.                                                                  *)

\* What a thread does when it takes or has mutex_, or needs none.
Locks(t) ==
    \/ Lock(t, "listen_lock", "listen") \/ Lock(t, "dial_lock", "dial")
    \/ Lock(t, "lock", "find") \/ Lock(t, "lock2", "store")
    \/ Lock(t, "cf_lock", "cf_erase") \/ Lock(t, "error_lock", "error")

\* The operations of the service, one disjunct each.
Operation ==
    \/ \E t \in Apps, at \in {"listen_lock", "dial_lock"} : Call(t, at)
    \/ \E t \in Ios, k \in Keys : on_accepted(t, k)
    \/ \E t \in Ios, k \in Keys : on_accept_failed(t, k)
    \/ \E t \in Ios, k \in Keys : on_connected(t, k)
    \/ \E t \in Ios, k \in Keys : on_connect_failed(t, k)
    \/ \E t \in Threads, id \in live, others \in SUBSET Threads : SessionEnds(t, id, others)
    \/ \E t \in Threads : SessionEndsAgain(t)
    \/ \E t \in Threads : Locks(t)
    \/ \E t \in Threads, how \in {"ok", "deaf", "invalid"} : listen(t, how)
    \/ \E t \in Threads : Dial(t)
    \/ \E t \in Threads : Insert(t)
    \/ \E t \in Threads : NotFound(t)
    \/ \E t \in Threads : TakeSlot(t)
    \/ \E t \in Threads : SlotLimitReached(t)
    \/ \E t \in Threads : Construct(t)
    \/ \E t \in Threads : ConstructThrows(t)
    \/ \E t \in Threads : Store(t)
    \/ \E t \in Threads : Erase(t)
    \/ \E t \in Threads : UnlockAgain(t)
    \/ \E t \in Threads : EraseFailed(t)
    \/ \E t \in Threads : error(t)
    \/ finish
    \/ cleanup

\* Every step is an operation, with the races it leads to noted.
LEMMA StepIsOperation ==
    ASSUME [Next]_vars
    PROVE  UNCHANGED vars \/ (Operation /\ raced' = (raced \/ ~Exclusive'))
BY DEF Next, Running, Over, AppCall, Handle, Step, Locks, Operation

\* A call that is about to take a key finds one.
LEMMA KeyIsFree ==
    ASSUME IInv, NEW t \in Threads, pc[t] \in {"listen", "dial"} PROVE keys + 1 \in 1 .. MaxKeys
<1>1. t \in Calling
  BY DEF IInv, ThreadsKnown, Calling
<1>2. IsFiniteSet(Calling)
  BY ServiceAssumption, FS_Subset DEF Calling
<1>3. Cardinality(Calling) \in Nat /\ Cardinality(Calling) # 0
  BY <1>1, <1>2, FS_CardinalityType, FS_EmptySet
<1>4. QED
  BY <1>3, ServiceAssumption DEF IInv, TypeOK, Bounded

\* The slot that get_free_slot() returns exists then and has an index.
LEMMA FreeSlotExists ==
    ASSUME IInv, service # "finished", Len(slots) < SlotLimit
    PROVE  /\ get_free_slot \in Indices
           /\ WithFreeSlot \in Seq([session : SessionId, seq : Seqs])
           /\ get_free_slot + 1 \in 1 .. Len(WithFreeSlot)
           /\ Len(slots) <= Len(WithFreeSlot) /\ Len(WithFreeSlot) <= Len(slots) + 1
           /\ FreeSlotsLeft \in Seq(Indices)
<1>1. /\ slots \in Seq([session : SessionId, seq : Seqs]) /\ freeSlots \in Seq(Indices)
      /\ Len(slots) \in Nat
  BY DEF IInv, TypeOK
<1>2. CASE freeSlots = <<>>
  <2>1. [session |-> NoSession, seq |-> 0] \in [session : SessionId, seq : Seqs]
    BY ServiceAssumption DEF NoSession, SessionId, Seqs, Indices
  <2>2. /\ WithFreeSlot = Append(slots, [session |-> NoSession, seq |-> 0])
        /\ get_free_slot = Len(slots) /\ FreeSlotsLeft = freeSlots
    BY <1>2 DEF WithFreeSlot, get_free_slot, FreeSlotsLeft
  <2>3. WithFreeSlot \in Seq([session : SessionId, seq : Seqs]) /\ Len(WithFreeSlot) = Len(slots) + 1
    BY <1>1, <2>1, <2>2, AppendProperties
  <2>4. QED
    BY <1>1, <2>2, <2>3, ServiceAssumption DEF Indices
<1>3. CASE freeSlots # <<>>
  <2>1. /\ WithFreeSlot = slots /\ get_free_slot = Head(freeSlots)
        /\ FreeSlotsLeft = Tail(freeSlots)
    BY <1>3 DEF WithFreeSlot, get_free_slot, FreeSlotsLeft
  <2>2. Head(freeSlots) \in Indices /\ Tail(freeSlots) \in Seq(Indices)
    BY <1>1, <1>3, HeadTailProperties
  <2>3. Head(freeSlots) \in Range(freeSlots)
    BY <1>1, <1>3, EmptySeq DEF Range
  <2>4. Head(freeSlots) < Len(slots)
    BY <2>3 DEF IInv, InRange
  <2>5. QED
    BY <1>1, <2>1, <2>2, <2>4 DEF Indices
<1>4. QED
  BY <1>2, <1>3

\* A step on a running service keeps it from being finished.
LEMMA SomebodyInside ==
    ASSUME IInv, NEW t \in Threads, pc[t] # "idle" PROVE service # "finished"
BY DEF IInv, AllIdleWhenFinished

-----------------------------------------------------------------------------
(* Types.                                                                  *)

\* Every operation keeps the types.
LEMMA TypeStep ==
    ASSUME IInv, UNCHANGED vars \/ (Operation /\ raced' = (raced \/ ~Exclusive'))
    PROVE  TypeOK'
<1> USE ServiceAssumption
<1>t. TypeOK /\ ThreadsKnown
  BY DEF IInv
<1>k. Keys \subseteq 0 .. MaxKeys /\ NoLocals \in Locals /\ NoSession \in SessionId
  BY DEF Keys, NoLocals, Locals, Seqs, Indices, NoSession, SessionId
<1>r. raced' \in BOOLEAN
  <2>1. raced' = raced \/ raced' = (raced \/ ~Exclusive')
    BY DEF vars
  <2>2. QED
    BY <1>t, <2>1, Zenon DEF TypeOK
<1>1. ASSUME NEW t \in Apps, NEW at \in {"listen_lock", "dial_lock"}, Call(t, at) PROVE TypeOK'
  BY <1>1, <1>t, <1>r DEF Call, Goto, TypeOK, tables, dialers, rest
<1>2. ASSUME NEW t \in Ios, NEW k \in Keys, on_accepted(t, k) PROVE TypeOK'
  <2>1. loc' \in [Threads -> Locals]
    BY <1>2, <1>t, <1>k DEF on_accepted, TypeOK, Locals
  <2>2. sockets' \in 0 .. MaxSockets
    BY <1>2, <1>t DEF on_accepted, TypeOK
  <2>3. QED
    BY <1>2, <1>t, <1>r, <2>1, <2>2 DEF on_accepted, Goto, TypeOK, tables
<1>3. ASSUME NEW t \in Ios, NEW k \in Keys, on_accept_failed(t, k) PROVE TypeOK'
  BY <1>3, <1>t, <1>r DEF on_accept_failed, TypeOK, tables, dialers, rest
<1>4. ASSUME NEW t \in Ios, NEW k \in Keys, on_connected(t, k) PROVE TypeOK'
  <2>1. loc' \in [Threads -> Locals]
    BY <1>4, <1>t, <1>k DEF on_connected, TypeOK, Locals
  <2>2. sockets' \in 0 .. MaxSockets
    BY <1>4, <1>t DEF on_connected, TypeOK
  <2>3. QED
    BY <1>4, <1>t, <1>r, <2>1, <2>2 DEF on_connected, Goto, TypeOK, tables
<1>5. ASSUME NEW t \in Ios, NEW k \in Keys, on_connect_failed(t, k) PROVE TypeOK'
  <2>1. loc' \in [Threads -> Locals]
    BY <1>5, <1>t, <1>k DEF on_connect_failed, TypeOK, Locals
  <2>2. QED
    BY <1>5, <1>t, <1>r, <2>1 DEF on_connect_failed, Goto, TypeOK, tables, rest
<1>6. ASSUME NEW t \in Threads, NEW id \in live, NEW others \in SUBSET Threads,
             SessionEnds(t, id, others)
      PROVE  TypeOK'
  <2>1. id \in SessionId
    BY <1>t DEF TypeOK
  <2>2. loc' \in [Threads -> Locals]
    <3>1. ASSUME NEW u \in Threads PROVE [loc[u] EXCEPT !.seq = id.seq, !.idx = id.idx] \in Locals
      <4>1. loc[u] \in Locals /\ id.seq \in Seqs /\ id.idx \in Indices
        BY <1>t, <2>1 DEF TypeOK, SessionId
      <4>2. QED
        BY <4>1 DEF Locals
    <3>2. loc' = [u \in Threads |->
                     IF u \in others \cup {t} THEN [loc[u] EXCEPT !.seq = id.seq, !.idx = id.idx]
                     ELSE loc[u]]
      BY <1>6 DEF SessionEnds
    <3>3. QED
      BY <1>t, <3>1, <3>2 DEF TypeOK
  <2>3. early' \in BOOLEAN
    BY <1>6, <1>t, Zenon DEF SessionEnds, TypeOK
  <2>4. live' \subseteq {x \in SessionId : x.seq # 0}
    BY <1>6, <1>t DEF SessionEnds, TypeOK
  <2>5. QED
    BY <1>6, <1>t, <1>r, <2>2, <2>3, <2>4 DEF SessionEnds, TypeOK, tables, dialers
<1>6a. ASSUME NEW t \in Threads, SessionEndsAgain(t) PROVE TypeOK'
  BY <1>6a, <1>t, <1>r DEF SessionEndsAgain, Goto, TypeOK, tables, dialers
<1>7. ASSUME NEW t \in Threads, Locks(t) PROVE TypeOK'
  BY <1>7, <1>t, <1>r DEF Locks, Lock, Goto, TypeOK, tables, dialers, rest
<1>8. ASSUME NEW t \in Threads, NEW how \in {"ok", "deaf", "invalid"}, listen(t, how)
      PROVE  TypeOK'
  <2>1. keys' \in 1 .. MaxKeys
    BY <1>8, KeyIsFree DEF listen
  <2>2. acceptors' \subseteq Keys /\ accepting' \subseteq Keys
    BY <1>8, <1>t, <2>1 DEF listen, TypeOK, Keys
  <2>3. keys' \in 0 .. MaxKeys
    BY <2>1
  <2>4. /\ loc' = [loc EXCEPT ![t] = NoLocals] /\ pc' = [pc EXCEPT ![t] = "idle"]
        /\ writing' = FALSE
        /\ UNCHANGED <<connectors, connectorCount, connecting, tables, rest>>
    BY <1>8 DEF listen, Return, Goto
  <2>5. QED
    BY <1>t, <1>k, <1>r, <2>2, <2>3, <2>4 DEF TypeOK, tables, rest
<1>9. ASSUME NEW t \in Threads, Dial(t) PROVE TypeOK'
  <2>1. keys' \in 1 .. MaxKeys
    BY <1>9, KeyIsFree DEF Dial
  <2>2. connecting' \subseteq Keys
    BY <1>9, <1>t, <2>1 DEF Dial, TypeOK, Keys
  <2>3. loc' \in [Threads -> Locals]
    <3>1. [loc[t] EXCEPT !.key = keys'] \in Locals
      <4>1. loc[t] \in Locals /\ keys' \in 0 .. MaxKeys
        BY <1>t, <2>1 DEF TypeOK
      <4>2. QED
        BY <4>1 DEF Locals
    <3>2. loc' = [loc EXCEPT ![t] = [loc[t] EXCEPT !.key = keys']]
      BY <1>9 DEF Dial
    <3>3. QED
      BY <1>t, <3>1, <3>2 DEF TypeOK
  <2>4. QED
    BY <1>9, <1>t, <1>r, <2>1, <2>2, <2>3 DEF Dial, Goto, TypeOK, tables, rest
<1>10. ASSUME NEW t \in Threads, Insert(t) PROVE TypeOK'
  <2>1. loc[t].key \in Keys
    BY <1>10 DEF Insert, IInv, EnteringKnown
  <2>2. connectors' \subseteq Keys /\ connectorCount' \in Seqs
    BY <1>10, <1>t, <2>1 DEF Insert, TypeOK, Seqs
  <2>3. QED
    BY <1>10, <1>t, <1>k, <1>r, <2>2 DEF Insert, Return, Goto, TypeOK, tables, rest
<1>11. ASSUME NEW t \in Threads, NotFound(t) \/ UnlockAgain(t) PROVE TypeOK'
  <2>1. accepting' \subseteq Keys
    <3>1. loc[t].accepted => loc[t].key \in Keys
      BY <1>11 DEF NotFound, UnlockAgain, IInv, EnteringKnown
    <3>2. QED
      BY <1>11, <1>t, <3>1 DEF NotFound, UnlockAgain, AcceptNext, TypeOK
  <2>2. QED
    BY <1>11, <1>t, <1>k, <1>r, <2>1 DEF NotFound, UnlockAgain, Return, Goto, TypeOK, tables, rest
<1>12. ASSUME NEW t \in Threads, TakeSlot(t) PROVE TypeOK'
  <2> DEFINE i == get_free_slot
             new == NextSeq(WithFreeSlot[i + 1].seq)
  <2>0. service # "finished" /\ Len(slots) < SlotLimit
    BY <1>12, SomebodyInside DEF TakeSlot
  <2>1. /\ i \in Indices /\ WithFreeSlot \in Seq([session : SessionId, seq : Seqs])
        /\ i + 1 \in 1 .. Len(WithFreeSlot) /\ FreeSlotsLeft \in Seq(Indices)
    BY <2>0, FreeSlotExists
  <2>2. /\ slots' = [WithFreeSlot EXCEPT ![i + 1].seq = (new + 1) % Wrap]
        /\ loc' = [loc EXCEPT ![t].idx = i, ![t].seq = new]
        /\ freeSlots' = FreeSlotsLeft
    BY <1>12 DEF TakeSlot
  <2> HIDE DEF i
  <2>3. WithFreeSlot[i + 1] \in [session : SessionId, seq : Seqs]
    BY <2>1, ElementOfSeq
  <2>4. new \in Seqs
    BY <2>3 DEF NextSeq, Seqs
  <2> HIDE DEF new
  <2>5. (new + 1) % Wrap \in Seqs
    BY <2>4 DEF Seqs
  <2>6. [WithFreeSlot[i + 1] EXCEPT !.seq = (new + 1) % Wrap] \in [session : SessionId, seq : Seqs]
    BY <2>3, <2>5
  <2>7. slots' = [WithFreeSlot EXCEPT ![i + 1] =
                     [WithFreeSlot[i + 1] EXCEPT !.seq = (new + 1) % Wrap]]
    BY <2>2
  <2>8. slots' \in Seq([session : SessionId, seq : Seqs])
    BY <2>1, <2>6, <2>7, ExceptSeq
  <2>9. loc' \in [Threads -> Locals]
    BY <1>t, <2>1, <2>2, <2>4 DEF TypeOK, Locals
  <2>10. QED
    BY <1>12, <1>t, <1>r, <2>1, <2>2, <2>8, <2>9 DEF TakeSlot, Goto, TypeOK, dialers, rest
<1>13. ASSUME NEW t \in Threads, SlotLimitReached(t) \/ ConstructThrows(t) PROVE TypeOK'
  BY <1>13, <1>t, <1>r DEF SlotLimitReached, ConstructThrows, TypeOK, tables, dialers
<1>14. ASSUME NEW t \in Threads, Construct(t) PROVE TypeOK'
  <2>1. IdOf(t) \in {id \in SessionId : id.seq # 0}
    BY <1>14, <1>t DEF Construct, IdOf, TypeOK, Locals, SessionId, ThreadsKnown, Pending
  <2>2. live' \subseteq {id \in SessionId : id.seq # 0}
    BY <1>14, <1>t, <2>1 DEF Construct, TypeOK
  <2>3. QED
    BY <1>14, <1>t, <1>r, <2>2 DEF Construct, Goto, TypeOK, tables, dialers
<1>15. ASSUME NEW t \in Threads, Store(t) PROVE TypeOK'
  <2> DEFINE i == loc[t].idx + 1
  <2>1. /\ slots \in Seq([session : SessionId, seq : Seqs]) /\ loc[t] \in Locals
        /\ IdOf(t) \in SessionId
    BY <1>t DEF TypeOK, IdOf, Locals, SessionId
  <2>2. i \in 1 .. Len(slots)
    <3>1. service # "finished" /\ Pending(t)
      BY <1>15, SomebodyInside DEF Store, Pending
    <3>2. loc[t].idx < Len(slots) /\ loc[t].idx \in Nat
      BY <2>1, <3>1 DEF IInv, InRange, Locals, Indices
    <3>3. QED
      BY <2>1, <3>2
  <2>3. slots[i] \in [session : SessionId, seq : Seqs]
    BY <2>1, <2>2, ElementOfSeq
  <2>4. slots' = [slots EXCEPT ![i] = [slots[i] EXCEPT !.session = IdOf(t)]]
    BY <1>15 DEF Store
  <2> HIDE DEF i
  <2>5. [slots[i] EXCEPT !.session = IdOf(t)] \in [session : SessionId, seq : Seqs]
    BY <2>1, <2>3
  <2>6. slots' \in Seq([session : SessionId, seq : Seqs])
    BY <2>1, <2>2, <2>4, <2>5, ExceptSeq
  <2>7. sessionCount' \in Seqs
    BY <1>15, <1>t DEF Store, TypeOK, Seqs
  <2>8. QED
    BY <1>15, <1>t, <1>r, <2>6, <2>7 DEF Store, Goto, TypeOK, dialers, rest
<1>16. ASSUME NEW t \in Threads, Erase(t) \/ EraseFailed(t) PROVE TypeOK'
  <2>1. connectors' \subseteq Keys
    BY <1>16, <1>t DEF Erase, EraseFailed, TypeOK
  <2>2. connectorCount' \in Seqs
    BY <1>16, <1>t DEF Erase, EraseFailed, TypeOK, Seqs
  <2>3. QED
    BY <1>16, <1>t, <1>k, <1>r, <2>1, <2>2
       DEF Erase, EraseFailed, Return, Goto, TypeOK, tables, rest
<1>17. ASSUME NEW t \in Threads, error(t) PROVE TypeOK'
  <2> DEFINE i == loc[t].idx + 1
  <2>1. /\ slots \in Seq([session : SessionId, seq : Seqs]) /\ loc[t] \in Locals
        /\ loc[t].idx \in Indices /\ freeSlots \in Seq(Indices)
    BY <1>t DEF TypeOK, Locals
  <2>2. i \in 1 .. Len(slots)
    <3>1. service # "finished" /\ Leaving(t)
      BY <1>17, SomebodyInside DEF error, Leaving
    <3>2. loc[t].idx < Len(slots) /\ loc[t].idx \in Nat
      BY <2>1, <3>1 DEF IInv, InRange, Indices
    <3>3. QED
      BY <2>1, <3>2
  <2>3. slots[i] \in [session : SessionId, seq : Seqs]
    BY <2>1, <2>2, ElementOfSeq
  <2>4. slots' = [slots EXCEPT ![i] = [slots[i] EXCEPT !.session = NoSession]]
    BY <1>17 DEF error
  <2> HIDE DEF i
  <2>5. [slots[i] EXCEPT !.session = NoSession] \in [session : SessionId, seq : Seqs]
    BY <1>k, <2>3
  <2>6. slots' \in Seq([session : SessionId, seq : Seqs])
    BY <2>1, <2>2, <2>4, <2>5, ExceptSeq
  <2>7. sessionCount' \in Seqs /\ freeSlots' \in Seq(Indices)
    BY <1>17, <1>t, <2>1, AppendProperties DEF error, TypeOK, Seqs
  <2>8. QED
    BY <1>17, <1>t, <1>k, <1>r, <2>6, <2>7 DEF error, Return, Goto, TypeOK, dialers, rest
<1>18. CASE finish
  BY <1>18, <1>t, <1>r DEF finish, TypeOK, tables, dialers
<1>19. CASE cleanup
  <2>1. slots' \in Seq([session : SessionId, seq : Seqs])
    BY <1>19, EmptySeq DEF cleanup
  <2>2. QED
    BY <1>19, <1>t, <1>r, <2>1 DEF cleanup, TypeOK
<1>20. CASE UNCHANGED vars
  BY <1>20, <1>t DEF vars, TypeOK, tables, dialers, rest
<1>21. QED
  BY <1>1, <1>2, <1>3, <1>4, <1>5, <1>6, <1>6a, <1>7, <1>8, <1>9, <1>10, <1>11, <1>12, <1>13, <1>14,
     <1>15, <1>16, <1>17, <1>18, <1>19, <1>20 DEF Operation

-----------------------------------------------------------------------------
(* Threads.                                                                *)

\* Every operation keeps what is known of the threads and of their keys.
LEMMA ThreadStep ==
    ASSUME IInv, UNCHANGED vars \/ Operation
    PROVE  ThreadsKnown' /\ EnteringKnown' /\ AllIdleWhenFinished'
<1> DEFINE Goal == ThreadsKnown' /\ EnteringKnown' /\ AllIdleWhenFinished'
<1>t. /\ ThreadsKnown /\ EnteringKnown /\ AllIdleWhenFinished
      /\ DOMAIN pc = Threads /\ loc \in [Threads -> Locals] /\ DOMAIN loc = Threads
      /\ Ios \cap Apps = {} /\ Ios \subseteq Threads /\ Apps \subseteq Threads
  BY ServiceAssumption DEF IInv, TypeOK, Threads
<1> USE DEF ThreadsKnown, EnteringKnown, AllIdleWhenFinished, Pending, Leaving, NoLocals
<1>1. ASSUME NEW t \in Apps, NEW at \in {"listen_lock", "dial_lock"}, Call(t, at) PROVE Goal
  BY <1>1, <1>t DEF Call, CanCall, Goto, tables, dialers, rest
<1>2. ASSUME NEW t \in Ios, NEW k \in Keys, on_accepted(t, k) PROVE Goal
  BY <1>2, <1>t DEF on_accepted, CanHandle, Goto
<1>3. ASSUME NEW t \in Ios, NEW k \in Keys, on_accept_failed(t, k) PROVE Goal
  BY <1>3, <1>t DEF on_accept_failed, dialers, rest
<1>4. ASSUME NEW t \in Ios, NEW k \in Keys, on_connected(t, k) PROVE Goal
  BY <1>4, <1>t DEF on_connected, CanHandle, Goto
<1>5. ASSUME NEW t \in Ios, NEW k \in Keys, on_connect_failed(t, k) PROVE Goal
  BY <1>5, <1>t DEF on_connect_failed, CanHandle, Goto, rest
<1>6. ASSUME NEW t \in Threads, NEW id \in live, NEW others \in SUBSET Threads,
             SessionEnds(t, id, others)
      PROVE  Goal
  <2>1. id.seq # 0
    BY DEF IInv, TypeOK
  <2>2. \A u \in others \cup {t} : /\ pc[u] = "idle" /\ pc'[u] \in {"late", "error_lock"}
                                   /\ loc'[u].seq = id.seq
                                   /\ service # "finished" /\ (u \in Apps => service = "running")
    BY <1>6, <1>t DEF SessionEnds, MayClose, Locals
  <2>3. \A u \in Threads : u \notin others \cup {t} => pc'[u] = pc[u] /\ loc'[u] = loc[u]
    BY <1>6, <1>t DEF SessionEnds
  <2>4. UNCHANGED service
    BY <1>6 DEF SessionEnds
  <2>5. QED
    BY <1>t, <2>1, <2>2, <2>3, <2>4
<1>6a. ASSUME NEW t \in Threads, SessionEndsAgain(t) PROVE Goal
  BY <1>6a, <1>t DEF SessionEndsAgain, Goto, dialers
<1>7. ASSUME NEW t \in Threads, Locks(t) PROVE Goal
  BY <1>7, <1>t DEF Locks, Lock, Goto, dialers, rest
<1>8. ASSUME NEW t \in Threads, NEW how \in {"ok", "deaf", "invalid"}, listen(t, how) PROVE Goal
  BY <1>8, <1>t DEF listen, Return, Goto, rest
<1>9. ASSUME NEW t \in Threads, Dial(t) PROVE Goal
  <2>1. keys' \in Keys
    BY <1>9, KeyIsFree DEF Dial, Keys
  <2>2. QED
    BY <1>9, <1>t, <2>1 DEF Dial, Goto, rest
<1>10. ASSUME NEW t \in Threads, Insert(t) PROVE Goal
  BY <1>10, <1>t DEF Insert, Return, Goto, rest
<1>11. ASSUME NEW t \in Threads, NotFound(t) PROVE Goal
  BY <1>11, <1>t DEF NotFound, AcceptNext, Return, Goto, rest
<1>12. ASSUME NEW t \in Threads, TakeSlot(t) PROVE Goal
  <2> DEFINE new == NextSeq(WithFreeSlot[get_free_slot + 1].seq)
  <2>1. new # 0 /\ loc' = [loc EXCEPT ![t].idx = get_free_slot, ![t].seq = new]
    BY <1>12 DEF TakeSlot, NextSeq
  <2>2. /\ pc[t] = "find" /\ pc' = [pc EXCEPT ![t] = "construct"]
        /\ UNCHANGED service
    BY <1>12 DEF TakeSlot, Goto, rest
  <2> HIDE DEF new
  <2>3. QED
    BY <1>t, <2>1, <2>2
<1>13. ASSUME NEW t \in Threads, SlotLimitReached(t) \/ ConstructThrows(t) PROVE Goal
  BY <1>13, <1>t DEF SlotLimitReached, ConstructThrows, dialers
<1>14. ASSUME NEW t \in Threads, Construct(t) PROVE Goal
  BY <1>14, <1>t DEF Construct, Goto, dialers
<1>15. ASSUME NEW t \in Threads, Store(t) PROVE Goal
  BY <1>15, <1>t DEF Store, Goto, dialers, rest
<1>16. ASSUME NEW t \in Threads, Erase(t) PROVE Goal
  BY <1>16, <1>t DEF Erase, Goto, rest
<1>17. ASSUME NEW t \in Threads, UnlockAgain(t) PROVE Goal
  BY <1>17, <1>t DEF UnlockAgain, AcceptNext, Return, Goto, rest
<1>18. ASSUME NEW t \in Threads, EraseFailed(t) PROVE Goal
  BY <1>18, <1>t DEF EraseFailed, Return, Goto, rest
<1>19. ASSUME NEW t \in Threads, error(t) PROVE Goal
  BY <1>19, <1>t DEF error, Return, Goto, dialers, rest
<1>20. CASE finish
  BY <1>20, <1>t DEF finish
<1>21. CASE cleanup
  BY <1>21, <1>t DEF cleanup, Threads
<1>22. CASE UNCHANGED vars
  BY <1>22, <1>t DEF vars, rest
<1>23. QED
  BY <1>1, <1>2, <1>3, <1>4, <1>5, <1>6, <1>6a, <1>7, <1>8, <1>9, <1>10, <1>11, <1>12, <1>13, <1>14,
     <1>15, <1>16, <1>17, <1>18, <1>19, <1>20, <1>21, <1>22 DEF Operation

\* A thread enters a call or takes its key; nobody else is about to take one.
LEMMA BoundedStep ==
    ASSUME IInv, UNCHANGED vars \/ Operation
    PROVE  Bounded'
<1>t. /\ ThreadsKnown /\ DOMAIN pc = Threads /\ Ios \cap Apps = {}
      /\ Ios \subseteq Threads /\ Apps \subseteq Threads /\ keys \in Nat
  BY ServiceAssumption DEF IInv, TypeOK, Threads
<1>b. keys + Cardinality(Calling) <= MaxKeys /\ MaxKeys \in Nat
  BY ServiceAssumption DEF IInv, Bounded
<1>f. IsFiniteSet(Calling) /\ Cardinality(Calling) \in Nat
  BY ServiceAssumption, FS_Subset, FS_CardinalityType DEF Calling
<1>s. ASSUME Calling' = Calling, keys' = keys PROVE Bounded'
  BY <1>s, <1>b DEF Bounded
<1> DEFINE Quiet == Calling' = Calling /\ keys' = keys
<1> USE DEF Calling, ThreadsKnown
<1>1. ASSUME NEW t \in Apps, NEW at \in {"listen_lock", "dial_lock"}, Call(t, at)
      PROVE  Bounded'
  <2>1. Calling' = Calling \cup {t} /\ t \notin Calling /\ keys' = keys
    BY <1>1, <1>t DEF Call, CanCall, Goto, tables, dialers, rest
  <2>2. keys + Cardinality(Calling) < MaxKeys
    BY <1>1 DEF Call
  <2> HIDE DEF Calling
  <2>3. Cardinality(Calling') = Cardinality(Calling) + 1
    BY <1>f, <2>1, FS_AddElement
  <2>4. QED
    BY <1>t, <1>b, <1>f, <2>1, <2>2, <2>3 DEF Bounded
<1>2. ASSUME NEW t \in Ios, NEW k \in Keys, on_accepted(t, k) PROVE Quiet
  BY <1>2, <1>t DEF on_accepted, CanHandle, Goto
<1>3. ASSUME NEW t \in Ios, NEW k \in Keys, on_accept_failed(t, k) PROVE Quiet
  BY <1>3, <1>t DEF on_accept_failed, dialers, rest
<1>4. ASSUME NEW t \in Ios, NEW k \in Keys, on_connected(t, k) PROVE Quiet
  BY <1>4, <1>t DEF on_connected, CanHandle, Goto
<1>5. ASSUME NEW t \in Ios, NEW k \in Keys, on_connect_failed(t, k) PROVE Quiet
  BY <1>5, <1>t DEF on_connect_failed, CanHandle, Goto, rest
<1>6. ASSUME NEW t \in Threads, NEW id \in live, NEW others \in SUBSET Threads,
             SessionEnds(t, id, others)
      PROVE  Quiet
  BY <1>6, <1>t DEF SessionEnds, MayClose, dialers
<1>6a. ASSUME NEW t \in Threads, SessionEndsAgain(t) PROVE Quiet
  BY <1>6a, <1>t DEF SessionEndsAgain, Goto, dialers
<1>7. ASSUME NEW t \in Threads, Locks(t) PROVE Quiet
  BY <1>7, <1>t DEF Locks, Lock, Goto, dialers, rest
<1>8. ASSUME NEW t \in Threads, NEW how \in {"ok", "deaf", "invalid"}, listen(t, how)
      PROVE  Bounded'
  <2>1. Calling' = Calling \ {t} /\ t \in Calling /\ keys' = keys + 1
    BY <1>8, <1>t DEF listen, Return, Goto, rest
  <2> HIDE DEF Calling
  <2>2. Cardinality(Calling') = Cardinality(Calling) - 1
    BY <1>f, <2>1, FS_RemoveElement
  <2>3. QED
    BY <1>t, <1>b, <1>f, <2>1, <2>2 DEF Bounded
<1>9. ASSUME NEW t \in Threads, Dial(t)
      PROVE  Bounded'
  <2>1. Calling' = Calling \ {t} /\ t \in Calling /\ keys' = keys + 1
    BY <1>9, <1>t DEF Dial, Goto, rest
  <2> HIDE DEF Calling
  <2>2. Cardinality(Calling') = Cardinality(Calling) - 1
    BY <1>f, <2>1, FS_RemoveElement
  <2>3. QED
    BY <1>t, <1>b, <1>f, <2>1, <2>2 DEF Bounded
<1>10. ASSUME NEW t \in Threads, Insert(t) PROVE Quiet
  BY <1>10, <1>t DEF Insert, Return, Goto, rest
<1>11. ASSUME NEW t \in Threads, NotFound(t) PROVE Quiet
  BY <1>11, <1>t DEF NotFound, AcceptNext, Return, Goto, rest
<1>12. ASSUME NEW t \in Threads, TakeSlot(t) PROVE Quiet
  BY <1>12, <1>t DEF TakeSlot, Goto, dialers, rest
<1>13. ASSUME NEW t \in Threads, SlotLimitReached(t) \/ ConstructThrows(t) PROVE Quiet
  BY <1>13, <1>t DEF SlotLimitReached, ConstructThrows, dialers
<1>14. ASSUME NEW t \in Threads, Construct(t) PROVE Quiet
  BY <1>14, <1>t DEF Construct, Goto, dialers
<1>15. ASSUME NEW t \in Threads, Store(t) PROVE Quiet
  BY <1>15, <1>t DEF Store, Goto, dialers, rest
<1>16. ASSUME NEW t \in Threads, Erase(t) PROVE Quiet
  BY <1>16, <1>t DEF Erase, Goto, rest
<1>17. ASSUME NEW t \in Threads, UnlockAgain(t) PROVE Quiet
  BY <1>17, <1>t DEF UnlockAgain, AcceptNext, Return, Goto, rest
<1>18. ASSUME NEW t \in Threads, EraseFailed(t) PROVE Quiet
  BY <1>18, <1>t DEF EraseFailed, Return, Goto, rest
<1>19. ASSUME NEW t \in Threads, error(t) PROVE Quiet
  BY <1>19, <1>t DEF error, Return, Goto, dialers, rest
<1>20. CASE finish
  <2>1. Quiet
    BY <1>20 DEF finish, dialers
  <2>2. QED
    BY <1>s, <2>1
<1>21. CASE cleanup
  <2>1. Quiet
    BY <1>21 DEF cleanup
  <2>2. QED
    BY <1>s, <2>1
<1>22. CASE UNCHANGED vars
  <2>1. Quiet
    BY <1>22 DEF vars, dialers
  <2>2. QED
    BY <1>s, <2>1
<1> HIDE DEF Calling, ThreadsKnown
<1>23. QED
  BY <1>1, <1>2, <1>3, <1>4, <1>5, <1>6, <1>6a, <1>7, <1>8, <1>9, <1>10, <1>11, <1>12, <1>13, <1>14,
     <1>15, <1>16, <1>17, <1>18, <1>19, <1>20, <1>21, <1>22, <1>s DEF Operation

\* Keys are given out in ascending order.
LEMMA KeysStep ==
    ASSUME IInv, UNCHANGED vars \/ Operation
    PROVE  KeysKnown'
<1>t. /\ KeysKnown /\ connectors \subseteq Keys /\ connecting \subseteq Keys /\ accepting \subseteq Keys
      /\ DOMAIN loc = Threads /\ \A t \in Threads : loc[t].key \in Nat
      /\ Ios \subseteq Threads /\ Apps \subseteq Threads /\ keys \in Nat
  BY ServiceAssumption DEF IInv, TypeOK, Threads, Locals
<1>k. \A k \in Keys : k \in Nat
  BY ServiceAssumption DEF Keys
<1> USE DEF KeysKnown, NoLocals
<1>1. ASSUME NEW t \in Apps, NEW at \in {"listen_lock", "dial_lock"}, Call(t, at) PROVE KeysKnown'
  BY <1>1, <1>t, <1>k DEF Call, CanCall, Goto, tables, dialers, rest
<1>2. ASSUME NEW t \in Ios, NEW k \in Keys, on_accepted(t, k) PROVE KeysKnown'
  BY <1>2, <1>t, <1>k DEF on_accepted, CanHandle, Goto
<1>3. ASSUME NEW t \in Ios, NEW k \in Keys, on_accept_failed(t, k) PROVE KeysKnown'
  BY <1>3, <1>t, <1>k DEF on_accept_failed, dialers, rest
<1>4. ASSUME NEW t \in Ios, NEW k \in Keys, on_connected(t, k) PROVE KeysKnown'
  BY <1>4, <1>t, <1>k DEF on_connected, CanHandle, Goto
<1>5. ASSUME NEW t \in Ios, NEW k \in Keys, on_connect_failed(t, k) PROVE KeysKnown'
  BY <1>5, <1>t, <1>k DEF on_connect_failed, CanHandle, Goto, rest
<1>6. ASSUME NEW t \in Threads, NEW id \in live, NEW others \in SUBSET Threads,
             SessionEnds(t, id, others)
      PROVE  KeysKnown'
  <2>1. \A u \in Threads : loc'[u].key = loc[u].key
    <3>1. loc \in [Threads -> Locals]
      BY DEF IInv, TypeOK
    <3>2. QED
      BY <1>6, <3>1 DEF SessionEnds, Locals
  <2>2. UNCHANGED <<accepting, connectors, connecting, keys>>
    BY <1>6 DEF SessionEnds, dialers
  <2>3. QED
    BY <1>t, <1>k, <2>1, <2>2
<1>6a. ASSUME NEW t \in Threads, SessionEndsAgain(t) PROVE KeysKnown'
  BY <1>6a, <1>t, <1>k DEF SessionEndsAgain, dialers
<1>7. ASSUME NEW t \in Threads, Locks(t) PROVE KeysKnown'
  BY <1>7, <1>t, <1>k DEF Locks, Lock, Goto, dialers, rest
<1>8. ASSUME NEW t \in Threads, NEW how \in {"ok", "deaf", "invalid"}, listen(t, how) PROVE KeysKnown'
  BY <1>8, <1>t, <1>k DEF listen, Return, Goto, rest
<1>9. ASSUME NEW t \in Threads, Dial(t) PROVE KeysKnown'
  BY <1>9, <1>t, <1>k DEF Dial, Goto, rest
<1>10. ASSUME NEW t \in Threads, Insert(t) PROVE KeysKnown'
  BY <1>10, <1>t, <1>k DEF Insert, Return, Goto, rest
<1>11. ASSUME NEW t \in Threads, NotFound(t) PROVE KeysKnown'
  BY <1>11, <1>t, <1>k DEF NotFound, AcceptNext, Return, Goto, rest
<1>12. ASSUME NEW t \in Threads, TakeSlot(t) PROVE KeysKnown'
  BY <1>12, <1>t, <1>k DEF TakeSlot, Goto, dialers, rest
<1>13. ASSUME NEW t \in Threads, SlotLimitReached(t) \/ ConstructThrows(t) PROVE KeysKnown'
  BY <1>13, <1>t, <1>k DEF SlotLimitReached, ConstructThrows, dialers
<1>14. ASSUME NEW t \in Threads, Construct(t) PROVE KeysKnown'
  BY <1>14, <1>t, <1>k DEF Construct, Goto, dialers
<1>15. ASSUME NEW t \in Threads, Store(t) PROVE KeysKnown'
  BY <1>15, <1>t, <1>k DEF Store, Goto, dialers, rest
<1>16. ASSUME NEW t \in Threads, Erase(t) PROVE KeysKnown'
  BY <1>16, <1>t, <1>k DEF Erase, Goto, rest
<1>17. ASSUME NEW t \in Threads, UnlockAgain(t) PROVE KeysKnown'
  BY <1>17, <1>t, <1>k DEF UnlockAgain, AcceptNext, Return, Goto, rest
<1>18. ASSUME NEW t \in Threads, EraseFailed(t) PROVE KeysKnown'
  BY <1>18, <1>t, <1>k DEF EraseFailed, Return, Goto, rest
<1>19. ASSUME NEW t \in Threads, error(t) PROVE KeysKnown'
  BY <1>19, <1>t, <1>k DEF error, Return, Goto, dialers, rest
<1>20. CASE finish
  BY <1>20, <1>t DEF finish, dialers
<1>21. CASE cleanup
  BY <1>21, <1>t DEF cleanup
<1>22. CASE UNCHANGED vars
  BY <1>22, <1>t DEF vars, dialers
<1>23. QED
  BY <1>1, <1>2, <1>3, <1>4, <1>5, <1>6, <1>6a, <1>7, <1>8, <1>9, <1>10, <1>11, <1>12, <1>13, <1>14,
     <1>15, <1>16, <1>17, <1>18, <1>19, <1>20, <1>21, <1>22 DEF Operation

-----------------------------------------------------------------------------
(* Slots.                                                                  *)

\* Nobody's part in a slot changes.
SlotsQuiet ==
    /\ UNCHANGED <<slots, freeSlots, live, sessionCount, early, doubled>>
    /\ service' = "finished" <=> service = "finished"
    /\ \A t \in Threads :
          /\ Constructing(t)' <=> Constructing(t)
          /\ Storing(t)' <=> Storing(t)
          /\ Ending(t)' <=> Ending(t)
          /\ Leaving(t)' <=> Leaving(t)
          /\ Pending(t) \/ Leaving(t) => loc'[t].idx = loc[t].idx /\ loc'[t].seq = loc[t].seq

\* Then the slots stay as they are known.
LEMMA SlotsQuietStep ==
    ASSUME SlotsKnown, SlotsQuiet PROVE SlotsKnown'
<1>p. \A t \in Threads : /\ Pending(t) <=> Constructing(t) \/ Storing(t)
                         /\ Pending(t)' <=> Constructing(t)' \/ Storing(t)'
  BY DEF Pending, Constructing, Storing
<1>q. /\ \A t \in Threads :
            /\ Pending(t)' <=> Pending(t)
            /\ Pending(t) \/ Ending(t) => loc'[t].idx = loc[t].idx /\ IdOf(t)' = IdOf(t)
      /\ Held' = Held
  BY <1>p DEF SlotsQuiet, IdOf, Held, Ending, Leaving
<1>2. OneHolder'
  BY <1>q, <1>p DEF SlotsKnown, OneHolder, SlotsQuiet
<1>3. EveryHolder'
  BY <1>q, <1>p DEF SlotsKnown, EveryHolder, SlotsQuiet
<1>4. TableKnown'
  BY <1>q, <1>p DEF SlotsKnown, TableKnown, SlotsQuiet
<1>5. QED
  BY <1>2, <1>3, <1>4 DEF SlotsKnown

\* The operations that leave every slot to whoever has it.
LEMMA SlotsQuietOperations ==
    ASSUME IInv, UNCHANGED vars \/ Operation,
           \A t \in Threads : ~(TakeSlot(t) \/ Construct(t) \/ Store(t) \/ error(t)),
           \A t \in Threads, id \in live, others \in SUBSET Threads : ~SessionEnds(t, id, others),
           \A t \in Threads : ~SessionEndsAgain(t), ~cleanup
    PROVE  SlotsQuiet
<1>t. /\ DOMAIN pc = Threads /\ DOMAIN loc = Threads
      /\ Ios \subseteq Threads /\ Apps \subseteq Threads
      /\ \A t \in Threads : pc[t] # "idle" => service # "finished"
  BY SomebodyInside DEF IInv, TypeOK, Threads
<1> USE DEF SlotsQuiet, Constructing, Storing, Ending, Leaving, Pending, tables, rest
<1>1. ASSUME NEW t \in Apps, NEW at \in {"listen_lock", "dial_lock"}, Call(t, at) PROVE SlotsQuiet
  BY <1>1, <1>t DEF Call, CanCall, Goto
<1>2. ASSUME NEW t \in Ios, NEW k \in Keys, on_accepted(t, k) PROVE SlotsQuiet
  BY <1>2, <1>t DEF on_accepted, CanHandle, Goto
<1>3. ASSUME NEW t \in Ios, NEW k \in Keys, on_accept_failed(t, k) PROVE SlotsQuiet
  BY <1>3, <1>t DEF on_accept_failed
<1>4. ASSUME NEW t \in Ios, NEW k \in Keys, on_connected(t, k) PROVE SlotsQuiet
  BY <1>4, <1>t DEF on_connected, CanHandle, Goto
<1>5. ASSUME NEW t \in Ios, NEW k \in Keys, on_connect_failed(t, k) PROVE SlotsQuiet
  BY <1>5, <1>t DEF on_connect_failed, CanHandle, Goto
<1>6. ASSUME NEW t \in Threads, Locks(t) PROVE SlotsQuiet
  BY <1>6, <1>t DEF Locks, Lock, Goto
<1>7. ASSUME NEW t \in Threads, NEW how \in {"ok", "deaf", "invalid"}, listen(t, how) PROVE SlotsQuiet
  BY <1>7, <1>t DEF listen, Return, Goto
<1>8. ASSUME NEW t \in Threads, Dial(t) PROVE SlotsQuiet
  BY <1>8, <1>t DEF Dial, Goto
<1>9. ASSUME NEW t \in Threads, Insert(t) PROVE SlotsQuiet
  BY <1>9, <1>t DEF Insert, Return, Goto
<1>10. ASSUME NEW t \in Threads, NotFound(t) PROVE SlotsQuiet
  BY <1>10, <1>t DEF NotFound, Return, Goto
<1>11. ASSUME NEW t \in Threads, SlotLimitReached(t) \/ ConstructThrows(t) PROVE SlotsQuiet
  BY <1>11, <1>t DEF SlotLimitReached, ConstructThrows
<1>12. ASSUME NEW t \in Threads, Erase(t) PROVE SlotsQuiet
  BY <1>12, <1>t DEF Erase, Goto
<1>13. ASSUME NEW t \in Threads, UnlockAgain(t) PROVE SlotsQuiet
  BY <1>13, <1>t DEF UnlockAgain, Return, Goto
<1>14. ASSUME NEW t \in Threads, EraseFailed(t) PROVE SlotsQuiet
  BY <1>14, <1>t DEF EraseFailed, Return, Goto
<1>15. CASE finish
  BY <1>15, <1>t DEF finish, CanCall
<1>16. CASE UNCHANGED vars
  BY <1>16, <1>t DEF vars
<1> HIDE DEF SlotsQuiet, Constructing, Storing, Ending, Leaving, Pending, tables, rest
<1>17. QED
  BY <1>1, <1>2, <1>3, <1>4, <1>5, <1>6, <1>7, <1>8, <1>9, <1>10, <1>11, <1>12, <1>13, <1>14,
     <1>15, <1>16 DEF Operation

\* A session that is constructed takes over the slot of its thread.
LEMMA ConstructSlots ==
    ASSUME IInv, ~doubled, NEW t \in Threads, Construct(t) PROVE SlotsKnown'
<1>t. /\ DOMAIN pc = Threads /\ InRange /\ OneHolder /\ EveryHolder /\ TableKnown
      /\ service # "finished"
  BY SomebodyInside DEF IInv, SlotsKnown, TypeOK, Construct
<1>1. /\ pc[t] = "construct" /\ pc' = [pc EXCEPT ![t] = "lock2"]
      /\ live' = live \cup {IdOf(t)} /\ IdOf(t).idx = loc[t].idx
      /\ UNCHANGED <<slots, freeSlots, sessionCount, service, early, loc>>
  BY DEF Construct, Goto, tables, IdOf
<1>2. /\ \A u \in Threads : /\ Constructing(u)' <=> Constructing(u) /\ u # t
                            /\ Storing(u)' <=> Storing(u) \/ u = t
                            /\ Ending(u)' <=> Ending(u)
                            /\ Pending(u)' <=> Pending(u)
                            /\ IdOf(u)' = IdOf(u) /\ IdOf(u).idx = loc[u].idx
      /\ Held' = Held /\ Constructing(t) /\ Pending(t) /\ ~Ending(t) /\ ~Storing(t)
  BY <1>t, <1>1 DEF Constructing, Storing, Ending, Pending, IdOf, Held
<1>4. OneHolder'
  BY <1>t, <1>1, <1>2 DEF OneHolder
<1>5. EveryHolder'
  BY <1>t, <1>1, <1>2 DEF EveryHolder
<1>6. TableKnown'
  <2> SUFFICES ASSUME ~early' PROVE TableKnown'
    BY DEF TableKnown
  <2>1. \A u \in Threads : Storing(u) => loc[u].idx # loc[t].idx
    BY <1>t, <1>1, <1>2 DEF TableKnown, OneHolder
  <2>2. QED
    BY <1>t, <1>1, <1>2, <2>1 DEF TableKnown
<1>7. QED
  BY <1>4, <1>5, <1>6 DEF SlotsKnown

\* A session that ends leaves its slot to the thread in error().
LEMMA SessionEndsSlots ==
    ASSUME IInv, ~doubled, NEW t \in Threads, NEW id \in live, NEW others \in SUBSET Threads,
           SessionEnds(t, id, others)
    PROVE  SlotsKnown'
<1>t. /\ DOMAIN pc = Threads /\ loc \in [Threads -> Locals] /\ DOMAIN loc = Threads
      /\ OneHolder /\ EveryHolder /\ TableKnown
      /\ service # "finished" /\ id \in SessionId /\ ThreadsKnown
  BY DEF IInv, SlotsKnown, TypeOK, SessionEnds, MayClose
<1>1. /\ pc[t] = "idle" /\ pc'[t] = "error_lock" /\ t \notin others
      /\ \A u \in others : pc[u] = "idle" /\ pc'[u] = "late"
      /\ \A u \in Threads : u # t /\ u \notin others => pc'[u] = pc[u] /\ loc'[u] = loc[u]
      /\ live' = live \ {id}
      /\ UNCHANGED <<slots, freeSlots, sessionCount, service>>
  BY DEF SessionEnds, MayClose, tables
<1>2. /\ \A u \in Threads : /\ Constructing(u)' <=> Constructing(u)
                            /\ Storing(u)' <=> Storing(u)
                            /\ Ending(u)' <=> Ending(u) \/ u = t
                            /\ Pending(u)' <=> Pending(u)
                            /\ Constructing(u) \/ Storing(u) \/ Pending(u) \/ Ending(u) =>
                                  IdOf(u)' = IdOf(u) /\ loc'[u] = loc[u] /\ u # t
                            /\ IdOf(u).idx = loc[u].idx
      /\ Held' = Held
  BY <1>t, <1>1 DEF Constructing, Storing, Ending, Pending, IdOf, Held
<1>3. loc'[t].idx = id.idx /\ loc'[t].seq = id.seq /\ IdOf(t)' = id
  <2>1. loc[t] \in Locals
    BY <1>t
  <2>2. loc'[t] = [loc[t] EXCEPT !.seq = id.seq, !.idx = id.idx]
    BY DEF SessionEnds
  <2>3. loc'[t].idx = id.idx /\ loc'[t].seq = id.seq
    BY <2>1, <2>2 DEF Locals
  <2>4. QED
    BY <1>t, <2>3 DEF IdOf, SessionId
<1>e. ~early' => ~early /\ \A u \in Threads : Storing(u) => IdOf(u) # id
  BY <1>t DEF SessionEnds, ThreadsKnown, Storing
<1>5. OneHolder'
  BY <1>t, <1>1, <1>2, <1>3 DEF OneHolder
<1>6. EveryHolder'
  BY <1>t, <1>1, <1>2, <1>3 DEF EveryHolder
<1>7. TableKnown'
  BY <1>t, <1>1, <1>2, <1>3, <1>e DEF TableKnown
<1>8. QED
  BY <1>5, <1>6, <1>7 DEF SlotsKnown

\* There are finitely many sessions in the table.
LEMMA HeldIsFinite ==
    ASSUME TypeOK PROVE IsFiniteSet(Held) /\ Cardinality(Held) \in Nat
<1>1. Len(slots) - 1 \in Int
  BY DEF TypeOK
<1>2. IsFiniteSet(0 .. Len(slots) - 1)
  BY <1>1, FS_Interval
<1>3. QED
  BY <1>2, FS_Subset, FS_CardinalityType DEF Held

\* An assignment to one slot's session changes that session only.
LEMMA SessionAssigned ==
    ASSUME TypeOK, NEW i \in Nat, i < Len(slots), NEW x,
           slots' = [slots EXCEPT ![i + 1].session = x]
    PROVE  /\ Len(slots') = Len(slots) /\ Len(slots) \in Nat
           /\ slots'[i + 1].session = x
           /\ \A j \in 0 .. Len(slots) - 1 : j # i => slots'[j + 1] = slots[j + 1]
<1>1. /\ slots \in Seq([session : SessionId, seq : Seqs]) /\ i + 1 \in 1 .. Len(slots)
      /\ Len(slots) \in Nat
  BY DEF TypeOK
<1>2. slots[i + 1] \in [session : SessionId, seq : Seqs] /\ DOMAIN slots = 1 .. Len(slots)
  <2>1. DOMAIN slots = 1 .. Len(slots)
    BY <1>1
  <2>2. QED
    BY <1>1, <2>1, ElementOfSeq
<1>3. slots' = [slots EXCEPT ![i + 1] = [slots[i + 1] EXCEPT !.session = x]]
  OBVIOUS
<1>4. DOMAIN slots' = 1 .. Len(slots) /\ Len(slots') = Len(slots)
  BY <1>1, <1>2, <1>3
<1>5. slots'[i + 1].session = x
  BY <1>1, <1>2, <1>3
<1>6. \A j \in 0 .. Len(slots) - 1 : j # i => slots'[j + 1] = slots[j + 1]
  BY <1>1, <1>2, <1>3
<1>7. QED
  BY <1>1, <1>4, <1>5, <1>6

\* The indices that threads and sessions have are natural numbers.
LEMMA IndicesAreNat ==
    ASSUME TypeOK
    PROVE  /\ \A u \in Threads : loc[u].idx \in Nat /\ IdOf(u).idx = loc[u].idx
           /\ \A id \in live : id.idx \in Nat
           /\ \A i \in Range(freeSlots) : i \in Nat
           /\ DOMAIN pc = Threads /\ DOMAIN loc = Threads
           /\ sessionCount \in Nat /\ Len(slots) \in Nat
<1>1. Indices \subseteq Nat
  BY ServiceAssumption DEF Indices
<1>2. \A i \in Range(freeSlots) : i \in Nat
  <2>1. freeSlots \in Seq(Indices)
    BY DEF TypeOK
  <2>2. DOMAIN freeSlots = 1 .. Len(freeSlots)
    BY <2>1
  <2>3. QED
    BY <1>1, <2>1, <2>2, ElementOfSeq DEF Range
<1>3. \A u \in Threads : loc[u].idx \in Nat /\ IdOf(u).idx = loc[u].idx
  BY <1>1 DEF TypeOK, Locals, IdOf
<1>4. \A id \in live : id.idx \in Nat
  BY <1>1 DEF TypeOK, SessionId
<1>5. DOMAIN pc = Threads /\ DOMAIN loc = Threads /\ Len(slots) \in Nat
  BY DEF TypeOK
<1>6. sessionCount \in Nat
  BY ServiceAssumption DEF TypeOK, Seqs
<1>7. QED
  BY <1>2, <1>3, <1>4, <1>5, <1>6

\* on_new_socket() fills the slot that it took, while its session lives.
LEMMA StoreSlots ==
    ASSUME IInv, ~doubled, NEW t \in Threads, Store(t) PROVE SlotsKnown'
<1> DEFINE i == loc[t].idx
<1>t. /\ InRange /\ OneHolder /\ EveryHolder /\ TableKnown
      /\ service # "finished" /\ TypeOK /\ ThreadsKnown
  BY SomebodyInside DEF IInv, SlotsKnown, Store
<1>n. /\ \A u \in Threads : loc[u].idx \in Nat /\ IdOf(u).idx = loc[u].idx
      /\ \A id \in live : id.idx \in Nat
      /\ \A j \in Range(freeSlots) : j \in Nat
      /\ DOMAIN pc = Threads /\ DOMAIN loc = Threads /\ i \in Nat
      /\ sessionCount \in Nat /\ Len(slots) \in Nat
  BY <1>t, IndicesAreNat
<1>1. /\ pc[t] = "store" /\ \E l \in {"unlock", "erase"} : pc' = [pc EXCEPT ![t] = l]
      /\ slots' = [slots EXCEPT ![i + 1].session = IdOf(t)]
      /\ sessionCount' = (sessionCount + 1) % Wrap
      /\ UNCHANGED <<freeSlots, live, service, early, loc>>
  BY DEF Store, Goto, rest
<1>2. /\ \A u \in Threads : /\ Constructing(u)' <=> Constructing(u)
                            /\ Storing(u)' <=> Storing(u) /\ u # t
                            /\ Ending(u)' <=> Ending(u)
                            /\ Pending(u)' <=> Pending(u) /\ u # t
                            /\ Pending(u) <=> Constructing(u) \/ Storing(u)
                            /\ IdOf(u)' = IdOf(u)
      /\ ~Constructing(t) /\ Pending(t) /\ ~Ending(t) /\ Storing(t)
  BY <1>n, <1>1 DEF Constructing, Storing, Ending, Pending, IdOf
<1>3. i < Len(slots)
  BY <1>t, <1>2 DEF InRange, Leaving
<1> HIDE DEF i
<1>4. /\ Len(slots') = Len(slots)
      /\ slots'[i + 1].session = IdOf(t)
      /\ \A j \in 0 .. Len(slots) - 1 : j # i => slots'[j + 1] = slots[j + 1]
  BY <1>t, <1>n, <1>1, <1>3, SessionAssigned
<1>6. OneHolder'
  BY <1>t, <1>1, <1>2 DEF OneHolder
<1>7. EveryHolder'
  BY <1>t, <1>1, <1>2, <1>4 DEF EveryHolder
<1>8. TableKnown'
  <2> SUFFICES ASSUME ~early' PROVE TableKnown'
    BY DEF TableKnown
  <2>0. ~early /\ IdOf(t) \in live /\ IdOf(t).idx = i
    BY <1>t, <1>n, <1>1, <1>2 DEF TableKnown, i
  <2>1. \A j \in Range(freeSlots') : slots'[j + 1].session = NoSession
    <3>1. i \notin Range(freeSlots)
      BY <1>t, <2>0 DEF OneHolder
    <3>2. \A j \in Range(freeSlots) : j \in 0 .. Len(slots) - 1 /\ j # i
      BY <1>t, <1>n, <3>1 DEF InRange, Leaving, Ending
    <3>3. QED
      BY <1>t, <1>1, <1>4, <2>0, <3>2 DEF TableKnown
  <2>2. \A u \in Threads : Pending(u)' => slots'[loc'[u].idx + 1].session = NoSession
    <3>1. \A u \in Threads : Pending(u) /\ u # t => loc[u].idx # i
      BY <1>t, <1>2, <2>0 DEF OneHolder, TableKnown, i
    <3>2. \A u \in Threads : Pending(u) => loc[u].idx \in 0 .. Len(slots) - 1
      BY <1>t, <1>n DEF InRange, Leaving, Ending
    <3>3. TAKE u \in Threads
    <3>4. HAVE Pending(u)'
    <3>5. slots'[loc[u].idx + 1] = slots[loc[u].idx + 1]
      BY <1>2, <1>4, <3>1, <3>2, <3>4
    <3>6. QED
      BY <1>t, <1>1, <1>2, <2>0, <3>4, <3>5 DEF TableKnown
  <2>3. \A u \in Threads : Storing(u)' => IdOf(u)' \in live'
    BY <1>t, <1>1, <1>2, <2>0 DEF TableKnown
  <2>4. \A u, v \in Threads : Storing(u)' /\ Storing(v)' /\ loc'[u].idx = loc'[v].idx => u = v
    BY <1>t, <1>1, <1>2, <2>0 DEF TableKnown
  <2>5. \A u \in Threads : Ending(u)' => slots'[loc'[u].idx + 1].session = IdOf(u)'
    <3>1. \A u \in Threads : Ending(u) => loc[u].idx # i /\ loc[u].idx \in 0 .. Len(slots) - 1
      BY <1>t, <1>n, <2>0 DEF OneHolder, InRange, Leaving, Ending
    <3>2. TAKE u \in Threads
    <3>3. HAVE Ending(u)'
    <3>4. slots'[loc[u].idx + 1] = slots[loc[u].idx + 1]
      BY <1>2, <1>4, <3>1, <3>3
    <3>5. slots[loc[u].idx + 1].session = IdOf(u)
      BY <1>t, <1>2, <2>0, <3>3 DEF TableKnown
    <3>6. QED
      BY <1>1, <1>2, <3>4, <3>5
  <2>6. \A id \in live' : slots'[id.idx + 1].session = id
                          \/ \E u \in Threads : Storing(u)' /\ IdOf(u)' = id
    <3> SUFFICES ASSUME NEW id \in live
                 PROVE  slots'[id.idx + 1].session = id
                        \/ \E u \in Threads : Storing(u)' /\ IdOf(u)' = id
      BY <1>1
    <3>1. CASE id.idx = i
      <4>1. id = IdOf(t)
        BY <1>t, <2>0, <3>1 DEF OneHolder
      <4>2. QED
        BY <1>4, <3>1, <4>1
    <3>2. CASE id.idx # i
      <4>1. id.idx \in 0 .. Len(slots) - 1 /\ id # IdOf(t)
        BY <1>t, <1>n, <2>0, <3>2 DEF InRange, Leaving, Ending
      <4>2. QED
        BY <1>t, <1>2, <1>4, <2>0, <3>2, <4>1 DEF TableKnown
    <3>3. QED
      BY <3>1, <3>2
  <2>7. sessionCount' = Cardinality(Held') % Wrap
    <3>1. IdOf(t) # NoSession
      BY <1>t, <1>2 DEF ThreadsKnown, IdOf, NoSession
    <3>2. slots[i + 1].session = NoSession
      BY <1>t, <1>2, <2>0 DEF TableKnown, i
    <3>3. Held' = Held \cup {i} /\ i \notin Held
      BY <1>n, <1>3, <1>4, <3>1, <3>2 DEF Held
    <3>4. Cardinality(Held') = Cardinality(Held) + 1 /\ Cardinality(Held) \in Nat
      BY <1>t, <3>3, HeldIsFinite, FS_AddElement
    <3>5. sessionCount' = ((Cardinality(Held) % Wrap) + 1) % Wrap
      BY <1>t, <1>1, <2>0 DEF TableKnown
    <3>6. QED
      BY <3>4, <3>5, WrapCounts, ServiceAssumption
  <2>8. QED
    BY <2>1, <2>2, <2>3, <2>4, <2>5, <2>6, <2>7 DEF TableKnown
<1>9. QED
  BY <1>6, <1>7, <1>8 DEF SlotsKnown

\* error() empties the slot and makes it free.
LEMMA ErrorSlots ==
    ASSUME IInv, ~doubled, NEW t \in Threads, error(t) PROVE SlotsKnown'
<1> DEFINE i == loc[t].idx
<1>t. /\ InRange /\ OneHolder /\ EveryHolder /\ TableKnown
      /\ service # "finished" /\ TypeOK /\ ThreadsKnown
  BY SomebodyInside DEF IInv, SlotsKnown, error
<1>n. /\ \A u \in Threads : loc[u].idx \in Nat /\ IdOf(u).idx = loc[u].idx
      /\ \A id \in live : id.idx \in Nat
      /\ \A j \in Range(freeSlots) : j \in Nat
      /\ DOMAIN pc = Threads /\ DOMAIN loc = Threads /\ i \in Nat
      /\ sessionCount \in Nat /\ Len(slots) \in Nat
  BY <1>t, IndicesAreNat
<1>1. /\ pc[t] = "error" /\ pc' = [pc EXCEPT ![t] = "idle"]
      /\ loc' = [loc EXCEPT ![t] = NoLocals]
      /\ slots' = [slots EXCEPT ![i + 1].session = NoSession]
      /\ freeSlots' = Append(freeSlots, i)
      /\ sessionCount' = (sessionCount + Wrap - 1) % Wrap
      /\ UNCHANGED <<live, service, early>>
  BY DEF error, Return, Goto, rest
<1>2. /\ \A u \in Threads : /\ Constructing(u)' <=> Constructing(u)
                            /\ Storing(u)' <=> Storing(u)
                            /\ Ending(u)' <=> Ending(u) /\ u # t
                            /\ Pending(u)' <=> Pending(u)
                            /\ Pending(u) <=> Constructing(u) \/ Storing(u)
                            /\ u # t => IdOf(u)' = IdOf(u) /\ loc'[u] = loc[u]
      /\ ~Constructing(t) /\ ~Pending(t) /\ Ending(t) /\ ~Storing(t)
  BY <1>n, <1>1 DEF Constructing, Storing, Ending, Pending, IdOf
<1>3. i < Len(slots) /\ i \notin Range(freeSlots)
  BY <1>t, <1>2 DEF InRange, Leaving, Ending, OneHolder
<1>4. \A u \in Threads : (Constructing(u) \/ Ending(u)) /\ u # t => loc[u].idx # i
  BY <1>t, <1>2 DEF OneHolder
<1>5. \A id \in live : id.idx # i
  BY <1>t, <1>2 DEF OneHolder
<1>6. ~early => slots[i + 1].session = IdOf(t)
  BY <1>t, <1>2 DEF TableKnown
<1> HIDE DEF i
<1>7. /\ Len(slots') = Len(slots)
      /\ slots'[i + 1].session = NoSession
      /\ \A j \in 0 .. Len(slots) - 1 : j # i => slots'[j + 1] = slots[j + 1]
  BY <1>t, <1>n, <1>1, <1>3, SessionAssigned
<1>8. Range(freeSlots') = Range(freeSlots) \cup {i} /\ IsInjective(freeSlots')
  <2>1. freeSlots \in Seq(Indices) /\ IsInjective(freeSlots)
    BY <1>t DEF TypeOK, OneHolder
  <2>2. /\ DOMAIN freeSlots = 1 .. Len(freeSlots) /\ Len(freeSlots) \in Nat
        /\ DOMAIN freeSlots' = 1 .. Len(freeSlots) + 1
        /\ freeSlots'[Len(freeSlots) + 1] = i
        /\ \A j \in 1 .. Len(freeSlots) : freeSlots'[j] = freeSlots[j]
    BY <1>1, <2>1
  <2>3. Range(freeSlots') = Range(freeSlots) \cup {i}
    BY <2>2 DEF Range
  <2>4. \A j \in 1 .. Len(freeSlots) : freeSlots[j] # i
    BY <1>3, <2>2 DEF Range
  <2>5. IsInjective(freeSlots')
    BY <2>1, <2>2, <2>4 DEF IsInjective
  <2>6. QED
    BY <2>3, <2>5
<1>10. OneHolder'
  BY <1>t, <1>1, <1>2, <1>4, <1>5, <1>8 DEF OneHolder
<1>11. EveryHolder'
  BY <1>t, <1>1, <1>2, <1>7, <1>8 DEF EveryHolder, i
<1>12. TableKnown'
  <2> SUFFICES ASSUME ~early' PROVE TableKnown'
    BY DEF TableKnown
  <2>0. ~early
    BY <1>1
  <2>1. \A j \in Range(freeSlots') : slots'[j + 1].session = NoSession
    <3>1. \A j \in Range(freeSlots) : j \in 0 .. Len(slots) - 1 /\ j # i
      BY <1>t, <1>n, <1>3 DEF InRange, Leaving, Ending
    <3>2. QED
      BY <1>t, <1>7, <1>8, <2>0, <3>1 DEF TableKnown
  <2>2. \A u \in Threads : Pending(u)' => slots'[loc'[u].idx + 1].session = NoSession
    <3>1. TAKE u \in Threads
    <3>2. HAVE Pending(u)'
    <3>3. u # t /\ loc'[u] = loc[u] /\ Pending(u) /\ loc[u].idx \in 0 .. Len(slots) - 1
      BY <1>t, <1>n, <1>2, <3>2 DEF InRange, Leaving, Ending
    <3>4. slots[loc[u].idx + 1].session = NoSession
      BY <1>t, <2>0, <3>3 DEF TableKnown
    <3>5. CASE loc[u].idx = i
      BY <1>7, <3>3, <3>5
    <3>6. CASE loc[u].idx # i
      BY <1>7, <3>3, <3>4, <3>6
    <3>7. QED
      BY <3>5, <3>6
  <2>3. \A u \in Threads : Storing(u)' => IdOf(u)' \in live'
    BY <1>t, <1>1, <1>2, <2>0 DEF TableKnown
  <2>4. \A u, v \in Threads : Storing(u)' /\ Storing(v)' /\ loc'[u].idx = loc'[v].idx => u = v
    BY <1>t, <1>1, <1>2, <2>0 DEF TableKnown
  <2>5. \A u \in Threads : Ending(u)' => slots'[loc'[u].idx + 1].session = IdOf(u)'
    <3>1. TAKE u \in Threads
    <3>2. HAVE Ending(u)'
    <3>3. u # t /\ loc'[u] = loc[u] /\ IdOf(u)' = IdOf(u) /\ Ending(u)
      BY <1>2, <3>2
    <3>4. loc[u].idx \in 0 .. Len(slots) - 1 /\ loc[u].idx # i
      BY <1>t, <1>n, <1>4, <3>3 DEF InRange, Leaving, Ending
    <3>5. slots[loc[u].idx + 1].session = IdOf(u)
      BY <1>t, <2>0, <3>3 DEF TableKnown
    <3>6. QED
      BY <1>7, <3>3, <3>4, <3>5
  <2>6. \A id \in live' : slots'[id.idx + 1].session = id
                          \/ \E u \in Threads : Storing(u)' /\ IdOf(u)' = id
    <3> SUFFICES ASSUME NEW id \in live
                 PROVE  slots'[id.idx + 1].session = id
                        \/ \E u \in Threads : Storing(u)' /\ IdOf(u)' = id
      BY <1>1
    <3>1. id.idx \in 0 .. Len(slots) - 1 /\ id.idx # i
      BY <1>t, <1>n, <1>5 DEF InRange, Leaving, Ending
    <3>2. slots'[id.idx + 1] = slots[id.idx + 1]
      BY <1>7, <3>1
    <3>3. QED
      BY <1>t, <1>2, <2>0, <3>2 DEF TableKnown
  <2>7. sessionCount' = Cardinality(Held') % Wrap
    <3>1. IdOf(t) # NoSession
      BY <1>t, <1>2 DEF ThreadsKnown, IdOf, NoSession, Ending, Leaving
    <3>2. Held' = Held \ {i} /\ i \in Held
      BY <1>n, <1>3, <1>6, <1>7, <2>0, <3>1 DEF Held
    <3>3. Cardinality(Held') = Cardinality(Held) - 1 /\ Cardinality(Held) \in Nat
      BY <1>t, <3>2, HeldIsFinite, FS_RemoveElement
    <3>4. sessionCount' = ((Cardinality(Held) % Wrap) + Wrap - 1) % Wrap
      BY <1>t, <1>1, <2>0 DEF TableKnown
    <3>5. QED
      BY <3>3, <3>4, WrapCounts, ServiceAssumption
  <2>8. QED
    BY <2>1, <2>2, <2>3, <2>4, <2>5, <2>6, <2>7 DEF TableKnown
<1>13. QED
  BY <1>10, <1>11, <1>12 DEF SlotsKnown

\* What get_free_slot() does to the table and to the free slots: the slot it
\* returns is nobody's, and is free no more.
LEMMA FreeSlotTaken ==
    ASSUME IInv, ~doubled, service # "finished", Len(slots) < SlotLimit, NEW x,
           slots' = [WithFreeSlot EXCEPT ![get_free_slot + 1].seq = x],
           freeSlots' = FreeSlotsLeft
    PROVE  /\ get_free_slot \in Nat /\ get_free_slot < Len(slots')
           /\ Len(slots) \in Nat /\ Len(slots') \in Nat /\ Len(slots) <= Len(slots')
           /\ \A j \in 0 .. Len(slots') - 1 : j < Len(slots) \/ j = get_free_slot
           /\ \A j \in 0 .. Len(slots) - 1 : slots'[j + 1].session = slots[j + 1].session
           /\ ~early => slots'[get_free_slot + 1].session = NoSession
           /\ Range(freeSlots') = Range(freeSlots) \ {get_free_slot} /\ IsInjective(freeSlots')
           /\ \A id \in live : id.idx # get_free_slot
           /\ \A u \in Threads : Constructing(u) \/ Ending(u) => loc[u].idx # get_free_slot
<1> DEFINE i == get_free_slot  w == WithFreeSlot
<1>t. /\ InRange /\ OneHolder /\ TableKnown /\ TypeOK
      /\ slots \in Seq([session : SessionId, seq : Seqs]) /\ freeSlots \in Seq(Indices)
      /\ Len(slots) \in Nat /\ DOMAIN slots = 1 .. Len(slots)
  BY DEF IInv, SlotsKnown, TypeOK
<1>n. /\ \A u \in Threads : loc[u].idx \in Nat
      /\ \A id \in live : id.idx \in Nat
  BY <1>t, IndicesAreNat
<1>1. /\ i \in Indices /\ w \in Seq([session : SessionId, seq : Seqs])
      /\ i + 1 \in 1 .. Len(w)
  BY FreeSlotExists
<1>2. i \in Nat /\ Len(w) \in Nat /\ DOMAIN w = 1 .. Len(w)
  BY <1>1, ServiceAssumption DEF Indices
<1>3. slots' = [w EXCEPT ![i + 1] = [w[i + 1] EXCEPT !.seq = x]]
  OBVIOUS
<1>p. \A u \in Threads : Constructing(u) => Pending(u)
  BY DEF Constructing, Pending
<1>4. CASE freeSlots = <<>>
  <2>1. w = Append(slots, [session |-> NoSession, seq |-> 0]) /\ i = Len(slots)
        /\ freeSlots' = freeSlots
    BY <1>4 DEF WithFreeSlot, get_free_slot, FreeSlotsLeft
  <2>2. Range(freeSlots) = {}
    BY <1>4 DEF Range
  <2> HIDE DEF i, w
  <2>3. /\ Len(w) = Len(slots) + 1 /\ w[Len(slots) + 1] = [session |-> NoSession, seq |-> 0]
        /\ \A j \in 1 .. Len(slots) : w[j] = slots[j]
    BY <1>t, <2>1
  <2>4. /\ DOMAIN slots' = 1 .. Len(slots) + 1 /\ Len(slots') = Len(slots) + 1
        /\ \A j \in 1 .. Len(slots) : slots'[j] = slots[j]
        /\ slots'[i + 1].session = NoSession
    <3>1. DOMAIN slots' = 1 .. Len(slots) + 1 /\ Len(slots') = Len(slots) + 1
      BY <1>t, <1>2, <1>3, <2>3
    <3>2. ASSUME NEW j \in 1 .. Len(slots) PROVE slots'[j] = slots[j]
      <4>1. j \in DOMAIN w /\ j # i + 1
        BY <1>t, <1>2, <2>1, <2>3
      <4>2. slots'[j] = w[j]
        BY <1>3, <4>1
      <4>3. QED
        BY <2>3, <4>2
    <3>3. slots'[i + 1] = [w[i + 1] EXCEPT !.seq = x]
      BY <1>1, <1>2, <1>3
    <3>4. slots'[i + 1].session = NoSession
      BY <2>1, <2>3, <3>3
    <3>5. QED
      BY <3>1, <3>2, <3>4
  <2>5. /\ \A j \in 0 .. Len(slots) - 1 : slots'[j + 1].session = slots[j + 1].session
        /\ \A j \in 0 .. Len(slots') - 1 : j < Len(slots) \/ j = i
    <3>1. \A j \in 0 .. Len(slots) - 1 : j + 1 \in 1 .. Len(slots)
      BY <1>t
    <3>2. \A j \in 0 .. Len(slots) : j < Len(slots) \/ j = Len(slots)
      BY <1>t
    <3>3. 0 .. Len(slots') - 1 = 0 .. Len(slots)
      BY <1>t, <2>4
    <3>4. QED
      BY <2>1, <2>4, <3>1, <3>2, <3>3
  <2>6. /\ \A id \in live : id.idx # i
        /\ \A u \in Threads : Constructing(u) \/ Ending(u) => loc[u].idx # i
    BY <1>t, <1>n, <1>p, <2>1 DEF InRange, Leaving, Ending
  <2>7. Range(freeSlots') = Range(freeSlots) \ {i} /\ IsInjective(freeSlots')
    BY <1>t, <2>1, <2>2 DEF OneHolder
  <2>8. QED
    BY <1>t, <1>2, <2>1, <2>4, <2>5, <2>6, <2>7 DEF i
<1>5. CASE freeSlots # <<>>
  <2>1. w = slots /\ i = Head(freeSlots) /\ freeSlots' = Tail(freeSlots)
    BY <1>5 DEF WithFreeSlot, get_free_slot, FreeSlotsLeft
  <2> HIDE DEF i, w
  <2>2. /\ DOMAIN freeSlots = 1 .. Len(freeSlots) /\ Len(freeSlots) \in Nat /\ Len(freeSlots) >= 1
        /\ freeSlots[1] = i
        /\ DOMAIN freeSlots' = 1 .. Len(freeSlots) - 1
        /\ \A j \in 1 .. Len(freeSlots) - 1 : freeSlots'[j] = freeSlots[j + 1]
    <3>1. Len(freeSlots) \in Nat /\ Len(freeSlots) # 0 /\ DOMAIN freeSlots = 1 .. Len(freeSlots)
      BY <1>t, <1>5, EmptySeq
    <3>2. Len(Tail(freeSlots)) = Len(freeSlots) - 1 /\ Tail(freeSlots) \in Seq(Indices)
      BY <1>t, <1>5, HeadTailProperties
    <3>3. QED
      BY <1>t, <2>1, <3>1, <3>2
  <2>3. i \in Range(freeSlots)
    BY <2>2 DEF Range
  <2>4. IsInjective(freeSlots)
    BY <1>t DEF OneHolder
  <2>5. Range(freeSlots') = Range(freeSlots) \ {i}
    <3>1. \A j \in 2 .. Len(freeSlots) : freeSlots[j] # i
      BY <2>2, <2>4 DEF IsInjective
    <3>2. ASSUME NEW v \in Range(freeSlots') PROVE v \in Range(freeSlots) \ {i}
      <4>1. PICK j \in 1 .. Len(freeSlots) - 1 : v = freeSlots'[j]
        BY <2>2 DEF Range
      <4>2. j + 1 \in 2 .. Len(freeSlots) /\ j + 1 \in DOMAIN freeSlots /\ v = freeSlots[j + 1]
        BY <2>2, <4>1
      <4>3. QED
        BY <3>1, <4>2 DEF Range
    <3>3. ASSUME NEW v \in Range(freeSlots), v # i PROVE v \in Range(freeSlots')
      <4>1. PICK j \in 1 .. Len(freeSlots) : v = freeSlots[j]
        BY <2>2 DEF Range
      <4>2. j - 1 \in 1 .. Len(freeSlots) - 1 /\ j = (j - 1) + 1
        BY <2>2, <3>3, <4>1
      <4>3. v = freeSlots'[j - 1] /\ j - 1 \in DOMAIN freeSlots'
        BY <2>2, <4>1, <4>2
      <4>4. QED
        BY <4>3 DEF Range
    <3>4. QED
      BY <3>2, <3>3
  <2>6. IsInjective(freeSlots')
    BY <2>2, <2>4 DEF IsInjective
  <2>7. /\ Len(slots') = Len(slots) /\ slots'[i + 1].session = slots[i + 1].session
        /\ \A j \in 1 .. Len(slots) : slots'[j].session = slots[j].session
    <3>1. slots[i + 1] \in [session : SessionId, seq : Seqs] /\ i + 1 \in 1 .. Len(slots)
      BY <1>t, <1>1, <2>1, ElementOfSeq
    <3>2. DOMAIN slots' = 1 .. Len(slots) /\ Len(slots') = Len(slots)
      BY <1>t, <1>3, <2>1, <3>1
    <3>3. slots'[i + 1].session = slots[i + 1].session
      BY <1>t, <1>3, <2>1, <3>1
    <3>4. \A j \in 1 .. Len(slots) : j # i + 1 => slots'[j] = slots[j]
      BY <1>t, <1>3, <2>1, <3>1
    <3>5. QED
      BY <3>2, <3>3, <3>4
  <2>8. /\ \A j \in 0 .. Len(slots) - 1 : slots'[j + 1].session = slots[j + 1].session
        /\ \A j \in 0 .. Len(slots') - 1 : j < Len(slots) \/ j = i
    BY <1>t, <2>7
  <2>9. /\ \A id \in live : id.idx # i
        /\ \A u \in Threads : Constructing(u) \/ Ending(u) => loc[u].idx # i
    BY <1>t, <2>3 DEF OneHolder
  <2>10. ~early => slots'[i + 1].session = NoSession
    BY <1>t, <2>3, <2>7 DEF TableKnown
  <2>11. i < Len(slots)
    BY <1>t, <2>3 DEF InRange, Leaving, Ending
  <2>12. QED
    BY <1>t, <1>2, <2>5, <2>6, <2>7, <2>8, <2>9, <2>10, <2>11 DEF i
<1>6. QED
  BY <1>4, <1>5

\* A thread that takes a slot answers for it.
LEMMA TakeSlotSlots ==
    ASSUME IInv, ~doubled, NEW t \in Threads, TakeSlot(t) PROVE SlotsKnown'
<1> DEFINE i == get_free_slot
            new == NextSeq(WithFreeSlot[i + 1].seq)
<1>t. /\ InRange /\ OneHolder /\ EveryHolder /\ TableKnown
      /\ service # "finished" /\ TypeOK
  BY SomebodyInside DEF IInv, SlotsKnown, TakeSlot
<1>n. /\ \A u \in Threads : loc[u].idx \in Nat /\ IdOf(u).idx = loc[u].idx
      /\ \A id \in live : id.idx \in Nat
      /\ \A j \in Range(freeSlots) : j \in Nat
      /\ DOMAIN pc = Threads /\ DOMAIN loc = Threads
  BY <1>t, IndicesAreNat
<1>1. /\ pc[t] = "find" /\ pc' = [pc EXCEPT ![t] = "construct"]
      /\ Len(slots) < SlotLimit
      /\ slots' = [WithFreeSlot EXCEPT ![i + 1].seq = (new + 1) % Wrap]
      /\ loc' = [loc EXCEPT ![t].idx = i, ![t].seq = new]
      /\ freeSlots' = FreeSlotsLeft
      /\ UNCHANGED <<sessionCount, live, service, early>>
  BY DEF TakeSlot, Goto, rest
<1>2. /\ i \in Nat /\ i < Len(slots')
      /\ Len(slots) \in Nat /\ Len(slots') \in Nat /\ Len(slots) <= Len(slots')
      /\ \A j \in 0 .. Len(slots') - 1 : j < Len(slots) \/ j = i
      /\ \A j \in 0 .. Len(slots) - 1 : slots'[j + 1].session = slots[j + 1].session
      /\ ~early => slots'[i + 1].session = NoSession
      /\ Range(freeSlots') = Range(freeSlots) \ {i} /\ IsInjective(freeSlots')
      /\ \A id \in live : id.idx # i
      /\ \A u \in Threads : Constructing(u) \/ Ending(u) => loc[u].idx # i
  BY <1>t, <1>1, FreeSlotTaken
<1> HIDE DEF i, new
<1>3. loc'[t].idx = i /\ \A u \in Threads : u # t => loc'[u] = loc[u]
  <2>1. loc[t] \in Locals
    BY <1>t DEF TypeOK
  <2>2. QED
    BY <1>1, <1>n, <2>1 DEF Locals
<1>4. /\ \A u \in Threads : /\ Constructing(u)' <=> Constructing(u) \/ u = t
                            /\ Storing(u)' <=> Storing(u)
                            /\ Ending(u)' <=> Ending(u)
                            /\ Pending(u)' <=> Pending(u) \/ u = t
                            /\ Pending(u) <=> Constructing(u) \/ Storing(u)
                            /\ u # t => IdOf(u)' = IdOf(u)
      /\ ~Constructing(t) /\ ~Pending(t) /\ ~Ending(t) /\ ~Storing(t)
  BY <1>n, <1>1, <1>3 DEF Constructing, Storing, Ending, Pending, IdOf
<1>6. OneHolder'
  <2>1. \A id \in live' : id.idx \notin Range(freeSlots')
    BY <1>t, <1>1, <1>2 DEF OneHolder
  <2>2. \A id, other \in live' : id.idx = other.idx => id = other
    BY <1>t, <1>1 DEF OneHolder
  <2>3. ASSUME NEW u \in Threads, Constructing(u)' \/ Ending(u)'
        PROVE  /\ loc'[u].idx \notin Range(freeSlots')
               /\ \A id \in live' : id.idx # loc'[u].idx
               /\ \A v \in Threads : (Constructing(v)' \/ Ending(v)') /\ loc'[v].idx = loc'[u].idx
                                     => v = u
    <3>1. CASE u = t
      BY <1>1, <1>2, <1>3, <1>4, <3>1
    <3>2. CASE u # t
      <4>1. (Constructing(u) \/ Ending(u)) /\ loc'[u] = loc[u]
        BY <1>3, <1>4, <2>3, <3>2
      <4>2. /\ loc[u].idx \notin Range(freeSlots) /\ loc[u].idx # i
            /\ \A id \in live : id.idx # loc[u].idx
            /\ \A v \in Threads : (Constructing(v) \/ Ending(v)) /\ loc[v].idx = loc[u].idx => v = u
        BY <1>t, <1>2, <4>1 DEF OneHolder
      <4>3. QED
        BY <1>1, <1>2, <1>3, <1>4, <4>1, <4>2
    <3>3. QED
      BY <3>1, <3>2
  <2>4. QED
    BY <1>2, <2>1, <2>2, <2>3 DEF OneHolder
<1>7. EveryHolder'
  <2> SUFFICES ASSUME NEW j \in 0 .. Len(slots') - 1
               PROVE  \/ j \in Range(freeSlots')
                      \/ \E id \in live' : id.idx = j
                      \/ \E u \in Threads : (Constructing(u)' \/ Ending(u)') /\ loc'[u].idx = j
    BY DEF EveryHolder
  <2>1. CASE j = i
    BY <1>3, <1>4, <2>1
  <2>2. CASE j # i
    <3>1. j \in 0 .. Len(slots) - 1
      BY <1>2, <2>2
    <3>2. QED
      BY <1>t, <1>1, <1>2, <1>3, <1>4, <2>2, <3>1 DEF EveryHolder
  <2>3. QED
    BY <2>1, <2>2
<1>8. TableKnown'
  <2> SUFFICES ASSUME ~early' PROVE TableKnown'
    BY DEF TableKnown
  <2>0. ~early
    BY <1>1
  <2>i. /\ \A j \in Range(freeSlots) : j \in 0 .. Len(slots) - 1
        /\ \A id \in live : id.idx \in 0 .. Len(slots) - 1
        /\ \A u \in Threads : Pending(u) \/ Ending(u) => loc[u].idx \in 0 .. Len(slots) - 1
    BY <1>t, <1>n, <1>2 DEF InRange, Leaving, Ending
  <2>1. \A j \in Range(freeSlots') : slots'[j + 1].session = NoSession
    BY <1>t, <1>2, <2>0, <2>i DEF TableKnown
  <2>2. \A u \in Threads : Pending(u)' => slots'[loc'[u].idx + 1].session = NoSession
    <3>1. TAKE u \in Threads
    <3>2. HAVE Pending(u)'
    <3>3. CASE u = t
      BY <1>2, <1>3, <2>0, <3>3
    <3>4. CASE u # t
      <4>1. Pending(u) /\ loc'[u] = loc[u] /\ loc[u].idx \in 0 .. Len(slots) - 1
        BY <1>3, <1>4, <2>i, <3>2, <3>4
      <4>2. slots[loc[u].idx + 1].session = NoSession
        BY <1>t, <2>0, <4>1 DEF TableKnown
      <4>3. QED
        BY <1>2, <4>1, <4>2
    <3>5. QED
      BY <3>3, <3>4
  <2>3. \A u \in Threads : Storing(u)' => IdOf(u)' \in live'
    BY <1>t, <1>1, <1>4, <2>0 DEF TableKnown
  <2>4. \A u, v \in Threads : Storing(u)' /\ Storing(v)' /\ loc'[u].idx = loc'[v].idx => u = v
    BY <1>t, <1>3, <1>4, <2>0 DEF TableKnown
  <2>5. \A u \in Threads : Ending(u)' => slots'[loc'[u].idx + 1].session = IdOf(u)'
    <3>1. TAKE u \in Threads
    <3>2. HAVE Ending(u)'
    <3>3. Ending(u) /\ loc'[u] = loc[u] /\ loc[u].idx \in 0 .. Len(slots) - 1 /\ IdOf(u)' = IdOf(u)
      BY <1>3, <1>4, <2>i, <3>2
    <3>4. slots[loc[u].idx + 1].session = IdOf(u)
      BY <1>t, <2>0, <3>3 DEF TableKnown
    <3>5. QED
      BY <1>2, <3>3, <3>4
  <2>6. \A id \in live' : slots'[id.idx + 1].session = id
                          \/ \E u \in Threads : Storing(u)' /\ IdOf(u)' = id
    <3> SUFFICES ASSUME NEW id \in live
                 PROVE  slots'[id.idx + 1].session = id
                        \/ \E u \in Threads : Storing(u)' /\ IdOf(u)' = id
      BY <1>1
    <3>1. slots'[id.idx + 1].session = slots[id.idx + 1].session
      BY <1>2, <2>i
    <3>2. QED
      BY <1>t, <1>4, <2>0, <3>1 DEF TableKnown
  <2>7. sessionCount' = Cardinality(Held') % Wrap
    <3>1. Held' \subseteq Held
      <4>1. ASSUME NEW j \in Held' PROVE j \in Held
        <5>1. j \in 0 .. Len(slots') - 1 /\ slots'[j + 1].session # NoSession
          BY DEF Held
        <5>2. j # i
          BY <1>2, <2>0, <5>1
        <5>3. j \in 0 .. Len(slots) - 1
          BY <1>2, <5>1, <5>2
        <5>4. QED
          BY <1>2, <5>1, <5>3 DEF Held
      <4>2. QED
        BY <4>1
    <3>2. Held \subseteq Held'
      <4>1. ASSUME NEW j \in Held PROVE j \in Held'
        <5>1. j \in 0 .. Len(slots) - 1 /\ slots[j + 1].session # NoSession
          BY DEF Held
        <5>2. j \in 0 .. Len(slots') - 1
          BY <1>2, <5>1
        <5>3. QED
          BY <1>2, <5>1, <5>2 DEF Held
      <4>2. QED
        BY <4>1
    <3>3. Held' = Held
      BY <3>1, <3>2
    <3>4. QED
      BY <1>t, <1>1, <2>0, <3>3 DEF TableKnown
  <2>8. QED
    BY <2>1, <2>2, <2>3, <2>4, <2>5, <2>6, <2>7 DEF TableKnown
<1>9. QED
  BY <1>6, <1>7, <1>8 DEF SlotsKnown

\* Only SessionEndsAgain() destroys a session twice.
LEMMA DoubledStays ==
    ASSUME IInv, UNCHANGED vars \/ Operation, \A t \in Threads : ~SessionEndsAgain(t)
    PROVE  doubled' = doubled
<1>1. ASSUME NEW t \in Threads, TakeSlot(t) \/ Construct(t) \/ Store(t) \/ error(t)
      PROVE  doubled' = doubled
  BY <1>1 DEF TakeSlot, Construct, Store, error, rest
<1>2. ASSUME NEW t \in Threads, NEW id \in live, NEW others \in SUBSET Threads,
             SessionEnds(t, id, others)
      PROVE  doubled' = doubled
  BY <1>2 DEF SessionEnds
<1>3. CASE cleanup
  BY <1>3 DEF cleanup
<1>4. QED
  BY <1>1, <1>2, <1>3, SlotsQuietOperations DEF SlotsQuiet

\* Every operation keeps what is known of the slots, while no session is
\* destroyed twice.
LEMMA SlotsStep ==
    ASSUME IInv, UNCHANGED vars \/ Operation, ~doubled' PROVE SlotsKnown'
<1>d. ~doubled /\ \A t \in Threads : ~SessionEndsAgain(t)
  <2>1. CASE \E t \in Threads : SessionEndsAgain(t)
    BY <2>1 DEF SessionEndsAgain
  <2>2. CASE ~\E t \in Threads : SessionEndsAgain(t)
    BY <2>2, DoubledStays
  <2>3. QED
    BY <2>1, <2>2
<1>t. SlotsKnown
  BY <1>d DEF IInv
<1>1. CASE cleanup
  <2>1. /\ service' = "finished" /\ UNCHANGED <<freeSlots, live, pc, loc>>
    BY <1>1 DEF cleanup
  <2>2. OneHolder'
    BY <1>t, <2>1 DEF SlotsKnown, OneHolder, Constructing, Ending
  <2>3. QED
    BY <2>1, <2>2 DEF SlotsKnown, EveryHolder, TableKnown
<1>2. QED
  BY <1>d, <1>t, <1>1, SlotsQuietOperations, SlotsQuietStep, ConstructSlots, SessionEndsSlots,
     StoreSlots, ErrorSlots, TakeSlotSlots

\* Every operation keeps the indices that anybody has inside sessions_.
LEMMA InRangeStep ==
    ASSUME IInv, UNCHANGED vars \/ Operation PROVE InRange'
<1> SUFFICES ASSUME service' # "finished" PROVE InRange'
  BY DEF InRange
<1>t. /\ TypeOK /\ DOMAIN pc = Threads /\ DOMAIN loc = Threads
      /\ loc \in [Threads -> Locals] /\ Len(slots) \in Nat
      /\ freeSlots \in Seq(Indices)
  BY DEF IInv, TypeOK
<1>n. /\ \A u \in Threads : loc[u].idx \in Nat /\ IdOf(u).idx = loc[u].idx
      /\ \A x \in live : x.idx \in Nat
      /\ \A j \in Range(freeSlots) : j \in Nat
  BY <1>t, IndicesAreNat
<1>i. service # "finished" =>
        /\ \A i \in Range(freeSlots) : i < Len(slots)
        /\ \A id \in live : id.idx < Len(slots)
        /\ \A t \in Threads : Pending(t) \/ Leaving(t) => loc[t].idx < Len(slots)
  BY DEF IInv, InRange
<1>1. ASSUME SlotsQuiet PROVE InRange'
  <2>1. \A t \in Threads : Pending(t)' <=> Pending(t)
    <3>1. \A t \in Threads : /\ Pending(t) <=> Constructing(t) \/ Storing(t)
                             /\ Pending(t)' <=> Constructing(t)' \/ Storing(t)'
      BY DEF Pending, Constructing, Storing
    <3>2. QED
      BY <1>1, <3>1 DEF SlotsQuiet
  <2>2. QED
    BY <1>1, <1>i, <2>1 DEF SlotsQuiet, InRange
<1>2. ASSUME NEW t \in Threads, TakeSlot(t) PROVE InRange'
  <2> DEFINE i == get_free_slot
             new == NextSeq(WithFreeSlot[i + 1].seq)
  <2>1. /\ pc[t] = "find" /\ pc' = [pc EXCEPT ![t] = "construct"]
        /\ Len(slots) < SlotLimit
        /\ slots' = [WithFreeSlot EXCEPT ![i + 1].seq = (new + 1) % Wrap]
        /\ loc' = [loc EXCEPT ![t].idx = i, ![t].seq = new]
        /\ freeSlots' = FreeSlotsLeft /\ live' = live
    BY <1>2 DEF TakeSlot, Goto, rest
  <2>2. service # "finished"
    BY <1>2, SomebodyInside DEF TakeSlot
  <2>3. /\ i \in Nat /\ i + 1 \in 1 .. Len(WithFreeSlot) /\ Len(WithFreeSlot) \in Nat
        /\ Len(slots) <= Len(WithFreeSlot)
        /\ WithFreeSlot \in Seq([session : SessionId, seq : Seqs])
    BY <2>1, <2>2, FreeSlotExists, ServiceAssumption DEF Indices
  <2> HIDE DEF i, new
  <2>4. Len(slots') = Len(WithFreeSlot)
    BY <2>1, <2>3
  <2>5. loc'[t].idx = i /\ \A u \in Threads : u # t => loc'[u] = loc[u]
    BY <1>t, <2>1 DEF Locals
  <2>6. Range(freeSlots') \subseteq Range(freeSlots)
    <3>1. CASE freeSlots = <<>>
      BY <2>1, <3>1 DEF FreeSlotsLeft
    <3>2. CASE freeSlots # <<>>
      <4>1. /\ freeSlots' = Tail(freeSlots) /\ Len(freeSlots) \in Nat /\ Len(freeSlots) # 0
            /\ DOMAIN freeSlots = 1 .. Len(freeSlots)
        BY <1>t, <2>1, <3>2 DEF FreeSlotsLeft
      <4>2. /\ DOMAIN freeSlots' = 1 .. Len(freeSlots) - 1
            /\ \A j \in 1 .. Len(freeSlots) - 1 : freeSlots'[j] = freeSlots[j + 1]
        BY <1>t, <4>1
      <4>3. QED
        BY <4>1, <4>2 DEF Range
    <3>3. QED
      BY <3>1, <3>2
  <2>7. \A u \in Threads : Pending(u)' \/ Leaving(u)' => Pending(u) \/ Leaving(u) \/ u = t
    BY <1>t, <2>1 DEF Pending, Leaving
  <2>8. \A u \in Threads : Pending(u)' \/ Leaving(u)' => loc'[u].idx < Len(slots')
    BY <1>t, <1>n, <1>i, <2>2, <2>3, <2>4, <2>5, <2>7
  <2>9. \A j \in Range(freeSlots') : j < Len(slots')
    BY <1>t, <1>n, <1>i, <2>2, <2>3, <2>4, <2>6
  <2>10. \A id \in live' : id.idx < Len(slots')
    BY <1>t, <1>n, <1>i, <2>1, <2>2, <2>3, <2>4
  <2>11. QED
    BY <2>8, <2>9, <2>10 DEF InRange
<1>3. ASSUME NEW t \in Threads, Construct(t) PROVE InRange'
  <2>1. /\ pc[t] = "construct" /\ pc' = [pc EXCEPT ![t] = "lock2"]
        /\ live' = live \cup {IdOf(t)} /\ service # "finished"
        /\ UNCHANGED <<slots, freeSlots, loc>>
    BY <1>3, SomebodyInside DEF Construct, Goto, tables
  <2>2. /\ Pending(t)
        /\ \A u \in Threads : Pending(u)' \/ Leaving(u)' => Pending(u) \/ Leaving(u)
    BY <1>t, <2>1 DEF Pending, Leaving
  <2>3. QED
    BY <1>n, <1>i, <2>1, <2>2 DEF InRange
<1>4. ASSUME NEW t \in Threads, Store(t) \/ error(t) PROVE InRange'
  <2> DEFINE i == loc[t].idx
  <2>1. /\ \E x : slots' = [slots EXCEPT ![i + 1].session = x]
        /\ freeSlots' \in {freeSlots, Append(freeSlots, i)} /\ live' = live
    BY <1>4 DEF Store, error, rest
  <2>2. /\ service # "finished" /\ (Pending(t) \/ Leaving(t))
        /\ \A u \in Threads : Pending(u)' \/ Leaving(u)' =>
                                (Pending(u) \/ Leaving(u)) /\ loc'[u] = loc[u]
    BY <1>4, <1>t, SomebodyInside DEF Store, error, Return, Goto, Pending, Leaving
  <2>3. i \in Nat /\ i < Len(slots)
    BY <1>n, <1>i, <2>2
  <2> HIDE DEF i
  <2>4. Len(slots') = Len(slots)
    BY <1>t, <2>1, <2>3, SessionAssigned
  <2>5. Range(freeSlots') \subseteq Range(freeSlots) \cup {i}
    <3>1. CASE freeSlots' = freeSlots
      BY <3>1
    <3>2. CASE freeSlots' = Append(freeSlots, i)
      <4>1. /\ DOMAIN freeSlots = 1 .. Len(freeSlots) /\ Len(freeSlots) \in Nat
            /\ DOMAIN freeSlots' = 1 .. Len(freeSlots) + 1
            /\ freeSlots'[Len(freeSlots) + 1] = i
            /\ \A j \in 1 .. Len(freeSlots) : freeSlots'[j] = freeSlots[j]
        BY <1>t, <3>2
      <4>2. QED
        BY <4>1 DEF Range
    <3>3. QED
      BY <2>1, <3>1, <3>2
  <2>6. QED
    BY <1>i, <2>1, <2>2, <2>3, <2>4, <2>5 DEF InRange
<1>5. ASSUME NEW t \in Threads, NEW id \in live, NEW others \in SUBSET Threads,
             SessionEnds(t, id, others)
      PROVE  InRange'
  <2>1. /\ \A u \in others \cup {t} : service # "finished"
        /\ \A u \in Threads : \/ u \in others \cup {t} /\ loc'[u].idx = id.idx
                              \/ loc'[u] = loc[u] /\ pc'[u] = pc[u]
        /\ live' \subseteq live
        /\ UNCHANGED <<slots, freeSlots>>
    <3>1. \A u \in others \cup {t} : service # "finished"
      BY <1>5 DEF SessionEnds, MayClose
    <3>2. live' \subseteq live /\ UNCHANGED <<slots, freeSlots>>
      BY <1>5 DEF SessionEnds, tables
    <3>3. ASSUME NEW u \in Threads
          PROVE  \/ u \in others \cup {t} /\ loc'[u].idx = id.idx
                 \/ loc'[u] = loc[u] /\ pc'[u] = pc[u]
      <4>1. CASE u \in others \cup {t}
        <5>1. loc'[u] = [loc[u] EXCEPT !.seq = id.seq, !.idx = id.idx] /\ loc[u] \in Locals
          BY <1>5, <1>t, <4>1 DEF SessionEnds
        <5>2. QED
          BY <4>1, <5>1 DEF Locals
      <4>2. CASE u \notin others \cup {t}
        BY <1>5, <4>2 DEF SessionEnds
      <4>3. QED
        BY <4>1, <4>2
    <3>4. QED
      BY <3>1, <3>2, <3>3
  <2>2. \A u \in Threads : pc'[u] = pc[u] =>
            (Pending(u)' <=> Pending(u)) /\ (Leaving(u)' <=> Leaving(u))
    BY DEF Pending, Leaving
  <2>3. QED
    BY <1>i, <2>1, <2>2 DEF InRange
<1>6. ASSUME NEW t \in Threads, SessionEndsAgain(t) PROVE InRange'
  <2>1. /\ pc[t] = "late" /\ pc' = [pc EXCEPT ![t] = "error_lock"] /\ service # "finished"
        /\ UNCHANGED <<slots, freeSlots, live, loc>>
    BY <1>6, SomebodyInside DEF SessionEndsAgain, Goto, tables
  <2>2. \A u \in Threads : Pending(u)' \/ Leaving(u)' => Pending(u) \/ Leaving(u)
    BY <1>t, <2>1 DEF Pending, Leaving
  <2>3. QED
    BY <1>i, <2>1, <2>2 DEF InRange
<1>7. ~cleanup
  BY DEF cleanup
<1>8. QED
  BY <1>1, <1>2, <1>3, <1>4, <1>5, <1>6, <1>7, SlotsQuietOperations

-----------------------------------------------------------------------------
(* Connectors.                                                             *)

\* No connect starts or ends, and no connector comes or goes; a handler may
\* have taken mutex_.
ConnectorsQuiet ==
    /\ UNCHANGED <<connectors, connectorCount, connecting>>
    /\ service' = "finished" <=> service = "finished"
    /\ \A t \in Threads :
          /\ \A k \in Keys : Handling(t, k)' <=> Handling(t, k)
          /\ pc'[t] = "insert" <=> pc[t] = "insert"
          /\ pc[t] = "insert" => loc'[t].key = loc[t].key
          /\ pc[t] \in {"lock", "cf_lock"} => pc'[t] = pc[t] \/ pc'[t] \in {"find", "cf_erase"}

\* Then the connectors stay as they are known, while mutex_ does its work.
LEMMA ConnectorsQuietStep ==
    ASSUME TypeOK, ConnectorsKnown, ConnectorsQuiet,
           raced' = (raced \/ ~Exclusive')
    PROVE  ConnectorsKnown'
<1> SUFFICES ASSUME ~raced', service' # "finished" PROVE ConnectorsKnown'
  BY DEF ConnectorsKnown
<1>1. /\ ~raced /\ service # "finished" /\ Exclusive'
      /\ UNCHANGED <<connectors, connectorCount, connecting>>
      /\ connectors \subseteq Keys /\ connecting \subseteq Keys
  BY DEF ConnectorsQuiet, TypeOK
<1>2. \A k \in Keys : (Busy(k)' <=> Busy(k)) /\ (Entering(k)' <=> Entering(k))
  BY <1>1 DEF ConnectorsQuiet, Busy, Entering
<1>3. \A k \in connectors' : Busy(k)' /\ ~Entering(k)'
  BY <1>1, <1>2 DEF ConnectorsKnown
<1>4. \A k \in Keys : Entering(k)' => Busy(k)'
  BY <1>1, <1>2 DEF ConnectorsKnown
<1>5. \A k \in connecting' : k \in connectors' \/ Entering(k)'
  BY <1>1, <1>2 DEF ConnectorsKnown
<1>6. ASSUME NEW t \in Threads, NEW k \in Keys, Handling(t, k)'
      PROVE  /\ k \notin connecting'
             /\ \A u \in Threads : Handling(u, k)' => u = t
             /\ k \in connectors' \/ (pc'[t] \in {"lock", "cf_lock"} /\ Entering(k)')
  <2>1. Handling(t, k)
    BY <1>6 DEF ConnectorsQuiet
  <2>2. /\ k \notin connecting
        /\ \A u \in Threads : Handling(u, k) => u = t
        /\ k \in connectors \/ (pc[t] \in {"lock", "cf_lock"} /\ Entering(k))
    BY <1>1, <2>1 DEF ConnectorsKnown
  <2>3. \A u \in Threads : Handling(u, k)' => u = t
    BY <2>2 DEF ConnectorsQuiet
  <2>4. ASSUME k \notin connectors PROVE pc'[t] \in {"lock", "cf_lock"} /\ Entering(k)'
    <3>1. Entering(k)' /\ pc[t] \in {"lock", "cf_lock"}
      BY <1>2, <2>2, <2>4
    <3>2. PICK u \in Threads : pc'[u] = "insert"
      BY <3>1 DEF Entering
    <3>3. pc'[t] \notin {"find", "cf_erase"}
      BY <1>1, <3>2 DEF Exclusive, Inside
    <3>4. QED
      BY <3>1, <3>3 DEF ConnectorsQuiet
  <2>5. QED
    BY <1>1, <2>2, <2>3, <2>4
<1>7. connectorCount' = Cardinality(connectors') % Wrap
  BY <1>1 DEF ConnectorsKnown
<1>8. QED
  BY <1>1, <1>3, <1>4, <1>5, <1>6, <1>7 DEF ConnectorsKnown

\* The operations that leave the connectors alone.  (The key of a connect is
\* always found: NotFound is for acceptors.)
LEMMA ConnectorsQuietOperations ==
    ASSUME IInv, ~raced, UNCHANGED vars \/ Operation,
           \A t \in Threads : ~(Dial(t) \/ Insert(t) \/ Erase(t) \/ EraseFailed(t)),
           \A t \in Ios, k \in Keys : ~(on_connected(t, k) \/ on_connect_failed(t, k)),
           ~cleanup
    PROVE  ConnectorsQuiet
<1>t. /\ DOMAIN pc = Threads /\ loc \in [Threads -> Locals] /\ DOMAIN loc = Threads
      /\ Ios \subseteq Threads /\ Apps \subseteq Threads
      /\ \A t \in Threads : pc[t] # "idle" => service # "finished"
      /\ EnteringKnown
  BY SomebodyInside DEF IInv, TypeOK, Threads
<1>h. \A t \in Threads, k \in Keys :
         (Handling(t, k) /\ service # "finished" /\ pc[t] = "find") => k \in connectors
  BY DEF IInv, ConnectorsKnown
<1> USE DEF ConnectorsQuiet, dialers, rest, Handling
<1>1. ASSUME NEW t \in Apps, NEW at \in {"listen_lock", "dial_lock"}, Call(t, at) PROVE ConnectorsQuiet
  BY <1>1, <1>t DEF Call, CanCall, Goto
<1>2. ASSUME NEW t \in Ios, NEW k \in Keys, on_accepted(t, k) PROVE ConnectorsQuiet
  BY <1>2, <1>t DEF on_accepted, CanHandle, Goto
<1>3. ASSUME NEW t \in Ios, NEW k \in Keys, on_accept_failed(t, k) PROVE ConnectorsQuiet
  BY <1>3, <1>t DEF on_accept_failed
<1>4. ASSUME NEW t \in Threads, NEW id \in live, NEW others \in SUBSET Threads,
             SessionEnds(t, id, others)
      PROVE  ConnectorsQuiet
  <2>1. \A u \in Threads : loc'[u].key = loc[u].key /\ loc'[u].accepted = loc[u].accepted
    BY <1>4, <1>t DEF SessionEnds, Locals
  <2>2. \A u \in Threads : \/ pc'[u] = pc[u]
                           \/ pc[u] = "idle" /\ pc'[u] \in {"late", "error_lock"}
    BY <1>4, <1>t DEF SessionEnds, MayClose
  <2>3. UNCHANGED <<connectors, connectorCount, connecting, service>>
    BY <1>4 DEF SessionEnds
  <2>4. QED
    BY <2>1, <2>2, <2>3
<1>4a. ASSUME NEW t \in Threads, SessionEndsAgain(t) PROVE ConnectorsQuiet
  BY <1>4a, <1>t DEF SessionEndsAgain, Goto
<1>5. ASSUME NEW t \in Threads, Locks(t) PROVE ConnectorsQuiet
  BY <1>5, <1>t DEF Locks, Lock, Goto
<1>6. ASSUME NEW t \in Threads, NEW how \in {"ok", "deaf", "invalid"}, listen(t, how) PROVE ConnectorsQuiet
  BY <1>6, <1>t DEF listen, Return, Goto
<1>7. ASSUME NEW t \in Threads, NotFound(t) PROVE ConnectorsQuiet
  <2>1. /\ pc[t] = "find" /\ pc' = [pc EXCEPT ![t] = "idle"] /\ loc' = [loc EXCEPT ![t] = NoLocals]
        /\ UNCHANGED <<connectors, connectorCount, connecting, service>>
    BY <1>7 DEF NotFound, Return, Goto
  <2>2. loc[t].accepted
    BY <1>7, <1>t, <1>h DEF NotFound, Known, EnteringKnown
  <2>3. QED
    BY <1>t, <2>1, <2>2
<1>8. ASSUME NEW t \in Threads, TakeSlot(t) PROVE ConnectorsQuiet
  <2>1. /\ pc[t] = "find" /\ pc' = [pc EXCEPT ![t] = "construct"]
        /\ UNCHANGED <<connectors, connectorCount, connecting, service>>
    BY <1>8 DEF TakeSlot, Goto
  <2>2. /\ loc'[t].key = loc[t].key /\ loc'[t].accepted = loc[t].accepted
        /\ \A u \in Threads : u # t => loc'[u] = loc[u]
    <3>1. \E i, new : loc' = [loc EXCEPT ![t].idx = i, ![t].seq = new]
      BY <1>8 DEF TakeSlot
    <3>2. QED
      BY <1>t, <3>1 DEF Locals
  <2>3. QED
    BY <1>t, <2>1, <2>2
<1>9. ASSUME NEW t \in Threads, SlotLimitReached(t) \/ ConstructThrows(t) PROVE ConnectorsQuiet
  BY <1>9, <1>t DEF SlotLimitReached, ConstructThrows
<1>10. ASSUME NEW t \in Threads, Construct(t) PROVE ConnectorsQuiet
  BY <1>10, <1>t DEF Construct, Goto
<1>11. ASSUME NEW t \in Threads, Store(t) PROVE ConnectorsQuiet
  BY <1>11, <1>t DEF Store, Goto
<1>12. ASSUME NEW t \in Threads, UnlockAgain(t) PROVE ConnectorsQuiet
  BY <1>12, <1>t DEF UnlockAgain, Return, Goto
<1>13. ASSUME NEW t \in Threads, error(t) PROVE ConnectorsQuiet
  BY <1>13, <1>t DEF error, Return, Goto
<1>14. CASE finish
  BY <1>14, <1>t DEF finish, CanCall
<1>15. CASE UNCHANGED vars
  BY <1>15, <1>t DEF vars
<1> HIDE DEF ConnectorsQuiet, dialers, rest, Handling
<1>16. QED
  BY <1>1, <1>2, <1>3, <1>4, <1>4a, <1>5, <1>6, <1>7, <1>8, <1>9, <1>10, <1>11, <1>12, <1>13, <1>14,
     <1>15 DEF Operation

\* connect() starts a connect with a key that nobody has.
LEMMA DialConnectors ==
    ASSUME IInv, NEW t \in Threads, Dial(t), Exclusive', ~raced PROVE ConnectorsKnown'
<1> DEFINE d == keys + 1
<1>t. /\ DOMAIN pc = Threads /\ loc \in [Threads -> Locals] /\ DOMAIN loc = Threads
      /\ ConnectorsKnown /\ KeysKnown /\ service # "finished" /\ keys \in Nat
      /\ \A u \in Threads : loc[u].key \in Nat
      /\ connectors \subseteq Keys /\ connecting \subseteq Keys
  BY SomebodyInside DEF IInv, TypeOK, Dial, Locals
<1>1. /\ pc[t] = "dial" /\ pc' = [pc EXCEPT ![t] = "insert"]
      /\ connecting' = connecting \cup {d} /\ loc' = [loc EXCEPT ![t].key = d]
      /\ UNCHANGED <<connectors, connectorCount, service>>
  BY DEF Dial, Goto, rest
<1>2. /\ d \notin connecting /\ d \notin connectors /\ d \in Keys
      /\ \A u \in Threads : loc[u].key # d
      /\ \A k \in Keys : k \in Nat
  <2>1. \A k \in Keys : k \in Nat
    BY ServiceAssumption DEF Keys
  <2>2. d \in Keys
    BY <1>1, KeyIsFree DEF Keys
  <2>3. QED
    BY <1>t, <2>1, <2>2 DEF KeysKnown
<1> HIDE DEF d
<1>3. /\ loc'[t].key = d /\ \A u \in Threads : u # t => loc'[u] = loc[u]
  BY <1>t, <1>1 DEF Locals
<1>4. \A u \in Threads, k \in Keys : Handling(u, k)' <=> Handling(u, k)
  BY <1>t, <1>1, <1>3 DEF Handling
<1>5. \A k \in Keys : Entering(k)' <=> Entering(k) \/ k = d
  BY <1>t, <1>1, <1>3 DEF Entering
<1>6. \A k \in Keys : Busy(k)' <=> Busy(k) \/ k = d
  BY <1>1, <1>4 DEF Busy
<1>7. \A u \in Threads : ~Handling(u, d)
  BY <1>2 DEF Handling
<1>8. \A k \in connectors' : Busy(k)' /\ ~Entering(k)'
  BY <1>t, <1>1, <1>2, <1>5, <1>6 DEF ConnectorsKnown
<1>9. \A k \in Keys : Entering(k)' => Busy(k)'
  BY <1>t, <1>5, <1>6 DEF ConnectorsKnown
<1>10. \A k \in connecting' : k \in connectors' \/ Entering(k)'
  BY <1>t, <1>1, <1>2, <1>5 DEF ConnectorsKnown
<1>11. ASSUME NEW u \in Threads, NEW k \in Keys, Handling(u, k)'
       PROVE  /\ k \notin connecting'
              /\ \A v \in Threads : Handling(v, k)' => v = u
              /\ k \in connectors' \/ (pc'[u] \in {"lock", "cf_lock"} /\ Entering(k)')
  <2>1. Handling(u, k) /\ k # d /\ u # t
    BY <1>1, <1>4, <1>7, <1>11 DEF Handling
  <2>2. /\ k \notin connecting
        /\ \A v \in Threads : Handling(v, k) => v = u
        /\ k \in connectors \/ (pc[u] \in {"lock", "cf_lock"} /\ Entering(k))
    BY <1>t, <2>1 DEF ConnectorsKnown
  <2>3. QED
    BY <1>t, <1>1, <1>4, <1>5, <2>1, <2>2
<1>12. connectorCount' = Cardinality(connectors') % Wrap
  BY <1>t, <1>1 DEF ConnectorsKnown
<1>13. QED
  BY <1>8, <1>9, <1>10, <1>11, <1>12 DEF ConnectorsKnown

\* There are finitely many connectors.
LEMMA ConnectorsAreFinite ==
    ASSUME TypeOK PROVE IsFiniteSet(connectors) /\ Cardinality(connectors) \in Nat
<1>1. IsFiniteSet(Keys)
  BY ServiceAssumption, FS_Interval DEF Keys
<1>2. QED
  BY <1>1, FS_Subset, FS_CardinalityType DEF TypeOK

\* connect() enters its connector, which is new, and counts it.
LEMMA InsertConnectors ==
    ASSUME IInv, NEW t \in Threads, Insert(t), Exclusive', ~raced PROVE ConnectorsKnown'
<1> DEFINE d == loc[t].key
<1>t. /\ DOMAIN pc = Threads /\ DOMAIN loc = Threads
      /\ ConnectorsKnown /\ service # "finished" /\ TypeOK
      /\ connectors \subseteq Keys /\ connecting \subseteq Keys /\ d \in Keys
  BY SomebodyInside DEF IInv, TypeOK, Insert, EnteringKnown
<1>1. /\ pc[t] = "insert" /\ pc' = [pc EXCEPT ![t] = "idle"]
      /\ loc' = [loc EXCEPT ![t] = NoLocals]
      /\ connectors' = connectors \cup {d}
      /\ connectorCount' = (connectorCount + 1) % Wrap
      /\ UNCHANGED <<connecting, service>>
  BY DEF Insert, Return, Goto, rest
<1>2. /\ Entering(d)
      /\ \A u \in Threads : pc[u] = "insert" => u = t
  BY <1>t, <1>1 DEF Entering, ConnectorsKnown, Exclusive, Inside
<1> HIDE DEF d
<1>3. \A u \in Threads, k \in Keys : Handling(u, k)' <=> Handling(u, k)
  BY <1>t, <1>1 DEF Handling
<1>4. \A k \in Keys : ~Entering(k)' /\ (Entering(k) => k = d)
  BY <1>t, <1>1, <1>2 DEF Entering, d
<1>5. \A k \in Keys : Busy(k)' <=> Busy(k)
  BY <1>1, <1>3 DEF Busy
<1>6. d \notin connectors /\ Busy(d)
  BY <1>t, <1>2 DEF ConnectorsKnown
<1>7. \A k \in connectors' : Busy(k)' /\ ~Entering(k)'
  BY <1>t, <1>1, <1>4, <1>5, <1>6 DEF ConnectorsKnown
<1>8. \A k \in connecting' : k \in connectors'
  BY <1>t, <1>1, <1>4 DEF ConnectorsKnown
<1>9. ASSUME NEW u \in Threads, NEW k \in Keys, Handling(u, k)'
      PROVE  /\ k \notin connecting'
             /\ \A v \in Threads : Handling(v, k)' => v = u
             /\ k \in connectors'
  <2>1. Handling(u, k)
    BY <1>3, <1>9
  <2>2. QED
    BY <1>t, <1>1, <1>3, <1>4, <2>1 DEF ConnectorsKnown
<1>10. connectorCount' = Cardinality(connectors') % Wrap
  <2>1. Cardinality(connectors') = Cardinality(connectors) + 1 /\ Cardinality(connectors) \in Nat
    BY <1>t, <1>1, <1>6, ConnectorsAreFinite, FS_AddElement
  <2>2. connectorCount' = ((Cardinality(connectors) % Wrap) + 1) % Wrap
    BY <1>t, <1>1 DEF ConnectorsKnown
  <2>3. QED
    BY <2>1, <2>2, WrapCounts, ServiceAssumption
<1>11. QED
  BY <1>4, <1>7, <1>8, <1>9, <1>10 DEF ConnectorsKnown

\* A connect ends, and one thread handles it from now on.
LEMMA ConnectEndsConnectors ==
    ASSUME IInv, NEW t \in Ios, NEW c \in Keys, on_connected(t, c) \/ on_connect_failed(t, c),
           Exclusive', ~raced
    PROVE  ConnectorsKnown'
<1>t. /\ DOMAIN pc = Threads /\ loc \in [Threads -> Locals] /\ DOMAIN loc = Threads
      /\ ConnectorsKnown /\ service # "finished" /\ t \in Threads
      /\ connectors \subseteq Keys /\ connecting \subseteq Keys /\ c \in connecting
  BY DEF IInv, TypeOK, Threads, on_connected, on_connect_failed, CanHandle
<1>1. /\ pc[t] = "idle" /\ connecting' = connecting \ {c}
      /\ UNCHANGED <<connectors, connectorCount, service>>
  BY DEF on_connected, on_connect_failed, CanHandle, rest
<1>2. /\ pc'[t] \in {"lock", "cf_lock"} /\ \A u \in Threads : u # t => pc'[u] = pc[u]
      /\ loc'[t].key = c /\ \A u \in Threads : u # t => loc'[u] = loc[u]
      /\ pc'[t] = "lock" => ~loc'[t].accepted
  <2>1. loc[t] \in Locals
    BY <1>t
  <2>2. CASE on_connected(t, c)
    BY <1>t, <2>1, <2>2 DEF on_connected, Goto, Locals
  <2>3. CASE on_connect_failed(t, c)
    BY <1>t, <2>1, <2>3 DEF on_connect_failed, Goto, Locals
  <2>4. QED
    BY <2>2, <2>3
<1>3. /\ \A u \in Threads, k \in Keys : Handling(u, k)' <=> Handling(u, k) \/ (u = t /\ k = c)
      /\ \A k \in Keys : ~Handling(t, k)
  BY <1>t, <1>1, <1>2 DEF Handling
<1>4. \A k \in Keys : Entering(k)' <=> Entering(k)
  BY <1>t, <1>1, <1>2 DEF Entering
<1>5. \A k \in Keys : Busy(k)' <=> Busy(k)
  BY <1>t, <1>1, <1>3 DEF Busy
<1>6. \A k \in connectors' : Busy(k)' /\ ~Entering(k)'
  BY <1>t, <1>1, <1>4, <1>5 DEF ConnectorsKnown
<1>7. \A k \in Keys : Entering(k)' => Busy(k)'
  BY <1>t, <1>4, <1>5 DEF ConnectorsKnown
<1>8. \A k \in connecting' : k \in connectors' \/ Entering(k)'
  BY <1>t, <1>1, <1>4 DEF ConnectorsKnown
<1>9. \A u \in Threads : ~Handling(u, c)
  BY <1>t DEF ConnectorsKnown
<1>10. ASSUME NEW u \in Threads, NEW k \in Keys, Handling(u, k)'
       PROVE  /\ k \notin connecting'
              /\ \A v \in Threads : Handling(v, k)' => v = u
              /\ k \in connectors' \/ (pc'[u] \in {"lock", "cf_lock"} /\ Entering(k)')
  <2>1. CASE k = c
    BY <1>t, <1>1, <1>2, <1>3, <1>4, <1>9, <1>10, <2>1 DEF ConnectorsKnown
  <2>2. CASE k # c
    <3>1. Handling(u, k) /\ u # t
      BY <1>3, <1>10, <2>2
    <3>2. QED
      BY <1>t, <1>1, <1>2, <1>3, <1>4, <2>2, <3>1 DEF ConnectorsKnown
  <2>3. QED
    BY <2>1, <2>2
<1>11. connectorCount' = Cardinality(connectors') % Wrap
  BY <1>t, <1>1 DEF ConnectorsKnown
<1>12. QED
  BY <1>6, <1>7, <1>8, <1>10, <1>11 DEF ConnectorsKnown

\* The handler of a connect erases its connector, which is there, once.
LEMMA EraseConnectors ==
    ASSUME IInv, NEW t \in Threads, Erase(t) \/ EraseFailed(t), Exclusive', ~raced
    PROVE  ConnectorsKnown'
<1> DEFINE d == loc[t].key
<1>t. /\ DOMAIN pc = Threads /\ DOMAIN loc = Threads
      /\ ConnectorsKnown /\ service # "finished" /\ TypeOK
      /\ connectors \subseteq Keys /\ connecting \subseteq Keys /\ d \in Keys
      /\ Handling(t, d)
  BY SomebodyInside DEF IInv, TypeOK, Erase, EraseFailed, EnteringKnown, Handling
<1>1. /\ pc[t] \in {"erase", "cf_erase"} /\ connectors' = connectors \ {d}
      /\ connectorCount' = (connectorCount + Wrap - 1) % Wrap
      /\ UNCHANGED <<connecting, service>>
  BY DEF Erase, EraseFailed, rest
<1>2. /\ pc'[t] \in {"unlock", "idle"}
      /\ \A u \in Threads : u # t => pc'[u] = pc[u] /\ loc'[u] = loc[u]
  BY <1>t DEF Erase, EraseFailed, Return, Goto
<1>3. d \in connectors /\ d \notin connecting /\ \A u \in Threads : Handling(u, d) => u = t
  BY <1>t, <1>1 DEF ConnectorsKnown
<1>4. \A k \in Keys : Handling(t, k) => k = d
  BY DEF Handling
<1> HIDE DEF d
<1>5. \A u \in Threads, k \in Keys : Handling(u, k)' <=> Handling(u, k) /\ u # t
  BY <1>2 DEF Handling
<1>6. \A k \in Keys : Entering(k)' <=> Entering(k)
  BY <1>1, <1>2 DEF Entering
<1>7. \A k \in Keys : k # d => (Busy(k)' <=> Busy(k))
  BY <1>1, <1>4, <1>5 DEF Busy
<1>8. \A k \in connectors' : Busy(k)' /\ ~Entering(k)'
  BY <1>t, <1>1, <1>6, <1>7 DEF ConnectorsKnown
<1>9. \A k \in Keys : Entering(k)' => Busy(k)'
  BY <1>t, <1>3, <1>6, <1>7 DEF ConnectorsKnown
<1>10. \A k \in connecting' : k \in connectors' \/ Entering(k)'
  BY <1>t, <1>1, <1>3, <1>6 DEF ConnectorsKnown
<1>11. ASSUME NEW u \in Threads, NEW k \in Keys, Handling(u, k)'
       PROVE  /\ k \notin connecting'
              /\ \A v \in Threads : Handling(v, k)' => v = u
              /\ k \in connectors' \/ (pc'[u] \in {"lock", "cf_lock"} /\ Entering(k)')
  <2>1. Handling(u, k) /\ u # t /\ k # d
    BY <1>3, <1>5, <1>11
  <2>2. QED
    BY <1>t, <1>1, <1>2, <1>5, <1>6, <2>1 DEF ConnectorsKnown
<1>12. connectorCount' = Cardinality(connectors') % Wrap
  <2>1. Cardinality(connectors') = Cardinality(connectors) - 1 /\ Cardinality(connectors) \in Nat
    BY <1>t, <1>1, <1>3, ConnectorsAreFinite, FS_RemoveElement
  <2>2. connectorCount' = ((Cardinality(connectors) % Wrap) + Wrap - 1) % Wrap
    BY <1>t, <1>1 DEF ConnectorsKnown
  <2>3. QED
    BY <2>1, <2>2, WrapCounts, ServiceAssumption
<1>13. QED
  BY <1>8, <1>9, <1>10, <1>11, <1>12 DEF ConnectorsKnown

\* Every operation keeps what is known of the connectors.
LEMMA ConnectorsStep ==
    ASSUME IInv, UNCHANGED vars \/ (Operation /\ raced' = (raced \/ ~Exclusive'))
    PROVE  ConnectorsKnown'
<1>t. TypeOK /\ ConnectorsKnown
  BY DEF IInv
<1>1. CASE UNCHANGED vars
  BY <1>t, <1>1 DEF vars, dialers, rest, ConnectorsKnown, Exclusive, Inside, Busy, Entering, Handling
<1>2. CASE Operation /\ raced' = (raced \/ ~Exclusive')
  <2> SUFFICES ASSUME ~raced', service' # "finished" PROVE ConnectorsKnown'
    BY DEF ConnectorsKnown
  <2>1. ~raced /\ ~cleanup /\ Exclusive'
    BY <1>2 DEF cleanup
  <2>2. QED
    BY <1>t, <1>2, <2>1, ConnectorsQuietOperations, ConnectorsQuietStep, DialConnectors,
       InsertConnectors, ConnectEndsConnectors, EraseConnectors
<1>3. QED
  BY <1>1, <1>2

-----------------------------------------------------------------------------
(* The invariant, and what it says.                                        *)

\* The service starts with empty tables and idle threads.
LEMMA InitIInv ==
    ASSUME Init PROVE IInv
<1> USE ServiceAssumption DEF Init
<1>0. /\ \A t \in Threads : pc[t] = "idle" /\ loc[t] = NoLocals
      /\ Range(freeSlots) = {} /\ Len(slots) = 0 /\ Held = {} /\ Calling = {}
  <2>1. \A t \in Threads : pc[t] = "idle" /\ loc[t] = NoLocals
    OBVIOUS
  <2>2. Range(freeSlots) = {} /\ Len(slots) = 0
    BY DEF Range
  <2>3. Calling = {}
    BY <2>1 DEF Calling, Threads
  <2>4. Held = {}
    BY <2>2 DEF Held
  <2>5. QED
    BY <2>1, <2>2, <2>3, <2>4
<1>1. TypeOK
  <2>1. NoLocals \in Locals
    BY DEF NoLocals, Locals, Seqs, Indices
  <2>2. 0 \in Seqs /\ 0 \in 0 .. MaxKeys /\ 0 \in 0 .. MaxSockets
    BY DEF Seqs
  <2>3. slots \in Seq([session : SessionId, seq : Seqs]) /\ freeSlots \in Seq(Indices)
    BY EmptySeq
  <2>4. QED
    BY <2>1, <2>2, <2>3 DEF TypeOK
<1>2. Bounded
  BY <1>0, FS_EmptySet DEF Bounded
<1>3. ThreadsKnown /\ EnteringKnown /\ AllIdleWhenFinished
  BY <1>0 DEF ThreadsKnown, EnteringKnown, AllIdleWhenFinished, Pending, Leaving, Threads
<1>4. InRange /\ (~doubled => OneHolder /\ EveryHolder)
  <2>1. IsInjective(freeSlots)
    BY DEF IsInjective
  <2>2. QED
    BY <1>0, <2>1 DEF InRange, OneHolder, EveryHolder, Constructing, Pending, Ending, Leaving
<1>5. TableKnown
  <2>1. sessionCount = Cardinality(Held) % Wrap
    BY <1>0, FS_EmptySet
  <2>2. QED
    BY <1>0, <2>1 DEF TableKnown, Pending, Storing, Ending
<1>6. KeysKnown
  BY <1>0 DEF KeysKnown, NoLocals
<1>7. ConnectorsKnown
  <2>1. connectorCount = Cardinality(connectors) % Wrap
    BY FS_EmptySet
  <2>2. QED
    BY <1>0, <2>1 DEF ConnectorsKnown, Exclusive, Inside, Busy, Entering, Handling
<1>8. QED
  BY <1>1, <1>2, <1>3, <1>4, <1>5, <1>6, <1>7 DEF IInv, SlotsKnown

\* The inductive invariant holds in every state: a step of any thread, in any
\* order with the others, keeps each connector with one handler and, until some
\* session is destroyed twice, each slot with one holder.
THEOREM ServiceInvariant == Spec => []IInv
<1>1. ASSUME IInv, [Next]_vars PROVE IInv'
  <2>1. UNCHANGED vars \/ (Operation /\ raced' = (raced \/ ~Exclusive'))
    BY <1>1, StepIsOperation
  <2>2. UNCHANGED vars \/ Operation
    BY <2>1
  <2>3. TypeOK'
    BY <1>1, <2>1, TypeStep
  <2>4. Bounded' /\ ThreadsKnown' /\ EnteringKnown' /\ AllIdleWhenFinished'
    BY <1>1, <2>2, BoundedStep, ThreadStep
  <2>5. InRange' /\ (~doubled' => SlotsKnown')
    BY <1>1, <2>2, InRangeStep, SlotsStep
  <2>6. KeysKnown' /\ ConnectorsKnown'
    BY <1>1, <2>1, <2>2, KeysStep, ConnectorsStep
  <2>7. QED
    BY <2>3, <2>4, <2>5, <2>6 DEF IInv
<1>2. QED
  BY <1>1, InitIInv, PTL DEF Spec

\* Every variable keeps its type, and no session has the sequence number 0.
THEOREM ServiceTypeCorrect == Spec => []TypeOK
<1>1. IInv => TypeOK
  BY DEF IInv
<1>2. QED
  BY <1>1, ServiceInvariant, PTL

\* While no session is destroyed twice or fails before on_new_socket() has
\* stored it, and mutex_ is not released under another thread, every slot is
\* free once, or taken by one thread, or holds a session, and session_count_
\* counts the sessions, whatever the order in which sessions come and go.
THEOREM SlotsAreAccounted == Spec => []SlotsAccounted
<1>1. ASSUME IInv PROVE SlotsAccounted
  <2> SUFFICES ASSUME Undisturbed
               PROVE  /\ \A i \in 0 .. Len(slots) - 1 :
                            LET free == {j \in DOMAIN freeSlots : freeSlots[j] = i}
                                taken == {t \in Ios : Pending(t) /\ loc[t].idx = i}
                            IN  Cardinality(free) + Cardinality(taken)
                                  + Cardinality({i} \cap Held) = 1
                      /\ sessionCount = Cardinality(Held) % Wrap
    BY DEF SlotsAccounted
  <2>t. TypeOK /\ OneHolder /\ EveryHolder /\ TableKnown /\ ThreadsKnown /\ InRange
    BY <1>1 DEF IInv, SlotsKnown, Undisturbed
  <2>u. ~early /\ service # "finished"
    BY DEF Undisturbed
  <2>1. sessionCount = Cardinality(Held) % Wrap
    BY <2>t, <2>u DEF TableKnown
  <2>2. ASSUME NEW i \in 0 .. Len(slots) - 1
        PROVE  Cardinality({j \in DOMAIN freeSlots : freeSlots[j] = i})
               + Cardinality({t \in Ios : Pending(t) /\ loc[t].idx = i})
               + Cardinality({i} \cap Held) = 1
    <3> DEFINE free == {j \in DOMAIN freeSlots : freeSlots[j] = i}
                taken == {t \in Ios : Pending(t) /\ loc[t].idx = i}
                held == {i} \cap Held
    <3>p. \A t \in Threads : /\ Pending(t) <=> Constructing(t) \/ Storing(t)
                             /\ Pending(t) => t \in Ios /\ t \in Threads
                             /\ Ending(t) => ~Pending(t)
                             /\ IdOf(t).idx = loc[t].idx
                             /\ Pending(t) \/ Ending(t) => IdOf(t) # NoSession
      BY <2>t DEF Pending, Constructing, Storing, Ending, Leaving, ThreadsKnown, IdOf, NoSession
    <3>s. \A t \in Ios : t \in Threads
      BY DEF Threads
    <3>n. \A id \in live : id # NoSession
      BY <2>t DEF TypeOK, NoSession
    <3>e. Cardinality({}) = 0
      BY FS_EmptySet
    <3>h. held = IF slots[i + 1].session # NoSession THEN {i} ELSE {}
      BY DEF Held
    <3>1. CASE i \in Range(freeSlots)
      <4>1. PICK j \in DOMAIN freeSlots : freeSlots[j] = i
        BY <3>1 DEF Range
      <4>2. free = {j}
        BY <2>t, <4>1 DEF OneHolder, IsInjective
      <4>3. taken = {}
        BY <2>t, <2>u, <3>1, <3>p, <3>s DEF OneHolder, TableKnown
      <4>4. held = {}
        BY <2>t, <2>u, <3>1, <3>h DEF TableKnown
      <4>5. Cardinality(free) = 1 /\ Cardinality(taken) = 0 /\ Cardinality(held) = 0
        BY <3>e, <4>2, <4>3, <4>4, FS_Singleton
      <4>6. QED
        BY <4>5
    <3>2. CASE i \notin Range(freeSlots)
      <4>1. free = {}
        BY <3>2 DEF Range
      <4>2. CASE \E t \in Threads : Pending(t) /\ loc[t].idx = i
        <5>1. PICK t \in Threads : Pending(t) /\ loc[t].idx = i
          BY <4>2
        <5>2. \A u \in Threads : Pending(u) /\ loc[u].idx = i => u = t
          <6>1. TAKE u \in Threads
          <6>2. HAVE Pending(u) /\ loc[u].idx = i
          <6>3. CASE Storing(t)
            BY <2>t, <2>u, <3>p, <5>1, <6>2, <6>3 DEF OneHolder, TableKnown
          <6>4. CASE Constructing(t)
            BY <2>t, <2>u, <3>p, <5>1, <6>2, <6>4 DEF OneHolder, TableKnown
          <6>5. QED
            BY <3>p, <5>1, <6>3, <6>4
        <5>3. taken = {t}
          BY <3>p, <3>s, <5>1, <5>2
        <5>4. held = {}
          BY <2>t, <2>u, <3>h, <5>1 DEF TableKnown
        <5>5. Cardinality(free) = 0 /\ Cardinality(taken) = 1 /\ Cardinality(held) = 0
          BY <3>e, <4>1, <5>3, <5>4, FS_Singleton
        <5>6. QED
          BY <5>5
      <4>3. CASE ~\E t \in Threads : Pending(t) /\ loc[t].idx = i
        <5>1. taken = {}
          BY <3>s, <4>3
        <5>2. slots[i + 1].session # NoSession
          <6>1. (\E id \in live : id.idx = i) \/ \E t \in Threads : Ending(t) /\ loc[t].idx = i
            BY <2>t, <2>u, <3>2, <3>p, <4>3 DEF EveryHolder
          <6>2. ASSUME NEW id \in live, id.idx = i PROVE slots[i + 1].session # NoSession
            BY <2>t, <2>u, <3>n, <3>p, <4>3, <6>2 DEF TableKnown
          <6>3. ASSUME NEW t \in Threads, Ending(t), loc[t].idx = i
                PROVE  slots[i + 1].session # NoSession
            BY <2>t, <2>u, <3>p, <6>3 DEF TableKnown
          <6>4. QED
            BY <6>1, <6>2, <6>3
        <5>3. held = {i}
          BY <3>h, <5>2
        <5>4. Cardinality(free) = 0 /\ Cardinality(taken) = 0 /\ Cardinality(held) = 1
          BY <3>e, <4>1, <5>1, <5>3, FS_Singleton
        <5>5. QED
          BY <5>4
      <4>4. QED
        BY <4>2, <4>3
    <3>3. QED
      BY <3>1, <3>2
  <2>3. QED
    BY <2>1, <2>2
<1>2. QED
  BY <1>1, ServiceInvariant, PTL

\* In the same circumstances acquire() finds every session that is stored and
\* lives, and what it finds lives until error() runs for it.
THEOREM TableIsRight == Spec => []TableMatchesSessions
<1>1. ASSUME IInv PROVE TableMatchesSessions
  <2> SUFFICES ASSUME Undisturbed
               PROVE  /\ \A id \in live :
                            acquire(id) = id \/ \E t \in Ios : Pending(t) /\ IdOf(t) = id
                      /\ \A i \in Held :
                            \/ slots[i + 1].session \in live
                            \/ \E t \in Threads : pc[t] \in {"error_lock", "error"}
                                                  /\ IdOf(t) = slots[i + 1].session
    BY DEF TableMatchesSessions
  <2>t. TypeOK /\ OneHolder /\ EveryHolder /\ TableKnown /\ ThreadsKnown
    BY <1>1 DEF IInv, SlotsKnown, Undisturbed
  <2>u. ~early /\ service # "finished"
    BY DEF Undisturbed
  <2>1. \A id \in live : acquire(id) = id \/ \E t \in Ios : Pending(t) /\ IdOf(t) = id
    <3>1. \A t \in Threads : Storing(t) => t \in Ios /\ Pending(t)
      BY <2>t DEF ThreadsKnown, Storing, Pending
    <3>2. QED
      BY <2>t, <2>u, <3>1 DEF TableKnown, acquire
  <2>2. ASSUME NEW i \in Held
        PROVE  \/ slots[i + 1].session \in live
               \/ \E t \in Threads : pc[t] \in {"error_lock", "error"}
                                     /\ IdOf(t) = slots[i + 1].session
    <3>1. i \in 0 .. Len(slots) - 1 /\ slots[i + 1].session # NoSession
      BY DEF Held
    <3>2. i \notin Range(freeSlots)
      BY <2>t, <2>u, <3>1 DEF TableKnown
    <3>3. \A t \in Threads : Pending(t) => loc[t].idx # i
      BY <2>t, <2>u, <3>1 DEF TableKnown
    <3>p. \A t \in Threads : /\ Constructing(t) => Pending(t)
                             /\ Storing(t) => Pending(t)
                             /\ IdOf(t).idx = loc[t].idx
      BY DEF Constructing, Storing, Pending, IdOf
    <3>4. CASE \E id \in live : id.idx = i
      BY <2>t, <2>u, <3>3, <3>p, <3>4 DEF TableKnown
    <3>5. CASE \E t \in Threads : Ending(t) /\ loc[t].idx = i
      BY <2>t, <2>u, <3>5 DEF TableKnown, Ending
    <3>6. QED
      BY <2>t, <2>u, <3>1, <3>2, <3>3, <3>4, <3>5, <3>p DEF EveryHolder
  <2>3. QED
    BY <2>1, <2>2
<1>2. QED
  BY <1>1, ServiceInvariant, PTL

\* As long as no session is destroyed twice, the slot of a live session is not
\* free and no other session has it, also when error() comes before
\* on_new_socket() has stored a session.
THEOREM LiveSlotsAreTaken == Spec => []LiveSlotsTaken
<1>1. IInv => LiveSlotsTaken
  BY DEF IInv, SlotsKnown, OneHolder, LiveSlotsTaken
<1>2. QED
  BY <1>1, ServiceInvariant, PTL

\* While mutex_ is not released under another thread, connector_count_ counts
\* the connectors, and none of them is left without a handler to remove it.
THEOREM ConnectorsAreCounted == Spec => []ConnectorsCounted
<1>1. ASSUME IInv PROVE ConnectorsCounted
  <2>1. TypeOK /\ ThreadsKnown /\ ConnectorsKnown
    BY <1>1 DEF IInv
  <2>2. \A t \in Threads, k \in Keys : Handling(t, k) =>
            t \in Ios /\ loc[t].key = k /\ pc[t] \notin {"idle", "unlock"}
    BY <2>1 DEF Handling, ThreadsKnown
  <2>3. QED
    BY <2>1, <2>2 DEF ConnectorsCounted, ConnectorsKnown, Busy, TypeOK
<1>2. QED
  BY <1>1, ServiceInvariant, PTL

=============================================================================
