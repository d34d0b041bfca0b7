----------------------------- MODULE ServiceImpl ----------------------------
(***************************************************************************)
(* lax::net::service_impl: the acceptors, the connectors and the table of  *)
(* session slots, with the mutex that guards them (service_impl.cpp, with  *)
(* acceptor.cpp and connector.cpp).                                        *)
(*                                                                         *)
(* Io threads run the completion handlers, application threads call        *)
(* listen(), connect(), acquire() and finish().  A step ends where a       *)
(* thread takes or gives up mutex_.  The mutex is the platform's           *)
(* shared_timed_mutex: unlock() clears its one writer flag, whoever calls  *)
(* it, and a call that holds it shared is one step.                        *)
(*                                                                         *)
(* Of a session (see module Session) only its birth in on_new_socket() and *)
(* its way out are here.  destroy() looks at destroyed_ in one step and    *)
(* sets it in a later one, so two threads that close the same session can  *)
(* both reach error().                                                     *)
(***************************************************************************)
EXTENDS Naturals, Sequences, FiniteSets, Functions

CONSTANTS Ios, Apps,      \* the threads
          Main,           \* the application thread that calls finish()
          SlotLimit,      \* UINT16_MAX, the size at which get_free_slot() throws
          Wrap,           \* 2^16, the range of seq and of session_count_
          MaxKeys,        \* bound on the calls of listen() and connect()
          MaxSockets      \* bound on the connections made

ASSUME ServiceAssumption ==
    /\ Ios \cap Apps = {} /\ Main \in Apps /\ IsFiniteSet(Apps)
    /\ SlotLimit \in Nat \ {0} /\ Wrap \in Nat \ {0, 1} /\ MaxKeys \in Nat /\ MaxSockets \in Nat

VARIABLES writing,                 \* mutex_ is locked exclusively
          acceptors, connectors,   \* the keys of the two maps
          keys,                    \* id_gen_: how many keys it has given out
          accepting, connecting,   \* the keys with an asynchronous call in progress
          slots, freeSlots,        \* sessions_ and free_slots_
          sessionCount, connectorCount,
          live,                    \* the ids of the sessions that are not destroyed
          service,                 \* "running", "stopping" or "finished"
          crash,                   \* what ended the process
          pc, loc,                 \* each thread's place, and its key, accepted, idx and seq
          sockets,                 \* how many connections were made
          raced, early, doubled    \* history: two threads were inside at once; error() came
                                   \* before on_new_socket() had stored the session; error()
                                   \* came twice for one session

tables  == <<slots, freeSlots, sessionCount>>
dialers == <<acceptors, connectors, connectorCount, keys, accepting, connecting>>
rest    == <<live, service, crash, sockets, early, doubled>>
vars == <<writing, tables, dialers, rest, pc, loc, raced>>

Threads   == Ios \cup Apps
Keys      == 1 .. MaxKeys
Seqs      == 0 .. Wrap - 1
Indices   == 0 .. SlotLimit - 1
SessionId == [seq : Seqs, idx : Indices]
NoSession == [seq |-> 0, idx |-> 0]      \* session::ptr(): no id has seq 0
Locals    == [key : 0 .. MaxKeys, accepted : BOOLEAN, seq : Seqs, idx : Indices]

NoLocals  == [key |-> 0, accepted |-> FALSE, seq |-> 0, idx |-> 0]

Goto(t, l) == pc' = [pc EXCEPT ![t] = l]
Return(t) == Goto(t, "idle") /\ loc' = [loc EXCEPT ![t] = NoLocals]
IdOf(t) == [seq |-> loc[t].seq, idx |-> loc[t].idx]

\* The places at which a thread works on what mutex_ guards.
Inside(t) == pc[t] \in {"find", "store", "erase", "listen", "dial", "insert", "error", "cf_erase"}

-----------------------------------------------------------------------------

\* start() has run: the io threads are in run().
Init ==
    /\ writing = FALSE
    /\ acceptors = {} /\ connectors = {} /\ keys = 0
    /\ accepting = {} /\ connecting = {}
    /\ slots = <<>> /\ freeSlots = <<>>
    /\ sessionCount = 0 /\ connectorCount = 0
    /\ live = {} /\ service = "running" /\ crash = "none"
    /\ pc = [t \in Threads |-> "idle"]
    /\ loc = [t \in Threads |-> NoLocals]
    /\ sockets = 0
    /\ raced = FALSE /\ early = FALSE /\ doubled = FALSE

\* A thread waits for mutex_ and locks it.
Lock(t, from, to) ==
    /\ pc[t] = from /\ ~writing
    /\ writing' = TRUE
    /\ Goto(t, to)
    /\ UNCHANGED <<tables, dialers, rest, loc>>

-----------------------------------------------------------------------------
(* Calls of the application.                                               *)

CanCall(t) == t \in Apps /\ pc[t] = "idle" /\ service = "running"

\* The threads that are about to ask id_gen_ for a key.
Calling == {u \in Apps : pc[u] \in {"listen_lock", "listen", "dial_lock", "dial"}}

\* listen() and connect() are called with a known protocol; the bound counts
\* the calls that will take a key.
Call(t, at) ==
    /\ CanCall(t) /\ keys + Cardinality(Calling) < MaxKeys
    /\ Goto(t, at)
    /\ UNCHANGED <<writing, tables, dialers, rest, loc>>

\* listen() under the lock.  acceptor::listen() says yes also when it could
\* not open, bind or listen; then nothing is ever accepted.
listen(t, how) ==
    /\ pc[t] = "listen"
    /\ keys' = keys + 1
    /\ acceptors' = IF how = "invalid" THEN acceptors ELSE acceptors \cup {keys'}
    /\ accepting' = IF how = "ok" THEN accepting \cup {keys'} ELSE accepting
    /\ writing' = FALSE
    /\ Return(t)
    /\ UNCHANGED <<connectors, connectorCount, connecting, tables, rest>>

\* connect() under the lock: the connector starts its asynchronous connect.
Dial(t) ==
    /\ pc[t] = "dial"
    /\ keys' = keys + 1
    /\ connecting' = connecting \cup {keys'}
    /\ loc' = [loc EXCEPT ![t].key = keys']
    /\ Goto(t, "insert")
    /\ UNCHANGED <<writing, acceptors, connectors, connectorCount, accepting, tables, rest>>

\* connect() puts the connector into the map and unlocks.
Insert(t) ==
    /\ pc[t] = "insert"
    /\ connectors' = connectors \cup {loc[t].key}
    /\ connectorCount' = (connectorCount + 1) % Wrap
    /\ writing' = FALSE
    /\ Return(t)
    /\ UNCHANGED <<acceptors, keys, accepting, connecting, tables, rest>>

\* acquire() under the shared lock: whatever session is in the id's slot.
acquire(id) == slots[id.idx + 1].session

\* finish() sets stop_ and stops the io_service; nobody makes calls beside it.
finish ==
    /\ CanCall(Main) /\ ~writing
    /\ \A t \in Apps : pc[t] = "idle"
    /\ service' = "stopping"
    /\ UNCHANGED <<writing, tables, dialers, live, crash, sockets, early, doubled, pc, loc>>

\* finish() has joined the io threads: cleanup().
cleanup ==
    /\ service = "stopping"
    /\ \A t \in Ios : pc[t] = "idle"
    /\ service' = "finished"
    /\ slots' = <<>> /\ acceptors' = {} /\ connectors' = {}
    /\ UNCHANGED <<writing, freeSlots, sessionCount, connectorCount, keys, accepting, connecting,
                   live, crash, sockets, early, doubled, pc, loc>>

-----------------------------------------------------------------------------
(* Completion handlers.                                                    *)

CanHandle(t) == t \in Ios /\ pc[t] = "idle" /\ service = "running"

\* A connection is accepted: acceptor::on_accepted() calls the service's.
on_accepted(t, k) ==
    /\ CanHandle(t) /\ k \in accepting /\ sockets < MaxSockets
    /\ accepting' = accepting \ {k}
    /\ sockets' = sockets + 1
    /\ loc' = [loc EXCEPT ![t].key = k, ![t].accepted = TRUE]
    /\ Goto(t, "lock")
    /\ UNCHANGED <<writing, acceptors, connectors, connectorCount, keys, connecting, tables,
                   live, service, crash, early, doubled>>

\* An accept fails: on_accept_failed() only posts a message, and the acceptor
\* tries again.
on_accept_failed(t, k) ==
    /\ CanHandle(t) /\ k \in accepting /\ ~writing
    /\ UNCHANGED <<writing, tables, dialers, rest, pc, loc>>

\* A connect succeeds.
on_connected(t, k) ==
    /\ CanHandle(t) /\ k \in connecting /\ sockets < MaxSockets
    /\ connecting' = connecting \ {k}
    /\ sockets' = sockets + 1
    /\ loc' = [loc EXCEPT ![t].key = k, ![t].accepted = FALSE]
    /\ Goto(t, "lock")
    /\ UNCHANGED <<writing, acceptors, connectors, connectorCount, keys, accepting, tables,
                   live, service, crash, early, doubled>>

\* A connect fails: on_connect_failed() has looked the connector up, shared.
on_connect_failed(t, k) ==
    /\ CanHandle(t) /\ k \in connecting /\ ~writing
    /\ connecting' = connecting \ {k}
    /\ loc' = [loc EXCEPT ![t].key = k]
    /\ Goto(t, "cf_lock")
    /\ UNCHANGED <<writing, acceptors, connectors, connectorCount, keys, accepting, tables, rest>>

\* An on_connect_failed() that does not count down.
EraseFailedOnly(t) ==
    /\ pc[t] = "cf_erase"
    /\ connectors' = connectors \ {loc[t].key}
    /\ writing' = FALSE
    /\ Return(t)
    /\ UNCHANGED <<acceptors, connectorCount, keys, accepting, connecting, tables, rest>>

\* on_connect_failed() erases and counts down, and posts sys_connect_failed.
EraseFailed(t) ==
    /\ pc[t] = "cf_erase"
    /\ connectors' = connectors \ {loc[t].key}
    /\ connectorCount' = (connectorCount + Wrap - 1) % Wrap
    /\ writing' = FALSE
    /\ Return(t)
    /\ UNCHANGED <<acceptors, keys, accepting, connecting, tables, rest>>

-----------------------------------------------------------------------------
(* on_accepted() and on_connected() with on_new_socket().                  *)

\* An acceptor::on_accepted() without its last line.
AcceptOnce(t) == accepting

\* acceptor::on_accepted() ends with do_accept().
AcceptNext(t) == IF loc[t].accepted THEN accepting \cup {loc[t].key} ELSE accepting

Known(t) == loc[t].key \in IF loc[t].accepted THEN acceptors ELSE connectors

\* The key is unknown: the socket is closed, and the caller's lock released.
NotFound(t) ==
    /\ pc[t] = "find" /\ ~Known(t)
    /\ writing' = FALSE
    /\ accepting' = AcceptNext(t)
    /\ Return(t)
    /\ UNCHANGED <<acceptors, connectors, connectorCount, keys, connecting, tables, rest>>

\* A get_free_slot() that leaves the slot it takes in free_slots_.
PeekFreeSlot == freeSlots

\* The free slots that get_free_slot() leaves.
FreeSlotsLeft == IF freeSlots = <<>> THEN freeSlots ELSE Tail(freeSlots)

\* sessions_ after get_free_slot(): a slot is added when none is free.
WithFreeSlot ==
    IF freeSlots = <<>> THEN Append(slots, [session |-> NoSession, seq |-> 0]) ELSE slots

\* The slot that get_free_slot() returns.
get_free_slot == IF freeSlots = <<>> THEN Len(slots) ELSE Head(freeSlots)

\* A sequence number that starts again at zero.
SeqFromZero(s) == s

\* The sequence number of the next session in a slot that counts s: 0 is skipped.
NextSeq(s) == IF s = 0 THEN 1 ELSE s

\* An on_new_socket() that keeps the lock while the session is constructed.
TakeSlotLocked(t) ==
    /\ pc[t] = "find" /\ Known(t) /\ Len(slots) < SlotLimit
    /\ LET i == get_free_slot
           seq == NextSeq(WithFreeSlot[i + 1].seq)
       IN  /\ slots' = [WithFreeSlot EXCEPT ![i + 1].seq = (seq + 1) % Wrap]
           /\ loc' = [loc EXCEPT ![t].idx = i, ![t].seq = seq]
    /\ freeSlots' = FreeSlotsLeft
    /\ Goto(t, "construct")
    /\ UNCHANGED <<writing, sessionCount, dialers, rest>>

\* on_new_socket() takes a slot and a sequence number for it, and unlocks.
TakeSlot(t) ==
    /\ pc[t] = "find" /\ Known(t) /\ Len(slots) < SlotLimit
    /\ LET i == get_free_slot
           seq == NextSeq(WithFreeSlot[i + 1].seq)
       IN  /\ slots' = [WithFreeSlot EXCEPT ![i + 1].seq = (seq + 1) % Wrap]
           /\ loc' = [loc EXCEPT ![t].idx = i, ![t].seq = seq]
    /\ freeSlots' = FreeSlotsLeft
    /\ writing' = FALSE
    /\ Goto(t, "construct")
    /\ UNCHANGED <<sessionCount, dialers, rest>>

\* get_free_slot() throws once sessions_ has its greatest size, even when
\* slots are free; the exception leaves run() and ends the process.
SlotLimitReached(t) ==
    /\ pc[t] = "find" /\ Known(t) /\ Len(slots) >= SlotLimit
    /\ crash' = "slot_limit"
    /\ UNCHANGED <<writing, tables, dialers, live, service, sockets, early, doubled, pc, loc>>

\* The session is constructed, without the lock; from now on it can fail.
Construct(t) ==
    /\ pc[t] = "construct"
    /\ live' = live \cup {IdOf(t)}
    /\ Goto(t, "lock2")
    /\ UNCHANGED <<writing, tables, dialers, service, crash, sockets, early, doubled, loc>>

\* The constructor throws: the peer has gone already.
ConstructThrows(t) ==
    /\ pc[t] = "construct"
    /\ crash' = "no_endpoint"
    /\ UNCHANGED <<writing, tables, dialers, live, service, sockets, early, doubled, pc, loc>>

\* on_new_socket() stores the session, counts it and unlocks.
Store(t) ==
    /\ pc[t] = "store"
    /\ slots' = [slots EXCEPT ![loc[t].idx + 1].session = IdOf(t)]
    /\ sessionCount' = (sessionCount + 1) % Wrap
    /\ writing' = FALSE
    /\ Goto(t, IF loc[t].accepted THEN "unlock" ELSE "erase")
    /\ UNCHANGED <<freeSlots, dialers, rest, loc>>

\* on_connected() erases its connector and counts down, without the lock.
Erase(t) ==
    /\ pc[t] = "erase"
    /\ connectors' = connectors \ {loc[t].key}
    /\ connectorCount' = (connectorCount + Wrap - 1) % Wrap
    /\ Goto(t, "unlock")
    /\ UNCHANGED <<writing, acceptors, keys, accepting, connecting, tables, rest, loc>>

\* The caller's unique_lock goes out of scope and unlocks once more; an
\* acceptor asks for its next connection.
UnlockAgain(t) ==
    /\ pc[t] = "unlock"
    /\ writing' = FALSE
    /\ accepting' = AcceptNext(t)
    /\ Return(t)
    /\ UNCHANGED <<acceptors, connectors, connectorCount, keys, connecting, tables, rest>>

-----------------------------------------------------------------------------
(* destroy() of a session, and error().                                    *)

\* A thread may be in close() for a session: in a handler that failed, begun
\* before the service was stopped, or in a call of the application.
MayClose(t) ==
    /\ pc[t] = "idle"
    /\ IF t \in Apps THEN service = "running" ELSE service # "finished"

\* destroy() of a session goes on to error(): destroyed_ is set, too late for
\* the other threads that have looked at it already and will go on as well.
SessionEnds(t, id, others) ==
    /\ id \in live
    /\ t \notin others /\ \A u \in others \cup {t} : MayClose(u)
    /\ live' = live \ {id}
    /\ early' = (early \/ \E u \in Ios : pc[u] \in {"lock2", "store"} /\ IdOf(u) = id)
    /\ pc' = [u \in Threads |->
                 IF u = t THEN "error_lock" ELSE IF u \in others THEN "late" ELSE pc[u]]
    /\ loc' = [u \in Threads |->
                 IF u \in others \cup {t} THEN [loc[u] EXCEPT !.seq = id.seq, !.idx = id.idx]
                 ELSE loc[u]]
    /\ UNCHANGED <<writing, tables, dialers, service, crash, sockets, doubled>>

\* destroy() goes on to error() in one of those, for the session that has ended.
SessionEndsAgain(t) ==
    /\ pc[t] = "late"
    /\ doubled' = TRUE
    /\ Goto(t, "error_lock")
    /\ UNCHANGED <<writing, tables, dialers, live, service, crash, sockets, early, loc>>

\* An error() that forgets to give the slot back.
ErrorKeepsSlot(t) ==
    /\ pc[t] = "error"
    /\ slots' = [slots EXCEPT ![loc[t].idx + 1].session = NoSession]
    /\ sessionCount' = (sessionCount + Wrap - 1) % Wrap
    /\ writing' = FALSE
    /\ Return(t)
    /\ UNCHANGED <<freeSlots, dialers, rest>>

\* An error() that gives the slot back before the session that is in it ends.
ErrorKeepsSession(t) ==
    /\ pc[t] = "error"
    /\ freeSlots' = Append(freeSlots, loc[t].idx)
    /\ sessionCount' = (sessionCount + Wrap - 1) % Wrap
    /\ writing' = FALSE
    /\ Return(t)
    /\ UNCHANGED <<slots, dialers, rest>>

\* error() empties the slot, gives it back and counts down, under the lock.
\* (The index is in range: sessions_ only grows before cleanup().)
error(t) ==
    /\ pc[t] = "error"
    /\ slots' = [slots EXCEPT ![loc[t].idx + 1].session = NoSession]
    /\ freeSlots' = Append(freeSlots, loc[t].idx)
    /\ sessionCount' = (sessionCount + Wrap - 1) % Wrap
    /\ writing' = FALSE
    /\ Return(t)
    /\ UNCHANGED <<dialers, rest>>

-----------------------------------------------------------------------------

AppCall(t) == \E at \in {"listen_lock", "dial_lock"} : Call(t, at)

Handle(t) ==
    \E k \in Keys : on_accepted(t, k) \/ on_accept_failed(t, k)
                    \/ on_connected(t, k) \/ on_connect_failed(t, k)

\* What a thread does once it is inside a call or a handler.
Step(t) ==
    \/ Lock(t, "listen_lock", "listen") \/ \E how \in {"ok", "deaf", "invalid"} : listen(t, how)
    \/ Lock(t, "dial_lock", "dial") \/ Dial(t) \/ Insert(t)
    \/ Lock(t, "lock", "find") \/ NotFound(t) \/ TakeSlot(t) \/ SlotLimitReached(t)
    \/ Construct(t) \/ ConstructThrows(t)
    \/ Lock(t, "lock2", "store") \/ Store(t) \/ Erase(t) \/ UnlockAgain(t)
    \/ Lock(t, "cf_lock", "cf_erase") \/ EraseFailed(t)
    \/ SessionEndsAgain(t)
    \/ Lock(t, "error_lock", "error") \/ error(t)

\* mutex_ does its work: no two threads are inside at once.
Exclusive == \A t, u \in Threads : Inside(t) /\ Inside(u) => t = u

Running(A) == crash = "none" /\ A /\ raced' = (raced \/ ~Exclusive')

\* The process has ended, or finish() has returned.
Over == (crash # "none" \/ service = "finished") /\ UNCHANGED vars

Next ==
    \/ \E t \in Apps : Running(AppCall(t))
    \/ \E t \in Ios : Running(Handle(t))
    \/ \E t \in Threads, id \in live, others \in SUBSET Threads :
          Running(SessionEnds(t, id, others))
    \/ \E t \in Threads : Running(Step(t))
    \/ Running(finish) \/ Running(cleanup)
    \/ Over

\* While threads are inside calls or handlers, some thread goes on.  (It need
\* not be each: the bounds on calls and connections let every contention for
\* mutex_ end.)
Fairness == WF_vars((\E t \in Threads : Running(Step(t))) \/ Running(cleanup))

Spec == Init /\ [][Next]_vars /\ Fairness

-----------------------------------------------------------------------------

\* Every variable has its type; no session has the sequence number 0, which
\* would make its id invalid, not even after the numbers of a slot wrap.
TypeOK ==
    /\ writing \in BOOLEAN
    /\ acceptors \subseteq Keys /\ connectors \subseteq Keys
    /\ accepting \subseteq Keys /\ connecting \subseteq Keys
    /\ keys \in 0 .. MaxKeys /\ sockets \in 0 .. MaxSockets
    /\ slots \in Seq([session : SessionId, seq : Seqs])
    /\ freeSlots \in Seq(Indices)
    /\ sessionCount \in Seqs /\ connectorCount \in Seqs
    /\ live \subseteq {id \in SessionId : id.seq # 0}
    /\ service \in {"running", "stopping", "finished"}
    /\ crash \in {"none", "slot_limit", "no_endpoint"}
    /\ pc \in [Threads -> {"idle", "listen_lock", "listen", "dial_lock", "dial", "insert",
                            "lock", "find", "construct", "lock2", "store", "erase", "unlock",
                            "cf_lock", "cf_erase", "late", "error_lock", "error"}]
    /\ loc \in [Threads -> Locals]
    /\ raced \in BOOLEAN /\ early \in BOOLEAN /\ doubled \in BOOLEAN

\* The three ways in which the table is known to break: mutex_ is released under
\* another thread, a session fails before on_new_socket() stores it, or two
\* threads destroy one session.
Undisturbed == ~raced /\ ~early /\ ~doubled /\ service # "finished"

\* The slots that on_new_socket() has taken and not filled yet.
Pending(t) == pc[t] \in {"construct", "lock2", "store"}

Held == {i \in 0 .. Len(slots) - 1 : slots[i + 1].session # NoSession}

\* Every slot is free once, or taken by one thread, or holds a session, and
\* only one of these; session_count_ counts the sessions held.
SlotsAccounted ==
    Undisturbed =>
        /\ \A i \in 0 .. Len(slots) - 1 :
              LET free == {j \in DOMAIN freeSlots : freeSlots[j] = i}
                  taken == {t \in Ios : Pending(t) /\ loc[t].idx = i}
              IN  Cardinality(free) + Cardinality(taken) + Cardinality({i} \cap Held) = 1
        /\ sessionCount = Cardinality(Held) % Wrap

\* acquire() finds every live session that on_new_socket() has stored, and a
\* stored session is live until error() runs for it.
TableMatchesSessions ==
    Undisturbed =>
        /\ \A id \in live :
              acquire(id) = id \/ \E t \in Ios : Pending(t) /\ IdOf(t) = id
        /\ \A i \in Held :
              \/ slots[i + 1].session \in live
              \/ \E t \in Threads : pc[t] \in {"error_lock", "error"}
                                    /\ IdOf(t) = slots[i + 1].session

\* The slot of a live session is not free, and no other session that lives
\* has it, even when error() comes before on_new_socket() has stored a session,
\* as long as no session is destroyed twice.
LiveSlotsTaken ==
    ~raced /\ ~doubled => \A id \in live :
                  /\ id.idx \notin Range(freeSlots)
                  /\ \A other \in live : other.idx = id.idx => other = id

\* connector_count_ counts the connectors, and each of them has its connect
\* in progress or a handler at work that will remove it.
ConnectorsCounted ==
    ~raced /\ service # "finished" =>
        /\ connectorCount = Cardinality(connectors) % Wrap
        /\ \A k \in connectors :
              \/ k \in connecting
              \/ \E t \in Ios : loc[t].key = k /\ pc[t] \notin {"idle", "unlock"}

\* An acceptor that was given a connection comes back for the next one.
AcceptsAgain ==
    \A k \in Keys :
        (\E t \in Ios : pc[t] = "lock" /\ loc[t].accepted /\ loc[t].key = k)
            ~> (k \in accepting \/ crash # "none")

\* finish() returns: the io threads leave their handlers.
FinishReturns == service = "stopping" ~> (service = "finished" \/ crash # "none")

=============================================================================
