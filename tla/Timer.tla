-------------------------------- MODULE Timer -------------------------------
(***************************************************************************)
(* lax::channel::timer: interval timers kept in slots, each slot a         *)
(* priority queue of requests (src/channel/timer.cpp, timer.hpp).  The     *)
(* class is not synchronised: one thread sets, cancels and updates, and    *)
(* the actions that update() calls may set and cancel timers themselves.   *)
(*                                                                         *)
(* Time is counted in units of min_interval.  A request is an object of    *)
(* its own beside the id it holds: it outlives cancel() in its slot's      *)
(* queue, and gives its id back when the last pointer to it goes.  The id  *)
(* pool is used through its promise (module Sequence): next() returns an   *)
(* id that nobody holds.                                                   *)
(***************************************************************************)
EXTENDS Naturals, Sequences, FiniteSetsExt, Functions

CONSTANTS Ids,          \* timer ids
          Intervals, Durations, Afters,   \* the arguments that set() is called with
          Actions,      \* the calls an action makes: a subset of {"set", "cancel"}
          MaxLive,      \* bound on the request objects alive at once
          MaxClock      \* bound on the clock

ASSUME TimerAssumption ==
    /\ Intervals \subseteq Nat \ {0} /\ Durations \subseteq Nat /\ Afters \subseteq Nat
    /\ Actions \subseteq {"set", "cancel"}
    /\ MaxLive \in Nat /\ MaxClock \in Nat

VARIABLES clock,     \* get_current_tick()
          slots,     \* slots_: interval_, last_run_tick_ and the objects in reqs_
          req,       \* the request objects that some pointer keeps alive
          reqs,      \* reqs_: from ids to objects
          held,      \* the ids that next() has handed out and release() has not had back
          pc,        \* where update() is
          now, slot, \* update()'s tick and the slot it looks at
          visits,    \* how many slots its loop goes through
          running    \* the object whose actions are being called, 0 for none

vars == <<clock, slots, req, reqs, held, pc, now, slot, visits, running>>
update_state == <<pc, now, slot, visits, running>>

min_interval == 1
forever == 0
Objects == 1 .. MaxLive

Extended(f, x, y) == [z \in DOMAIN f \cup {x} |-> IF z = x THEN y ELSE f[z]]
Without(f, x) == [z \in DOMAIN f \ {x} |-> f[z]]

Init ==
    /\ clock = 0 /\ slots = <<>> /\ held = {}
    /\ req = [o \in {} |-> 0] /\ reqs = [id \in {} |-> 0]
    /\ pc = "idle" /\ now = 0 /\ slot = 0 /\ visits = 0 /\ running = 0

-----------------------------------------------------------------------------
(* set(), cancel() and the clock.                                          *)

Tick ==
    /\ clock < MaxClock
    /\ pc \in {"idle", "run"}
    /\ clock' = clock + 1
    /\ UNCHANGED <<slots, req, reqs, held, update_state>>

\* The interval of the slot for a request: min_interval doubled as long as
\* that stays below half of the request's interval.
SlotInterval(interval) ==
    Max({min_interval} \cup {p \in 1 .. interval : 2 * p < interval /\ \E k \in 0 .. p : p = 2^k})

\* create_slot(): the slot with the greatest interval strictly below the one
\* asked for; 0 when there is none and one is added.
create_slot(interval) ==
    LET below == {i \in DOMAIN slots : slots[i].interval < interval}
        best  == {i \in below : \A j \in below : slots[j].interval <= slots[i].interval}
    IN  IF best = {} THEN 0 ELSE Min(best)

\* Where set() and cancel() may be called: outside update(), or by an action.
MayCall(op) == pc = "idle" \/ (pc = "run" /\ op \in Actions)

\* set(): a slot, a new request with a free id, and its place in the queue.
\* A slot added by an action moves slots_ under update()'s loop unless the
\* vector has room; its references dangle then and nothing is said of what
\* follows.
set(interval, duration, repeat, after) ==
    LET fi == SlotInterval(interval)
        at == create_slot(fi)
        o  == Min(Objects \ DOMAIN req)
    IN  /\ MayCall("set") /\ DOMAIN req # Objects
        /\ \E id \in Ids \ held :
              /\ held' = held \cup {id}
              /\ reqs' = Extended(reqs, id, o)
              /\ req' = Extended(req, o,
                    [id |-> id, interval |-> Max({min_interval, interval}), repeat |-> repeat,
                     cancel |-> FALSE, next |-> clock + after + Max({min_interval, interval}),
                     end |-> clock + after + duration])
        /\ slots' = IF at = 0 THEN Append(slots, [interval |-> fi, last |-> 0, queue |-> {o}])
                    ELSE [slots EXCEPT ![at].queue = @ \cup {o}]
        /\ pc' \in IF at = 0 /\ pc = "run" THEN {"run", "moved"} ELSE {pc}
        /\ UNCHANGED <<clock, now, slot, visits, running>>

\* A cancel() that relies on reqs_ alone.
CancelErasesOnly(id) ==
    /\ MayCall("cancel") /\ id \in DOMAIN reqs
    /\ reqs' = Without(reqs, id)
    /\ UNCHANGED <<clock, slots, req, held, update_state>>

\* A cancel() that gives the id back at once.
CancelReleases(id) ==
    /\ MayCall("cancel") /\ id \in DOMAIN reqs
    /\ req' = [req EXCEPT ![reqs[id]].cancel = TRUE]
    /\ reqs' = Without(reqs, id)
    /\ held' = held \ {id}
    /\ UNCHANGED <<clock, slots, update_state>>

\* cancel() of a known id: marked, and out of reqs_; its entry stays queued.
cancel(id) ==
    /\ MayCall("cancel") /\ id \in DOMAIN reqs
    /\ req' = [req EXCEPT ![reqs[id]].cancel = TRUE]
    /\ reqs' = Without(reqs, id)
    /\ UNCHANGED <<clock, slots, held, update_state>>

-----------------------------------------------------------------------------
(* update().                                                               *)

update ==
    /\ pc = "idle"
    /\ pc' = "slots" /\ now' = clock /\ slot' = 1 /\ visits' = Len(slots)
    /\ UNCHANGED <<clock, slots, req, reqs, held, running>>

\* The loop over the slots ends.
UpdateReturns ==
    /\ pc = "slots" /\ slot > visits
    /\ pc' = "idle" /\ now' = 0 /\ slot' = 0 /\ visits' = 0
    /\ UNCHANGED <<clock, slots, req, reqs, held, running>>

\* An update_slot() that skips a slot for one tick too long.
SkippedAtInterval ==
    /\ pc = "slots" /\ slot <= visits
    /\ slots[slot].last + slots[slot].interval >= now
    /\ slot' = slot + 1
    /\ UNCHANGED <<clock, slots, req, reqs, held, pc, now, visits, running>>

\* update_slot() returns at once for a slot that was checked recently.
SlotSkipped ==
    /\ pc = "slots" /\ slot <= visits
    /\ slots[slot].last + slots[slot].interval > now
    /\ slot' = slot + 1
    /\ UNCHANGED <<clock, slots, req, reqs, held, pc, now, visits, running>>

SlotChecked ==
    /\ pc = "slots" /\ slot <= visits
    /\ slots[slot].last + slots[slot].interval <= now
    /\ slots' = [slots EXCEPT ![slot].last = now]
    /\ pc' = "queue"
    /\ UNCHANGED <<clock, req, reqs, held, now, slot, visits, running>>

\* A slot's top(), the greatest entry: among equals any one.
Tops(queue) == {o \in queue : \A p \in queue : req[p].next <= req[o].next}

\* update_slot() ends when the queue is empty or its top is not due.
SlotDone ==
    /\ pc = "queue"
    /\ \A o \in Tops(slots[slot].queue) : req[o].next >= now
    /\ slot' = slot + 1
    /\ pc' = "slots"
    /\ UNCHANGED <<clock, slots, req, reqs, held, now, visits, running>>

\* The last pointer to object o goes: ~req() releases the id.
Destroy(o) ==
    /\ req' = Without(req, o)
    /\ held' = held \ {req[o].id}

Popped(o) == [slots EXCEPT ![slot].queue = @ \ {o}]

\* A due entry that was cancelled goes, and its id with it.
PopCancelled(o) ==
    /\ pc = "queue" /\ o \in Tops(slots[slot].queue)
    /\ req[o].next < now /\ req[o].cancel
    /\ slots' = Popped(o)
    /\ Destroy(o)
    /\ UNCHANGED <<clock, reqs, update_state>>

\* A due entry leaves the queue and its actions are called.
PopDue(o) ==
    /\ pc = "queue" /\ o \in Tops(slots[slot].queue)
    /\ req[o].next < now /\ ~req[o].cancel
    /\ slots' = Popped(o)
    /\ pc' = "run" /\ running' = o
    /\ UNCHANGED <<clock, req, reqs, held, now, slot, visits>>

\* An update_slot() that forgets remove_end_req(): reqs_ keeps the request.
RunDoneKeepsReq ==
    LET r == req[running]
    IN  /\ pc = "run"
        /\ pc' = "queue" /\ running' = 0
        /\ IF r.repeat \/ now < r.end
           THEN /\ req' = [req EXCEPT ![running].next = now + r.interval]
                /\ slots' = [slots EXCEPT ![slot].queue = @ \cup {running}]
                /\ UNCHANGED held
           ELSE UNCHANGED <<slots, req, held>>
        /\ UNCHANGED <<clock, reqs, now, slot, visits>>

\* After its actions: queued again if it repeats or has not ended, whether or
\* not an action has cancelled it; else out of reqs_, and its id goes back.
RunDone ==
    LET r == req[running]
    IN  /\ pc = "run"
        /\ pc' = "queue" /\ running' = 0
        /\ IF r.repeat \/ now < r.end
           THEN /\ req' = [req EXCEPT ![running].next = now + r.interval]
                /\ slots' = [slots EXCEPT ![slot].queue = @ \cup {running}]
                /\ UNCHANGED <<reqs, held>>
           ELSE /\ reqs' = Without(reqs, r.id)
                /\ Destroy(running)
                /\ UNCHANGED slots
        /\ UNCHANGED <<clock, now, slot, visits>>

-----------------------------------------------------------------------------

Update ==
    \/ update \/ UpdateReturns \/ SlotSkipped \/ SlotChecked \/ SlotDone \/ RunDone
    \/ \E o \in DOMAIN req : PopCancelled(o) \/ PopDue(o)

\* A timer that repeats does so for ever, whatever its duration.
Calls ==
    \/ \E i \in Intervals, a \in Afters : \/ set(i, forever, TRUE, a)
                                        \/ \E d \in Durations : set(i, d, FALSE, a)
    \/ \E id \in Ids : cancel(id)

Next == Tick \/ Calls \/ Update

Spec == Init /\ [][Next]_vars

-----------------------------------------------------------------------------

\* The queue entries that point to object o.
Queued(o) == {i \in DOMAIN slots : o \in slots[i].queue}

\* A request that is known is waiting in exactly one slot or is being run, so
\* no timer is lost or run twice over, whatever actions set and cancel.
NoneForgotten ==
    \A id \in DOMAIN reqs :
        IF running = reqs[id] THEN Queued(running) = {} ELSE Cardinality(Queued(reqs[id])) = 1

\* Requests that some pointer keeps alive, cancelled or not, hold different
\* ids and are queued or running; the ids that are held are theirs.  So an id
\* means one timer until nothing of it is left, and none is leaked.
IdsMatch ==
    /\ held = {req[o].id : o \in DOMAIN req}
    /\ \A o, p \in DOMAIN req : req[o].id = req[p].id => o = p
    /\ \A o \in DOMAIN req : o = running \/ Queued(o) # {}
    /\ \A id \in DOMAIN reqs : req[reqs[id]].id = id

\* The actions of a timer are called only while has(id) holds, never after a
\* cancel(), its own action's or another's, and although the entry of a
\* cancelled timer stays queued and may be queued again.
OnlyKnownTimersRun ==
    [][\A o \in DOMAIN req : running' = o /\ running # o
          => req[o].id \in DOMAIN reqs /\ reqs[req[o].id] = o]_vars

\* A timer that is alone in its slot is late by less than the slot's interval
\* when update() returns.
AloneIsPunctual ==
    [][pc = "slots" /\ pc' = "idle"
          => \A i \in DOMAIN slots : \A o \in slots[i].queue :
                slots[i].queue = {o} => req[o].next + slots[i].interval > now]_vars

=============================================================================
