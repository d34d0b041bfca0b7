----------------------------- MODULE TimerProofs ----------------------------
(***************************************************************************)
(* Proofs about the timer, for any ids, intervals, durations and delays,   *)
(* any calls from actions, and every bound on live requests and the clock. *)
(***************************************************************************)
EXTENDS Timer, FiniteSetTheorems, SequenceTheorems, WellFoundedInduction, TLAPS

Slot == [interval : Nat \ {0}, last : Nat, queue : SUBSET Objects]
Request == [id : Ids, interval : Nat \ {0}, repeat : BOOLEAN, cancel : BOOLEAN, next : Nat, end : Nat]

\* Every variable has its type.
Types ==
    /\ clock \in Nat /\ now \in Nat /\ slot \in Nat /\ visits \in Nat
    /\ slots \in Seq(Slot)
    /\ DOMAIN req \subseteq Objects /\ \A o \in DOMAIN req : req[o] \in Request
    /\ DOMAIN reqs \subseteq Ids /\ \A id \in DOMAIN reqs : reqs[id] \in Objects
    /\ pc \in {"idle", "slots", "queue", "run", "moved"}
    /\ running \in {0} \cup Objects

\* Where update() is, and what it has in hand there.
Progress ==
    /\ pc = "idle" => now = 0 /\ slot = 0 /\ visits = 0
    /\ pc = "slots" => slot >= 1
    /\ pc \in {"queue", "run", "moved"} => slot \in 1 .. visits
    /\ visits <= Len(slots) /\ now <= clock
    /\ running # 0 <=> pc \in {"run", "moved"}
    /\ running # 0 => running \in DOMAIN req

\* An object that is alive is in one queue or is running; what is in a queue
\* is alive.
Placed ==
    /\ \A i \in DOMAIN slots : slots[i].queue \subseteq DOMAIN req /\ running \notin slots[i].queue
    /\ \A i, j \in DOMAIN slots : slots[i].queue \cap slots[j].queue # {} => i = j
    /\ \A o \in DOMAIN req : o = running \/ \E i \in DOMAIN slots : o \in slots[i].queue

\* The ids of the objects are different, and they are the ids in use.
HeldIds ==
    /\ held = {req[o].id : o \in DOMAIN req}
    /\ \A o, p \in DOMAIN req : req[o].id = req[p].id => o = p

\* reqs_ knows the objects that are not cancelled, and no others.
Known ==
    /\ \A id \in DOMAIN reqs : reqs[id] \in DOMAIN req /\ ~req[reqs[id]].cancel /\ req[reqs[id]].id = id
    /\ \A o \in DOMAIN req : ~req[o].cancel => req[o].id \in DOMAIN reqs /\ reqs[req[o].id] = o

\* The slot that update_slot() works on.
Working(i) == i = slot /\ pc \in {"queue", "run", "moved"}

\* A timer alone in its slot is due after the slot's last check.
AloneIsLater ==
    \A i \in DOMAIN slots :
        /\ slots[i].last <= clock
        /\ ~Working(i) => \A o \in slots[i].queue : slots[i].queue = {o} => req[o].next >= slots[i].last

\* What update() has left behind, and what was added behind its back.
PassedBy ==
    \A i \in DOMAIN slots :
        /\ i < slot => slots[i].last + slots[i].interval > now
        /\ i > visits => \A o \in slots[i].queue : req[o].next >= now
        /\ Working(i) => slots[i].last = now

\* The inductive invariant.
IInv == Types /\ Progress /\ Placed /\ HeldIds /\ Known /\ AloneIsLater /\ PassedBy

-----------------------------------------------------------------------------
(* Numbers, functions and slots.                                           *)

\* A set of naturals that is not empty has a least element.
LEMMA LeastOf ==
    ASSUME NEW S \in SUBSET Nat, S # {}
    PROVE  Min(S) \in S /\ \A y \in S : Min(S) <= y
<1> DEFINE R == OpToRel(<, Nat)
<1>1. IsWellFoundedOn(R, Nat)
  BY NatLessThanWellFounded
<1>2. \A x, y \in Nat : x < y => <<x, y>> \in R
  BY DEF OpToRel
<1> HIDE DEF R
<1>3. PICK x \in S : \A y \in S : ~(<<y, x>> \in R)
  BY <1>1, WFMin
<1>4. \A y \in S : ~(y < x)
  BY <1>2, <1>3
<1>5. \A y \in S : x <= y
  BY <1>4
<1>6. QED
  BY <1>5 DEF Min

\* A set of naturals with an upper bound has a greatest element.
LEMMA GreatestOf ==
    ASSUME NEW S \in SUBSET Nat, S # {}, NEW b \in Nat, \A y \in S : y <= b
    PROVE  Max(S) \in S
<1> DEFINE D == {n \in Nat : \E y \in S : n = b - y}
<1>1. D \in SUBSET Nat /\ D # {}
  <2>1. PICK y \in S : TRUE
    OBVIOUS
  <2>2. b - y \in Nat
    BY <2>1
  <2>3. QED
    BY <2>1, <2>2
<1>2. Min(D) \in D /\ \A n \in D : Min(D) <= n
  BY <1>1, LeastOf
<1>3. PICK x \in S : Min(D) = b - x
  BY <1>2
<1>4. \A y \in S : x >= y
  <2>1. TAKE y \in S
  <2>2. b - y \in D
    OBVIOUS
  <2>3. b - x <= b - y
    BY <1>2, <1>3, <2>2
  <2>4. QED
    BY <2>3
<1>5. QED
  BY <1>4 DEF Max

\* The interval of a request is at least min_interval.
LEMMA ClampedInterval ==
    ASSUME NEW n \in Nat \ {0}
    PROVE  Max({min_interval, n}) \in Nat \ {0}
<1>1. {min_interval, n} \in SUBSET Nat /\ \A y \in {min_interval, n} : y <= n
  BY DEF min_interval
<1>2. QED
  BY <1>1, GreatestOf DEF min_interval

\* The interval of a slot is a natural number above 0.
LEMMA SlotIntervalFits ==
    ASSUME NEW n \in Nat \ {0}
    PROVE  SlotInterval(n) \in Nat \ {0}
<1> DEFINE P == {p \in 1 .. n : 2 * p < n /\ \E k \in 0 .. p : p = 2^k}
           S == {min_interval} \cup P
<1>1. S \in SUBSET Nat /\ S # {} /\ \A y \in S : y <= n /\ y # 0
  <2>1. P \subseteq 1 .. n
    OBVIOUS
  <2> HIDE DEF P
  <2>2. QED
    BY <2>1 DEF min_interval
<1> HIDE DEF S
<1>2. Max(S) \in S
  BY <1>1, GreatestOf
<1>3. SlotInterval(n) = Max(S)
  BY DEF SlotInterval, S
<1>4. QED
  BY <1>1, <1>2, <1>3

\* create_slot() finds a slot, or none.
LEMMA FindsSlot ==
    ASSUME Types, NEW n \in Nat
    PROVE  create_slot(n) \in {0} \cup DOMAIN slots
<1> DEFINE below == {i \in DOMAIN slots : slots[i].interval < n}
           best  == {i \in below : \A j \in below : slots[j].interval <= slots[i].interval}
<1>1. best \in SUBSET DOMAIN slots /\ DOMAIN slots = 1 .. Len(slots) /\ Len(slots) \in Nat
  BY DEF Types
<1>2. best \in SUBSET Nat
  BY <1>1
<1>3. create_slot(n) = IF best = {} THEN 0 ELSE Min(best)
  BY DEF create_slot
<1> HIDE DEF best
<1>4. best # {} => Min(best) \in best
  BY <1>2, LeastOf
<1>5. QED
  BY <1>1, <1>3, <1>4

\* What is known of the slots.
LEMMA SlotFacts ==
    ASSUME Types
    PROVE  /\ Len(slots) \in Nat /\ DOMAIN slots = 1 .. Len(slots)
           /\ \A i \in DOMAIN slots : /\ slots[i] \in Slot /\ slots[i].interval \in Nat \ {0}
                                      /\ slots[i].last \in Nat /\ slots[i].queue \subseteq Objects
<1>1. slots \in Seq(Slot) /\ Len(slots) \in Nat /\ DOMAIN slots = 1 .. Len(slots)
  BY DEF Types
<1>2. \A i \in DOMAIN slots : slots[i] \in Slot
  BY <1>1
<1>3. QED
  BY <1>1, <1>2 DEF Slot

\* One slot's queue changes.
LEMMA QueueChanges ==
    ASSUME Types, NEW n \in DOMAIN slots, NEW Q \in SUBSET Objects,
           slots' = [slots EXCEPT ![n].queue = Q]
    PROVE  /\ slots' \in Seq(Slot) /\ Len(slots') = Len(slots) /\ DOMAIN slots' = DOMAIN slots
           /\ \A i \in DOMAIN slots : /\ slots'[i].interval = slots[i].interval
                                      /\ slots'[i].last = slots[i].last
                                      /\ slots'[i].queue = IF i = n THEN Q ELSE slots[i].queue
<1>1. /\ Len(slots) \in Nat /\ DOMAIN slots = 1 .. Len(slots)
      /\ \A i \in DOMAIN slots : slots[i] \in Slot
  BY SlotFacts
<1>2. DOMAIN slots' = DOMAIN slots /\ slots'[n] = [slots[n] EXCEPT !.queue = Q]
      /\ \A i \in DOMAIN slots : i # n => slots'[i] = slots[i]
  OBVIOUS
<1>3. /\ slots'[n].interval = slots[n].interval /\ slots'[n].last = slots[n].last
      /\ slots'[n].queue = Q /\ slots'[n] \in Slot
  BY <1>1, <1>2 DEF Slot
<1>4. slots \in Seq(Slot) /\ n \in 1 .. Len(slots)
  BY <1>1 DEF Types
<1>5. slots' = [slots EXCEPT ![n] = slots'[n]]
  BY <1>2
<1>6. slots' \in Seq(Slot) /\ Len(slots') = Len(slots)
  BY <1>3, <1>4, <1>5, ExceptSeq
<1>7. QED
  BY <1>2, <1>3, <1>6

-----------------------------------------------------------------------------
(* The steps.                                                              *)

\* Only the clock or the place in update() changes.
LEMMA TickStep == ASSUME IInv, Tick PROVE IInv'
<1>t. Types /\ Progress /\ Placed /\ HeldIds /\ Known /\ AloneIsLater /\ PassedBy
  BY DEF IInv
<1>u. /\ clock' = clock + 1 /\ slots' = slots /\ req' = req /\ reqs' = reqs /\ held' = held
      /\ pc' = pc /\ now' = now /\ slot' = slot /\ visits' = visits /\ running' = running
  BY DEF Tick, update_state
<1>1. Types' /\ Progress'
  BY <1>t, <1>u DEF Types, Progress
<1>2. Placed' /\ Known' /\ HeldIds'
  BY <1>t, <1>u DEF Placed, Known, HeldIds
<1>3. AloneIsLater'
  BY <1>t, <1>u, SlotFacts DEF AloneIsLater, Working, Types
<1>4. PassedBy'
  BY <1>t, <1>u DEF PassedBy, Working
<1>5. QED
  BY <1>1, <1>2, <1>3, <1>4 DEF IInv

\* What is known of the requests in the queues.
LEMMA RequestFacts ==
    ASSUME Types
    PROVE  \A o \in DOMAIN req : /\ o \in Objects /\ o # 0 /\ req[o].id \in Ids /\ req[o].interval \in Nat \ {0}
                                 /\ req[o].next \in Nat /\ req[o].end \in Nat
                                 /\ req[o].repeat \in BOOLEAN /\ req[o].cancel \in BOOLEAN
<1>1. 0 \notin Objects
  BY TimerAssumption DEF Objects
<1>2. \A o \in DOMAIN req : o \in Objects /\ req[o] \in Request
  BY DEF Types
<1>3. QED
  BY <1>1, <1>2 DEF Request

\* update() moves on and touches no slot and no request.
LEMMA MovesOn ==
    ASSUME IInv, UNCHANGED <<clock, slots, req, reqs, held, running>>,
           Types', Progress', AloneIsLater', PassedBy'
    PROVE  IInv'
<1>t. Placed /\ HeldIds /\ Known
  BY DEF IInv
<1>1. Placed' /\ Known' /\ HeldIds'
  BY <1>t DEF Placed, Known, HeldIds
<1>2. QED
  BY <1>1 DEF IInv

\* update() begins.
LEMMA UpdateStep == ASSUME IInv, update PROVE IInv'
<1>t. Types /\ Progress /\ AloneIsLater /\ PassedBy
  BY DEF IInv
<1>u. /\ clock' = clock /\ slots' = slots /\ req' = req /\ reqs' = reqs /\ held' = held
      /\ running' = running /\ pc = "idle" /\ pc' = "slots" /\ now' = clock /\ slot' = 1
      /\ visits' = Len(slots)
  BY DEF update
<1>s. Len(slots) \in Nat /\ DOMAIN slots = 1 .. Len(slots)
  BY <1>t, SlotFacts
<1>1. Types'
  BY <1>s, <1>t, <1>u DEF Types
<1>2. Progress'
  BY <1>s, <1>t, <1>u DEF Progress, Types
<1>3. AloneIsLater'
  BY <1>t, <1>u DEF AloneIsLater, Working
<1>4. PassedBy'
  BY <1>s, <1>u DEF PassedBy, Working
<1>5. QED
  BY <1>1, <1>2, <1>3, <1>4, <1>u, MovesOn

\* update() returns.
LEMMA UpdateReturnsStep == ASSUME IInv, UpdateReturns PROVE IInv'
<1>t. Types /\ Progress /\ Placed /\ AloneIsLater /\ PassedBy
  BY DEF IInv
<1>u. /\ clock' = clock /\ slots' = slots /\ req' = req /\ reqs' = reqs /\ held' = held
      /\ running' = running /\ pc = "slots" /\ pc' = "idle" /\ now' = 0 /\ slot' = 0 /\ visits' = 0
  BY DEF UpdateReturns
<1>s. Len(slots) \in Nat /\ DOMAIN slots = 1 .. Len(slots)
  BY <1>t, SlotFacts
<1>1. Types'
  BY <1>t, <1>u DEF Types
<1>2. Progress'
  BY <1>s, <1>t, <1>u DEF Progress, Types
<1>3. AloneIsLater'
  BY <1>t, <1>u DEF AloneIsLater, Working
<1>4. PassedBy'
  <2>1. \A i \in DOMAIN slots : \A o \in slots[i].queue : req[o].next \in Nat
    BY <1>t, RequestFacts DEF Placed
  <2>2. QED
    BY <1>s, <1>u, <2>1 DEF PassedBy, Working
<1>5. QED
  BY <1>1, <1>2, <1>3, <1>4, <1>u, MovesOn

\* update_slot() returns at once.
LEMMA SlotSkippedStep == ASSUME IInv, SlotSkipped PROVE IInv'
<1>t. Types /\ Progress /\ AloneIsLater /\ PassedBy
  BY DEF IInv
<1>u. /\ clock' = clock /\ slots' = slots /\ req' = req /\ reqs' = reqs /\ held' = held
      /\ running' = running /\ pc = "slots" /\ pc' = pc /\ now' = now /\ slot' = slot + 1
      /\ visits' = visits /\ slots[slot].last + slots[slot].interval > now
  BY DEF SlotSkipped
<1>s. Len(slots) \in Nat /\ DOMAIN slots = 1 .. Len(slots) /\ slot \in Nat
  BY <1>t, SlotFacts DEF Types
<1>1. Types' /\ Progress'
  BY <1>s, <1>t, <1>u DEF Types, Progress
<1>2. AloneIsLater'
  BY <1>t, <1>u DEF AloneIsLater, Working
<1>3. PassedBy'
  <2>1. \A i \in DOMAIN slots : i < slot + 1 => i < slot \/ i = slot
    BY <1>s
  <2>2. QED
    BY <1>t, <1>u, <2>1 DEF PassedBy, Working
<1>4. QED
  BY <1>1, <1>2, <1>3, <1>u, MovesOn

\* update_slot() is through with its queue.
LEMMA SlotDoneStep == ASSUME IInv, SlotDone PROVE IInv'
<1>t. Types /\ Progress /\ Placed /\ AloneIsLater /\ PassedBy
  BY DEF IInv
<1>u. /\ clock' = clock /\ slots' = slots /\ req' = req /\ reqs' = reqs /\ held' = held
      /\ running' = running /\ pc = "queue" /\ pc' = "slots" /\ now' = now /\ slot' = slot + 1
      /\ visits' = visits /\ \A o \in Tops(slots[slot].queue) : req[o].next >= now
  BY DEF SlotDone
<1>s. /\ Len(slots) \in Nat /\ DOMAIN slots = 1 .. Len(slots) /\ slot \in Nat /\ now \in Nat
      /\ slot \in DOMAIN slots /\ slots[slot].last = now /\ slots[slot].interval \in Nat \ {0}
  <2>1. Len(slots) \in Nat /\ DOMAIN slots = 1 .. Len(slots) /\ slot \in Nat /\ now \in Nat /\ visits \in Nat
    BY <1>t, SlotFacts DEF Types
  <2>2. slot \in DOMAIN slots
    BY <1>t, <1>u, <2>1 DEF Progress
  <2>3. QED
    BY <1>t, <1>u, <2>1, <2>2, SlotFacts DEF PassedBy, Working
<1>1. Types' /\ Progress'
  BY <1>s, <1>t, <1>u DEF Types, Progress
<1>2. ASSUME NEW o \in slots[slot].queue, slots[slot].queue = {o} PROVE req[o].next >= now
  <2>1. req[o].next \in Nat
    BY <1>s, <1>t, RequestFacts DEF Placed
  <2>2. o \in Tops(slots[slot].queue)
    BY <1>2, <2>1 DEF Tops
  <2>3. QED
    BY <1>u, <2>2
<1>3. AloneIsLater'
  BY <1>2, <1>s, <1>t, <1>u DEF AloneIsLater, Working
<1>4. PassedBy'
  <2>1. \A i \in DOMAIN slots : i < slot + 1 => i < slot \/ i = slot
    BY <1>s
  <2>2. slots[slot].last + slots[slot].interval > now
    BY <1>s
  <2>3. QED
    BY <1>t, <1>u, <2>1, <2>2 DEF PassedBy, Working
<1>5. QED
  BY <1>1, <1>3, <1>4, <1>u, MovesOn

\* update_slot() looks at a slot's queue.
LEMMA SlotCheckedStep == ASSUME IInv, SlotChecked PROVE IInv'
<1>t. Types /\ Progress /\ Placed /\ HeldIds /\ Known /\ AloneIsLater /\ PassedBy
  BY DEF IInv
<1>u. /\ clock' = clock /\ req' = req /\ reqs' = reqs /\ held' = held /\ running' = running
      /\ pc = "slots" /\ pc' = "queue" /\ now' = now /\ slot' = slot /\ visits' = visits
      /\ slot <= visits /\ slots' = [slots EXCEPT ![slot].last = now]
  BY DEF SlotChecked
<1>s. /\ Len(slots) \in Nat /\ DOMAIN slots = 1 .. Len(slots) /\ slot \in Nat /\ now \in Nat
      /\ slot \in 1 .. visits /\ slot \in DOMAIN slots /\ slots \in Seq(Slot) /\ visits \in Nat
  <2>1. /\ Len(slots) \in Nat /\ DOMAIN slots = 1 .. Len(slots) /\ slot \in Nat /\ now \in Nat
        /\ visits \in Nat /\ slots \in Seq(Slot)
    BY <1>t, SlotFacts DEF Types
  <2>2. QED
    BY <1>t, <1>u, <2>1 DEF Progress
<1>1. /\ DOMAIN slots' = DOMAIN slots /\ slots'[slot] = [slots[slot] EXCEPT !.last = now]
      /\ \A i \in DOMAIN slots : i # slot => slots'[i] = slots[i]
  BY <1>s, <1>u
<1>2. /\ slots'[slot].interval = slots[slot].interval /\ slots'[slot].queue = slots[slot].queue
      /\ slots'[slot].last = now /\ slots'[slot] \in Slot
  BY <1>1, <1>s, <1>t, SlotFacts DEF Slot
<1>3. slots' \in Seq(Slot) /\ Len(slots') = Len(slots)
  <2>1. slots' = [slots EXCEPT ![slot] = slots'[slot]]
    BY <1>1, <1>u
  <2>2. QED
    BY <1>2, <1>s, <2>1, ExceptSeq
<1>4. \A i \in DOMAIN slots : slots'[i].queue = slots[i].queue
  BY <1>1, <1>2
<1>5. Types' /\ Progress'
  BY <1>3, <1>s, <1>t, <1>u DEF Types, Progress
<1>6. Placed' /\ HeldIds' /\ Known'
  BY <1>1, <1>4, <1>t, <1>u DEF Placed, HeldIds, Known
<1>7. AloneIsLater'
  <2>1. now <= clock
    BY <1>t DEF Progress
  <2>2. \A i \in DOMAIN slots : i = slot \/ slots'[i] = slots[i]
    BY <1>1
  <2>3. QED
    BY <1>1, <1>2, <1>t, <1>u, <2>1, <2>2 DEF AloneIsLater, Working
<1>8. PassedBy'
  <2>1. \A i \in DOMAIN slots : i < slot => i # slot
    BY <1>s
  <2>2. QED
    BY <1>1, <1>2, <1>4, <1>t, <1>u, <2>1 DEF PassedBy, Working
<1>9. QED
  BY <1>5, <1>6, <1>7, <1>8 DEF IInv

\* cancel() marks an object and takes its id out of reqs_.
LEMMA CancelStep == ASSUME IInv, NEW id \in Ids, cancel(id) PROVE IInv'
<1>t. Types /\ Progress /\ Placed /\ HeldIds /\ Known /\ AloneIsLater /\ PassedBy
  BY DEF IInv
<1> DEFINE c == reqs[id]
<1>u. /\ clock' = clock /\ slots' = slots /\ held' = held /\ id \in DOMAIN reqs
      /\ pc' = pc /\ now' = now /\ slot' = slot /\ visits' = visits /\ running' = running
      /\ req' = [req EXCEPT ![c].cancel = TRUE] /\ reqs' = [z \in DOMAIN reqs \ {id} |-> reqs[z]]
  BY DEF cancel, update_state, Without
<1>1. c \in DOMAIN req /\ req[c].id = id /\ req[c] \in Request
  BY <1>t, <1>u DEF Known, Types
<1> HIDE DEF c
<1>2. /\ DOMAIN req' = DOMAIN req /\ req'[c] = [req[c] EXCEPT !.cancel = TRUE]
      /\ \A o \in DOMAIN req : o # c => req'[o] = req[o]
  BY <1>1, <1>u
<1>3. /\ req'[c] \in Request /\ req'[c].cancel /\ req'[c].id = req[c].id
      /\ req'[c].next = req[c].next
  BY <1>1, <1>2 DEF Request
<1>4. \A o \in DOMAIN req : req'[o].id = req[o].id /\ req'[o].next = req[o].next
  BY <1>2, <1>3
<1>5. DOMAIN reqs' = DOMAIN reqs \ {id} /\ \A z \in DOMAIN reqs' : reqs'[z] = reqs[z]
  BY <1>u
<1>6. Types'
  BY <1>2, <1>3, <1>5, <1>t, <1>u DEF Types
<1>7. Progress' /\ Placed'
  BY <1>2, <1>t, <1>u DEF Progress, Placed
<1>8. HeldIds'
  BY <1>2, <1>4, <1>t, <1>u DEF HeldIds
<1>9. Known'
  <2>1. \A z \in DOMAIN reqs' : reqs[z] \in DOMAIN req /\ ~req[reqs[z]].cancel
                                /\ req[reqs[z]].id = z /\ reqs[z] # c
    BY <1>1, <1>5, <1>t DEF Known
  <2>2. \A o \in DOMAIN req : ~req'[o].cancel => o # c
    BY <1>3
  <2>3. \A o \in DOMAIN req : o # c => req[o].id # id
    BY <1>1, <1>t DEF HeldIds
  <2>4. \A z \in DOMAIN reqs' : /\ reqs'[z] \in DOMAIN req' /\ ~req'[reqs'[z]].cancel
                                /\ req'[reqs'[z]].id = z
    BY <1>2, <1>5, <2>1
  <2>5. \A o \in DOMAIN req' : ~req'[o].cancel => req'[o].id \in DOMAIN reqs' /\ reqs'[req'[o].id] = o
    BY <1>2, <1>5, <1>t, <2>2, <2>3 DEF Known
  <2>6. QED
    BY <2>4, <2>5 DEF Known
<1>10. AloneIsLater' /\ PassedBy'
  <2>1. \A i \in DOMAIN slots : \A o \in slots[i].queue : req'[o].next = req[o].next
    BY <1>4, <1>t DEF Placed
  <2>2. QED
    BY <1>t, <1>u, <2>1 DEF AloneIsLater, PassedBy, Working
<1>11. QED
  BY <1>6, <1>7, <1>8, <1>9, <1>10 DEF IInv

\* Object o is put into slot p, which may be a new one.
AddedAt(p, o) ==
    /\ p \in DOMAIN slots' /\ DOMAIN slots \subseteq DOMAIN slots' /\ Len(slots) <= Len(slots')
    /\ \A i \in DOMAIN slots' :
          \/ /\ i \in DOMAIN slots
             /\ slots'[i].interval = slots[i].interval /\ slots'[i].last = slots[i].last
             /\ slots'[i].queue = IF i = p THEN slots[i].queue \cup {o} ELSE slots[i].queue
          \/ i = p /\ i > Len(slots) /\ slots'[i].last = 0 /\ slots'[i].queue = {o}

\* set() puts its request into a slot.
LEMMA SetAdds ==
    ASSUME Types, NEW n \in Nat \ {0}, NEW o \in Objects, NEW at \in {0} \cup DOMAIN slots,
           slots' = IF at = 0 THEN Append(slots, [interval |-> n, last |-> 0, queue |-> {o}])
                    ELSE [slots EXCEPT ![at].queue = @ \cup {o}]
    PROVE  slots' \in Seq(Slot) /\ \E p \in Nat : AddedAt(p, o)
<1>1. /\ slots \in Seq(Slot) /\ Len(slots) \in Nat /\ DOMAIN slots = 1 .. Len(slots)
      /\ \A i \in DOMAIN slots : slots[i].queue \subseteq Objects
  BY SlotFacts DEF Types
<1>2. CASE at = 0
  <2> DEFINE r == [interval |-> n, last |-> 0, queue |-> {o}]
  <2>1. r \in Slot /\ r.last = 0 /\ r.queue = {o} /\ slots' = Append(slots, r)
    BY <1>2 DEF Slot
  <2> HIDE DEF r
  <2>2. /\ slots' \in Seq(Slot) /\ Len(slots') = Len(slots) + 1 /\ DOMAIN slots' = 1 .. Len(slots) + 1
        /\ slots'[Len(slots) + 1] = r /\ \A i \in 1 .. Len(slots) : slots'[i] = slots[i]
    <3>1. slots \in Seq(Slot)
      BY <1>1
    <3>2. /\ Append(slots, r) \in Seq(Slot) /\ Len(Append(slots, r)) = Len(slots) + 1
          /\ DOMAIN Append(slots, r) = 1 .. Len(slots) + 1
          /\ Append(slots, r)[Len(slots) + 1] = r
          /\ \A i \in 1 .. Len(slots) : Append(slots, r)[i] = slots[i]
      BY <2>1, <3>1, AppendProperties
    <3>3. QED
      BY <2>1, <3>2
  <2>3. \A i \in DOMAIN slots' : (i \in 1 .. Len(slots) /\ i # Len(slots) + 1) \/ i = Len(slots) + 1
    BY <1>1, <2>2
  <2>4. /\ Len(slots) + 1 \in DOMAIN slots' /\ Len(slots) + 1 > Len(slots) /\ Len(slots) + 1 \in Nat
        /\ DOMAIN slots \subseteq DOMAIN slots' /\ Len(slots) <= Len(slots')
    BY <1>1, <2>2
  <2>5. AddedAt(Len(slots) + 1, o)
    BY <1>1, <2>1, <2>2, <2>3, <2>4 DEF AddedAt
  <2>6. QED
    BY <2>2, <2>4, <2>5
<1>3. CASE at # 0
  <2>1. at \in DOMAIN slots /\ at \in Nat /\ slots[at].queue \cup {o} \in SUBSET Objects
    BY <1>1, <1>3
  <2>2. slots' = [slots EXCEPT ![at].queue = slots[at].queue \cup {o}]
    BY <1>3
  <2>3. /\ slots' \in Seq(Slot) /\ Len(slots') = Len(slots) /\ DOMAIN slots' = DOMAIN slots
        /\ \A i \in DOMAIN slots : /\ slots'[i].interval = slots[i].interval
                                   /\ slots'[i].last = slots[i].last
                                   /\ slots'[i].queue = IF i = at THEN slots[at].queue \cup {o}
                                                        ELSE slots[i].queue
    BY <2>1, <2>2, QueueChanges
  <2>4. \A i \in DOMAIN slots : slots'[i].queue = IF i = at THEN slots[i].queue \cup {o} ELSE slots[i].queue
    BY <2>3
  <2>5. at \in DOMAIN slots' /\ DOMAIN slots \subseteq DOMAIN slots' /\ Len(slots) <= Len(slots')
    <3>1. DOMAIN slots' = DOMAIN slots /\ Len(slots') = Len(slots)
      BY <2>3
    <3>2. at \in DOMAIN slots' /\ DOMAIN slots \subseteq DOMAIN slots'
      BY <2>1, <3>1, Zenon
    <3>3. Len(slots) <= Len(slots')
      <4>1. Len(slots) \in Nat
        BY <1>1
      <4>2. QED
        BY <3>1, <4>1
    <3>4. QED
      BY <3>2, <3>3
  <2>6. AddedAt(at, o)
    BY <2>3, <2>4, <2>5 DEF AddedAt
  <2>7. QED
    BY <2>1, <2>3, <2>6
<1>4. QED
  BY <1>2, <1>3

\* set() adds a request with an id that nobody holds.
LEMMA SetStep ==
    ASSUME IInv, NEW n \in Nat \ {0}, NEW d \in Nat, NEW rep \in BOOLEAN, NEW a \in Nat, set(n, d, rep, a)
    PROVE  IInv'
<1>t. Types /\ Progress /\ Placed /\ HeldIds /\ Known /\ AloneIsLater /\ PassedBy
  BY DEF IInv
<1> DEFINE fi == SlotInterval(n)
           at == create_slot(fi)
           o  == Min(Objects \ DOMAIN req)
           iv == Max({min_interval, n})
<1>u. /\ clock' = clock /\ now' = now /\ slot' = slot /\ visits' = visits /\ running' = running
      /\ MayCall("set") /\ DOMAIN req # Objects
      /\ slots' = IF at = 0 THEN Append(slots, [interval |-> fi, last |-> 0, queue |-> {o}])
                  ELSE [slots EXCEPT ![at].queue = @ \cup {o}]
      /\ pc' \in IF at = 0 /\ pc = "run" THEN {"run", "moved"} ELSE {pc}
  BY DEF set
<1>1. PICK id \in Ids \ held :
        /\ held' = held \cup {id} /\ reqs' = Extended(reqs, id, o)
        /\ req' = Extended(req, o,
              [id |-> id, interval |-> iv, repeat |-> rep,
               cancel |-> FALSE, next |-> clock + a + iv, end |-> clock + a + d])
  BY DEF set
<1>2. o \in Objects /\ o \notin DOMAIN req /\ o # 0
  <2>1. Objects \subseteq Nat /\ 0 \notin Objects
    BY TimerAssumption DEF Objects
  <2>2. DOMAIN req \subseteq Objects
    BY <1>t DEF Types
  <2>3. Objects \ DOMAIN req \in SUBSET Nat /\ Objects \ DOMAIN req # {}
    BY <1>u, <2>1, <2>2
  <2>4. o \in Objects \ DOMAIN req
    BY <2>3, LeastOf
  <2>5. QED
    BY <2>1, <2>4
<1>3. iv \in Nat \ {0} /\ fi \in Nat \ {0} /\ at \in {0} \cup DOMAIN slots
  <2>1. iv \in Nat \ {0} /\ fi \in Nat \ {0}
    BY ClampedInterval, SlotIntervalFits
  <2>2. at \in {0} \cup DOMAIN slots
    BY <1>t, <2>1, FindsSlot
  <2>3. QED
    BY <2>1, <2>2
<1> HIDE DEF fi, at, o, iv
<1>4. slots' \in Seq(Slot) /\ \E p \in Nat : AddedAt(p, o)
  BY <1>2, <1>3, <1>t, <1>u, SetAdds
<1>5. PICK p \in Nat : AddedAt(p, o)
  BY <1>4
<1> DEFINE r == [id |-> id, interval |-> iv, repeat |-> rep,
                 cancel |-> FALSE, next |-> clock + a + iv, end |-> clock + a + d]
<1>6. /\ r \in Request /\ r.id = id /\ ~r.cancel /\ r.next \in Nat /\ r.next >= clock /\ clock \in Nat
  <2>1. clock \in Nat /\ clock + a + iv \in Nat /\ clock + a + d \in Nat /\ clock + a + iv >= clock
    BY <1>3, <1>t DEF Types
  <2>2. QED
    BY <1>3, <2>1 DEF Request
<1>7. /\ DOMAIN req' = DOMAIN req \cup {o} /\ req'[o] = r /\ \A x \in DOMAIN req : req'[x] = req[x]
      /\ DOMAIN reqs' = DOMAIN reqs \cup {id} /\ reqs'[id] = o
      /\ \A z \in DOMAIN reqs : z # id => reqs'[z] = reqs[z]
  BY <1>1, <1>2 DEF Extended
<1> HIDE DEF r
<1>8. id \notin DOMAIN reqs /\ \A x \in DOMAIN req : req[x].id # id
  BY <1>1, <1>t DEF HeldIds, Known
<1>9. /\ Len(slots) \in Nat /\ DOMAIN slots = 1 .. Len(slots) /\ DOMAIN slots' = 1 .. Len(slots')
      /\ slot \in Nat /\ visits \in Nat /\ now \in Nat /\ visits <= Len(slots) /\ slot <= visits
      /\ Len(slots') \in Nat /\ now <= clock /\ pc \in {"idle", "run"}
  <2>1. /\ Len(slots) \in Nat /\ DOMAIN slots = 1 .. Len(slots) /\ DOMAIN slots' = 1 .. Len(slots')
        /\ slot \in Nat /\ visits \in Nat /\ now \in Nat /\ Len(slots') \in Nat
    BY <1>4, <1>t, SlotFacts DEF Types
  <2>2. pc \in {"idle", "run"}
    BY <1>u DEF MayCall
  <2>3. QED
    BY <1>t, <2>1, <2>2 DEF Progress
<1>10. /\ pc' \in {"idle", "slots", "queue", "run", "moved"} /\ (pc' = "idle" <=> pc = "idle")
       /\ (pc' \in {"queue", "run", "moved"} <=> pc \in {"queue", "run", "moved"})
       /\ (pc' \in {"run", "moved"} <=> pc \in {"run", "moved"}) /\ pc' # "slots"
       /\ \A i \in Nat : Working(i)' <=> Working(i)
  BY <1>9, <1>u DEF Working
<1>11. Types'
  BY <1>1, <1>2, <1>4, <1>6, <1>7, <1>10, <1>t, <1>u DEF Types
<1>12. Progress'
  <2>1. Len(slots) <= Len(slots')
    BY <1>5 DEF AddedAt
  <2>2. visits <= Len(slots')
    BY <1>9, <2>1
  <2>3. QED
    BY <1>7, <1>9, <1>10, <1>t, <1>u, <2>2 DEF Progress
<1>13. /\ \A i \in DOMAIN slots : o \notin slots[i].queue
       /\ \A i \in DOMAIN slots' : o \in slots'[i].queue <=> i = p
       /\ \A i \in DOMAIN slots' : \A x \in slots'[i].queue : x = o \/ (i \in DOMAIN slots /\ x \in slots[i].queue)
       /\ \A i \in DOMAIN slots : \A x \in slots[i].queue : x \in slots'[i].queue
  <2>1. \A i \in DOMAIN slots : o \notin slots[i].queue
    BY <1>2, <1>t DEF Placed
  <2>2. \A i \in DOMAIN slots : ~(i > Len(slots))
    BY <1>9
  <2>3. QED
    BY <1>5, <2>1, <2>2 DEF AddedAt
<1>14. Placed'
  <2>1. running # o
    BY <1>2, <1>t DEF Progress
  <2>2. \A i \in DOMAIN slots' : slots'[i].queue \subseteq DOMAIN req' /\ running' \notin slots'[i].queue
    BY <1>7, <1>13, <1>t, <1>u, <2>1 DEF Placed
  <2>3. \A i, j \in DOMAIN slots' : slots'[i].queue \cap slots'[j].queue # {} => i = j
    <3>1. SUFFICES ASSUME NEW i \in DOMAIN slots', NEW j \in DOMAIN slots',
                          NEW x, x \in slots'[i].queue, x \in slots'[j].queue
                   PROVE  i = j
      OBVIOUS
    <3>2. CASE x = o
      BY <1>13, <3>1, <3>2
    <3>3. CASE x # o
      <4>1. /\ i \in DOMAIN slots /\ x \in slots[i].queue
            /\ j \in DOMAIN slots /\ x \in slots[j].queue
        BY <1>13, <3>1, <3>3
      <4>2. x \in slots[i].queue \cap slots[j].queue
        BY <4>1
      <4>3. QED
        BY <1>t, <4>1, <4>2 DEF Placed
    <3>4. QED
      BY <3>2, <3>3
  <2>4. \A x \in DOMAIN req' : x = running' \/ \E i \in DOMAIN slots' : x \in slots'[i].queue
    <3>1. p \in DOMAIN slots' /\ DOMAIN slots \subseteq DOMAIN slots'
      BY <1>5 DEF AddedAt
    <3>2. QED
      BY <1>7, <1>13, <1>t, <1>u, <3>1 DEF Placed
  <2>5. QED
    BY <2>2, <2>3, <2>4 DEF Placed
<1>15. HeldIds'
  <2>0. held = {req[x].id : x \in DOMAIN req}
    BY <1>t DEF HeldIds
  <2>1. held' = {req'[x].id : x \in DOMAIN req'}
    <3>1. ASSUME NEW h \in held' PROVE \E x \in DOMAIN req' : h = req'[x].id
      <4>1. CASE h = id
        BY <1>6, <1>7, <4>1
      <4>2. CASE h \in held
        <5>1. PICK x \in DOMAIN req : h = req[x].id
          BY <2>0, <4>2
        <5>2. x \in DOMAIN req' /\ req'[x] = req[x]
          BY <1>7
        <5>3. QED
          BY <5>1, <5>2
      <4>3. QED
        BY <1>1, <3>1, <4>1, <4>2
    <3>2. ASSUME NEW x \in DOMAIN req' PROVE req'[x].id \in held'
      BY <1>1, <1>6, <1>7, <2>0, <3>2
    <3>3. QED
      BY <3>1, <3>2
  <2>2. \A x, y \in DOMAIN req' : req'[x].id = req'[y].id => x = y
    BY <1>6, <1>7, <1>8, <1>t DEF HeldIds
  <2>3. QED
    BY <2>1, <2>2 DEF HeldIds
<1>16. Known'
  <2>1. \A z \in DOMAIN reqs' : reqs'[z] \in DOMAIN req' /\ ~req'[reqs'[z]].cancel /\ req'[reqs'[z]].id = z
    BY <1>6, <1>7, <1>8, <1>t DEF Known
  <2>2. \A x \in DOMAIN req' : ~req'[x].cancel => req'[x].id \in DOMAIN reqs' /\ reqs'[req'[x].id] = x
    BY <1>6, <1>7, <1>8, <1>t DEF Known
  <2>3. QED
    BY <2>1, <2>2 DEF Known
<1>17. AloneIsLater'
  <2>1. SUFFICES ASSUME NEW i \in DOMAIN slots'
                 PROVE  /\ slots'[i].last <= clock
                        /\ ~Working(i) => \A x \in slots'[i].queue :
                               slots'[i].queue = {x} => req'[x].next >= slots'[i].last
    BY <1>9, <1>10, <1>u DEF AloneIsLater
  <2>2. slots'[i].last <= clock /\ slots'[i].last \in Nat
    <3>1. \/ i \in DOMAIN slots /\ slots'[i].last = slots[i].last
          \/ slots'[i].last = 0
      BY <1>5, <2>1 DEF AddedAt
    <3>2. QED
      BY <1>6, <1>t, <3>1, SlotFacts DEF AloneIsLater
  <2>3. ASSUME ~Working(i), NEW x \in slots'[i].queue, slots'[i].queue = {x}
        PROVE  req'[x].next >= slots'[i].last
    <3>1. CASE x = o
      BY <1>6, <1>7, <2>2, <3>1
    <3>2. CASE x # o
      <4>1. i # p /\ i \in DOMAIN slots /\ x \in slots[i].queue
        BY <1>13, <2>1, <2>3, <3>2
      <4>2. slots'[i].queue = slots[i].queue /\ slots'[i].last = slots[i].last
        BY <1>5, <2>1, <4>1 DEF AddedAt
      <4>3. req'[x] = req[x]
        BY <1>7, <1>t, <4>1 DEF Placed
      <4>4. QED
        BY <1>t, <2>3, <4>1, <4>2, <4>3 DEF AloneIsLater
    <3>3. QED
      BY <3>1, <3>2
  <2>4. QED
    BY <2>2, <2>3
<1>18. PassedBy'
  <2>1. SUFFICES ASSUME NEW i \in DOMAIN slots'
                 PROVE  /\ i < slot => slots'[i].last + slots'[i].interval > now
                        /\ i > visits => \A x \in slots'[i].queue : req'[x].next >= now
                        /\ Working(i) => slots'[i].last = now
    BY <1>9, <1>10, <1>u DEF PassedBy
  <2>2. i <= Len(slots) => /\ i \in DOMAIN slots /\ slots'[i].interval = slots[i].interval
                           /\ slots'[i].last = slots[i].last
    <3>1. i <= Len(slots) => ~(i > Len(slots))
      BY <1>9, <2>1
    <3>2. QED
      BY <1>5, <2>1, <3>1 DEF AddedAt
  <2>3. i < slot \/ Working(i) => i <= Len(slots)
    BY <1>9, <2>1 DEF Working
  <2>4. ASSUME i > visits, NEW x \in slots'[i].queue PROVE req'[x].next >= now
    <3>1. CASE x = o
      BY <1>6, <1>7, <1>9, <3>1
    <3>2. CASE x # o
      <4>1. i \in DOMAIN slots /\ x \in slots[i].queue
        BY <1>13, <2>1, <2>4, <3>2
      <4>2. req'[x] = req[x]
        BY <1>7, <1>t, <4>1 DEF Placed
      <4>3. QED
        BY <1>t, <2>4, <4>1, <4>2 DEF PassedBy
    <3>3. QED
      BY <3>1, <3>2
  <2>5. QED
    BY <1>t, <2>2, <2>3, <2>4 DEF PassedBy
<1>19. QED
  BY <1>11, <1>12, <1>14, <1>15, <1>16, <1>17, <1>18 DEF IInv

\* The last pointer to object o goes, and it gives its id back.
LEMMA DestroyKeeps ==
    ASSUME HeldIds, NEW o \in DOMAIN req, Destroy(o)
    PROVE  /\ DOMAIN req' = DOMAIN req \ {o} /\ \A x \in DOMAIN req' : req'[x] = req[x]
           /\ HeldIds'
<1>1. /\ DOMAIN req' = DOMAIN req \ {o} /\ \A x \in DOMAIN req' : req'[x] = req[x]
      /\ held' = held \ {req[o].id}
  BY DEF Destroy, Without
<1>2. /\ held = {req[x].id : x \in DOMAIN req}
      /\ \A x, y \in DOMAIN req : req[x].id = req[y].id => x = y
  BY DEF HeldIds
<1>3. ASSUME NEW h \in held' PROVE \E x \in DOMAIN req' : h = req'[x].id
  BY <1>1, <1>2, <1>3
<1>4. ASSUME NEW x \in DOMAIN req' PROVE req'[x].id \in held'
  BY <1>1, <1>2, <1>4
<1>5. held' = {req'[x].id : x \in DOMAIN req'}
  BY <1>3, <1>4
<1>6. \A x, y \in DOMAIN req' : req'[x].id = req'[y].id => x = y
  BY <1>1, <1>2
<1>7. QED
  BY <1>1, <1>5, <1>6 DEF HeldIds

\* The queue that update_slot() works on changes: what it is now has to do
\* with no other slot.
LEMMA WorkingChanges ==
    ASSUME IInv, pc \in {"queue", "run"}, NEW Q \in SUBSET Objects,
           slots' = [slots EXCEPT ![slot].queue = Q]
    PROVE  /\ slot \in DOMAIN slots
           /\ slots' \in Seq(Slot) /\ Len(slots') = Len(slots) /\ DOMAIN slots' = DOMAIN slots
           /\ slots'[slot].queue = Q
           /\ \A i \in DOMAIN slots : /\ slots'[i].interval = slots[i].interval
                                      /\ slots'[i].last = slots[i].last
                                      /\ i # slot => slots'[i].queue = slots[i].queue
<1>1. slot \in DOMAIN slots
  <2>1. Len(slots) \in Nat /\ DOMAIN slots = 1 .. Len(slots) /\ visits \in Nat
    BY SlotFacts DEF IInv, Types
  <2>2. QED
    BY <2>1 DEF IInv, Progress
<1>2. Types
  BY DEF IInv
<1>3. PICK n \in DOMAIN slots : n = slot
  BY <1>1
<1>4. slots' = [slots EXCEPT ![n].queue = Q]
  BY <1>3
<1>5. /\ slots' \in Seq(Slot) /\ Len(slots') = Len(slots) /\ DOMAIN slots' = DOMAIN slots
      /\ \A i \in DOMAIN slots : /\ slots'[i].interval = slots[i].interval
                                 /\ slots'[i].last = slots[i].last
                                 /\ slots'[i].queue = IF i = n THEN Q ELSE slots[i].queue
  BY <1>2, <1>4, QueueChanges
<1>6. slots'[n].queue = Q /\ \A i \in DOMAIN slots : i # n => slots'[i].queue = slots[i].queue
  BY <1>5
<1>7. QED
  BY <1>1, <1>3, <1>5, <1>6

\* What holds of the other slots holds after a change in the slot that
\* update_slot() works on.
LEMMA OthersStay ==
    ASSUME IInv, pc \in {"queue", "run"}, pc' \in {"queue", "run"}, NEW Q \in SUBSET Objects,
           slots' = [slots EXCEPT ![slot].queue = Q],
           UNCHANGED <<clock, now, slot, visits>>,
           \A x \in DOMAIN req : \A i \in DOMAIN slots :
               x \in slots[i].queue /\ i # slot => x \in DOMAIN req' /\ req'[x].next = req[x].next
    PROVE  AloneIsLater' /\ PassedBy'
<1>t. Types /\ Progress /\ Placed /\ AloneIsLater /\ PassedBy
  BY DEF IInv
<1>1. /\ DOMAIN slots' = DOMAIN slots
      /\ \A i \in DOMAIN slots : /\ slots'[i].interval = slots[i].interval
                                 /\ slots'[i].last = slots[i].last
                                 /\ i # slot => slots'[i].queue = slots[i].queue
  BY WorkingChanges
<1>2. /\ clock' = clock /\ now' = now /\ slot' = slot /\ visits' = visits
      /\ \A i \in DOMAIN slots : (Working(i) <=> i = slot) /\ (Working(i)' <=> i = slot)
  BY DEF Working
<1>3. \A i \in DOMAIN slots : i # slot => \A x \in slots[i].queue : req'[x].next = req[x].next
  BY <1>t DEF Placed
<1>4. slot \in Nat /\ visits \in Nat /\ slot <= visits
  BY <1>t DEF Types, Progress
<1>5. AloneIsLater'
  BY <1>1, <1>2, <1>3, <1>t DEF AloneIsLater
<1>6. PassedBy'
  <2>1. \A i \in DOMAIN slots : i > visits => i # slot
    BY <1>4, <1>t, SlotFacts
  <2>2. QED
    BY <1>1, <1>2, <1>3, <1>t, <2>1 DEF PassedBy
<1>7. QED
  BY <1>5, <1>6

\* A cancelled entry is met, and its object goes.
LEMMA PopCancelledStep == ASSUME IInv, NEW o \in DOMAIN req, PopCancelled(o) PROVE IInv'
<1>t. Types /\ Progress /\ Placed /\ HeldIds /\ Known
  BY DEF IInv
<1>u. /\ clock' = clock /\ reqs' = reqs /\ pc' = pc /\ now' = now /\ slot' = slot
      /\ visits' = visits /\ running' = running /\ pc = "queue" /\ req[o].cancel /\ Destroy(o)
      /\ o \in slots[slot].queue /\ slots' = [slots EXCEPT ![slot].queue = slots[slot].queue \ {o}]
      /\ UNCHANGED <<clock, now, slot, visits>>
  BY DEF PopCancelled, update_state, Tops, Popped
<1> DEFINE Q == slots[slot].queue \ {o}
<1>0. Q \in SUBSET Objects
  <2>1. Len(slots) \in Nat /\ DOMAIN slots = 1 .. Len(slots) /\ visits \in Nat
    BY <1>t, SlotFacts DEF Types
  <2>2. slot \in DOMAIN slots
    BY <1>t, <1>u, <2>1 DEF Progress
  <2>3. QED
    BY <1>t, <2>2, SlotFacts
<1> HIDE DEF Q
<1>s. slots' = [slots EXCEPT ![slot].queue = Q]
  BY <1>u DEF Q
<1>1. /\ slot \in DOMAIN slots
      /\ slots' \in Seq(Slot) /\ Len(slots') = Len(slots) /\ DOMAIN slots' = DOMAIN slots
      /\ slots'[slot].queue = Q
      /\ \A i \in DOMAIN slots : i # slot => slots'[i].queue = slots[i].queue
  BY <1>0, <1>s, <1>u, WorkingChanges
<1>2. /\ DOMAIN req' = DOMAIN req \ {o} /\ \A x \in DOMAIN req' : req'[x] = req[x]
      /\ HeldIds'
  BY <1>t, <1>u, DestroyKeeps
<1>3. \A i \in DOMAIN slots : /\ o \in slots[i].queue => i = slot
                             /\ slots'[i].queue = slots[i].queue \ {o}
  <2>1. \A i \in DOMAIN slots : o \in slots[i].queue => i = slot
    BY <1>1, <1>t, <1>u DEF Placed
  <2>2. QED
    BY <1>1, <2>1 DEF Q
<1>4. Types'
  BY <1>1, <1>2, <1>t, <1>u DEF Types
<1>5. Progress'
  BY <1>1, <1>2, <1>t, <1>u DEF Progress
<1>6. Placed'
  BY <1>1, <1>2, <1>3, <1>t, <1>u DEF Placed
<1>7. Known'
  BY <1>2, <1>t, <1>u DEF Known
<1>8. AloneIsLater' /\ PassedBy'
  <2>1. \A x \in DOMAIN req : \A i \in DOMAIN slots :
            x \in slots[i].queue /\ i # slot => x \in DOMAIN req' /\ req'[x].next = req[x].next
    BY <1>2, <1>3
  <2>2. QED
    BY <1>0, <1>s, <1>u, <2>1, OthersStay
<1>9. QED
  BY <1>2, <1>4, <1>5, <1>6, <1>7, <1>8 DEF IInv

\* A due entry leaves the queue to be run.
LEMMA PopDueStep == ASSUME IInv, NEW o \in DOMAIN req, PopDue(o) PROVE IInv'
<1>t. Types /\ Progress /\ Placed /\ HeldIds /\ Known
  BY DEF IInv
<1>u. /\ clock' = clock /\ reqs' = reqs /\ req' = req /\ held' = held /\ now' = now /\ slot' = slot
      /\ visits' = visits /\ pc = "queue" /\ pc' = "run" /\ running' = o
      /\ o \in slots[slot].queue /\ slots' = [slots EXCEPT ![slot].queue = slots[slot].queue \ {o}]
      /\ UNCHANGED <<clock, now, slot, visits>>
  BY DEF PopDue, Tops, Popped
<1> DEFINE Q == slots[slot].queue \ {o}
<1>0. Q \in SUBSET Objects
  <2>1. Len(slots) \in Nat /\ DOMAIN slots = 1 .. Len(slots) /\ visits \in Nat
    BY <1>t, SlotFacts DEF Types
  <2>2. slot \in DOMAIN slots
    BY <1>t, <1>u, <2>1 DEF Progress
  <2>3. QED
    BY <1>t, <2>2, SlotFacts
<1> HIDE DEF Q
<1>s. slots' = [slots EXCEPT ![slot].queue = Q]
  BY <1>u DEF Q
<1>1. /\ slot \in DOMAIN slots
      /\ slots' \in Seq(Slot) /\ Len(slots') = Len(slots) /\ DOMAIN slots' = DOMAIN slots
      /\ slots'[slot].queue = Q
      /\ \A i \in DOMAIN slots : i # slot => slots'[i].queue = slots[i].queue
  BY <1>0, <1>s, <1>u, WorkingChanges
<1>2. o \in Objects /\ o # 0
  BY <1>t, RequestFacts
<1>3. \A i \in DOMAIN slots : /\ o \in slots[i].queue => i = slot
                             /\ slots'[i].queue = slots[i].queue \ {o}
  <2>1. \A i \in DOMAIN slots : o \in slots[i].queue => i = slot
    BY <1>1, <1>t, <1>u DEF Placed
  <2>2. QED
    BY <1>1, <2>1 DEF Q
<1>4. Types'
  BY <1>1, <1>2, <1>t, <1>u DEF Types
<1>5. Progress'
  BY <1>1, <1>2, <1>t, <1>u DEF Progress
<1>6. Placed'
  <2>1. running = 0
    BY <1>t, <1>u DEF Progress
  <2>2. \A x \in DOMAIN req : x = o \/ \E i \in DOMAIN slots : x \in slots[i].queue
    BY <1>t, <2>1, RequestFacts DEF Placed
  <2>3. QED
    BY <1>1, <1>3, <1>t, <1>u, <2>2 DEF Placed
<1>7. Known' /\ HeldIds'
  BY <1>t, <1>u DEF Known, HeldIds
<1>8. AloneIsLater' /\ PassedBy'
  <2>1. \A x \in DOMAIN req : \A i \in DOMAIN slots :
            x \in slots[i].queue /\ i # slot => x \in DOMAIN req' /\ req'[x].next = req[x].next
    BY <1>u
  <2>2. QED
    BY <1>0, <1>s, <1>u, <2>1, OthersStay
<1>9. QED
  BY <1>4, <1>5, <1>6, <1>7, <1>8 DEF IInv

\* After its actions an object is queued again.
LEMMA RunAgainStep ==
    ASSUME IInv, RunDone, req[running].repeat \/ now < req[running].end
    PROVE  IInv'
<1>t. Types /\ Progress /\ Placed /\ HeldIds /\ Known
  BY DEF IInv
<1>u. /\ clock' = clock /\ reqs' = reqs /\ held' = held /\ now' = now /\ slot' = slot
      /\ visits' = visits /\ pc = "run" /\ pc' = "queue" /\ running' = 0
      /\ req' = [req EXCEPT ![running].next = now + req[running].interval]
      /\ slots' = [slots EXCEPT ![slot].queue = slots[slot].queue \cup {running}]
      /\ UNCHANGED <<clock, now, slot, visits>>
  BY DEF RunDone
<1>1. running \in DOMAIN req /\ running \in Objects /\ running # 0 /\ req[running] \in Request
  BY <1>t, <1>u DEF Progress, Types
<1> DEFINE Q == slots[slot].queue \cup {running}
<1>2. Q \in SUBSET Objects
  <2>1. Len(slots) \in Nat /\ DOMAIN slots = 1 .. Len(slots) /\ visits \in Nat
    BY <1>t, SlotFacts DEF Types
  <2>2. slot \in DOMAIN slots
    BY <1>t, <1>u, <2>1 DEF Progress
  <2>3. QED
    BY <1>1, <1>t, <2>2, SlotFacts
<1> HIDE DEF Q
<1>s. slots' = [slots EXCEPT ![slot].queue = Q]
  BY <1>u DEF Q
<1>3. /\ slot \in DOMAIN slots
      /\ slots' \in Seq(Slot) /\ Len(slots') = Len(slots) /\ DOMAIN slots' = DOMAIN slots
      /\ slots'[slot].queue = Q
      /\ \A i \in DOMAIN slots : i # slot => slots'[i].queue = slots[i].queue
  BY <1>2, <1>s, <1>u, WorkingChanges
<1>4. /\ DOMAIN req' = DOMAIN req
      /\ req'[running] = [req[running] EXCEPT !.next = now + req[running].interval]
      /\ \A x \in DOMAIN req : x # running => req'[x] = req[x]
  BY <1>1, <1>u
<1>5. /\ req'[running] \in Request /\ req'[running].id = req[running].id
      /\ req'[running].cancel = req[running].cancel
  <2>1. now + req[running].interval \in Nat
    BY <1>1, <1>t, RequestFacts DEF Types
  <2>2. QED
    BY <1>1, <1>4, <2>1 DEF Request
<1>6. \A x \in DOMAIN req : req'[x].id = req[x].id /\ req'[x].cancel = req[x].cancel /\ req'[x] \in Request
  BY <1>4, <1>5, <1>t DEF Types
<1>7. Types'
  BY <1>3, <1>4, <1>6, <1>t, <1>u DEF Types
<1>8. Progress'
  BY <1>3, <1>t, <1>u DEF Progress
<1>9. Placed'
  <2>0. \A i \in DOMAIN slots : running \notin slots[i].queue /\ slots[i].queue \subseteq DOMAIN req
    BY <1>t DEF Placed
  <2>1. \A i \in DOMAIN slots : \A x : x \in slots'[i].queue <=> x \in slots[i].queue \/ (x = running /\ i = slot)
    BY <1>3 DEF Q
  <2>2. \A i \in DOMAIN slots' : slots'[i].queue \subseteq DOMAIN req' /\ running' \notin slots'[i].queue
    <3>1. 0 \notin DOMAIN req
      BY <1>t, RequestFacts
    <3>2. QED
      BY <1>1, <1>3, <1>4, <1>u, <2>0, <2>1, <3>1
  <2>3. \A i, j \in DOMAIN slots' : slots'[i].queue \cap slots'[j].queue # {} => i = j
    <3>1. SUFFICES ASSUME NEW i \in DOMAIN slots, NEW j \in DOMAIN slots,
                          NEW x, x \in slots'[i].queue, x \in slots'[j].queue
                   PROVE  i = j
      BY <1>3
    <3>2. CASE x = running
      BY <2>0, <2>1, <3>1, <3>2
    <3>3. CASE x # running
      <4>1. x \in slots[i].queue \cap slots[j].queue
        BY <2>1, <3>1, <3>3
      <4>2. QED
        BY <1>t, <4>1 DEF Placed
    <3>4. QED
      BY <3>2, <3>3
  <2>4. \A x \in DOMAIN req' : x = running' \/ \E i \in DOMAIN slots' : x \in slots'[i].queue
    BY <1>3, <1>4, <1>t, <2>1 DEF Placed
  <2>5. QED
    BY <2>2, <2>3, <2>4 DEF Placed
<1>10. HeldIds'
  BY <1>4, <1>6, <1>t, <1>u DEF HeldIds
<1>11. Known'
  BY <1>4, <1>6, <1>t, <1>u DEF Known
<1>12. AloneIsLater' /\ PassedBy'
  <2>1. \A x \in DOMAIN req : \A i \in DOMAIN slots :
            x \in slots[i].queue /\ i # slot => x \in DOMAIN req' /\ req'[x].next = req[x].next
    BY <1>4, <1>t DEF Placed
  <2>2. QED
    BY <1>2, <1>s, <1>u, <2>1, OthersStay
<1>13. QED
  BY <1>7, <1>8, <1>9, <1>10, <1>11, <1>12 DEF IInv

\* After its last actions an object goes.
LEMMA RunEndsStep ==
    ASSUME IInv, RunDone, ~(req[running].repeat \/ now < req[running].end)
    PROVE  IInv'
<1>t. Types /\ Progress /\ Placed /\ HeldIds /\ Known /\ AloneIsLater /\ PassedBy
  BY DEF IInv
<1>u. /\ clock' = clock /\ slots' = slots /\ now' = now /\ slot' = slot
      /\ visits' = visits /\ pc = "run" /\ pc' = "queue" /\ running' = 0
      /\ reqs' = [z \in DOMAIN reqs \ {req[running].id} |-> reqs[z]] /\ Destroy(running)
  BY DEF RunDone, Without
<1>1. running \in DOMAIN req /\ running \in Objects /\ running # 0 /\ req[running] \in Request
  BY <1>t, <1>u DEF Progress, Types
<1>2. /\ DOMAIN req' = DOMAIN req \ {running} /\ \A x \in DOMAIN req' : req'[x] = req[x]
      /\ HeldIds'
  BY <1>1, <1>t, <1>u, DestroyKeeps
<1>3. /\ DOMAIN reqs' = DOMAIN reqs \ {req[running].id}
      /\ \A z \in DOMAIN reqs' : reqs'[z] = reqs[z]
  BY <1>u
<1>4. Types'
  BY <1>2, <1>3, <1>t, <1>u DEF Types
<1>5. Progress'
  BY <1>t, <1>u DEF Progress
<1>6. Placed'
  <2>1. \A i \in DOMAIN slots : running \notin slots[i].queue /\ slots[i].queue \subseteq DOMAIN req
    BY <1>t DEF Placed
  <2>2. 0 \notin DOMAIN req
    BY <1>t, RequestFacts
  <2>3. QED
    BY <1>2, <1>t, <1>u, <2>1, <2>2 DEF Placed
<1>7. Known'
  <2>1. \A z \in DOMAIN reqs' : /\ reqs'[z] \in DOMAIN req' /\ ~req'[reqs'[z]].cancel
                                /\ req'[reqs'[z]].id = z
    <3>1. TAKE z \in DOMAIN reqs'
    <3>2. /\ z \in DOMAIN reqs /\ z # req[running].id /\ reqs'[z] = reqs[z]
          /\ reqs[z] \in DOMAIN req /\ ~req[reqs[z]].cancel /\ req[reqs[z]].id = z
      BY <1>3, <1>t DEF Known
    <3>3. reqs[z] # running
      BY <3>2
    <3>4. QED
      BY <1>2, <3>2, <3>3
  <2>2. \A x \in DOMAIN req' : ~req'[x].cancel => req'[x].id \in DOMAIN reqs' /\ reqs'[req'[x].id] = x
    <3>1. TAKE x \in DOMAIN req'
    <3>2. x \in DOMAIN req /\ x # running /\ req'[x] = req[x] /\ req[x].id # req[running].id
      BY <1>1, <1>2, <1>t DEF HeldIds
    <3>3. ~req[x].cancel => req[x].id \in DOMAIN reqs /\ reqs[req[x].id] = x
      BY <1>t, <3>2 DEF Known
    <3>4. QED
      BY <1>3, <3>2, <3>3
  <2>3. QED
    BY <2>1, <2>2 DEF Known
<1>8. AloneIsLater' /\ PassedBy'
  <2>1. \A i \in DOMAIN slots : \A x \in slots[i].queue : req'[x] = req[x]
    BY <1>2, <1>t DEF Placed
  <2>2. \A i \in DOMAIN slots : Working(i)' <=> Working(i)
    BY <1>u DEF Working
  <2>3. QED
    BY <1>t, <1>u, <2>1, <2>2 DEF AloneIsLater, PassedBy
<1>9. QED
  BY <1>2, <1>4, <1>5, <1>6, <1>7, <1>8 DEF IInv

-----------------------------------------------------------------------------
(* The invariant and the theorems.                                         *)

\* A timer that has no requests.
LEMMA InitIInv == ASSUME Init PROVE IInv
<1>1. /\ clock = 0 /\ slots = <<>> /\ held = {} /\ DOMAIN req = {} /\ DOMAIN reqs = {}
      /\ pc = "idle" /\ now = 0 /\ slot = 0 /\ visits = 0 /\ running = 0
  BY DEF Init
<1>2. <<>> \in Seq(Slot) /\ DOMAIN <<>> = {} /\ Len(<<>>) = 0
  BY EmptySeq
<1>3. Types /\ Progress
  BY <1>1, <1>2 DEF Types, Progress
<1>4. Placed /\ HeldIds /\ Known /\ AloneIsLater /\ PassedBy
  BY <1>1, <1>2 DEF Placed, HeldIds, Known, AloneIsLater, PassedBy
<1>5. QED
  BY <1>3, <1>4 DEF IInv

\* Every step keeps the invariant.
LEMMA NextIInv == ASSUME IInv, [Next]_vars PROVE IInv'
<1>1. ASSUME Calls PROVE IInv'
  <2>1. ASSUME NEW i \in Intervals, NEW a \in Afters, set(i, forever, TRUE, a) PROVE IInv'
    <3>1. i \in Nat \ {0} /\ a \in Nat /\ forever \in Nat /\ TRUE \in BOOLEAN
      BY TimerAssumption DEF forever
    <3>2. QED
      BY <2>1, <3>1, SetStep
  <2>2. ASSUME NEW i \in Intervals, NEW a \in Afters, NEW d \in Durations, set(i, d, FALSE, a) PROVE IInv'
    <3>1. i \in Nat \ {0} /\ a \in Nat /\ d \in Nat /\ FALSE \in BOOLEAN
      BY TimerAssumption
    <3>2. QED
      BY <2>2, <3>1, SetStep
  <2>3. QED
    BY <1>1, <2>1, <2>2, CancelStep DEF Calls
<1>2. ASSUME Update PROVE IInv'
  BY <1>2, UpdateStep, UpdateReturnsStep, SlotSkippedStep, SlotCheckedStep, SlotDoneStep,
     PopCancelledStep, PopDueStep, RunAgainStep, RunEndsStep DEF Update
<1>3. ASSUME UNCHANGED vars PROVE IInv'
  <2>1. /\ clock' = clock /\ slots' = slots /\ req' = req /\ reqs' = reqs /\ held' = held
        /\ pc' = pc /\ now' = now /\ slot' = slot /\ visits' = visits /\ running' = running
    BY <1>3 DEF vars
  <2>2. Types' /\ Progress'
    BY <2>1 DEF IInv, Types, Progress
  <2>3. Placed' /\ HeldIds' /\ Known'
    BY <2>1 DEF IInv, Placed, HeldIds, Known
  <2>4. AloneIsLater' /\ PassedBy'
    BY <2>1 DEF IInv, AloneIsLater, PassedBy, Working
  <2>5. QED
    BY <2>2, <2>3, <2>4 DEF IInv
<1>4. QED
  BY <1>1, <1>2, <1>3, TickStep DEF Next

\* The parts of IInv hold for ever: an object is in one place, its id is its
\* own, and a timer alone in its slot is due after the slot's last check.
THEOREM TimerInvariant == Spec => []IInv
<1>1. Init => IInv
  BY InitIInv
<1>2. IInv /\ [Next]_vars => IInv'
  BY NextIInv
<1>3. QED
  BY <1>1, <1>2, PTL DEF Spec

\* A known timer is in one slot's queue, or in the hands of update_slot().
THEOREM NoTimerIsForgotten == Spec => []NoneForgotten
<1>1. IInv => NoneForgotten
  <2>1. SUFFICES ASSUME IInv, NEW id \in DOMAIN reqs
                 PROVE  IF running = reqs[id] THEN Queued(running) = {} ELSE Cardinality(Queued(reqs[id])) = 1
    BY DEF NoneForgotten
  <2>2. reqs[id] \in DOMAIN req /\ Placed
    BY <2>1 DEF IInv, Known
  <2>3. CASE running = reqs[id]
    BY <2>2, <2>3 DEF Placed, Queued
  <2>4. CASE running # reqs[id]
    <3>1. PICK i \in DOMAIN slots : reqs[id] \in slots[i].queue
      BY <2>2, <2>4 DEF Placed
    <3>2. \A j \in DOMAIN slots : reqs[id] \in slots[j].queue => j = i
      BY <2>2, <3>1 DEF Placed
    <3>3. Queued(reqs[id]) = {i}
      BY <3>1, <3>2 DEF Queued
    <3>4. QED
      BY <2>4, <3>3, FS_Singleton
  <2>5. QED
    BY <2>3, <2>4
<1>2. QED
  BY <1>1, TimerInvariant, PTL

\* The ids in use are those of the objects alive, one for each.
THEOREM TimerIdsMatch == Spec => []IdsMatch
<1>1. IInv => IdsMatch
  BY DEF IInv, HeldIds, Known, Placed, IdsMatch, Queued
<1>2. QED
  BY <1>1, TimerInvariant, PTL

\* update_slot() calls the actions of a timer only while has(id) is true.
THEOREM OnlyKnownRun == Spec => OnlyKnownTimersRun
<1> DEFINE A == \A o \in DOMAIN req : running' = o /\ running # o
                   => req[o].id \in DOMAIN reqs /\ reqs[req[o].id] = o
<1>1. IInv /\ [Next]_vars => [A]_vars
  <2>1. SUFFICES ASSUME IInv, Next, NEW o \in DOMAIN req, running' = o, running # o
                 PROVE  req[o].id \in DOMAIN reqs /\ reqs[req[o].id] = o
    OBVIOUS
  <2>2. o # 0
    BY <2>1, RequestFacts DEF IInv
  <2>3. PICK p \in DOMAIN req : PopDue(p)
    BY <2>1, <2>2 DEF Next, Tick, Calls, set, cancel, Update, update, UpdateReturns, SlotSkipped,
       SlotChecked, SlotDone, RunDone, PopCancelled, update_state
  <2>4. p = o /\ ~req[p].cancel
    BY <2>1, <2>3 DEF PopDue
  <2>5. QED
    BY <2>1, <2>4 DEF IInv, Known
<1>2. QED
  BY <1>1, TimerInvariant, PTL DEF Spec, OnlyKnownTimersRun

\* When update() returns, a timer alone in its slot is late by less than the
\* slot's interval.
THEOREM AloneIsInTime == Spec => AloneIsPunctual
<1> DEFINE A == pc = "slots" /\ pc' = "idle"
                   => \A i \in DOMAIN slots : \A o \in slots[i].queue :
                         slots[i].queue = {o} => req[o].next + slots[i].interval > now
<1>1. IInv /\ [Next]_vars => [A]_vars
  <2>1. SUFFICES ASSUME IInv, Next, pc = "slots", pc' = "idle", NEW i \in DOMAIN slots,
                        NEW o \in slots[i].queue, slots[i].queue = {o}
                 PROVE  req[o].next + slots[i].interval > now
    OBVIOUS
  <2>2. slot > visits
    BY <2>1 DEF Next, Tick, Calls, set, cancel, MayCall, Update, update, UpdateReturns, SlotSkipped,
       SlotChecked, SlotDone, RunDone, PopCancelled, PopDue, update_state
  <2>3. /\ i \in Nat /\ slot \in Nat /\ visits \in Nat /\ now \in Nat /\ slots[i].last \in Nat
        /\ slots[i].interval \in Nat \ {0} /\ req[o].next \in Nat
    BY <2>1, SlotFacts, RequestFacts DEF IInv, Types, Placed
  <2>4. req[o].next >= slots[i].last
    BY <2>1 DEF IInv, AloneIsLater, Working
  <2>5. CASE i < slot
    <3>1. slots[i].last + slots[i].interval > now
      BY <2>1, <2>5 DEF IInv, PassedBy
    <3>2. QED
      BY <2>3, <2>4, <3>1
  <2>6. CASE i > visits
    <3>1. req[o].next >= now
      BY <2>1, <2>6 DEF IInv, PassedBy
    <3>2. QED
      BY <2>3, <3>1
  <2>7. QED
    BY <2>2, <2>3, <2>5, <2>6
<1>2. QED
  BY <1>1, TimerInvariant, PTL DEF Spec, AloneIsPunctual

=============================================================================
