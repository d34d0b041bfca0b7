------------------------------ MODULE Sequence ------------------------------
(***************************************************************************)
(* lax::util::sequence, the pool of reusable ids behind subscription keys, *)
(* timer ids, actor ids and listener ids (include/lax/util/sequence.hpp).  *)
(*                                                                         *)
(* next() and release() run under the pool's mutex from their first state  *)
(* access to their last, so each is one atomic action.  current and seqs   *)
(* are the code's current_ and seqs_; holders, recycled and age are        *)
(* history: they record what the pool's clients were given and gave back.  *)
(***************************************************************************)
EXTENDS Naturals, Sequences, Functions

CONSTANTS Begin, End,   \* begin_ and end_: ids are Begin .. End - 1
          Reserve       \* the requested number of ids kept in the pool

ASSUME SequenceAssumption ==
    /\ Begin \in Nat /\ End \in Nat /\ Reserve \in Nat
    /\ Begin < End

VARIABLES current,   \* the next id never handed out nor pooled
          seqs,      \* the pool, a FIFO queue
          holders,   \* how many clients hold each id
          recycled,  \* pooled ids released while unused ids were left
          age        \* ids handed out since a recycled id was released

vars == <<current, seqs, holders, recycled, age>>

Ids == Begin .. (End - 1)

\* The constructor's clamp of the requested reserve.
reserve_ == IF Reserve <= End - Begin THEN Reserve ELSE End - Begin

-----------------------------------------------------------------------------

\* A loop bound written as current_ <= end_.
AcquireOneTooMany(cur, count) ==
    LET n == IF count <= End + 1 - cur THEN count ELSE End + 1 - cur
    IN  [i \in 1 .. n |-> cur + (i - 1)]

\* The ids that acquire(count) appends to the pool: the next unused ones, as
\* many as are left.
acquire(cur, count) ==
    LET n == IF count <= End - cur THEN count ELSE End - cur
    IN  [i \in 1 .. n |-> cur + (i - 1)]

Init ==
    /\ seqs = acquire(Begin, reserve_)
    /\ current = Begin + Len(acquire(Begin, reserve_))
    /\ holders = [s \in Ids |-> 0]
    /\ recycled = {}
    /\ age = [s \in Ids |-> 0]

\* What next() appends to a pool that fell below the reserve.
Refill == IF Len(seqs) < reserve_
          THEN acquire(current, reserve_ - Len(seqs))
          ELSE <<>>

\* The history that goes with handing out id v.
Issue(v) ==
    /\ holders' = [holders EXCEPT ![v] = @ + 1]
    /\ recycled' = recycled \ {v}
    /\ age' = [s \in Ids |-> IF s \in recycled \ {v} THEN age[s] + 1 ELSE 0]

\* A next() that forgets pop_front().
NextWithoutPop ==
    LET pool == seqs \o Refill
    IN  /\ pool # <<>>
        /\ current' = current + Len(Refill)
        /\ seqs' = pool
        /\ Issue(Head(pool))

\* next(): refill, then the front of the pool or else the next unused id.
next ==
    LET pool == seqs \o Refill
        cur  == current + Len(Refill)
    IN  /\ pool # <<>> \/ cur # End
        /\ current' = IF pool # <<>> THEN cur ELSE cur + 1
        /\ seqs' = IF pool # <<>> THEN Tail(pool) ELSE pool
        /\ Issue(IF pool # <<>> THEN Head(pool) ELSE cur)

\* next() when nothing is left: it throws "no sequence to use".
NextThrows ==
    /\ seqs \o Refill = <<>>
    /\ current + Len(Refill) = End
    /\ UNCHANGED vars

\* The history that goes with a client giving id s back.
GiveBack(s) ==
    /\ holders' = [holders EXCEPT ![s] = @ - 1]
    /\ recycled' = IF current < End THEN recycled \cup {s} ELSE recycled
    /\ age' = [age EXCEPT ![s] = 0]

\* A range check that excludes the last id.
ReleaseDropsLast(s) ==
    /\ seqs' = IF Begin <= s /\ s < End - 1 THEN Append(seqs, s) ELSE seqs
    /\ GiveBack(s)
    /\ UNCHANGED current

\* A pool that is a stack.
ReleaseToFront(s) ==
    /\ seqs' = <<s>> \o seqs
    /\ GiveBack(s)
    /\ UNCHANGED current

\* release(s) of an id in range: to the back of the pool.
release(s) ==
    /\ Begin <= s /\ s < End
    /\ seqs' = Append(seqs, s)
    /\ GiveBack(s)
    /\ UNCHANGED current

\* release(s) of an id that is out of range: refused.
ReleaseRefused(s) ==
    /\ ~(Begin <= s /\ s < End)
    /\ UNCHANGED vars

\* A client calls next() at any time and releases an id it holds (the class
\* comment asks for exactly that), or a value that was never an id.
Next ==
    \/ next
    \/ NextThrows
    \/ \E s \in Ids : holders[s] > 0 /\ release(s)
    \/ \E s \in {End} : ReleaseRefused(s)

Spec == Init /\ [][Next]_vars

-----------------------------------------------------------------------------

\* Every variable has its type; in particular current_ never passes end_.
TypeOK ==
    /\ current \in Begin .. End
    /\ seqs \in Seq(Ids)
    /\ holders \in [Ids -> Nat]
    /\ recycled \in SUBSET Ids
    /\ age \in [Ids -> Nat]

\* No id is held by two clients of next(), and an id that a client holds is
\* not in the pool, so it cannot be handed out again before its release().
IdUnique ==
    \A s \in Ids : /\ holders[s] <= 1
                   /\ holders[s] = 1 => s \notin Range(seqs)

\* The pool holds no id twice, and none that current_ has not reached yet.
PoolDistinct ==
    /\ \A i, j \in DOMAIN seqs : seqs[i] = seqs[j] => i = j
    /\ \A s \in Ids : holders[s] > 0 \/ s \in Range(seqs) => s < current

\* No id is lost: one that current_ has passed is in the pool or is held.  So
\* next() throws only when clients hold all of the ids.
NoIdLost ==
    \A s \in Ids : s < current => holders[s] > 0 \/ s \in Range(seqs)

\* A released id is not handed out again before reserve_ - 1 other ids were,
\* if ids that were never used remained when it was released: a late user of
\* a released id has that long before the id means something else.
ReuseDelayed ==
    [][\A s \in recycled : s \notin recycled' => age[s] + 1 >= reserve_]_vars

\* What ReuseDelayed rests on: the pool is never short while unused ids are
\* left, and a recycled id's place in the queue makes up for its age.
PoolKeepsReserve ==
    /\ current < End => Len(seqs) + 1 >= reserve_
    /\ \A i \in DOMAIN seqs : seqs[i] \in recycled => age[seqs[i]] + i >= reserve_
    /\ \A s \in recycled : s \in Range(seqs)

=============================================================================
