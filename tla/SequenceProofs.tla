--------------------------- MODULE SequenceProofs ---------------------------
(***************************************************************************)
(* Proofs about the id pool for every range of ids and every reserve.      *)
(***************************************************************************)
EXTENDS Sequence, TLAPS

\* The inductive invariant: an id below current_ is in exactly one place, one
\* slot of the pool or one client's hands, and the pool keeps its reserve.
IInv ==
    /\ TypeOK
    /\ IdUnique
    /\ PoolDistinct
    /\ NoIdLost
    /\ PoolKeepsReserve

\* The clamped reserve is a number of ids that the range can supply.
LEMMA ReserveInRange == reserve_ \in Nat /\ reserve_ <= End - Begin
BY SequenceAssumption DEF reserve_

\* acquire() returns consecutive unused ids, as many as asked for or as left.
LEMMA AcquireFacts ==
    ASSUME NEW cur \in Begin .. End, NEW count \in Nat
    PROVE  /\ acquire(cur, count) \in Seq(Ids)
           /\ \A i \in 1 .. Len(acquire(cur, count)) :
                  acquire(cur, count)[i] = cur + (i - 1)
           /\ cur + Len(acquire(cur, count)) \in cur .. End
           /\ \/ Len(acquire(cur, count)) = count
              \/ cur + Len(acquire(cur, count)) = End
<1> DEFINE n == IF count <= End - cur THEN count ELSE End - cur
<1>1. n \in Nat /\ n <= End - cur /\ (n = count \/ cur + n = End)
  BY SequenceAssumption
<1>2. acquire(cur, count) = [i \in 1 .. n |-> cur + (i - 1)]
  BY DEF acquire
<1>3. \A i \in 1 .. n : cur + (i - 1) \in Ids
  BY <1>1, SequenceAssumption DEF Ids
<1> HIDE DEF n
<1>4. acquire(cur, count) \in Seq(Ids) /\ Len(acquire(cur, count)) = n
  BY <1>1, <1>2, <1>3
<1>5. QED
  BY <1>1, <1>2, <1>4, SequenceAssumption

-----------------------------------------------------------------------------

\* What next() works on once it has refilled the pool: the old pool followed
\* by the ids from current_ up, still without duplicates, and either at least
\* as long as the reserve or at the end of the range.
LEMMA RefillFacts ==
    ASSUME IInv
    PROVE  LET pool == seqs \o Refill
               cur  == current + Len(Refill)
           IN  /\ pool \in Seq(Ids)
               /\ Refill \in Seq(Ids)
               /\ cur \in current .. End
               /\ Len(pool) = Len(seqs) + Len(Refill)
               /\ Len(pool) >= reserve_ \/ cur = End
               /\ \A i \in 1 .. Len(seqs) : pool[i] = seqs[i]
               /\ \A i \in 1 .. Len(pool) :
                      i > Len(seqs) => pool[i] = current + (i - Len(seqs) - 1)
               /\ \A i, j \in 1 .. Len(pool) : pool[i] = pool[j] => i = j
               /\ \A i \in 1 .. Len(pool) : pool[i] < cur /\ holders[pool[i]] = 0
               /\ \A s \in Ids : s < cur =>
                      holders[s] > 0 \/ \E i \in 1 .. Len(pool) : pool[i] = s
<1> DEFINE pool == seqs \o Refill
           cur  == current + Len(Refill)
<1>1. /\ Refill \in Seq(Ids)
      /\ \A i \in 1 .. Len(Refill) : Refill[i] = current + (i - 1)
      /\ current + Len(Refill) \in current .. End
      /\ Len(Refill) + Len(seqs) >= reserve_ \/ current + Len(Refill) = End
  <2>1. CASE Len(seqs) < reserve_
    <3>1. Refill = acquire(current, reserve_ - Len(seqs)) /\ reserve_ - Len(seqs) \in Nat
      BY <2>1, ReserveInRange DEF Refill, IInv, TypeOK
    <3>2. current \in Begin .. End
      BY DEF IInv, TypeOK
    <3> DEFINE got == acquire(current, reserve_ - Len(seqs))
    <3>3. /\ got \in Seq(Ids)
          /\ \A i \in 1 .. Len(got) : got[i] = current + (i - 1)
          /\ current + Len(got) \in current .. End
          /\ Len(got) = reserve_ - Len(seqs) \/ current + Len(got) = End
      BY <3>1, <3>2, AcquireFacts
    <3> HIDE DEF got
    <3>4. Len(seqs) \in Nat /\ Len(got) \in Nat
      BY <3>3 DEF IInv, TypeOK
    <3>5. QED
      BY <3>1, <3>3, <3>4, ReserveInRange DEF got
  <2>2. CASE ~(Len(seqs) < reserve_)
    BY <2>2, ReserveInRange, SequenceAssumption DEF Refill, IInv, TypeOK
  <2>3. QED
    BY <2>1, <2>2
<1>2. /\ pool \in Seq(Ids)
      /\ Len(pool) = Len(seqs) + Len(Refill)
      /\ \A i \in 1 .. Len(seqs) : pool[i] = seqs[i]
      /\ \A i \in 1 .. Len(pool) :
             i > Len(seqs) => pool[i] = current + (i - Len(seqs) - 1)
  BY <1>1, SequenceAssumption DEF IInv, TypeOK, Ids
<1> HIDE DEF pool
<1>q. /\ Len(pool) = Len(seqs) + Len(Refill)
      /\ \A i \in 1 .. Len(seqs) : pool[i] = seqs[i]
      /\ \A i \in 1 .. Len(pool) :
             i > Len(seqs) => pool[i] = current + (i - Len(seqs) - 1)
  BY <1>2
<1>s. /\ \A i \in 1 .. Len(pool) : pool[i] \in Ids
      /\ \A i \in 1 .. Len(seqs) : seqs[i] \in Ids
      /\ Len(seqs) \in Nat /\ Len(Refill) \in Nat /\ Len(pool) \in Nat
      /\ holders \in [Ids -> Nat]
  BY <1>1, <1>2 DEF IInv, TypeOK
<1>t. /\ Begin \in Nat /\ End \in Nat /\ current \in Nat
      /\ \A s \in Ids : s \in Nat
      /\ cur \in Nat /\ cur = current + Len(Refill)
  BY <1>s, SequenceAssumption DEF IInv, TypeOK, Ids
<1> HIDE DEF cur
<1>3. \A i \in 1 .. Len(seqs) : seqs[i] < current /\ holders[seqs[i]] = 0
  BY DEF IInv, TypeOK, IdUnique, PoolDistinct, Range
<1>4. \A i \in 1 .. Len(pool) : i > Len(seqs) =>
          pool[i] >= current /\ pool[i] < cur /\ holders[pool[i]] = 0
  <2> SUFFICES ASSUME NEW i \in 1 .. Len(pool), i > Len(seqs)
               PROVE  pool[i] >= current /\ pool[i] < cur /\ holders[pool[i]] = 0
    OBVIOUS
  <2>1. pool[i] \in Ids /\ pool[i] >= current /\ pool[i] < cur
    BY <1>q, <1>s, <1>t
  <2>2. holders[pool[i]] \in Nat /\ ~(holders[pool[i]] > 0)
    BY <2>1, <1>s, <1>t DEF IInv, PoolDistinct
  <2>3. QED
    BY <2>1, <2>2
<1>5. \A i, j \in 1 .. Len(pool) : pool[i] = pool[j] => i = j
  <2> SUFFICES ASSUME NEW i \in 1 .. Len(pool), NEW j \in 1 .. Len(pool),
                      pool[i] = pool[j]
               PROVE  i = j
    OBVIOUS
  <2>1. CASE i <= Len(seqs) /\ j <= Len(seqs)
    <3>1. i \in 1 .. Len(seqs) /\ j \in 1 .. Len(seqs)
      BY <2>1, <1>s
    <3>2. seqs[i] = seqs[j]
      BY <3>1, <1>q
    <3>3. QED
      BY <3>1, <3>2 DEF IInv, TypeOK, PoolDistinct
  <2>2. CASE i > Len(seqs) /\ j > Len(seqs)
    BY <2>2, <1>q, <1>s, <1>t
  <2>3. CASE i <= Len(seqs) /\ j > Len(seqs)
    <3>1. pool[i] = seqs[i] /\ seqs[i] < current /\ pool[j] >= current
      BY <2>3, <1>q, <1>3, <1>4, <1>s
    <3>2. pool[i] \in Nat /\ pool[j] \in Nat
      BY <1>s, <1>t
    <3>3. QED
      BY <3>1, <3>2, <1>t
  <2>4. CASE i > Len(seqs) /\ j <= Len(seqs)
    <3>1. pool[j] = seqs[j] /\ seqs[j] < current /\ pool[i] >= current
      BY <2>4, <1>q, <1>3, <1>4, <1>s
    <3>2. pool[i] \in Nat /\ pool[j] \in Nat
      BY <1>s, <1>t
    <3>3. QED
      BY <3>1, <3>2, <1>t
  <2>5. QED
    BY <2>1, <2>2, <2>3, <2>4, <1>s
<1>6. ASSUME NEW s \in Ids, s < cur, holders[s] = 0
      PROVE  \E i \in 1 .. Len(pool) : pool[i] = s
  <2>1. CASE s < current
    <3>1. ~(holders[s] > 0)
      BY <1>6
    <3>2. s \in Range(seqs)
      BY <2>1, <3>1 DEF IInv, NoIdLost
    <3>3. PICK i \in 1 .. Len(seqs) : seqs[i] = s
      BY <3>2 DEF Range, IInv, TypeOK
    <3>4. i \in 1 .. Len(pool) /\ pool[i] = s
      BY <3>3, <1>q, <1>s
    <3>5. QED
      BY <3>4
  <2>2. CASE s >= current
    <3>1. Len(seqs) + 1 + (s - current) \in 1 .. Len(pool)
      BY <2>2, <1>q, <1>6, <1>s, <1>t
    <3>2. pool[Len(seqs) + 1 + (s - current)] = s
      <4> DEFINE k == Len(seqs) + 1 + (s - current)
      <4>1. s \in Nat /\ current \in Nat
        BY <1>t
      <4>2. k > Len(seqs) /\ current + (k - Len(seqs) - 1) = s
        BY <4>1, <2>2, <1>s
      <4> HIDE DEF k
      <4>3. k \in 1 .. Len(pool) => pool[k] = s
        BY <4>2, <1>q
      <4>4. QED
        BY <4>3, <3>1 DEF k
    <3>3. QED
      BY <3>1, <3>2
  <2>3. QED
    BY <2>1, <2>2, <1>s, <1>t
<1>7. \A i \in 1 .. Len(pool) : pool[i] < cur /\ holders[pool[i]] = 0
  <2> SUFFICES ASSUME NEW i \in 1 .. Len(pool)
               PROVE  pool[i] < cur /\ holders[pool[i]] = 0
    OBVIOUS
  <2>1. CASE i <= Len(seqs)
    <3>1. i \in 1 .. Len(seqs)
      BY <2>1, <1>s
    <3>2. pool[i] = seqs[i] /\ seqs[i] < current /\ holders[seqs[i]] = 0 /\ seqs[i] \in Nat
      BY <3>1, <1>q, <1>3, <1>s, <1>t
    <3>3. QED
      BY <3>2, <1>s, <1>t
  <2>2. CASE i > Len(seqs)
    BY <2>2, <1>4
  <2>3. QED
    BY <2>1, <2>2, <1>s, <1>t
<1>8. \A s \in Ids : s < cur => holders[s] > 0 \/ \E i \in 1 .. Len(pool) : pool[i] = s
  BY <1>6, <1>s, <1>t
<1>9. cur \in current .. End /\ (Len(pool) >= reserve_ \/ cur = End)
  BY <1>1, <1>2, <1>s, <1>t, ReserveInRange
<1>10. QED
  BY <1>1, <1>2, <1>5, <1>7, <1>8, <1>9 DEF pool, cur

-----------------------------------------------------------------------------

\* The constructor establishes the inductive invariant.
LEMMA InitIInv == Init => IInv
<1> SUFFICES ASSUME Init PROVE IInv
  OBVIOUS
<1> DEFINE got == acquire(Begin, reserve_)
<1>1. Begin \in Begin .. End /\ reserve_ \in Nat
  BY SequenceAssumption, ReserveInRange
<1>2. /\ got \in Seq(Ids)
      /\ \A i \in 1 .. Len(got) : got[i] = Begin + (i - 1)
      /\ Begin + Len(got) \in Begin .. End
      /\ Len(got) = reserve_ \/ Begin + Len(got) = End
  BY <1>1, AcquireFacts
<1> HIDE DEF got
<1>3. /\ seqs = got /\ current = Begin + Len(got)
      /\ holders = [s \in Ids |-> 0] /\ recycled = {}
      /\ age = [s \in Ids |-> 0]
  BY DEF Init, got
<1>4. TypeOK
  BY <1>2, <1>3, SequenceAssumption DEF TypeOK
<1>5. IdUnique
  BY <1>3 DEF IdUnique
<1>6. Len(got) \in Nat /\ DOMAIN got = 1 .. Len(got)
  BY <1>2
<1>7. PoolDistinct
  <2>1. \A i, j \in 1 .. Len(got) : got[i] = got[j] => i = j
    BY <1>2, <1>6, SequenceAssumption
  <2>2. \A i \in 1 .. Len(got) : got[i] < Begin + Len(got)
    BY <1>2, <1>6, SequenceAssumption
  <2>3. \A s \in Ids : ~(holders[s] > 0)
    BY <1>3
  <2>4. QED
    BY <1>3, <1>6, <2>1, <2>2, <2>3 DEF PoolDistinct, Range
<1>8. NoIdLost
  <2> SUFFICES ASSUME NEW s \in Ids, s < current
               PROVE  s \in Range(seqs)
    BY DEF NoIdLost
  <2>1. s - Begin + 1 \in 1 .. Len(got)
    BY <1>2, <1>3, <1>6, SequenceAssumption DEF Ids
  <2>2. got[s - Begin + 1] = Begin + ((s - Begin + 1) - 1)
    BY <1>2, <2>1
  <2>3. Begin + ((s - Begin + 1) - 1) = s
    BY SequenceAssumption DEF Ids
  <2>4. QED
    BY <1>3, <1>6, <2>1, <2>2, <2>3 DEF Range
<1>9. PoolKeepsReserve
  <2>1. current < End => Len(seqs) + 1 >= reserve_
    <3>1. Len(got) = reserve_ \/ Begin + Len(got) = End
      BY <1>2
    <3>2. seqs = got /\ current = Begin + Len(got)
      BY <1>3
    <3>3. CASE Len(got) = reserve_
      BY <3>2, <3>3, <1>1
    <3>4. CASE Begin + Len(got) = End
      BY <3>2, <3>4, SequenceAssumption
    <3>5. QED
      BY <3>1, <3>3, <3>4
  <2>2. QED
    BY <1>3, <2>1 DEF PoolKeepsReserve
<1>10. QED
  BY <1>4, <1>5, <1>7, <1>8, <1>9 DEF IInv

\* next() that takes the front of the pool preserves the invariant, and hands
\* a recycled id out only once it has aged.
LEMMA PopStep ==
    ASSUME IInv, next, seqs \o Refill # <<>>
    PROVE  /\ IInv'
           /\ \A s \in recycled : s \notin recycled' => age[s] + 1 >= reserve_
<1> DEFINE pool == seqs \o Refill
           cur  == current + Len(Refill)
           v    == pool[1]
<1>1. /\ pool \in Seq(Ids)
      /\ cur \in current .. End
      /\ Len(pool) = Len(seqs) + Len(Refill)
      /\ Len(pool) >= reserve_ \/ cur = End
      /\ \A i \in 1 .. Len(seqs) : pool[i] = seqs[i]
      /\ \A i, j \in 1 .. Len(pool) : pool[i] = pool[j] => i = j
      /\ \A i \in 1 .. Len(pool) : pool[i] < cur /\ holders[pool[i]] = 0
      /\ \A s \in Ids : s < cur =>
             holders[s] > 0 \/ \E i \in 1 .. Len(pool) : pool[i] = s
  BY RefillFacts
<1>2. pool # <<>> /\ Len(pool) \in Nat /\ Len(pool) >= 1
  BY <1>1
<1>3. /\ current' = cur
      /\ seqs' = Tail(pool)
      /\ holders' = [holders EXCEPT ![v] = @ + 1]
      /\ recycled' = recycled \ {v}
      /\ age' = [s \in Ids |-> IF s \in recycled \ {v} THEN age[s] + 1 ELSE 0]
  <2>1. Head(pool) = v
    BY <1>1, <1>2
  <2>2. QED
    BY <1>2, <2>1 DEF next, Issue
<1>4. /\ Len(seqs) \in Nat /\ Len(Refill) \in Nat
      /\ \A i \in 1 .. Len(seqs) : seqs[i] \in Ids
      /\ DOMAIN seqs = 1 .. Len(seqs)
      /\ holders \in [Ids -> Nat] /\ age \in [Ids -> Nat] /\ recycled \subseteq Ids
  BY RefillFacts DEF IInv, TypeOK
<1> HIDE DEF pool, cur
<1>5. /\ seqs' \in Seq(Ids)
      /\ Len(seqs') = Len(pool) - 1
      /\ \A i \in 1 .. Len(seqs') : seqs'[i] = pool[i + 1]
      /\ DOMAIN seqs' = 1 .. Len(seqs')
      /\ \A i \in 1 .. Len(pool) : pool[i] \in Ids
  BY <1>1, <1>2, <1>3
<1>6. v \in Ids /\ holders[v] = 0 /\ v < cur
  BY <1>1, <1>2, <1>5
<1>7. current \in Nat /\ cur \in Nat /\ End \in Nat /\ Begin \in Nat /\ reserve_ \in Nat
  BY <1>1, ReserveInRange, SequenceAssumption DEF IInv, TypeOK
<1> HIDE DEF v
<1>8. /\ \A s \in Ids : holders'[s] = IF s = v THEN 1 ELSE holders[s]
      /\ holders' \in [Ids -> Nat]
  BY <1>3, <1>4, <1>6
<1>9. TypeOK'
  <2>1. current' \in Begin .. End
    BY <1>1, <1>3, SequenceAssumption DEF IInv, TypeOK
  <2>2. recycled' \in SUBSET Ids /\ age' \in [Ids -> Nat]
    BY <1>3, <1>4
  <2>3. Ids' = Ids
    BY DEF Ids
  <2>4. QED
    BY <1>5, <1>8, <2>1, <2>2, <2>3 DEF TypeOK
<1>10. ASSUME NEW s \in Ids, NEW i \in 1 .. Len(seqs'), seqs'[i] = s
       PROVE  s # v /\ holders'[s] = 0 /\ s < cur
  <2>1. i + 1 \in 1 .. Len(pool) /\ 1 \in 1 .. Len(pool) /\ i + 1 # 1 /\ pool[i + 1] = s
    BY <1>2, <1>5, <1>10
  <2>2. pool[i + 1] # pool[1] /\ holders[pool[i + 1]] = 0 /\ pool[i + 1] < cur
    BY <2>1, <1>1
  <2>3. QED
    BY <2>1, <2>2, <1>8 DEF v
<1>11. IdUnique'
  <2>1. \A s \in Ids : holders'[s] <= 1
    BY <1>8 DEF IInv, IdUnique
  <2>2. \A s \in Ids : holders'[s] = 1 => s \notin Range(seqs')
    BY <1>5, <1>10 DEF Range
  <2>3. QED
    BY <2>1, <2>2 DEF IdUnique
<1>12. PoolDistinct'
  <2>1. \A i, j \in 1 .. Len(seqs') : seqs'[i] = seqs'[j] => i = j
    <3> SUFFICES ASSUME NEW i \in 1 .. Len(seqs'), NEW j \in 1 .. Len(seqs'),
                        seqs'[i] = seqs'[j]
                 PROVE  i = j
      OBVIOUS
    <3>1. i + 1 \in 1 .. Len(pool) /\ j + 1 \in 1 .. Len(pool)
      BY <1>2, <1>5
    <3>2. pool[i + 1] = pool[j + 1]
      BY <1>5
    <3>3. i + 1 = j + 1
      BY <3>1, <3>2, <1>1
    <3>4. QED
      BY <3>3
  <2>2. ASSUME NEW s \in Ids, holders'[s] > 0 \/ s \in Range(seqs')
        PROVE  s < cur
    <3>1. CASE s \in Range(seqs')
      BY <3>1, <1>5, <1>10 DEF Range
    <3>2. CASE s = v
      BY <3>2, <1>6
    <3>3. CASE holders[s] > 0
      <4>1. s < current
        BY <3>3 DEF IInv, PoolDistinct
      <4>2. s \in Nat
        BY <1>7 DEF Ids
      <4>3. QED
        BY <4>1, <4>2, <1>1, <1>7
    <3>4. QED
      BY <2>2, <3>1, <3>2, <3>3, <1>8
  <2>3. QED
    BY <2>1, <2>2, <1>3, <1>5 DEF PoolDistinct
<1>13. NoIdLost'
  <2> SUFFICES ASSUME NEW s \in Ids, s < cur, s # v, ~(holders[s] > 0)
               PROVE  s \in Range(seqs')
    BY <1>3, <1>8 DEF NoIdLost
  <2>1. PICK i \in 1 .. Len(pool) : pool[i] = s
    BY <1>1
  <2>2. i # 1
    BY <2>1 DEF v
  <2>3. i - 1 \in 1 .. Len(seqs') /\ (i - 1) + 1 = i
    BY <2>2, <1>2, <1>5
  <2>4. seqs'[i - 1] = s
    BY <2>1, <2>3, <1>5
  <2>5. QED
    BY <2>3, <2>4, <1>5 DEF Range
<1>14. ASSUME NEW i \in 1 .. Len(pool), pool[i] \in recycled
       PROVE  i \in 1 .. Len(seqs) /\ seqs[i] = pool[i] /\ age[pool[i]] + i >= reserve_
  <2>1. pool[i] \in Range(seqs)
    BY <1>14 DEF IInv, PoolKeepsReserve
  <2>2. PICK k \in 1 .. Len(seqs) : seqs[k] = pool[i]
    BY <2>1, <1>4 DEF Range
  <2>3. k \in 1 .. Len(pool) /\ pool[k] = pool[i]
    BY <2>2, <1>1, <1>2, <1>4
  <2>4. k = i
    BY <2>3, <1>1
  <2>5. QED
    BY <2>2, <2>4, <1>4, <1>14 DEF IInv, PoolKeepsReserve
<1>15. PoolKeepsReserve'
  <2>1. current' < End => Len(seqs') + 1 >= reserve_
    BY <1>1, <1>2, <1>3, <1>5, <1>7
  <2>2. \A i \in DOMAIN seqs' : seqs'[i] \in recycled' => age'[seqs'[i]] + i >= reserve_
    <3> SUFFICES ASSUME NEW i \in 1 .. Len(seqs'), seqs'[i] \in recycled'
                 PROVE  age'[seqs'[i]] + i >= reserve_
      BY <1>5
    <3>1. i + 1 \in 1 .. Len(pool) /\ pool[i + 1] = seqs'[i]
      BY <1>2, <1>5
    <3>2. pool[i + 1] \in recycled \ {v} /\ pool[i + 1] \in Ids
      BY <3>1, <1>3, <1>5
    <3>3. age[pool[i + 1]] + (i + 1) >= reserve_
      BY <3>1, <3>2, <1>14
    <3>4. age'[pool[i + 1]] = age[pool[i + 1]] + 1 /\ age[pool[i + 1]] \in Nat
      BY <3>2, <1>3, <1>4
    <3>5. QED
      BY <3>1, <3>3, <3>4, <1>7
  <2>3. \A s \in recycled' : s \in Range(seqs')
    <3> SUFFICES ASSUME NEW s \in recycled, s # v
                 PROVE  s \in Range(seqs')
      BY <1>3
    <3>1. s \in Range(seqs)
      BY DEF IInv, PoolKeepsReserve
    <3>2. PICK k \in 1 .. Len(seqs) : seqs[k] = s
      BY <3>1, <1>4 DEF Range
    <3>3. k \in 1 .. Len(pool) /\ pool[k] = s /\ k # 1
      BY <3>2, <1>1, <1>2, <1>4 DEF v
    <3>4. k - 1 \in 1 .. Len(seqs') /\ (k - 1) + 1 = k
      BY <3>3, <1>2, <1>5
    <3>5. seqs'[k - 1] = s
      BY <3>3, <3>4, <1>5
    <3>6. QED
      BY <3>4, <3>5, <1>5 DEF Range
  <2>4. reserve_' = reserve_
    BY DEF reserve_
  <2>5. QED
    BY <2>1, <2>2, <2>3, <2>4 DEF PoolKeepsReserve
<1>16. ASSUME NEW s \in recycled, s \notin recycled'
       PROVE  age[s] + 1 >= reserve_
  <2>1. s = v
    BY <1>16, <1>3
  <2>2. QED
    BY <2>1, <1>2, <1>14 DEF v
<1>17. QED
  BY <1>9, <1>11, <1>12, <1>13, <1>15, <1>16 DEF IInv

\* next() with an empty pool (a reserve of zero) hands out current_ itself.
LEMMA CountStep ==
    ASSUME IInv, next, seqs \o Refill = <<>>
    PROVE  IInv' /\ recycled' = recycled
<1> DEFINE v == current + Len(Refill)
<1>1. /\ v \in current .. End /\ Len(seqs) = 0 /\ Len(Refill) = 0
      /\ Refill \in Seq(Ids)
      /\ 0 >= reserve_ \/ v = End
      /\ \A s \in Ids : s < v => holders[s] > 0
  <2>1. Len(seqs \o Refill) = 0
    OBVIOUS
  <2>2. Len(seqs) \in Nat /\ Len(Refill) \in Nat
    BY RefillFacts DEF IInv, TypeOK
  <2>3. Len(seqs) = 0 /\ Len(Refill) = 0
    BY <2>1, <2>2, RefillFacts
  <2>4. QED
    BY <2>1, <2>3, RefillFacts
<1>2. /\ v # End /\ current' = v + 1 /\ seqs' = <<>>
      /\ holders' = [holders EXCEPT ![v] = @ + 1]
      /\ recycled' = recycled \ {v}
      /\ age' = [s \in Ids |-> IF s \in recycled \ {v} THEN age[s] + 1 ELSE 0]
  BY DEF next, Issue
<1>3. v = current /\ v \in Ids /\ current \in Nat /\ seqs = <<>>
  BY <1>1, <1>2, SequenceAssumption DEF IInv, TypeOK, Ids
<1> HIDE DEF v
<1>4. recycled = {}
  BY <1>3 DEF IInv, PoolKeepsReserve, Range
<1>5. holders[v] = 0
  <2>1. ~(holders[v] > 0)
    BY <1>3 DEF IInv, PoolDistinct
  <2>2. QED
    BY <2>1, <1>3 DEF IInv, TypeOK
<1>6. \A s \in Ids : holders'[s] = IF s = v THEN 1 ELSE holders[s]
  BY <1>2, <1>3, <1>5 DEF IInv, TypeOK
<1>7. TypeOK'
  <2>1. current' \in Begin .. End
    BY <1>1, <1>2, SequenceAssumption DEF IInv, TypeOK
  <2>2. holders' \in [Ids -> Nat] /\ recycled' \in SUBSET Ids /\ age' \in [Ids -> Nat]
    BY <1>2, <1>3, <1>4, <1>5 DEF IInv, TypeOK
  <2>3. Ids' = Ids /\ seqs' \in Seq(Ids)
    BY <1>2 DEF Ids
  <2>4. QED
    BY <2>1, <2>2, <2>3 DEF TypeOK
<1>8. Range(seqs') = {}
  BY <1>2 DEF Range
<1>9. IdUnique'
  BY <1>6, <1>8 DEF IInv, IdUnique
<1>10. PoolDistinct'
  <2>1. ASSUME NEW s \in Ids, holders'[s] > 0
        PROVE  s < current'
    <3>1. CASE s = v
      BY <3>1, <1>2, <1>3
    <3>2. CASE s # v
      <4>1. s < current /\ s \in Nat
        BY <3>2, <2>1, <1>6, SequenceAssumption DEF IInv, PoolDistinct, Ids
      <4>2. QED
        BY <4>1, <1>2, <1>3
    <3>3. QED
      BY <3>1, <3>2
  <2>2. QED
    BY <2>1, <1>2, <1>8 DEF PoolDistinct
<1>11. NoIdLost'
  <2> SUFFICES ASSUME NEW s \in Ids, s < v + 1
               PROVE  holders'[s] > 0
    BY <1>2 DEF NoIdLost
  <2>1. s = v \/ s < v
    BY <1>3, SequenceAssumption DEF Ids
  <2>2. QED
    BY <2>1, <1>1, <1>6
<1>12. PoolKeepsReserve'
  <2>1. reserve_ = 0
    BY <1>1, <1>2, ReserveInRange
  <2>2. reserve_' = reserve_ /\ recycled' = {}
    BY <1>2, <1>4 DEF reserve_
  <2>3. QED
    BY <2>1, <2>2, <1>2, <1>8 DEF PoolKeepsReserve
<1>13. QED
  BY <1>2, <1>4, <1>7, <1>9, <1>10, <1>11, <1>12 DEF IInv

\* release() of a held id preserves the invariant and reissues nothing.
LEMMA ReleaseStep ==
    ASSUME IInv, NEW s \in Ids, holders[s] > 0, release(s)
    PROVE  IInv' /\ recycled \subseteq recycled'
<1>1. /\ seqs' = Append(seqs, s) /\ current' = current
      /\ holders' = [holders EXCEPT ![s] = @ - 1]
      /\ recycled' = IF current < End THEN recycled \cup {s} ELSE recycled
      /\ age' = [age EXCEPT ![s] = 0]
  BY DEF release, GiveBack
<1>2. /\ holders[s] = 1 /\ s \notin Range(seqs) /\ s < current /\ s \notin recycled
      /\ holders \in [Ids -> Nat] /\ age \in [Ids -> Nat] /\ recycled \subseteq Ids
  BY DEF IInv, TypeOK, IdUnique, PoolDistinct, PoolKeepsReserve
<1>3. /\ seqs' \in Seq(Ids) /\ Len(seqs) \in Nat
      /\ Len(seqs') = Len(seqs) + 1
      /\ \A i \in 1 .. Len(seqs) : seqs'[i] = seqs[i]
      /\ seqs'[Len(seqs) + 1] = s
      /\ DOMAIN seqs' = 1 .. (Len(seqs) + 1) /\ DOMAIN seqs = 1 .. Len(seqs)
  BY <1>1 DEF IInv, TypeOK
<1>4. Range(seqs') = Range(seqs) \cup {s}
  <2>1. \A i \in 1 .. (Len(seqs) + 1) : i \in 1 .. Len(seqs) \/ i = Len(seqs) + 1
    BY <1>3
  <2>2. 1 .. Len(seqs) \subseteq 1 .. (Len(seqs) + 1) /\ Len(seqs) + 1 \in 1 .. (Len(seqs) + 1)
    BY <1>3
  <2>3. QED
    BY <1>3, <2>1, <2>2 DEF Range
<1>5. \A t \in Ids : holders'[t] = IF t = s THEN 0 ELSE holders[t]
  BY <1>1, <1>2
<1>6. TypeOK'
  <2>1. holders' \in [Ids -> Nat]
    BY <1>1, <1>2
  <2>2. recycled' \in SUBSET Ids /\ age' \in [Ids -> Nat]
    BY <1>1, <1>2
  <2>3. Ids' = Ids
    BY DEF Ids
  <2>4. QED
    BY <1>1, <1>3, <2>1, <2>2, <2>3 DEF IInv, TypeOK
<1>7. IdUnique'
  BY <1>4, <1>5 DEF IInv, IdUnique
<1>8. PoolDistinct'
  <2>1. ASSUME NEW i \in 1 .. (Len(seqs) + 1), NEW j \in 1 .. (Len(seqs) + 1),
               seqs'[i] = seqs'[j]
        PROVE  i = j
    <3>1. CASE i \in 1 .. Len(seqs) /\ j \in 1 .. Len(seqs)
      BY <2>1, <3>1, <1>3 DEF IInv, PoolDistinct
    <3>2. CASE i \in 1 .. Len(seqs) /\ j = Len(seqs) + 1
      BY <2>1, <3>2, <1>2, <1>3 DEF Range
    <3>3. CASE i = Len(seqs) + 1 /\ j \in 1 .. Len(seqs)
      BY <2>1, <3>3, <1>2, <1>3 DEF Range
    <3>4. QED
      BY <3>1, <3>2, <3>3, <1>3
  <2>2. \A t \in Ids : holders'[t] > 0 \/ t \in Range(seqs') => t < current'
    BY <1>1, <1>2, <1>4, <1>5 DEF IInv, PoolDistinct
  <2>3. QED
    BY <2>1, <2>2, <1>3 DEF PoolDistinct
<1>9. NoIdLost'
  BY <1>1, <1>4, <1>5 DEF IInv, NoIdLost
<1>10. PoolKeepsReserve'
  <2>1. current' < End => Len(seqs') + 1 >= reserve_
    BY <1>1, <1>3, ReserveInRange DEF IInv, PoolKeepsReserve
  <2>2. ASSUME NEW i \in 1 .. (Len(seqs) + 1), seqs'[i] \in recycled'
        PROVE  age'[seqs'[i]] + i >= reserve_
    <3>1. CASE i \in 1 .. Len(seqs)
      <4>1. seqs'[i] = seqs[i] /\ seqs[i] # s /\ seqs[i] \in Ids
        <5>1. seqs'[i] = seqs[i] /\ seqs[i] \in Range(seqs)
          BY <3>1, <1>3 DEF Range
        <5>2. seqs[i] \in Ids
          BY <3>1 DEF IInv, TypeOK
        <5>3. QED
          BY <5>1, <5>2, <1>2
      <4>2. seqs[i] \in recycled /\ age'[seqs[i]] = age[seqs[i]]
        BY <4>1, <2>2, <1>1, <1>2
      <4>3. QED
        BY <3>1, <4>1, <4>2, <1>3 DEF IInv, PoolKeepsReserve
    <3>2. CASE i = Len(seqs) + 1
      <4>1. seqs'[i] = s /\ age'[s] = 0
        BY <3>2, <1>1, <1>2, <1>3
      <4>2. current < End
        BY <4>1, <2>2, <1>1, <1>2
      <4>3. Len(seqs) + 1 >= reserve_
        BY <4>2 DEF IInv, PoolKeepsReserve
      <4>4. QED
        BY <3>2, <4>1, <4>3, <1>3, ReserveInRange
    <3>3. QED
      BY <3>1, <3>2, <1>3
  <2>3. \A t \in recycled' : t \in Range(seqs')
    BY <1>1, <1>4 DEF IInv, PoolKeepsReserve
  <2>4. reserve_' = reserve_
    BY DEF reserve_
  <2>5. QED
    BY <2>1, <2>2, <2>3, <2>4, <1>3 DEF PoolKeepsReserve
<1>11. QED
  BY <1>1, <1>6, <1>7, <1>8, <1>9, <1>10 DEF IInv

\* Every step preserves the inductive invariant and delays reuse.
LEMMA NextStep ==
    ASSUME IInv, [Next]_vars
    PROVE  /\ IInv'
           /\ \A s \in recycled : s \notin recycled' => age[s] + 1 >= reserve_
<1>1. CASE next
  BY <1>1, PopStep, CountStep
<1>2. CASE \E s \in Ids : holders[s] > 0 /\ release(s)
  BY <1>2, ReleaseStep
<1>3. CASE NextThrows \/ (\E s \in {End} : ReleaseRefused(s)) \/ UNCHANGED vars
  <2>1. UNCHANGED vars
    BY <1>3 DEF NextThrows, ReleaseRefused
  <2>2. UNCHANGED <<current, seqs, holders, recycled, age>>
    BY <2>1 DEF vars
  <2>3. QED
    BY <2>2 DEF IInv, TypeOK, IdUnique, PoolDistinct, NoIdLost, PoolKeepsReserve,
                Ids, reserve_, Range
<1>4. QED
  BY <1>1, <1>2, <1>3 DEF Next

\* The inductive invariant holds of every reachable pool.
THEOREM PoolInvariant == Spec => []IInv
<1>1. Init => IInv
  BY InitIInv
<1>2. IInv /\ [Next]_vars => IInv'
  BY NextStep
<1>3. QED
  BY <1>1, <1>2, PTL DEF Spec

\* current_ never leaves the range and every pooled value is an id.
THEOREM PoolTypeCorrect == Spec => []TypeOK
<1>1. IInv => TypeOK
  BY DEF IInv
<1>2. QED
  BY <1>1, PoolInvariant, PTL

\* next() never hands out an id that a client still holds, for every range,
\* every reserve and every order of next() and release().
THEOREM IdsAreUnique == Spec => []IdUnique
<1>1. IInv => IdUnique
  BY DEF IInv
<1>2. QED
  BY <1>1, PoolInvariant, PTL

\* An id given back with release() is never lost, so next() throws only when
\* all of the ids are out.
THEOREM IdsAreNotLost == Spec => []NoIdLost
<1>1. IInv => NoIdLost
  BY DEF IInv
<1>2. QED
  BY <1>1, PoolInvariant, PTL

\* A released id waits for reserve_ - 1 others before it is handed out again,
\* as long as unused ids were left.
THEOREM IdReuseIsDelayed == Spec => ReuseDelayed
<1>1. IInv /\ [Next]_vars =>
         [\A s \in recycled : s \notin recycled' => age[s] + 1 >= reserve_]_vars
  BY NextStep
<1>2. QED
  BY <1>1, PoolInvariant, PTL DEF Spec, ReuseDelayed

=============================================================================
