------------------------- MODULE TaskSchedulerProofs ------------------------
(***************************************************************************)
(* Proofs about the task scheduler, for every number of tasks, runners and *)
(* callers and every configuration.                                        *)
(***************************************************************************)
EXTENDS TaskScheduler, SequenceTheorems, TLAPS

\* The tasks in the scheduler's queue and in a runner's.
Queued  == Range(queue)
Held(r) == Range(rqueue[r])

\* Where a thread is says whether it has a task, and how far a search or a
\* loop has come; the runners start together.
Places ==
    /\ \A r \in Runners : rpc[r] \in {"execute", "running"} <=> rtask[r] # NoTask
    /\ \A c \in Callers : cpc[c] = "scan" <=> ctask[c] # NoTask
    /\ \A c \in Callers \ {Main} : cpc[c] \in {"idle", "pop", "scan"}
    /\ cpc[Main] \in {"join", "drain"} => joining \in Runners
    /\ RunLimit > 0 =>
          \A r \in Runners : rpc[r] \in {"pop", "execute", "running"} => rcount[r] < RunLimit
    /\ \A c \in Callers : scan[c].cand = 0 => scan[c].next = 1
    /\ \A r, s \in Runners : rpc[r] = "off" => rpc[s] = "off"
    /\ cpc[Main] \in {"join", "drain", "finish", "done"} => Started

\* No two of the places that a task may be in share one.
Disjoint ==
    /\ IsInjective(queue)
    /\ \A r \in Runners : IsInjective(rqueue[r])
    /\ \A r \in Runners : Queued \cap Held(r) = {} /\ rtask[r] \notin Queued
    /\ \A c \in Callers : ctask[c] \notin Queued
    /\ \A r, s \in Runners : r # s => Held(r) \cap Held(s) = {}
    /\ \A r, s \in Runners : rtask[r] \notin Held(s)
    /\ \A r \in Runners, c \in Callers : ctask[c] \notin Held(r)
    /\ \A r, s \in Runners : rtask[r] = rtask[s] /\ rtask[r] # NoTask => r = s
    /\ \A c, d \in Callers : ctask[c] = ctask[d] /\ ctask[c] # NoTask => c = d
    /\ \A r \in Runners, c \in Callers : rtask[r] = ctask[c] => rtask[r] = NoTask

\* Task t is in a queue or in the hands of a thread.
Somewhere(t) ==
    \/ t \in Queued
    \/ \E r \in Runners : t \in Held(r) \/ rtask[r] = t
    \/ \E c \in Callers : ctask[c] = t

\* What is somewhere was scheduled, and what was scheduled is ready or has
\* finished; a finished task is somewhere only if it finished itself, a ready
\* one always is.
Accounted ==
    /\ \A t \in Tasks : Somewhere(t) => t \in scheduled
    /\ \A t \in scheduled : state[t] \in {"ready", "finished"}
    /\ \A t \in Tasks : Somewhere(t) /\ state[t] = "finished" => t \in SelfFinish
    /\ \A t \in scheduled : state[t] = "ready" => Somewhere(t)

\* A task with affinity that has run is with its runner, on its way there or
\* in the scheduler's queue.
Pinned ==
    \A t \in Affinity : last[t] # 0 =>
        /\ \A r \in Runners : t \in Held(r) \/ rtask[r] = t => r = last[t]
        /\ \A c \in Callers : ctask[c] = t =>
              scan[c].next = RunnerCount + 1 /\ scan[c].cand = last[t]

\* How far finish() has come when no other call runs beside it.
FinishProgress ==
    ~overlap /\ cpc[Main] \in {"join", "drain", "finish", "done"} =>
        /\ \A c \in Callers \ {Main} : cpc[c] = "idle"
        /\ \A r \in Runners :
              cpc[Main] \in {"finish", "done"} \/ r < joining => rpc[r] = "exited" /\ Held(r) = {}
        /\ cpc[Main] = "drain" => rpc[joining] = "exited"
        /\ cpc[Main] = "done" => Queued = {}

\* The inductive invariant.
IInv ==
    /\ TypeOK /\ Places /\ Disjoint /\ Accounted /\ Pinned /\ FinishProgress
    /\ ThrowsOnlySelfFinished

-----------------------------------------------------------------------------
(* Queues of distinct tasks.                                               *)

\* Popping the front of a queue of distinct tasks.
LEMMA PopFacts ==
    ASSUME NEW s \in Seq(Tasks), s # <<>>, IsInjective(s)
    PROVE  /\ Head(s) \in Tasks /\ Head(s) \in Range(s)
           /\ Tail(s) \in Seq(Tasks) /\ IsInjective(Tail(s))
           /\ Range(Tail(s)) = Range(s) \ {Head(s)}
<1>1. Len(s) \in Nat \ {0} /\ DOMAIN s = 1 .. Len(s)
  BY EmptySeq, LenProperties
<1>2. /\ Head(s) \in Tasks /\ Tail(s) \in Seq(Tasks) /\ Len(Tail(s)) = Len(s) - 1
      /\ \A i \in 1 .. Len(Tail(s)) : Tail(s)[i] = s[i + 1]
  BY HeadTailProperties
<1>3. DOMAIN Tail(s) = 1 .. Len(s) - 1
  BY <1>2, LenProperties
<1>4. Head(s) = s[1] /\ 1 \in DOMAIN s
  BY <1>1
<1>5. \A i \in 1 .. Len(s) - 1 : Tail(s)[i] = s[i + 1] /\ i + 1 \in DOMAIN s /\ i + 1 # 1
  BY <1>1, <1>2
<1>6. Head(s) \in Range(s)
  BY <1>4 DEF Range
<1>7. IsInjective(Tail(s))
  <2>1. ASSUME NEW i \in 1 .. Len(s) - 1, NEW j \in 1 .. Len(s) - 1, Tail(s)[i] = Tail(s)[j]
        PROVE  i = j
    <3>1. s[i + 1] = s[j + 1] /\ i + 1 \in DOMAIN s /\ j + 1 \in DOMAIN s
      BY <1>5, <2>1
    <3>2. i + 1 = j + 1
      BY <3>1 DEF IsInjective
    <3>3. QED
      BY <1>1, <3>2
  <2>2. QED
    BY <1>3, <2>1 DEF IsInjective
<1>8. ASSUME NEW x \in Range(Tail(s)) PROVE x \in Range(s) \ {Head(s)}
  <2>1. PICK i \in 1 .. Len(s) - 1 : x = Tail(s)[i]
    BY <1>3, <1>8 DEF Range
  <2>2. x = s[i + 1] /\ i + 1 \in DOMAIN s /\ i + 1 # 1
    BY <1>5, <2>1
  <2>3. x # s[1]
    BY <1>4, <2>2 DEF IsInjective
  <2>4. QED
    BY <1>4, <2>2, <2>3 DEF Range
<1>9. ASSUME NEW x \in Range(s) \ {Head(s)} PROVE x \in Range(Tail(s))
  <2>1. PICK i \in DOMAIN s : x = s[i]
    BY <1>9 DEF Range
  <2>2. i # 1
    BY <1>4, <1>9, <2>1
  <2>3. i - 1 \in 1 .. Len(s) - 1 /\ i - 1 + 1 = i
    BY <1>1, <2>1, <2>2
  <2>4. x = Tail(s)[i - 1]
    BY <1>5, <2>1, <2>3
  <2>5. QED
    BY <1>3, <2>3, <2>4 DEF Range
<1>10. QED
  BY <1>2, <1>6, <1>7, <1>8, <1>9

\* Pushing a new task at the end of a queue of distinct tasks.
LEMMA PushFacts ==
    ASSUME NEW s \in Seq(Tasks), IsInjective(s), NEW t \in Tasks, t \notin Range(s)
    PROVE  /\ Append(s, t) \in Seq(Tasks) /\ IsInjective(Append(s, t))
           /\ Range(Append(s, t)) = Range(s) \cup {t}
<1> DEFINE u == Append(s, t)  n == Len(s)
<1>1. n \in Nat /\ DOMAIN s = 1 .. n
  BY LenProperties
<1>2. /\ u \in Seq(Tasks) /\ Len(u) = n + 1
      /\ \A i \in 1 .. n : u[i] = s[i]
      /\ u[n + 1] = t
  BY AppendProperties
<1>3. DOMAIN u = 1 .. n + 1
  BY <1>2, LenProperties
<1>4. \A i \in 1 .. n : s[i] # t
  BY <1>1 DEF Range
<1>5. \A i \in 1 .. n + 1 : i \in 1 .. n \/ i = n + 1
  BY <1>1
<1> HIDE DEF u, n
<1>6. IsInjective(u)
  <2>1. ASSUME NEW i \in 1 .. n + 1, NEW j \in 1 .. n + 1, u[i] = u[j] PROVE i = j
    <3>1. CASE i \in 1 .. n /\ j \in 1 .. n
      BY <1>1, <1>2, <2>1, <3>1 DEF IsInjective
    <3>2. CASE i = n + 1 \/ j = n + 1
      BY <1>2, <1>4, <1>5, <2>1, <3>2
    <3>3. QED
      BY <1>5, <3>1, <3>2
  <2>2. QED
    BY <1>3, <2>1 DEF IsInjective
<1>7. Range(u) = Range(s) \cup {t}
  <2>1. ASSUME NEW x \in Range(u) PROVE x \in Range(s) \cup {t}
    BY <1>1, <1>2, <1>3, <1>5, <2>1 DEF Range
  <2>2. ASSUME NEW x \in Range(s) PROVE x \in Range(u)
    <3>1. PICK i \in 1 .. n : x = s[i]
      BY <1>1, <2>2 DEF Range
    <3>2. i \in 1 .. n + 1 /\ x = u[i]
      BY <1>1, <1>2, <3>1
    <3>3. QED
      BY <1>3, <3>2 DEF Range
  <2>3. t \in Range(u)
    <3>1. n + 1 \in 1 .. n + 1
      BY <1>1
    <3>2. QED
      BY <1>2, <1>3, <3>1 DEF Range
  <2>4. QED
    BY <2>1, <2>2, <2>3
<1>8. QED
  BY <1>2, <1>6, <1>7 DEF u

\* The queues of tasks hold tasks, and NoTask is none.
LEMMA QueuesHoldTasks ==
    ASSUME TypeOK
    PROVE  Queued \subseteq Tasks /\ NoTask \notin Queued
           /\ \A r \in Runners : Held(r) \subseteq Tasks /\ NoTask \notin Held(r)
<1>1. queue \in Seq(Tasks) /\ \A r \in Runners : rqueue[r] \in Seq(Tasks)
  BY DEF TypeOK
<1>2. Range(queue) \subseteq Tasks /\ \A r \in Runners : Range(rqueue[r]) \subseteq Tasks
  BY <1>1, RangeOfSeq
<1>3. QED
  BY <1>2, SchedulerAssumption DEF Queued, Held

-----------------------------------------------------------------------------
(* Types.                                                                  *)

\* Every step keeps the types.
LEMMA TypeStep == ASSUME IInv, [Next]_vars PROVE TypeOK'
<1> USE SchedulerAssumption
<1>t. TypeOK /\ Places
  BY DEF IInv
<1>1. CASE Start
  BY <1>1, <1>t DEF Start, TypeOK, taskVars, callVars, history
<1>2. ASSUME NEW t \in Tasks, TaskStart(t) PROVE TypeOK'
  BY <1>2, <1>t DEF TaskStart, TypeOK, States, runnerVars, callVars, history
<1>3. ASSUME NEW c \in Callers, NEW t \in Tasks, NEW ok \in BOOLEAN, schedule(c, t, ok)
      PROVE  TypeOK'
  <2>1. state' \in [Tasks -> States]
    BY <1>3, <1>t DEF schedule, TypeOK, States
  <2>2. queue' \in Seq(Tasks) /\ scheduled' \in SUBSET Tasks
    BY <1>3, <1>t DEF schedule, TypeOK
  <2>3. cpc' \in [Callers -> {"idle", "pop", "scan", "join", "drain", "finish", "done"}]
    BY <1>3, <1>t DEF schedule, TypeOK
  <2>4. overlap' \in BOOLEAN
    BY <1>3, <1>t, Zenon DEF schedule, TypeOK, Finishing
  <2>5. UNCHANGED <<last, rqueue, stop, rpc, rtask, rcount, ctask, scan, joining, crash>>
    BY <1>3 DEF schedule, runnerVars
  <2>6. QED
    BY <1>t, <2>1, <2>2, <2>3, <2>4, <2>5 DEF TypeOK
<1>4. ASSUME NEW c \in Callers, execute(c) PROVE TypeOK'
  <2>1. overlap' \in BOOLEAN
    BY <1>4, <1>t, Zenon DEF execute, TypeOK, Finishing
  <2>2. QED
    BY <1>4, <1>t, <2>1 DEF execute, TypeOK, taskVars, runnerVars
<1>5. ASSUME NEW c \in Callers, RunPop(c) PROVE TypeOK'
  <2>1. queue \in Seq(Tasks) /\ queue # <<>> /\ Head(queue) \in Tasks /\ Tail(queue) \in Seq(Tasks)
    BY <1>5, <1>t, HeadTailProperties DEF RunPop, TypeOK
  <2>2. last[Head(queue)] \in 0 .. RunnerCount
    BY <1>t, <2>1 DEF TypeOK
  <2>3. /\ [next |-> RunnerCount + 1, cand |-> last[Head(queue)], least |-> 0] \in Scans
        /\ NoScan \in Scans
    BY <2>2 DEF Scans, NoScan
  <2>4. scan' \in [Callers -> Scans]
    BY <1>5, <1>t, <2>3 DEF RunPop, TypeOK
  <2>5. QED
    BY <1>5, <1>t, <2>1, <2>4 DEF RunPop, TypeOK, taskVars, runnerVars, history
<1>6. ASSUME NEW c \in Callers, RunReturn(c) PROVE TypeOK'
  BY <1>6, <1>t DEF RunReturn, TypeOK, taskVars, runnerVars, history
<1>7. ASSUME NEW c \in Callers, Scan(c) PROVE TypeOK'
  <2> DEFINE i == scan[c].next
             better == scan[c].cand = 0 \/ Len(rqueue[i]) < scan[c].least
             new == [next |-> i + 1, cand |-> IF better THEN i ELSE scan[c].cand,
                     least |-> IF better THEN Len(rqueue[i]) ELSE scan[c].least]
  <2>1. i \in 1 .. RunnerCount /\ scan[c].cand \in 0 .. RunnerCount /\ scan[c].least \in Nat
    BY <1>7, <1>t DEF Scan, TypeOK, Scans, Runners
  <2>2. Len(rqueue[i]) \in Nat
    BY <1>t, <2>1 DEF TypeOK, Runners
  <2>3. new \in Scans
    BY <2>1, <2>2 DEF Scans
  <2>4. scan' = [scan EXCEPT ![c] = new]
    BY <1>7 DEF Scan
  <2>5. scan' \in [Callers -> Scans]
    BY <1>t, <2>3, <2>4 DEF TypeOK
  <2>6. QED
    BY <1>7, <1>t, <2>5 DEF Scan, TypeOK, taskVars, runnerVars, history
<1>8. ASSUME NEW c \in Callers, Push(c) PROVE TypeOK'
  <2>1. ctask[c] \in Tasks
    BY <1>8, <1>t DEF Push, Places, TypeOK
  <2>2. NoScan \in Scans
    BY DEF Scans, NoScan
  <2>3. CASE PushTarget(c) \in Runners
    <3>1. /\ rqueue' = [rqueue EXCEPT ![PushTarget(c)] = Append(rqueue[PushTarget(c)], ctask[c])]
          /\ ctask' = [ctask EXCEPT ![c] = NoTask] /\ scan' = [scan EXCEPT ![c] = NoScan]
          /\ cpc' = [cpc EXCEPT ![c] = "pop"]
          /\ UNCHANGED <<state, last, queue, stop, rpc, rtask, rcount, joining, crash, scheduled,
                         overlap>>
      BY <1>8, <2>3 DEF Push, taskVars, runnerVars, history
    <3>2. rqueue[PushTarget(c)] \in Seq(Tasks)
      BY <1>t, <2>3 DEF TypeOK
    <3>3. Append(rqueue[PushTarget(c)], ctask[c]) \in Seq(Tasks)
      BY <2>1, <3>2
    <3>4. rqueue' \in [Runners -> Seq(Tasks)]
      BY <1>t, <2>3, <3>1, <3>3 DEF TypeOK
    <3>5. ctask' \in [Callers -> Tasks \cup {NoTask}] /\ scan' \in [Callers -> Scans]
      BY <1>t, <2>2, <3>1 DEF TypeOK
    <3>6. cpc' \in [Callers -> {"idle", "pop", "scan", "join", "drain", "finish", "done"}]
      BY <1>t, <3>1 DEF TypeOK
    <3>7. QED
      BY <1>t, <3>1, <3>4, <3>5, <3>6 DEF TypeOK
  <2>4. CASE PushTarget(c) \notin Runners
    BY <1>8, <1>t, <2>4 DEF Push, TypeOK, taskVars, runnerVars, callVars, history
  <2>5. QED
    BY <2>3, <2>4
<1>9. CASE finish
  <2>1. overlap' \in BOOLEAN
    BY <1>9, <1>t, Zenon DEF finish, TypeOK
  <2>2. QED
    BY <1>9, <1>t, <2>1 DEF finish, TypeOK, Runners, taskVars, runnerVars
<1>10. CASE Join
  BY <1>10, <1>t DEF Join, TypeOK, taskVars, runnerVars, history
<1>11. CASE Drain
  <2>1. joining \in Runners /\ rqueue[joining] \in Seq(Tasks) /\ rqueue[joining] # <<>>
    BY <1>11, <1>t DEF Drain, Places, TypeOK
  <2>2. Head(rqueue[joining]) \in Tasks /\ Tail(rqueue[joining]) \in Seq(Tasks)
    BY <2>1, HeadTailProperties
  <2>3. /\ queue' = Append(queue, Head(rqueue[joining]))
        /\ rqueue' = [rqueue EXCEPT ![joining] = Tail(rqueue[joining])]
        /\ UNCHANGED <<state, last, stop, rpc, rtask, rcount, cpc, ctask, scan, joining, crash,
                       scheduled, overlap>>
    BY <1>11 DEF Drain, taskVars, runnerVars, callVars, history
  <2>4. queue' \in Seq(Tasks) /\ rqueue' \in [Runners -> Seq(Tasks)]
    BY <1>t, <2>1, <2>2, <2>3 DEF TypeOK
  <2>5. QED
    BY <1>t, <2>3, <2>4 DEF TypeOK
<1>12. CASE Drained
  <2>1. CASE joining < RunnerCount
    <3>1. joining + 1 \in 0 .. RunnerCount
      BY <1>t, <2>1 DEF TypeOK
    <3>2. QED
      BY <1>12, <1>t, <2>1, <3>1 DEF Drained, TypeOK, taskVars, runnerVars, history
  <2>2. CASE ~(joining < RunnerCount)
    BY <1>12, <1>t, <2>2 DEF Drained, TypeOK, taskVars, runnerVars, history
  <2>3. QED
    BY <2>1, <2>2
<1>13. CASE FinishTask
  <2>1. queue \in Seq(Tasks) /\ queue # <<>> /\ Head(queue) \in Tasks /\ Tail(queue) \in Seq(Tasks)
    BY <1>13, <1>t, HeadTailProperties DEF FinishTask, TypeOK
  <2>2. state' \in [Tasks -> States]
    BY <1>13, <1>t DEF FinishTask, TypeOK, States
  <2>3. QED
    BY <1>13, <1>t, <2>1, <2>2 DEF FinishTask, TypeOK, runnerVars, callVars, history
<1>14. CASE FinishReturn
  BY <1>14, <1>t DEF FinishReturn, TypeOK, taskVars, runnerVars, history
<1>15. ASSUME NEW r \in Runners, LoopTop(r) PROVE TypeOK'
  BY <1>15, <1>t DEF LoopTop, TypeOK, taskVars, callVars, history
<1>16. ASSUME NEW r \in Runners, PopNothing(r) PROVE TypeOK'
  BY <1>16, <1>t DEF PopNothing, TypeOK, taskVars, callVars, history
<1>17. ASSUME NEW r \in Runners, PopTask(r) PROVE TypeOK'
  <2>1. rqueue[r] \in Seq(Tasks) /\ rqueue[r] # <<>>
    BY <1>17, <1>t DEF PopTask, TypeOK
  <2>2. Head(rqueue[r]) \in Tasks /\ Tail(rqueue[r]) \in Seq(Tasks)
    BY <2>1, HeadTailProperties
  <2>3. QED
    BY <1>17, <1>t, <2>1, <2>2 DEF PopTask, TypeOK, taskVars, callVars, history
<1>18. ASSUME NEW r \in Runners, ExecuteTask(r) PROVE TypeOK'
  <2>1. last' \in [Tasks -> 0 .. RunnerCount]
    <3>1. r \in 0 .. RunnerCount /\ last \in [Tasks -> 0 .. RunnerCount]
      BY <1>t DEF TypeOK, Runners
    <3>2. last' = last \/ last' = [last EXCEPT ![rtask[r]] = r]
      BY <1>18 DEF ExecuteTask
    <3>3. QED
      BY <3>1, <3>2
  <2>2. crash' \in {"none", "out_of_range", "not_ready", "bad_affinity"}
    BY <1>18 DEF ExecuteTask, Outcome
  <2>3. QED
    BY <1>18, <1>t, <2>1, <2>2 DEF ExecuteTask, TypeOK, callVars, history
<1>19. ASSUME NEW r \in Runners, FinishItself(r) PROVE TypeOK'
  BY <1>19, <1>t DEF FinishItself, TypeOK, States, runnerVars, callVars, history
<1>20. ASSUME NEW r \in Runners, Pass(r) PROVE TypeOK'
  <2>1. rtask[r] \in Tasks
    BY <1>20, <1>t DEF Pass, Places, TypeOK
  <2>2. rcount' \in [Runners -> 0 .. RunLimit]
    BY <1>20, <1>t DEF Pass, Places, TypeOK
  <2>3. QED
    BY <1>20, <1>t, <2>1, <2>2 DEF Pass, TypeOK, taskVars, callVars, history
<1>21. CASE UNCHANGED vars
  BY <1>21, <1>t DEF vars, TypeOK, taskVars, runnerVars, callVars, history
<1>22. QED
  BY <1>1, <1>2, <1>3, <1>4, <1>5, <1>6, <1>7, <1>8, <1>9, <1>10, <1>11, <1>12, <1>13,
     <1>14, <1>15, <1>16, <1>17, <1>18, <1>19, <1>20, <1>21
     DEF Next, Running, Over, RunSchedule, FinishStep, RunnerStep

\* Every step keeps what a thread's place says.
LEMMA PlacesStep == ASSUME IInv, [Next]_vars PROVE Places'
<1> USE SchedulerAssumption
<1>t. TypeOK /\ Places
  BY DEF IInv
<1>1. CASE Start
  BY <1>1, <1>t DEF Start, Started, TypeOK, Places, taskVars, callVars, history
<1>2. ASSUME NEW t \in Tasks, TaskStart(t) PROVE Places'
  BY <1>2, <1>t DEF TaskStart, Places, Started, runnerVars, callVars, history
<1>3. ASSUME NEW c \in Callers, NEW t \in Tasks, NEW ok \in BOOLEAN, schedule(c, t, ok)
      PROVE  Places'
  BY <1>3, <1>t DEF schedule, Places, TypeOK, Started, runnerVars
<1>4. ASSUME NEW c \in Callers, execute(c) PROVE Places'
  BY <1>4, <1>t DEF execute, Places, TypeOK, Started, runnerVars
<1>5. ASSUME NEW c \in Callers, RunPop(c) PROVE Places'
  <2>1. queue \in Seq(Tasks) /\ queue # <<>> /\ Head(queue) \in Tasks
    BY <1>5, <1>t, HeadTailProperties DEF RunPop, TypeOK
  <2>2. scan'[c].cand = 0 => scan'[c].next = 1
    BY <1>5, <1>t DEF RunPop, TypeOK, NoScan
  <2>3. \A d \in Callers : scan'[d].cand = 0 => scan'[d].next = 1
    BY <1>5, <1>t, <2>2 DEF RunPop, TypeOK, Places
  <2>4. QED
    BY <1>5, <1>t, <2>1, <2>3 DEF RunPop, Places, TypeOK, Started, runnerVars
<1>6. ASSUME NEW c \in Callers, RunReturn(c) PROVE Places'
  BY <1>6, <1>t DEF RunReturn, Places, TypeOK, Started, runnerVars
<1>7. ASSUME NEW c \in Callers, Scan(c) PROVE Places'
  <2>1. scan'[c].cand # 0
    BY <1>7, <1>t DEF Scan, TypeOK, Runners
  <2>2. \A d \in Callers : scan'[d].cand = 0 => scan'[d].next = 1
    BY <1>7, <1>t, <2>1 DEF Scan, TypeOK, Places
  <2>3. QED
    BY <1>7, <1>t, <2>2 DEF Scan, Places, Started, runnerVars
<1>8. ASSUME NEW c \in Callers, Push(c) PROVE Places'
  <2>1. CASE PushTarget(c) \in Runners
    <3>1. /\ cpc[c] = "scan" /\ ctask' = [ctask EXCEPT ![c] = NoTask]
          /\ scan' = [scan EXCEPT ![c] = NoScan] /\ cpc' = [cpc EXCEPT ![c] = "pop"]
          /\ UNCHANGED <<rpc, rtask, rcount, joining>>
      BY <1>8, <2>1 DEF Push, runnerVars
    <3>2. QED
      BY <1>t, <3>1 DEF Places, TypeOK, NoScan, Started
  <2>2. CASE PushTarget(c) \notin Runners
    BY <1>8, <1>t, <2>2 DEF Push, Places, Started, runnerVars, callVars
  <2>3. QED
    BY <2>1, <2>2
<1>9. CASE finish
  BY <1>9, <1>t DEF finish, Places, TypeOK, Runners, Started, runnerVars
<1>10. CASE Join
  BY <1>10, <1>t DEF Join, Places, TypeOK, Started, runnerVars
<1>11. CASE Drain
  BY <1>11, <1>t DEF Drain, Places, Started, runnerVars, callVars
<1>12. CASE Drained
  <2>1. CASE joining < RunnerCount
    <3>1. joining' = joining + 1 /\ joining + 1 \in Runners
      BY <1>12, <1>t, <2>1 DEF Drained, TypeOK, Runners
    <3>2. QED
      BY <1>12, <1>t, <2>1, <3>1 DEF Drained, Places, TypeOK, Started, runnerVars
  <2>2. CASE ~(joining < RunnerCount)
    BY <1>12, <1>t, <2>2 DEF Drained, Places, TypeOK, Started, runnerVars
  <2>3. QED
    BY <2>1, <2>2
<1>13. CASE FinishTask
  BY <1>13, <1>t DEF FinishTask, Places, Started, runnerVars, callVars
<1>14. CASE FinishReturn
  BY <1>14, <1>t DEF FinishReturn, Places, TypeOK, Started, runnerVars
<1>15. ASSUME NEW r \in Runners, LoopTop(r) PROVE Places'
  BY <1>15, <1>t DEF LoopTop, Places, TypeOK, Started, callVars
<1>16. ASSUME NEW r \in Runners, PopNothing(r) PROVE Places'
  BY <1>16, <1>t DEF PopNothing, Places, TypeOK, Started, callVars
<1>17. ASSUME NEW r \in Runners, PopTask(r) PROVE Places'
  <2>1. Head(rqueue[r]) \in Tasks
    BY <1>17, <1>t, HeadTailProperties DEF PopTask, TypeOK
  <2>2. QED
    BY <1>17, <1>t, <2>1 DEF PopTask, Places, TypeOK, Started, callVars
<1>18. ASSUME NEW r \in Runners, ExecuteTask(r) PROVE Places'
  BY <1>18, <1>t DEF ExecuteTask, Places, TypeOK, Started, callVars
<1>19. ASSUME NEW r \in Runners, FinishItself(r) PROVE Places'
  BY <1>19, <1>t DEF FinishItself, Places, Started, runnerVars, callVars
<1>20. ASSUME NEW r \in Runners, Pass(r) PROVE Places'
  BY <1>20, <1>t DEF Pass, Places, TypeOK, Started, callVars
<1>21. CASE UNCHANGED vars
  BY <1>21, <1>t DEF vars, Places, Started, runnerVars, callVars
<1>22. QED
  BY <1>1, <1>2, <1>3, <1>4, <1>5, <1>6, <1>7, <1>8, <1>9, <1>10, <1>11, <1>12, <1>13,
     <1>14, <1>15, <1>16, <1>17, <1>18, <1>19, <1>20, <1>21
     DEF Next, Running, Over, RunSchedule, FinishStep, RunnerStep

-----------------------------------------------------------------------------
(* What an operation does to the places of tasks.                          *)

\* A step that leaves the queues and the threads' tasks alone.
NothingMoves == UNCHANGED <<queue, rqueue, rtask, ctask>>

\* A task is nowhere before it is scheduled; schedule() puts it in the queue.
LEMMA ScheduleMoves ==
    ASSUME IInv, NEW c \in Callers, NEW t \in Tasks, NEW ok \in BOOLEAN, schedule(c, t, ok)
    PROVE  /\ t \notin scheduled /\ ~Somewhere(t)
           /\ UNCHANGED <<rqueue, rtask, ctask, last, scan>>
           /\ \/ UNCHANGED <<queue, state, scheduled>>
              \/ /\ IsInjective(queue') /\ Queued' = Queued \cup {t}
                 /\ scheduled' = scheduled \cup {t}
                 /\ state' = [state EXCEPT ![t] = "ready"]
<1>1. t \notin scheduled /\ ~Somewhere(t)
  BY DEF schedule, IInv, Accounted
<1>2. UNCHANGED <<rqueue, rtask, ctask, last, scan>>
  BY DEF schedule, runnerVars
<1>3. queue \in Seq(Tasks) /\ IsInjective(queue) /\ t \notin Range(queue)
      /\ state \in [Tasks -> States]
  BY <1>1 DEF IInv, TypeOK, Disjoint, Somewhere, Queued
<1> DEFINE st == IF StartWhenScheduleCalled /\ state[t] = "constructed" /\ ok
                 THEN "ready" ELSE state[t]
<1>4. CASE st = "ready"
  <2>1. /\ queue' = Append(queue, t) /\ scheduled' = scheduled \cup {t}
        /\ state' = [state EXCEPT ![t] = "ready"]
    BY <1>4 DEF schedule
  <2>2. QED
    BY <1>1, <1>2, <1>3, <2>1, PushFacts DEF Queued
<1>5. CASE st # "ready"
  <2>1. queue' = queue /\ scheduled' = scheduled /\ state' = [state EXCEPT ![t] = st]
    BY <1>5 DEF schedule
  <2>2. st = state[t]
    BY <1>5
  <2>3. state' = state
    BY <1>3, <2>1, <2>2
  <2>4. QED
    BY <1>1, <1>2, <2>1, <2>3
<1>6. QED
  BY <1>4, <1>5

\* run_schedule() takes the front of the queue in hand.
LEMMA RunPopMoves ==
    ASSUME IInv, NEW c \in Callers, RunPop(c)
    PROVE  /\ Head(queue) \in Queued /\ Head(queue) \in Tasks /\ ctask[c] = NoTask
           /\ IsInjective(queue') /\ Queued' = Queued \ {Head(queue)}
           /\ ctask' = [ctask EXCEPT ![c] = Head(queue)]
           /\ UNCHANGED <<rqueue, rtask, last, state, scheduled>>
<1>1. queue \in Seq(Tasks) /\ IsInjective(queue) /\ queue # <<>> /\ queue' = Tail(queue)
  BY DEF IInv, TypeOK, Disjoint, RunPop
<1>2. ctask[c] = NoTask
  BY DEF IInv, Places, RunPop
<1>3. /\ ctask' = [ctask EXCEPT ![c] = Head(queue)]
      /\ UNCHANGED <<rqueue, rtask, last, state, scheduled>>
  BY DEF RunPop, taskVars, runnerVars, history
<1>4. QED
  BY <1>1, <1>2, <1>3, PopFacts DEF Queued

\* run_schedule() puts the task in hand at the end of a runner's queue, and
\* the runner of a task with affinity exists; or the process ends.
LEMMA PushMoves ==
    ASSUME IInv, NEW c \in Callers, Push(c)
    PROVE  /\ ctask[c] \in Tasks /\ scan[c].next = RunnerCount + 1
           /\ UNCHANGED <<queue, rtask, last, state, scheduled>>
           /\ \/ /\ \E k \in Runners :
                       /\ k = PushTarget(c)
                       /\ IsInjective(rqueue'[k]) /\ Range(rqueue'[k]) = Held(k) \cup {ctask[c]}
                       /\ \A r \in Runners \ {k} : rqueue'[r] = rqueue[r]
                 /\ ctask' = [ctask EXCEPT ![c] = NoTask]
                 /\ scan' = [scan EXCEPT ![c] = NoScan] /\ UNCHANGED crash
              \/ ctask[c] \notin Affinity /\ crash' = "out_of_range"
                 /\ UNCHANGED <<rqueue, ctask, scan>>
<1>1. ctask[c] \in Tasks /\ scan[c].next = RunnerCount + 1
  BY DEF IInv, Places, TypeOK, Push
<1>2. UNCHANGED <<queue, rtask, last, state, scheduled>>
  BY DEF Push, taskVars, runnerVars, history
<1>3. CASE PushTarget(c) \in Runners
  <2> DEFINE k == PushTarget(c)
  <2>1. /\ rqueue' = [rqueue EXCEPT ![k] = Append(rqueue[k], ctask[c])]
        /\ ctask' = [ctask EXCEPT ![c] = NoTask]
        /\ scan' = [scan EXCEPT ![c] = NoScan] /\ UNCHANGED crash
    BY <1>3 DEF Push
  <2>2. k \in Runners
    BY <1>3
  <2> HIDE DEF k
  <2>3. /\ rqueue \in [Runners -> Seq(Tasks)] /\ IsInjective(rqueue[k])
        /\ ctask[c] \notin Range(rqueue[k])
    BY <2>2 DEF IInv, TypeOK, Disjoint, Held
  <2>4. rqueue'[k] = Append(rqueue[k], ctask[c]) /\ rqueue[k] \in Seq(Tasks)
    BY <2>1, <2>2, <2>3
  <2>5. \A r \in Runners \ {k} : rqueue'[r] = rqueue[r]
    BY <2>1, <2>2, <2>3
  <2>6. IsInjective(rqueue'[k]) /\ Range(rqueue'[k]) = Range(rqueue[k]) \cup {ctask[c]}
    BY <1>1, <2>3, <2>4, PushFacts
  <2>7. Range(rqueue'[k]) = Held(k) \cup {ctask[c]}
    BY <2>6 DEF Held
  <2>8. k = PushTarget(c)
    BY DEF k
  <2>9. QED
    BY <1>1, <1>2, <2>1, <2>2, <2>5, <2>6, <2>7, <2>8
<1>4. CASE PushTarget(c) \notin Runners
  <2>1. crash' = "out_of_range" /\ UNCHANGED <<rqueue, ctask, scan>>
    BY <1>4 DEF Push, callVars
  <2>2. scan[c].cand \in Runners
    <3>1. scan[c].cand \in 0 .. RunnerCount /\ scan[c].cand # 0
      BY <1>1, SchedulerAssumption DEF IInv, Places, TypeOK, Scans
    <3>2. QED
      BY <3>1, SchedulerAssumption DEF Runners
  <2>3. ctask[c] \notin Affinity
    BY <1>4, <2>2 DEF PushTarget
  <2>4. QED
    BY <1>1, <1>2, <2>1, <2>3
<1>5. QED
  BY <1>3, <1>4

\* finish() passes the front of a runner's queue to the scheduler.
LEMMA DrainMoves ==
    ASSUME IInv, Drain
    PROVE  /\ joining \in Runners
           /\ \E h \in Tasks :
                 /\ h \in Held(joining)
                 /\ IsInjective(queue') /\ Queued' = Queued \cup {h}
                 /\ IsInjective(rqueue'[joining])
                 /\ Range(rqueue'[joining]) = Held(joining) \ {h}
           /\ \A r \in Runners \ {joining} : rqueue'[r] = rqueue[r]
           /\ UNCHANGED <<rtask, ctask, scan, last, state, scheduled, joining>>
<1> DEFINE h == Head(rqueue[joining])
<1>1. /\ joining \in Runners /\ rqueue \in [Runners -> Seq(Tasks)] /\ rqueue[joining] # <<>>
      /\ queue \in Seq(Tasks) /\ IsInjective(queue) /\ IsInjective(rqueue[joining])
      /\ Queued \cap Held(joining) = {}
  BY DEF IInv, Places, TypeOK, Disjoint, Drain
<1>2. /\ queue' = Append(queue, h) /\ rqueue' = [rqueue EXCEPT ![joining] = Tail(rqueue[joining])]
      /\ UNCHANGED <<rtask, ctask, scan, last, state, scheduled, joining>>
  BY DEF Drain, taskVars, runnerVars, callVars, history
<1>3. rqueue[joining] \in Seq(Tasks) /\ rqueue'[joining] = Tail(rqueue[joining])
      /\ \A r \in Runners \ {joining} : rqueue'[r] = rqueue[r]
  BY <1>1, <1>2
<1>4. /\ h \in Tasks /\ h \in Held(joining) /\ IsInjective(rqueue'[joining])
      /\ Range(rqueue'[joining]) = Held(joining) \ {h}
  BY <1>1, <1>3, PopFacts DEF Held
<1> HIDE DEF h
<1>5. h \notin Range(queue)
  BY <1>1, <1>4 DEF Queued
<1>6. IsInjective(queue') /\ Queued' = Queued \cup {h}
  BY <1>1, <1>2, <1>4, <1>5, PushFacts DEF Queued
<1>7. QED
  BY <1>1, <1>2, <1>3, <1>4, <1>6

\* finish() takes the front of the queue and finishes it.
LEMMA FinishTaskMoves ==
    ASSUME IInv, FinishTask
    PROVE  /\ Head(queue) \in Queued /\ Head(queue) \in Tasks
           /\ IsInjective(queue') /\ Queued' = Queued \ {Head(queue)}
           /\ state' = [state EXCEPT ![Head(queue)] = "finished"]
           /\ UNCHANGED <<rqueue, rtask, ctask, scan, last, scheduled>>
<1>1. queue \in Seq(Tasks) /\ IsInjective(queue) /\ queue # <<>> /\ queue' = Tail(queue)
      /\ UNCHANGED <<rqueue, rtask, ctask, scan, last, scheduled>>
  BY DEF IInv, TypeOK, Disjoint, FinishTask, runnerVars, callVars, history
<1>2. /\ Head(queue) \in Queued /\ Head(queue) \in Tasks
      /\ IsInjective(queue') /\ Queued' = Queued \ {Head(queue)}
  BY <1>1, PopFacts DEF Queued
<1>3. state[Head(queue)] \in {"ready", "finished"} /\ state \in [Tasks -> States]
  BY <1>2 DEF IInv, TypeOK, Accounted, Somewhere
<1>4. state' = [state EXCEPT ![Head(queue)] = "finished"]
  BY <1>2, <1>3 DEF FinishTask
<1>5. QED
  BY <1>1, <1>2, <1>4

\* A runner takes the front of its queue in hand.
LEMMA PopTaskMoves ==
    ASSUME IInv, NEW r \in Runners, PopTask(r)
    PROVE  /\ rtask[r] = NoTask
           /\ \E h \in Tasks :
                 /\ h \in Held(r) /\ rtask' = [rtask EXCEPT ![r] = h]
                 /\ IsInjective(rqueue'[r]) /\ Range(rqueue'[r]) = Held(r) \ {h}
           /\ \A s \in Runners \ {r} : rqueue'[s] = rqueue[s]
           /\ UNCHANGED <<queue, ctask, scan, last, state, scheduled>>
<1> DEFINE h == Head(rqueue[r])
<1>1. /\ rqueue \in [Runners -> Seq(Tasks)] /\ rqueue[r] # <<>>
      /\ IsInjective(rqueue[r]) /\ rtask[r] = NoTask
  BY DEF IInv, Places, TypeOK, Disjoint, PopTask
<1>2. /\ rtask' = [rtask EXCEPT ![r] = h]
      /\ rqueue' = [rqueue EXCEPT ![r] = Tail(rqueue[r])]
      /\ UNCHANGED <<queue, ctask, scan, last, state, scheduled>>
  BY DEF PopTask, taskVars, callVars, history
<1>3. rqueue[r] \in Seq(Tasks) /\ rqueue'[r] = Tail(rqueue[r])
      /\ \A s \in Runners \ {r} : rqueue'[s] = rqueue[s]
  BY <1>1, <1>2
<1>4. /\ h \in Tasks /\ h \in Held(r) /\ IsInjective(rqueue'[r])
      /\ Range(rqueue'[r]) = Held(r) \ {h}
  BY <1>1, <1>3, PopFacts DEF Held
<1> HIDE DEF h
<1>5. QED
  BY <1>1, <1>2, <1>3, <1>4

\* A runner passes the task in hand to the scheduler's queue.
LEMMA PassMoves ==
    ASSUME IInv, NEW r \in Runners, Pass(r)
    PROVE  /\ rtask[r] \in Tasks
           /\ IsInjective(queue') /\ Queued' = Queued \cup {rtask[r]}
           /\ rtask' = [rtask EXCEPT ![r] = NoTask]
           /\ UNCHANGED <<rqueue, ctask, scan, last, state, scheduled>>
<1>1. queue \in Seq(Tasks) /\ IsInjective(queue) /\ rtask[r] \in Tasks /\ rtask[r] \notin Range(queue)
  BY DEF IInv, Places, TypeOK, Disjoint, Pass, Queued
<1>2. /\ queue' = Append(queue, rtask[r]) /\ rtask' = [rtask EXCEPT ![r] = NoTask]
      /\ UNCHANGED <<rqueue, ctask, scan, last, state, scheduled>>
  BY DEF Pass, taskVars, callVars, history
<1>3. QED
  BY <1>1, <1>2, PushFacts DEF Queued

\* The other operations move nothing.
LEMMA OthersMoveNothing ==
    ASSUME [Next]_vars,
           \A c \in Callers, t \in Tasks, ok \in BOOLEAN : ~schedule(c, t, ok),
           \A c \in Callers : ~RunPop(c) /\ ~Push(c),
           ~Drain, ~FinishTask,
           \A r \in Runners : ~PopTask(r) /\ ~Pass(r)
    PROVE  NothingMoves /\ UNCHANGED scheduled
BY DEF NothingMoves, Next, Running, Over, RunSchedule, FinishStep, RunnerStep, Start, TaskStart,
   execute, RunReturn, Scan, finish, Join, Drained, FinishReturn, LoopTop, PopNothing,
   ExecuteTask, FinishItself, vars, taskVars, runnerVars, callVars, history

-----------------------------------------------------------------------------
(* No step puts a task in two places.                                      *)

\* Every step keeps the places of tasks apart.
LEMMA DisjointStep == ASSUME IInv, [Next]_vars PROVE Disjoint'
<1>t. /\ TypeOK /\ Disjoint /\ NoTask \notin Tasks
      /\ ctask \in [Callers -> Tasks \cup {NoTask}] /\ rtask \in [Runners -> Tasks \cup {NoTask}]
  BY SchedulerAssumption DEF IInv, TypeOK
<1>q. Queued \subseteq Tasks /\ NoTask \notin Queued
      /\ \A r \in Runners : Held(r) \subseteq Tasks /\ NoTask \notin Held(r)
  BY <1>t, QueuesHoldTasks
<1>1. ASSUME NEW c \in Callers, NEW t \in Tasks, NEW ok \in BOOLEAN, schedule(c, t, ok)
      PROVE  Disjoint'
  <2>1. UNCHANGED <<rqueue, rtask, ctask>> /\ ~Somewhere(t)
    BY <1>1, ScheduleMoves
  <2>2. \A r \in Runners : Held(r)' = Held(r)
    BY <2>1 DEF Held
  <2>3. CASE UNCHANGED queue
    BY <1>t, <2>1, <2>2, <2>3 DEF Disjoint, Queued
  <2>4. CASE IsInjective(queue') /\ Queued' = Queued \cup {t}
    BY <1>t, <2>1, <2>2, <2>4 DEF Disjoint, Somewhere
  <2>5. QED
    BY <1>1, <2>3, <2>4, ScheduleMoves
<1>2. ASSUME NEW c \in Callers, RunPop(c) PROVE Disjoint'
  <2> DEFINE h == Head(queue)
  <2>1. /\ h \in Queued /\ h \in Tasks /\ ctask[c] = NoTask
        /\ IsInjective(queue') /\ Queued' = Queued \ {h}
        /\ ctask' = [ctask EXCEPT ![c] = h] /\ UNCHANGED <<rqueue, rtask>>
    BY <1>2, RunPopMoves
  <2> HIDE DEF h
  <2>2. \A r \in Runners : Held(r)' = Held(r)
    BY <2>1 DEF Held
  <2>3. ctask'[c] = h /\ \A d \in Callers : d # c => ctask'[d] = ctask[d]
    BY <1>t, <2>1
  <2>4. QED
    BY <1>t, <1>q, <2>1, <2>2, <2>3 DEF Disjoint
<1>3. ASSUME NEW c \in Callers, Push(c) PROVE Disjoint'
  <2>1. CASE UNCHANGED <<rqueue, ctask>>
    <3>1. UNCHANGED <<queue, rtask>>
      BY <1>3, PushMoves
    <3>2. QED
      BY <1>t, <2>1, <3>1 DEF Disjoint, Queued, Held
  <2>2. ASSUME NEW k \in Runners,
               IsInjective(rqueue'[k]), Range(rqueue'[k]) = Held(k) \cup {ctask[c]},
               \A r \in Runners \ {k} : rqueue'[r] = rqueue[r],
               ctask' = [ctask EXCEPT ![c] = NoTask]
        PROVE  Disjoint'
    <3>1. UNCHANGED <<queue, rtask>> /\ ctask[c] \in Tasks
      BY <1>3, PushMoves
    <3>2. Queued' = Queued /\ Held(k)' = Held(k) \cup {ctask[c]}
          /\ \A r \in Runners \ {k} : Held(r)' = Held(r)
      BY <2>2, <3>1 DEF Queued, Held
    <3>3. ctask'[c] = NoTask /\ \A d \in Callers : d # c => ctask'[d] = ctask[d]
      BY <1>t, <2>2
    <3>4. NoTask \notin Queued' /\ \A r \in Runners : NoTask \notin Held(r)'
      BY <1>t, <1>q, <3>1, <3>2
    <3>5. \A r \in Runners : IsInjective(rqueue'[r])
      BY <1>t, <2>2 DEF Disjoint
    <3>6. QED
      BY <1>t, <3>1, <3>2, <3>3, <3>4, <3>5 DEF Disjoint
  <2>3. QED
    BY <1>3, <2>1, <2>2, PushMoves
<1>4. CASE Drain
  <2>1. /\ joining \in Runners /\ UNCHANGED <<rtask, ctask>>
        /\ \A r \in Runners \ {joining} : rqueue'[r] = rqueue[r]
    BY <1>4, DrainMoves
  <2>2. PICK h \in Tasks :
                 /\ h \in Held(joining)
                 /\ IsInjective(queue') /\ Queued' = Queued \cup {h}
                 /\ IsInjective(rqueue'[joining])
                 /\ Range(rqueue'[joining]) = Held(joining) \ {h}
    BY <1>4, DrainMoves
  <2>3. \A r \in Runners : Held(r)' = IF r = joining THEN Held(r) \ {h} ELSE Held(r)
    BY <2>1, <2>2 DEF Held
  <2>4. \A r \in Runners : IsInjective(rqueue'[r])
    BY <1>t, <2>1, <2>2 DEF Disjoint
  <2>5. QED
    BY <1>t, <2>1, <2>2, <2>3, <2>4 DEF Disjoint
<1>5. CASE FinishTask
  <2>1. /\ IsInjective(queue') /\ Queued' = Queued \ {Head(queue)}
        /\ UNCHANGED <<rqueue, rtask, ctask>>
    BY <1>5, FinishTaskMoves
  <2>2. \A r \in Runners : Held(r)' = Held(r)
    BY <2>1 DEF Held
  <2>3. QED
    BY <1>t, <2>1, <2>2 DEF Disjoint
<1>6. ASSUME NEW r \in Runners, PopTask(r) PROVE Disjoint'
  <2>1. /\ rtask[r] = NoTask /\ UNCHANGED <<queue, ctask>>
        /\ \A s \in Runners \ {r} : rqueue'[s] = rqueue[s]
    BY <1>6, PopTaskMoves
  <2>2. PICK h \in Tasks :
                 /\ h \in Held(r) /\ rtask' = [rtask EXCEPT ![r] = h]
                 /\ IsInjective(rqueue'[r]) /\ Range(rqueue'[r]) = Held(r) \ {h}
    BY <1>6, PopTaskMoves
  <2>3. Queued' = Queued /\ \A s \in Runners : Held(s)' = IF s = r THEN Held(s) \ {h} ELSE Held(s)
    BY <2>1, <2>2 DEF Held, Queued
  <2>4. \A s \in Runners : IsInjective(rqueue'[s])
    BY <1>t, <2>1, <2>2 DEF Disjoint
  <2>5. rtask'[r] = h /\ \A s \in Runners : s # r => rtask'[s] = rtask[s]
    BY <1>t, <2>2
  <2>6. QED
    BY <1>t, <1>q, <2>1, <2>2, <2>3, <2>4, <2>5 DEF Disjoint
<1>7. ASSUME NEW r \in Runners, Pass(r) PROVE Disjoint'
  <2>1. /\ rtask[r] \in Tasks /\ IsInjective(queue') /\ Queued' = Queued \cup {rtask[r]}
        /\ rtask' = [rtask EXCEPT ![r] = NoTask] /\ UNCHANGED <<rqueue, ctask>>
    BY <1>7, PassMoves
  <2>2. \A s \in Runners : Held(s)' = Held(s)
    BY <2>1 DEF Held
  <2>3. rtask'[r] = NoTask /\ \A s \in Runners : s # r => rtask'[s] = rtask[s]
    BY <1>t, <2>1
  <2>4. QED
    BY <1>t, <1>q, <2>1, <2>2, <2>3 DEF Disjoint
<1>8. CASE NothingMoves
  BY <1>t, <1>8 DEF NothingMoves, Disjoint, Queued, Held
<1>9. QED
  BY <1>1, <1>2, <1>3, <1>4, <1>5, <1>6, <1>7, <1>8, OthersMoveNothing

-----------------------------------------------------------------------------
(* No step drops a scheduled task.                                         *)

\* A step that moves tasks without taking any away, starting or finishing one.
LEMMA AccountedKept ==
    ASSUME IInv, UNCHANGED <<state, scheduled>>, \A t \in Tasks : Somewhere(t)' <=> Somewhere(t)
    PROVE  Accounted'
<1>1. Accounted /\ scheduled \subseteq Tasks
  BY DEF IInv, TypeOK
<1>2. QED
  BY <1>1 DEF Accounted

\* Every step keeps the tasks accounted for.
LEMMA AccountedStep == ASSUME IInv, [Next]_vars PROVE Accounted'
<1>t. /\ Disjoint /\ Accounted /\ Places
      /\ state \in [Tasks -> States] /\ scheduled \subseteq Tasks
      /\ ctask \in [Callers -> Tasks \cup {NoTask}] /\ rtask \in [Runners -> Tasks \cup {NoTask}]
      /\ NoTask \notin Tasks
  BY SchedulerAssumption DEF IInv, TypeOK
<1>1. ASSUME NEW c \in Callers, NEW t \in Tasks, NEW ok \in BOOLEAN, schedule(c, t, ok)
      PROVE  Accounted'
  <2>1. UNCHANGED <<rqueue, rtask, ctask>> /\ ~Somewhere(t)
    BY <1>1, ScheduleMoves
  <2>2. \A r \in Runners : Held(r)' = Held(r)
    BY <2>1 DEF Held
  <2>3. CASE UNCHANGED <<queue, state, scheduled>>
    <3>1. \A x \in Tasks : Somewhere(x)' <=> Somewhere(x)
      BY <2>1, <2>2, <2>3 DEF Somewhere, Queued
    <3>2. QED
      BY <2>3, <3>1, AccountedKept
  <2>4. CASE /\ Queued' = Queued \cup {t} /\ scheduled' = scheduled \cup {t}
             /\ state' = [state EXCEPT ![t] = "ready"]
    <3>1. \A x \in Tasks : Somewhere(x)' <=> Somewhere(x) \/ x = t
      BY <2>1, <2>2, <2>4 DEF Somewhere
    <3>2. state'[t] = "ready" /\ \A x \in Tasks : x # t => state'[x] = state[x]
      BY <1>t, <2>4
    <3>3. QED
      BY <1>t, <2>4, <3>1, <3>2 DEF Accounted
  <2>5. QED
    BY <1>1, <2>3, <2>4, ScheduleMoves
<1>2. ASSUME NEW c \in Callers, RunPop(c) PROVE Accounted'
  <2> DEFINE h == Head(queue)
  <2>1. /\ h \in Queued /\ ctask[c] = NoTask /\ Queued' = Queued \ {h}
        /\ ctask' = [ctask EXCEPT ![c] = h] /\ UNCHANGED <<rqueue, rtask, state, scheduled>>
    BY <1>2, RunPopMoves
  <2> HIDE DEF h
  <2>2. \A r \in Runners : Held(r)' = Held(r)
    BY <2>1 DEF Held
  <2>3. ctask'[c] = h /\ \A d \in Callers : d # c => ctask'[d] = ctask[d]
    BY <1>t, <2>1
  <2>4. \A x \in Tasks : Somewhere(x)' <=> Somewhere(x)
    BY <1>t, <2>1, <2>2, <2>3 DEF Somewhere
  <2>5. QED
    BY <2>1, <2>4, AccountedKept
<1>3. ASSUME NEW c \in Callers, Push(c) PROVE Accounted'
  <2>1. UNCHANGED <<queue, rtask, state, scheduled>> /\ ctask[c] \in Tasks
    BY <1>3, PushMoves
  <2>2. CASE UNCHANGED <<rqueue, ctask>>
    <3>1. \A x \in Tasks : Somewhere(x)' <=> Somewhere(x)
      BY <2>1, <2>2 DEF Somewhere, Queued, Held
    <3>2. QED
      BY <2>1, <3>1, AccountedKept
  <2>3. ASSUME NEW k \in Runners,
               Range(rqueue'[k]) = Held(k) \cup {ctask[c]},
               \A r \in Runners \ {k} : rqueue'[r] = rqueue[r],
               ctask' = [ctask EXCEPT ![c] = NoTask]
        PROVE  Accounted'
    <3>1. Queued' = Queued /\ Held(k)' = Held(k) \cup {ctask[c]}
          /\ \A r \in Runners \ {k} : Held(r)' = Held(r)
      BY <2>1, <2>3 DEF Queued, Held
    <3>2. ctask'[c] = NoTask /\ \A d \in Callers : d # c => ctask'[d] = ctask[d]
      BY <1>t, <2>3
    <3>3. \A x \in Tasks : Somewhere(x)' <=> Somewhere(x)
      BY <1>t, <2>1, <3>1, <3>2 DEF Somewhere
    <3>4. QED
      BY <2>1, <3>3, AccountedKept
  <2>4. QED
    BY <1>3, <2>2, <2>3, PushMoves
<1>4. CASE Drain
  <2>1. /\ joining \in Runners /\ UNCHANGED <<rtask, ctask, state, scheduled>>
        /\ \A r \in Runners \ {joining} : rqueue'[r] = rqueue[r]
    BY <1>4, DrainMoves
  <2>2. PICK h \in Tasks :
                 /\ h \in Held(joining) /\ Queued' = Queued \cup {h}
                 /\ Range(rqueue'[joining]) = Held(joining) \ {h}
    BY <1>4, DrainMoves
  <2>3. \A r \in Runners : Held(r)' = IF r = joining THEN Held(r) \ {h} ELSE Held(r)
    BY <2>1, <2>2 DEF Held
  <2>4. \A x \in Tasks : Somewhere(x)' <=> Somewhere(x)
    BY <2>1, <2>2, <2>3 DEF Somewhere
  <2>5. QED
    BY <2>1, <2>4, AccountedKept
<1>5. CASE FinishTask
  <2> DEFINE h == Head(queue)
  <2>1. /\ h \in Queued /\ h \in Tasks /\ Queued' = Queued \ {h}
        /\ state' = [state EXCEPT ![h] = "finished"]
        /\ UNCHANGED <<rqueue, rtask, ctask, scheduled>>
    BY <1>5, FinishTaskMoves
  <2> HIDE DEF h
  <2>2. \A r \in Runners : Held(r)' = Held(r)
    BY <2>1 DEF Held
  <2>3. \A x \in Tasks : Somewhere(x)' <=> Somewhere(x) /\ x # h
    BY <1>t, <2>1, <2>2 DEF Somewhere, Disjoint
  <2>4. state'[h] = "finished" /\ \A x \in Tasks : x # h => state'[x] = state[x]
    BY <1>t, <2>1
  <2>5. QED
    BY <1>t, <2>1, <2>3, <2>4 DEF Accounted
<1>6. ASSUME NEW r \in Runners, PopTask(r) PROVE Accounted'
  <2>1. /\ rtask[r] = NoTask /\ UNCHANGED <<queue, ctask, state, scheduled>>
        /\ \A s \in Runners \ {r} : rqueue'[s] = rqueue[s]
    BY <1>6, PopTaskMoves
  <2>2. PICK h \in Tasks :
                 /\ h \in Held(r) /\ rtask' = [rtask EXCEPT ![r] = h]
                 /\ Range(rqueue'[r]) = Held(r) \ {h}
    BY <1>6, PopTaskMoves
  <2>3. Queued' = Queued /\ \A s \in Runners : Held(s)' = IF s = r THEN Held(s) \ {h} ELSE Held(s)
    BY <2>1, <2>2 DEF Held, Queued
  <2>4. rtask'[r] = h /\ \A s \in Runners : s # r => rtask'[s] = rtask[s]
    BY <1>t, <2>2
  <2>5. \A x \in Tasks : Somewhere(x)' <=> Somewhere(x)
    BY <1>t, <2>1, <2>2, <2>3, <2>4 DEF Somewhere
  <2>6. QED
    BY <2>1, <2>5, AccountedKept
<1>7. ASSUME NEW r \in Runners, Pass(r) PROVE Accounted'
  <2>1. /\ rtask[r] \in Tasks /\ Queued' = Queued \cup {rtask[r]}
        /\ rtask' = [rtask EXCEPT ![r] = NoTask] /\ UNCHANGED <<rqueue, ctask, state, scheduled>>
    BY <1>7, PassMoves
  <2>2. \A s \in Runners : Held(s)' = Held(s)
    BY <2>1 DEF Held
  <2>3. rtask'[r] = NoTask /\ \A s \in Runners : s # r => rtask'[s] = rtask[s]
    BY <1>t, <2>1
  <2>4. \A x \in Tasks : Somewhere(x)' <=> Somewhere(x)
    BY <1>t, <2>1, <2>2, <2>3 DEF Somewhere
  <2>5. QED
    BY <2>1, <2>4, AccountedKept
<1>8. ASSUME NothingMoves PROVE \A x \in Tasks : Somewhere(x)' <=> Somewhere(x)
  BY <1>8 DEF NothingMoves, Somewhere, Queued, Held
<1>9. ASSUME NEW t \in Tasks, TaskStart(t) PROVE Accounted'
  <2>1. t \notin scheduled /\ NothingMoves /\ UNCHANGED scheduled
        /\ state' = [state EXCEPT ![t] = "ready"]
    BY <1>9 DEF TaskStart, NothingMoves, runnerVars, callVars, history
  <2>2. \A x \in Tasks : x # t => state'[x] = state[x]
    BY <1>t, <2>1
  <2>3. ~Somewhere(t)
    BY <1>t, <2>1 DEF Accounted
  <2>4. QED
    BY <1>t, <1>8, <2>1, <2>2, <2>3 DEF Accounted
<1>10. ASSUME NEW r \in Runners, FinishItself(r) PROVE Accounted'
  <2>1. rtask[r] \in SelfFinish /\ rtask[r] \in Tasks /\ NothingMoves /\ UNCHANGED scheduled
        /\ state' = [state EXCEPT ![rtask[r]] = "finished"]
    BY <1>10, SchedulerAssumption DEF FinishItself, NothingMoves, runnerVars, callVars, history
  <2>2. state'[rtask[r]] = "finished" /\ \A x \in Tasks : x # rtask[r] => state'[x] = state[x]
    BY <1>t, <2>1
  <2>3. QED
    BY <1>t, <1>8, <2>1, <2>2 DEF Accounted
<1>11. CASE NothingMoves /\ UNCHANGED <<state, scheduled>>
  BY <1>8, <1>11, AccountedKept
<1>12. CASE /\ \A c \in Callers, t \in Tasks, ok \in BOOLEAN : ~schedule(c, t, ok)
            /\ \A c \in Callers : ~RunPop(c) /\ ~Push(c)
            /\ ~Drain /\ ~FinishTask
            /\ \A r \in Runners : ~PopTask(r) /\ ~Pass(r) /\ ~FinishItself(r)
            /\ \A t \in Tasks : ~TaskStart(t)
  <2>1. NothingMoves /\ UNCHANGED scheduled
    BY <1>12, OthersMoveNothing
  <2>2. UNCHANGED state
    BY <1>12 DEF Next, Running, Over, RunSchedule, FinishStep, RunnerStep, Start,
       execute, RunReturn, Scan, finish, Join, Drained, FinishReturn, LoopTop, PopNothing,
       ExecuteTask, vars, taskVars
  <2>3. QED
    BY <1>11, <2>1, <2>2
<1>13. QED
  BY <1>1, <1>2, <1>3, <1>4, <1>5, <1>6, <1>7, <1>9, <1>10, <1>12

-----------------------------------------------------------------------------
(* Tasks with affinity.                                                    *)

\* Every step keeps a task with affinity bound to its runner.
LEMMA PinnedStep == ASSUME IInv, [Next]_vars PROVE Pinned'
<1>t. /\ Disjoint /\ Accounted /\ Places /\ Pinned
      /\ Affinity \subseteq Tasks /\ NoTask \notin Tasks
      /\ last \in [Tasks -> 0 .. RunnerCount] /\ scan \in [Callers -> Scans]
      /\ ctask \in [Callers -> Tasks \cup {NoTask}] /\ rtask \in [Runners -> Tasks \cup {NoTask}]
  BY SchedulerAssumption DEF IInv, TypeOK
<1>1. ASSUME NEW c \in Callers, NEW t \in Tasks, NEW ok \in BOOLEAN, schedule(c, t, ok)
      PROVE  Pinned'
  <2>1. UNCHANGED <<rqueue, rtask, ctask, last, scan>>
    BY <1>1, ScheduleMoves
  <2>2. QED
    BY <1>t, <2>1 DEF Pinned, Held
<1>2. ASSUME NEW c \in Callers, RunPop(c) PROVE Pinned'
  <2> DEFINE h == Head(queue)
  <2>1. /\ h \in Queued /\ h \in Tasks /\ ctask[c] = NoTask
        /\ ctask' = [ctask EXCEPT ![c] = h] /\ UNCHANGED <<rqueue, rtask, last>>
    BY <1>2, RunPopMoves
  <2>2. \A r \in Runners : Held(r)' = Held(r)
    BY <2>1 DEF Held
  <2>3. ctask'[c] = h /\ \A d \in Callers : d # c => ctask'[d] = ctask[d] /\ scan'[d] = scan[d]
    BY <1>2, <1>t, <2>1 DEF RunPop
  <2>4. h \in Affinity /\ last[h] # 0 =>
           scan'[c].next = RunnerCount + 1 /\ scan'[c].cand = last[h]
    BY <1>2, <1>t DEF RunPop
  <2> HIDE DEF h
  <2>5. QED
    BY <1>t, <2>1, <2>2, <2>3, <2>4 DEF Pinned
<1>3. ASSUME NEW c \in Callers, Push(c) PROVE Pinned'
  <2>1. UNCHANGED <<rtask, last>> /\ ctask[c] \in Tasks
    BY <1>3, PushMoves
  <2>2. CASE UNCHANGED <<rqueue, ctask, scan>>
    BY <1>t, <2>1, <2>2 DEF Pinned, Held
  <2>3. ASSUME NEW k \in Runners, k = PushTarget(c),
               Range(rqueue'[k]) = Held(k) \cup {ctask[c]},
               \A r \in Runners \ {k} : rqueue'[r] = rqueue[r],
               ctask' = [ctask EXCEPT ![c] = NoTask], scan' = [scan EXCEPT ![c] = NoScan]
        PROVE  Pinned'
    <3>1. Held(k)' = Held(k) \cup {ctask[c]} /\ \A r \in Runners \ {k} : Held(r)' = Held(r)
      BY <2>3 DEF Held
    <3>2. /\ ctask'[c] = NoTask
          /\ \A d \in Callers : d # c => ctask'[d] = ctask[d] /\ scan'[d] = scan[d]
      BY <1>t, <2>3
    <3>3. ctask[c] \in Affinity /\ last[ctask[c]] # 0 => k = last[ctask[c]]
      BY <1>t, <2>3 DEF Pinned, PushTarget
    <3>4. QED
      BY <1>t, <2>1, <3>1, <3>2, <3>3 DEF Pinned
  <2>4. QED
    BY <1>3, <2>2, <2>3, PushMoves
<1>4. CASE Drain
  <2>1. /\ joining \in Runners /\ UNCHANGED <<rtask, ctask, scan, last>>
        /\ \A r \in Runners \ {joining} : rqueue'[r] = rqueue[r]
    BY <1>4, DrainMoves
  <2>2. PICK h \in Tasks : Range(rqueue'[joining]) = Held(joining) \ {h}
    BY <1>4, DrainMoves
  <2>3. \A r \in Runners : Held(r)' \subseteq Held(r)
    BY <2>1, <2>2 DEF Held
  <2>4. QED
    BY <1>t, <2>1, <2>3 DEF Pinned
<1>5. CASE FinishTask
  <2>1. UNCHANGED <<rqueue, rtask, ctask, scan, last>>
    BY <1>5, FinishTaskMoves
  <2>2. QED
    BY <1>t, <2>1 DEF Pinned, Held
<1>6. ASSUME NEW r \in Runners, PopTask(r) PROVE Pinned'
  <2>1. /\ UNCHANGED <<ctask, scan, last>>
        /\ \A s \in Runners \ {r} : rqueue'[s] = rqueue[s]
    BY <1>6, PopTaskMoves
  <2>2. PICK h \in Tasks :
                 /\ h \in Held(r) /\ rtask' = [rtask EXCEPT ![r] = h]
                 /\ Range(rqueue'[r]) = Held(r) \ {h}
    BY <1>6, PopTaskMoves
  <2>3. \A s \in Runners : Held(s)' \subseteq Held(s)
    BY <2>1, <2>2 DEF Held
  <2>4. rtask'[r] = h /\ \A s \in Runners : s # r => rtask'[s] = rtask[s]
    BY <1>t, <2>2
  <2>5. QED
    BY <1>t, <2>1, <2>2, <2>3, <2>4 DEF Pinned
<1>7. ASSUME NEW r \in Runners, Pass(r) PROVE Pinned'
  <2>1. rtask' = [rtask EXCEPT ![r] = NoTask] /\ UNCHANGED <<rqueue, ctask, scan, last>>
    BY <1>7, PassMoves
  <2>2. \A s \in Runners : Held(s)' = Held(s)
    BY <2>1 DEF Held
  <2>3. rtask'[r] = NoTask /\ \A s \in Runners : s # r => rtask'[s] = rtask[s]
    BY <1>t, <2>1
  <2>4. QED
    BY <1>t, <2>1, <2>2, <2>3 DEF Pinned
<1>8. ASSUME NEW c \in Callers, Scan(c) PROVE Pinned'
  <2>1. UNCHANGED <<rqueue, rtask, ctask, last>> /\ scan[c].next # RunnerCount + 1
        /\ \A d \in Callers : d # c => scan'[d] = scan[d]
    BY <1>8, <1>t, SchedulerAssumption DEF Scan, Runners, taskVars, runnerVars
  <2>2. ctask[c] \in Affinity => last[ctask[c]] = 0
    BY <1>t, <2>1 DEF Pinned
  <2>3. QED
    BY <1>t, <2>1, <2>2 DEF Pinned, Held
<1>9. ASSUME NEW r \in Runners, ExecuteTask(r) PROVE Pinned'
  <2>1. UNCHANGED <<rqueue, rtask, ctask, scan>>
    BY <1>9 DEF ExecuteTask, callVars
  <2>2. CASE last' = last
    BY <1>t, <2>1, <2>2 DEF Pinned, Held
  <2>3. CASE last' = [last EXCEPT ![rtask[r]] = r]
    <3>1. rtask[r] \in Tasks
      BY <1>9, <1>t DEF ExecuteTask, Places
    <3>2. last'[rtask[r]] = r /\ \A x \in Tasks : x # rtask[r] => last'[x] = last[x]
      BY <1>t, <2>3, <3>1
    <3>3. /\ \A s \in Runners : rtask[r] \notin Held(s)
          /\ \A s \in Runners : rtask[s] = rtask[r] => s = r
          /\ \A c \in Callers : ctask[c] # rtask[r]
      BY <1>t, <3>1 DEF Disjoint
    <3>4. \A s \in Runners : Held(s)' = Held(s)
      BY <2>1 DEF Held
    <3>5. QED
      BY <1>t, <2>1, <3>2, <3>3, <3>4 DEF Pinned
  <2>4. QED
    BY <1>9, <2>2, <2>3 DEF ExecuteTask
<1>10. CASE /\ \A c \in Callers, t \in Tasks, ok \in BOOLEAN : ~schedule(c, t, ok)
            /\ \A c \in Callers : ~RunPop(c) /\ ~Push(c) /\ ~Scan(c)
            /\ ~Drain /\ ~FinishTask
            /\ \A r \in Runners : ~PopTask(r) /\ ~Pass(r) /\ ~ExecuteTask(r)
  <2>1. NothingMoves
    BY <1>10, OthersMoveNothing
  <2>2. UNCHANGED <<last, scan>>
    BY <1>10 DEF Next, Running, Over, RunSchedule, FinishStep, RunnerStep, Start, TaskStart,
       execute, RunReturn, finish, Join, Drained, FinishReturn, LoopTop, PopNothing,
       FinishItself, vars, taskVars, callVars
  <2>3. QED
    BY <1>t, <2>1, <2>2 DEF Pinned, Held, NothingMoves
<1>11. QED
  BY <1>1, <1>2, <1>3, <1>4, <1>5, <1>6, <1>7, <1>8, <1>9, <1>10

\* Every step keeps what the exceptions of task::execute() say.
LEMMA ThrowsStep == ASSUME IInv, [Next]_vars PROVE ThrowsOnlySelfFinished'
<1>1. CASE UNCHANGED vars
  BY <1>1 DEF IInv, ThrowsOnlySelfFinished, vars, runnerVars
<1>2. ASSUME crash = "none", NEW r \in Runners, ExecuteTask(r) PROVE ThrowsOnlySelfFinished'
  <2>1. rtask[r] \in Tasks /\ UNCHANGED rtask /\ crash' = Outcome(rtask[r], r)
    BY <1>2 DEF IInv, TypeOK, Places, ExecuteTask
  <2>2. Somewhere(rtask[r])
    BY DEF Somewhere
  <2>3. state[rtask[r]] # "ready" => rtask[r] \in SelfFinish
    BY <2>1, <2>2 DEF IInv, Accounted
  <2>4. rtask[r] \in Affinity => has_right_affinity(rtask[r], r)
    BY DEF IInv, Pinned, has_right_affinity
  <2>5. QED
    BY <2>1, <2>3, <2>4 DEF Outcome, ThrowsOnlySelfFinished
<1>3. CASE /\ crash = "none"
           /\ \A r \in Runners : ~ExecuteTask(r)
           /\ Running
  <2>1. crash' \in {"none", "out_of_range"}
    BY <1>3 DEF Running, RunSchedule, FinishStep, RunnerStep, Start, TaskStart, schedule,
       execute, RunPop, RunReturn, Scan, Push, finish, Join, Drain, Drained, FinishTask,
       FinishReturn, LoopTop, PopNothing, PopTask, FinishItself, Pass
  <2>2. QED
    BY <2>1 DEF ThrowsOnlySelfFinished
<1>4. QED
  BY <1>1, <1>2, <1>3 DEF Next, Over

-----------------------------------------------------------------------------
(* finish().                                                               *)

\* Every step keeps what finish() has achieved.
LEMMA FinishStepKept == ASSUME IInv, [Next]_vars PROVE FinishProgress'
<1> DEFINE F == {"join", "drain", "finish", "done"}
<1>t. /\ Places /\ FinishProgress /\ Main \in Callers /\ RunnerCount \in Nat \ {0}
      /\ joining \in 0 .. RunnerCount
      /\ cpc \in [Callers -> {"idle", "pop", "scan", "join", "drain", "finish", "done"}]
      /\ rpc \in [Runners -> {"off", "loop", "pop", "execute", "running", "exited"}]
  BY SchedulerAssumption DEF IInv, TypeOK
<1>1. CASE Start
  BY <1>1, <1>t DEF Start, FinishProgress, Places, callVars, history
<1>2. ASSUME NEW t \in Tasks, TaskStart(t) PROVE FinishProgress'
  BY <1>2, <1>t DEF TaskStart, FinishProgress, Queued, Held, runnerVars, callVars, history
<1>3. ASSUME NEW c \in Callers, NEW t \in Tasks, NEW ok \in BOOLEAN, schedule(c, t, ok)
      PROVE  FinishProgress'
  <2>1. cpc[c] = "idle" /\ cpc[Main] # "done" /\ overlap' = (overlap \/ Finishing)
    BY <1>3 DEF schedule
  <2>2. cpc'[Main] \in F => cpc[Main] \in {"join", "drain", "finish"}
    BY <1>3, <1>t DEF schedule
  <2>3. cpc'[Main] \in F => overlap'
    BY <2>1, <2>2 DEF Finishing
  <2>4. QED
    BY <2>3 DEF FinishProgress
<1>4. ASSUME NEW c \in Callers, execute(c) PROVE FinishProgress'
  <2>1. cpc[c] = "idle" /\ cpc[Main] # "done" /\ overlap' = (overlap \/ Finishing)
    BY <1>4 DEF execute
  <2>2. cpc'[Main] \in F => cpc[Main] \in {"join", "drain", "finish"}
    BY <1>4, <1>t DEF execute
  <2>3. cpc'[Main] \in F => overlap'
    BY <2>1, <2>2 DEF Finishing
  <2>4. QED
    BY <2>3 DEF FinishProgress
<1>5. ASSUME NEW c \in Callers, RunPop(c) \/ RunReturn(c) \/ Scan(c) \/ Push(c)
      PROVE  FinishProgress'
  <2>1. cpc[c] \in {"pop", "scan"} /\ cpc'[c] \in {"pop", "scan", "idle"} /\ UNCHANGED overlap
        /\ \A d \in Callers : d # c => cpc'[d] = cpc[d]
    BY <1>5, <1>t DEF RunPop, RunReturn, Scan, Push, history, callVars
  <2>2. cpc'[Main] \in F => cpc[Main] \in F /\ c # Main
    BY <1>t, <2>1
  <2>3. cpc'[Main] \in F => overlap
    BY <1>t, <2>1, <2>2 DEF FinishProgress
  <2>4. QED
    BY <2>1, <2>3 DEF FinishProgress
<1>6. CASE finish
  <2>1. /\ cpc' = [cpc EXCEPT ![Main] = "join"] /\ joining' = 1
        /\ overlap' = (overlap \/ \E c \in Callers : cpc[c] # "idle")
    BY <1>6 DEF finish
  <2>2. ~overlap' => \A c \in Callers \ {Main} : cpc'[c] = "idle"
    BY <1>t, <2>1
  <2>3. cpc'[Main] = "join" /\ \A r \in Runners : ~(r < joining')
    BY <1>t, <2>1 DEF Runners
  <2>4. QED
    BY <2>2, <2>3 DEF FinishProgress
<1>7. CASE Join
  BY <1>7, <1>t DEF Join, FinishProgress, Queued, Held, taskVars, runnerVars, history
<1>8. CASE Drain
  <2>1. /\ joining \in Runners /\ UNCHANGED <<joining, cpc, rpc, overlap>> /\ cpc[Main] = "drain"
        /\ \A r \in Runners \ {joining} : rqueue'[r] = rqueue[r]
    BY <1>8, DrainMoves DEF Drain, runnerVars, callVars, history
  <2>2. \A r \in Runners : r < joining => Held(r)' = Held(r)
    BY <2>1 DEF Held, Runners
  <2>3. QED
    BY <1>t, <2>1, <2>2 DEF FinishProgress
<1>9. CASE Drained
  <2>1. /\ joining \in Runners /\ cpc[Main] = "drain" /\ rqueue[joining] = <<>>
        /\ UNCHANGED <<rpc, rqueue, overlap, queue>>
    BY <1>9, <1>t DEF Drained, Places, runnerVars, history
  <2>2. Held(joining) = {}
    BY <2>1 DEF Held, Range
  <2>3. \A r \in Runners : Held(r)' = Held(r)
    BY <2>1 DEF Held
  <2>4. ASSUME ~overlap
        PROVE  /\ \A c \in Callers \ {Main} : cpc[c] = "idle"
               /\ \A r \in Runners : r < joining \/ r = joining => rpc[r] = "exited" /\ Held(r) = {}
    BY <1>t, <2>1, <2>2, <2>4 DEF FinishProgress
  <2>5. CASE joining < RunnerCount
    <3>1. joining' = joining + 1 /\ cpc' = [cpc EXCEPT ![Main] = "join"]
      BY <1>9, <2>5 DEF Drained
    <3>2. \A r \in Runners : r < joining' => r < joining \/ r = joining
      BY <1>t, <2>1, <3>1 DEF Runners
    <3>3. cpc'[Main] = "join" /\ \A c \in Callers \ {Main} : cpc'[c] = cpc[c]
      BY <1>t, <3>1
    <3>4. QED
      BY <2>1, <2>3, <2>4, <3>2, <3>3 DEF FinishProgress
  <2>6. CASE ~(joining < RunnerCount)
    <3>1. cpc' = [cpc EXCEPT ![Main] = "finish"]
      BY <1>9, <2>6 DEF Drained
    <3>2. \A r \in Runners : r < joining \/ r = joining
      BY <1>t, <2>1, <2>6 DEF Runners
    <3>3. cpc'[Main] = "finish" /\ \A c \in Callers \ {Main} : cpc'[c] = cpc[c]
      BY <1>t, <3>1
    <3>4. QED
      BY <2>1, <2>3, <2>4, <3>2, <3>3 DEF FinishProgress
  <2>7. QED
    BY <2>5, <2>6
<1>10. CASE FinishTask
  BY <1>10, <1>t DEF FinishTask, FinishProgress, Held, runnerVars, callVars, history
<1>11. CASE FinishReturn
  <2>1. Queued' = {}
    BY <1>11 DEF FinishReturn, Queued, Range
  <2>2. cpc[Main] = "finish" /\ cpc'[Main] = "done" /\ UNCHANGED <<rqueue, rpc, overlap>>
        /\ \A c \in Callers \ {Main} : cpc'[c] = cpc[c]
    BY <1>11, <1>t DEF FinishReturn, runnerVars, history
  <2>3. QED
    BY <1>t, <2>1, <2>2 DEF FinishProgress, Held
<1>12. ASSUME NEW r \in Runners, LoopTop(r) \/ PopNothing(r) \/ ExecuteTask(r) \/ FinishItself(r)
       PROVE  FinishProgress'
  <2>1. /\ rpc[r] # "exited" /\ UNCHANGED <<rqueue, queue, cpc, joining, overlap>>
        /\ \A s \in Runners : s # r => rpc'[s] = rpc[s]
    BY <1>12, <1>t DEF LoopTop, PopNothing, ExecuteTask, FinishItself, runnerVars, callVars, history
  <2>2. \A s \in Runners : rpc[s] = "exited" => rpc'[s] = "exited"
    BY <2>1
  <2>3. cpc[Main] = "drain" => joining \in Runners
    BY <1>t DEF Places
  <2>4. QED
    BY <1>t, <2>1, <2>2, <2>3 DEF FinishProgress, Held, Queued
<1>13. ASSUME NEW r \in Runners, PopTask(r) PROVE FinishProgress'
  <2>1. /\ rpc[r] = "pop" /\ rpc' = [rpc EXCEPT ![r] = "execute"]
        /\ UNCHANGED <<queue, cpc, joining, overlap>>
        /\ \A s \in Runners \ {r} : rqueue'[s] = rqueue[s]
    BY <1>13, PopTaskMoves DEF PopTask, callVars, history
  <2>2. \A s \in Runners : rpc[s] = "exited" => rpc'[s] = "exited" /\ Held(s)' = Held(s)
    BY <1>t, <2>1 DEF Held
  <2>3. cpc[Main] = "drain" => joining \in Runners
    BY <1>t DEF Places
  <2>4. QED
    BY <1>t, <2>1, <2>2, <2>3 DEF FinishProgress, Queued
<1>14. ASSUME NEW r \in Runners, Pass(r) PROVE FinishProgress'
  <2>1. /\ rpc[r] = "running" /\ UNCHANGED <<rqueue, cpc, joining, overlap>>
        /\ \A s \in Runners : s # r => rpc'[s] = rpc[s]
    BY <1>14, <1>t DEF Pass, callVars, history
  <2>2. \A s \in Runners : rpc[s] = "exited" => rpc'[s] = "exited"
    BY <2>1
  <2>3. cpc[Main] = "drain" => joining \in Runners
    BY <1>t DEF Places
  <2>4. ~overlap => cpc[Main] # "done"
    BY <1>t, <2>1 DEF FinishProgress
  <2>5. QED
    BY <1>t, <2>1, <2>2, <2>3, <2>4 DEF FinishProgress, Held
<1>15. CASE UNCHANGED vars
  BY <1>15, <1>t DEF vars, FinishProgress, Queued, Held, runnerVars, callVars, history
<1>16. QED
  BY <1>1, <1>2, <1>3, <1>4, <1>5, <1>6, <1>7, <1>8, <1>9, <1>10, <1>11, <1>12, <1>13,
     <1>14, <1>15
     DEF Next, Running, Over, RunSchedule, FinishStep, RunnerStep

-----------------------------------------------------------------------------
(* The theorems.                                                           *)

\* The scheduler starts with nothing anywhere.
LEMMA InitIInv == ASSUME Init PROVE IInv
<1> USE SchedulerAssumption
<1>1. TypeOK
  <2>1. <<>> \in Seq(Tasks)
    BY EmptySeq
  <2>2. NoScan \in Scans
    BY DEF Scans, NoScan
  <2>3. 0 \in 0 .. RunnerCount /\ 0 \in 0 .. RunLimit
    OBVIOUS
  <2>4. /\ state \in [Tasks -> States] /\ last \in [Tasks -> 0 .. RunnerCount]
        /\ rqueue \in [Runners -> Seq(Tasks)] /\ rcount \in [Runners -> 0 .. RunLimit]
        /\ stop \in [Runners -> BOOLEAN]
    BY <2>1, <2>3 DEF Init, States
  <2>5. /\ scan \in [Callers -> Scans] /\ ctask \in [Callers -> Tasks \cup {NoTask}]
        /\ rtask \in [Runners -> Tasks \cup {NoTask}]
    BY <2>2 DEF Init
  <2>6. QED
    BY <2>1, <2>3, <2>4, <2>5 DEF Init, TypeOK
<1>2. Places
  BY DEF Init, Places, NoScan, Started
<1>3. /\ Queued = {} /\ \A r \in Runners : Held(r) = {} /\ rtask[r] = NoTask
      /\ \A c \in Callers : ctask[c] = NoTask
  BY DEF Init, Queued, Held, Range
<1>4. IsInjective(queue) /\ \A r \in Runners : IsInjective(rqueue[r])
  BY DEF Init, IsInjective
<1>5. Disjoint
  BY <1>3, <1>4 DEF Disjoint
<1>6. Accounted
  BY <1>3 DEF Init, Accounted, Somewhere
<1>7. Pinned /\ FinishProgress /\ ThrowsOnlySelfFinished
  BY DEF Init, Pinned, FinishProgress, ThrowsOnlySelfFinished
<1>8. QED
  BY <1>1, <1>2, <1>5, <1>6, <1>7 DEF IInv

\* The inductive invariant holds always.
THEOREM SchedulerInvariant == Spec => []IInv
<1>1. Init => IInv
  BY InitIInv
<1>2. IInv /\ [Next]_vars => IInv'
  BY TypeStep, PlacesStep, DisjointStep, AccountedStep, PinnedStep, FinishStepKept, ThrowsStep
     DEF IInv
<1>3. QED
  BY <1>1, <1>2, PTL DEF Spec

\* Every variable keeps its type: a task's last runner is one, and loop_count
\* never passes single_loop_run_limit.
THEOREM SchedulerTypeCorrect == Spec => []TypeOK
<1>1. IInv => TypeOK
  BY DEF IInv
<1>2. QED
  BY <1>1, SchedulerInvariant, PTL

\* A task is in one place at a time, for any number of runners and callers.
THEOREM TaskHasOneOwner == Spec => []SingleOwner
<1>1. IInv => SingleOwner
  <2> SUFFICES ASSUME IInv PROVE SingleOwner
    OBVIOUS
  <2>1. Disjoint /\ NoTask \notin Tasks
    BY SchedulerAssumption DEF IInv
  <2>2. ASSUME NEW t \in Tasks, NEW p \in Where(t)
        PROVE  \/ p = <<"queue", 0>> /\ t \in Queued
               \/ \E r \in Runners : p = <<"rqueue", r>> /\ t \in Held(r)
               \/ \E r \in Runners : p = <<"runner", r>> /\ rtask[r] = t
               \/ \E c \in Callers : p = <<"caller", c>> /\ ctask[c] = t
    BY <2>2 DEF Where, Queued, Held, Range
  <2>3. ASSUME NEW t \in Tasks, NEW p \in Where(t), NEW q \in Where(t) PROVE p = q
    <3>1. CASE p = <<"queue", 0>> /\ t \in Queued
      BY <2>1, <2>2, <3>1 DEF Disjoint
    <3>2. ASSUME NEW r \in Runners, p = <<"rqueue", r>> /\ t \in Held(r) PROVE p = q
      BY <2>1, <2>2, <3>2 DEF Disjoint
    <3>3. ASSUME NEW r \in Runners, p = <<"runner", r>> /\ rtask[r] = t PROVE p = q
      BY <2>1, <2>2, <3>3 DEF Disjoint
    <3>4. ASSUME NEW c \in Callers, p = <<"caller", c>> /\ ctask[c] = t PROVE p = q
      BY <2>1, <2>2, <3>4 DEF Disjoint
    <3>5. QED
      BY <2>2, <3>1, <3>2, <3>3, <3>4
  <2>4. QED
    BY <2>1, <2>3 DEF SingleOwner, Disjoint
<1>2. QED
  BY <1>1, SchedulerInvariant, PTL

\* No push, pass, pop or drain drops a scheduled task that has not finished.
THEOREM NoTaskIsLost == Spec => []NoTaskLost
<1>1. IInv => NoTaskLost
  <2> SUFFICES ASSUME IInv, NEW t \in scheduled, state[t] = "ready" PROVE Where(t) # {}
    BY DEF NoTaskLost
  <2>1. Somewhere(t)
    BY DEF IInv, Accounted
  <2>2. CASE t \in Queued
    <3>1. PICK i \in DOMAIN queue : queue[i] = t
      BY <2>2 DEF Queued, Range
    <3>2. <<"queue", 0>> \in Where(t)
      BY <3>1 DEF Where
    <3>3. QED
      BY <3>2
  <2>3. ASSUME NEW r \in Runners, t \in Held(r) PROVE Where(t) # {}
    <3>1. <<"rqueue", r>> \in Where(t)
      BY <2>3 DEF Where, Held
    <3>2. QED
      BY <3>1
  <2>4. ASSUME NEW r \in Runners, rtask[r] = t PROVE Where(t) # {}
    <3>1. <<"runner", r>> \in Where(t)
      BY <2>4 DEF Where
    <3>2. QED
      BY <3>1
  <2>5. ASSUME NEW c \in Callers, ctask[c] = t PROVE Where(t) # {}
    <3>1. <<"caller", c>> \in Where(t)
      BY <2>5 DEF Where
    <3>2. QED
      BY <3>1
  <2>6. QED
    BY <2>1, <2>2, <2>3, <2>4, <2>5 DEF Somewhere
<1>2. QED
  BY <1>1, SchedulerInvariant, PTL

\* task::execute() never throws "invalid runner affinity", and "task not
\* ready" only for a task that finished itself.
THEOREM ThrowsOnlyForSelfFinished == Spec => []ThrowsOnlySelfFinished
<1>1. IInv => ThrowsOnlySelfFinished
  BY DEF IInv
<1>2. QED
  BY <1>1, SchedulerInvariant, PTL

\* A finish() that no other call runs beside leaves no scheduled task
\* unfinished.
THEOREM FinishFinishesAll == Spec => []FinishedWhenDone
<1>1. IInv => FinishedWhenDone
  <2> SUFFICES ASSUME IInv, cpc[Main] = "done", ~overlap, NEW t \in scheduled
               PROVE  state[t] = "finished"
    BY DEF FinishedWhenDone
  <2>1. /\ Queued = {}
        /\ \A c \in Callers \ {Main} : cpc[c] = "idle"
        /\ \A r \in Runners : rpc[r] = "exited" /\ Held(r) = {}
    BY DEF IInv, FinishProgress
  <2>2. /\ \A c \in Callers : ctask[c] = NoTask
        /\ \A r \in Runners : rtask[r] = NoTask
    BY <2>1 DEF IInv, Places
  <2>3. t \in Tasks /\ NoTask \notin Tasks
    BY SchedulerAssumption DEF IInv, TypeOK
  <2>4. ~Somewhere(t)
    BY <2>1, <2>2, <2>3 DEF Somewhere
  <2>5. QED
    BY <2>4 DEF IInv, Accounted
<1>2. QED
  BY <1>1, SchedulerInvariant, PTL

-----------------------------------------------------------------------------
(* What goes wrong, and when it cannot.                                    *)

\* run_schedule() runs past the end of runners_ only with a task without
\* affinity whose search ended on the last runner, the one no runner is after.
PastEndOnlyAfterLast ==
    crash = "out_of_range" =>
        \E c \in Callers : ctask[c] \in Tasks \ Affinity /\ scan[c].cand = RunnerCount

\* run_schedule() dereferences past the end of runners_ for no other reason
\* than this one: for every number of runners, search and interleaving.
THEOREM PastTheEndAfterTheLastRunner == Spec => []PastEndOnlyAfterLast
<1>1. Init => PastEndOnlyAfterLast
  BY DEF Init, PastEndOnlyAfterLast
<1>2. ASSUME IInv, PastEndOnlyAfterLast, [Next]_vars PROVE PastEndOnlyAfterLast'
  <2>1. CASE UNCHANGED vars
    BY <1>2, <2>1 DEF PastEndOnlyAfterLast, vars, callVars
  <2>2. ASSUME NEW c \in Callers, Push(c), crash' = "out_of_range", crash = "none"
        PROVE  PastEndOnlyAfterLast'
    <3>1. PushTarget(c) \notin Runners /\ UNCHANGED callVars
      BY <2>2 DEF Push
    <3>2. ctask[c] \in Tasks
      BY <1>2, <2>2 DEF IInv, TypeOK, Places, Push
    <3>3. scan[c].cand \in 0 .. RunnerCount /\ scan[c].cand # 0
      <4>1. scan[c] \in Scans /\ scan[c].next = RunnerCount + 1
        BY <1>2, <2>2 DEF IInv, TypeOK, Push
      <4>2. scan[c].next # 1
        BY <4>1, SchedulerAssumption
      <4>3. QED
        BY <1>2, <4>1, <4>2 DEF IInv, Places, Scans
    <3>4. ctask[c] \notin Affinity /\ scan[c].cand = RunnerCount
      BY <3>1, <3>3, SchedulerAssumption DEF PushTarget, Runners
    <3>5. QED
      BY <3>1, <3>2, <3>4 DEF PastEndOnlyAfterLast, callVars
  <2>3. CASE crash = "none" /\ Running /\ \A c \in Callers : ~Push(c)
    <3>1. crash' # "out_of_range"
      BY <2>3 DEF Running, RunSchedule, FinishStep, RunnerStep, Start, TaskStart, schedule,
         execute, RunPop, RunReturn, Scan, finish, Join, Drain, Drained, FinishTask,
         FinishReturn, LoopTop, PopNothing, PopTask, ExecuteTask, Outcome, FinishItself, Pass
    <3>2. QED
      BY <3>1 DEF PastEndOnlyAfterLast
  <2>4. QED
    BY <1>2, <2>1, <2>2, <2>3 DEF Next, Over, PastEndOnlyAfterLast
<1>3. QED
  BY <1>1, <1>2, SchedulerInvariant, PTL DEF Spec

\* When every task has affinity, run_schedule() always finds the runner it
\* looks for: this is what a client of the scheduler can do about its index.
THEOREM PinnedIndexInRange ==
    ASSUME Affinity = Tasks
    PROVE  Spec => []RunnerIndexInRange
<1>1. PastEndOnlyAfterLast => RunnerIndexInRange
  BY DEF PastEndOnlyAfterLast, RunnerIndexInRange
<1>2. QED
  BY <1>1, PastTheEndAfterTheLastRunner, PTL

\* No exception leaves a runner's thread when no task finishes itself.
NoExceptions == crash \in {"none", "out_of_range"}

\* task::execute() throws nothing when no on_execute() calls finish(): a task
\* that is passed around is ready, and at the runner that it belongs to.
THEOREM NoTaskFinishesItself ==
    ASSUME SelfFinish = {}
    PROVE  Spec => []NoExceptions
<1>1. IInv => NoExceptions
  BY DEF IInv, TypeOK, ThrowsOnlySelfFinished, NoExceptions
<1>2. QED
  BY <1>1, SchedulerInvariant, PTL

\* With one thread that calls the scheduler no call runs beside finish().
LEMMA AloneNothingOverlaps ==
    ASSUME Callers = {Main}
    PROVE  Spec => []~overlap
<1>1. Init => ~overlap
  BY DEF Init
<1>2. ASSUME ~overlap, [Next]_vars PROVE ~overlap'
  <2>1. CASE UNCHANGED vars
    BY <1>2, <2>1 DEF vars, history
  <2>2. ASSUME NEW c \in Callers, NEW t \in Tasks, NEW ok \in BOOLEAN, schedule(c, t, ok)
        PROVE  ~overlap'
    BY <1>2, <2>2 DEF schedule, Finishing
  <2>3. ASSUME NEW c \in Callers, execute(c) PROVE ~overlap'
    BY <1>2, <2>3 DEF execute, Finishing
  <2>4. CASE finish
    BY <1>2, <2>4 DEF finish
  <2>5. CASE /\ Running /\ ~finish
             /\ \A c \in Callers : ~execute(c)
             /\ \A c \in Callers, t \in Tasks, ok \in BOOLEAN : ~schedule(c, t, ok)
    BY <1>2, <2>5 DEF Running, RunSchedule, FinishStep, RunnerStep, Start, TaskStart, RunPop,
       RunReturn, Scan, Push, Join, Drain, Drained, FinishTask, FinishReturn, LoopTop,
       PopNothing, PopTask, ExecuteTask, FinishItself, Pass, history
  <2>6. QED
    BY <1>2, <2>1, <2>2, <2>3, <2>4, <2>5 DEF Next, Over
<1>3. QED
  BY <1>1, <1>2, PTL DEF Spec

\* When finish() has returned, every scheduled task has finished.
AllFinished == cpc[Main] = "done" /\ crash = "none" => \A t \in scheduled : state[t] = "finished"

\* What the scheduler's test expects needs no care about overlapping calls when
\* one thread makes them all, as the test's does.
THEOREM AloneFinishesAll ==
    ASSUME Callers = {Main}
    PROVE  Spec => []AllFinished
<1>1. FinishedWhenDone /\ ~overlap => AllFinished
  BY DEF FinishedWhenDone, AllFinished
<1>2. QED
  BY <1>1, AloneNothingOverlaps, FinishFinishesAll, PTL

=============================================================================
