---------------------------- MODULE TaskScheduler ---------------------------
(***************************************************************************)
(* lax::task: the scheduler, its runner threads and the tasks they pass    *)
(* around (src/task/task_scheduler.cpp, src/task/detail/task_runner.cpp,   *)
(* src/task/task.cpp).                                                     *)
(*                                                                         *)
(* The scheduler keeps a queue of ready tasks and every runner one of its  *)
(* own; both are concurrent FIFO queues whose push and pop are atomic.     *)
(* run_schedule() moves tasks from the scheduler's queue to runners, a     *)
(* runner executes a task and passes it back.  Threads interleave between  *)
(* two accesses to shared state.  VERIFY is empty in a release build, so   *)
(* the model does not stop at one.                                         *)
(***************************************************************************)
EXTENDS Naturals, Sequences, Functions

CONSTANTS Tasks,
          Affinity,      \* the tasks with set_runner_affinity()
          SelfFinish,    \* the tasks whose on_execute() may call finish()
          RunnerCount,   \* config::runner_count
          RunLimit,      \* config::single_loop_run_limit, 0 for no limit
          StartWhenScheduleCalled, RunWhenScheduleCalled,   \* config flags
          Callers,       \* the threads that call the scheduler
          Main,          \* the one that calls start() and finish()
          NoTask

ASSUME SchedulerAssumption ==
    /\ RunnerCount \in Nat \ {0}
    /\ RunLimit \in Nat
    /\ Affinity \subseteq Tasks /\ SelfFinish \subseteq Tasks
    /\ Main \in Callers
    /\ NoTask \notin Tasks
    /\ StartWhenScheduleCalled \in BOOLEAN /\ RunWhenScheduleCalled \in BOOLEAN

VARIABLES state, last,             \* task::state_, task::last_runner_id_
          queue,                   \* task_scheduler::queue_
          rqueue, stop,            \* task_runner::queue_ and stop_
          rpc, rtask, rcount,      \* a runner thread's place in run(), its task and loop_count
          cpc, ctask, scan,        \* a caller's place in a call, its task and its runner search
          joining,                 \* the runner that finish() is at
          crash,                   \* what ended the process
          scheduled,               \* history: the tasks pushed by schedule()
          overlap                  \* history: a call ran beside finish()

taskVars   == <<state, last>>
runnerVars == <<rpc, rtask, rcount>>
callVars   == <<cpc, ctask, scan>>
history    == <<scheduled, overlap>>
vars == <<taskVars, queue, rqueue, stop, runnerVars, callVars, joining, crash, history>>

Runners == 1 .. RunnerCount
States  == {"constructed", "ready", "finished"}

\* get_target_runner_id() in progress: the next runner to look at, the runner
\* with the least task count so far (0 before the first) and that count.
Scans  == [next : 1 .. RunnerCount + 1, cand : 0 .. RunnerCount, least : Nat]
NoScan == [next |-> 1, cand |-> 0, least |-> 0]

Finishing == cpc[Main] \in {"join", "drain", "finish"}

-----------------------------------------------------------------------------

Init ==
    /\ state = [t \in Tasks |-> "constructed"]
    /\ last = [t \in Tasks |-> 0]
    /\ queue = <<>>
    /\ rqueue = [r \in Runners |-> <<>>]
    /\ stop = [r \in Runners |-> TRUE]
    /\ rpc = [r \in Runners |-> "off"]
    /\ rtask = [r \in Runners |-> NoTask]
    /\ rcount = [r \in Runners |-> 0]
    /\ cpc = [c \in Callers |-> "idle"]
    /\ ctask = [c \in Callers |-> NoTask]
    /\ scan = [c \in Callers |-> NoScan]
    /\ joining = 0
    /\ crash = "none"
    /\ scheduled = {} /\ overlap = FALSE

Started == \A r \in Runners : rpc[r] # "off"

\* task_scheduler::start(): every runner gets its thread.
Start ==
    /\ ~Started
    /\ stop' = [r \in Runners |-> FALSE]
    /\ rpc' = [r \in Runners |-> "loop"]
    /\ UNCHANGED <<taskVars, queue, rqueue, rtask, rcount, callVars, joining, crash, history>>

\* task::start() by the task's owner; on_start() may say no.
TaskStart(t) ==
    /\ state[t] = "constructed" /\ t \notin scheduled
    /\ state' = [state EXCEPT ![t] = "ready"]
    /\ UNCHANGED <<last, queue, rqueue, stop, runnerVars, callVars, joining, crash, history>>

-----------------------------------------------------------------------------
(* A caller's thread: schedule(), execute() and run_schedule().            *)

\* task_scheduler::schedule(): a task is registered once; on_start() returns ok.
schedule(c, t, ok) ==
    LET st == IF StartWhenScheduleCalled /\ state[t] = "constructed" /\ ok
              THEN "ready" ELSE state[t]
    IN  /\ Started /\ cpc[c] = "idle" /\ cpc[Main] # "done"
        /\ t \notin scheduled
        /\ state' = [state EXCEPT ![t] = st]
        /\ queue' = IF st = "ready" THEN Append(queue, t) ELSE queue
        /\ scheduled' = IF st = "ready" THEN scheduled \cup {t} ELSE scheduled
        /\ cpc' = [cpc EXCEPT ![c] = IF RunWhenScheduleCalled THEN "pop" ELSE "idle"]
        /\ overlap' = (overlap \/ Finishing)
        /\ UNCHANGED <<last, rqueue, stop, runnerVars, ctask, scan, joining, crash>>

\* task_scheduler::execute().
execute(c) ==
    /\ Started /\ cpc[c] = "idle" /\ cpc[Main] # "done"
    /\ cpc' = [cpc EXCEPT ![c] = "pop"]
    /\ overlap' = (overlap \/ Finishing)
    /\ UNCHANGED <<taskVars, queue, rqueue, stop, runnerVars, ctask, scan, joining, crash,
                   scheduled>>

\* A run_schedule() that searches a runner for every task.
RunPopAnyRunner(c) ==
    /\ cpc[c] = "pop" /\ queue # <<>>
    /\ ctask' = [ctask EXCEPT ![c] = Head(queue)]
    /\ scan' = [scan EXCEPT ![c] = NoScan]
    /\ queue' = Tail(queue)
    /\ cpc' = [cpc EXCEPT ![c] = "scan"]
    /\ UNCHANGED <<taskVars, rqueue, stop, runnerVars, joining, crash, history>>

\* run_schedule() pops the next task; one with a runner of its own skips the
\* search of get_target_runner_id().
RunPop(c) ==
    /\ cpc[c] = "pop" /\ queue # <<>>
    /\ LET t == Head(queue)
       IN  /\ ctask' = [ctask EXCEPT ![c] = t]
           /\ scan' = [scan EXCEPT ![c] =
                          IF t \in Affinity /\ last[t] # 0
                          THEN [next |-> RunnerCount + 1, cand |-> last[t], least |-> 0]
                          ELSE NoScan]
    /\ queue' = Tail(queue)
    /\ cpc' = [cpc EXCEPT ![c] = "scan"]
    /\ UNCHANGED <<taskVars, rqueue, stop, runnerVars, joining, crash, history>>

\* run_schedule() finds the queue empty and returns.
RunReturn(c) ==
    /\ cpc[c] = "pop" /\ queue = <<>>
    /\ cpc' = [cpc EXCEPT ![c] = "idle"]
    /\ UNCHANGED <<taskVars, queue, rqueue, stop, runnerVars, ctask, scan, joining, crash, history>>

\* get_target_runner_id() reads one runner's task count.
Scan(c) ==
    /\ cpc[c] = "scan" /\ scan[c].next \in Runners
    /\ LET i == scan[c].next
           n == Len(rqueue[i])
           better == scan[c].cand = 0 \/ n < scan[c].least
       IN  scan' = [scan EXCEPT ![c] =
                       [next |-> i + 1,
                        cand |-> IF better THEN i ELSE scan[c].cand,
                        least |-> IF better THEN n ELSE scan[c].least]]
    /\ UNCHANGED <<taskVars, queue, rqueue, stop, runnerVars, cpc, ctask, joining, crash, history>>

\* The runner run_schedule() pushes to, as a runner id: runners_[id - 1] for a
\* task with affinity, runners_[id] (the one after the chosen) for another.
PushTarget(c) == IF ctask[c] \in Affinity THEN scan[c].cand ELSE scan[c].cand + 1

\* run_schedule() pushes to the runner and goes on; an index past the end of
\* runners_ dereferences what is no runner.
Push(c) ==
    /\ cpc[c] = "scan" /\ scan[c].next = RunnerCount + 1
    /\ IF PushTarget(c) \in Runners
       THEN /\ rqueue' = [rqueue EXCEPT ![PushTarget(c)] = Append(@, ctask[c])]
            /\ ctask' = [ctask EXCEPT ![c] = NoTask]
            /\ scan' = [scan EXCEPT ![c] = NoScan]
            /\ cpc' = [cpc EXCEPT ![c] = "pop"]
            /\ UNCHANGED crash
       ELSE /\ crash' = "out_of_range"
            /\ UNCHANGED <<rqueue, callVars>>
    /\ UNCHANGED <<taskVars, queue, stop, runnerVars, joining, history>>

-----------------------------------------------------------------------------
(* task_scheduler::finish() on the main thread.                            *)

\* finish() is called; the first runner is told to stop.
finish ==
    /\ Started /\ cpc[Main] = "idle"
    /\ cpc' = [cpc EXCEPT ![Main] = "join"]
    /\ joining' = 1
    /\ stop' = [stop EXCEPT ![1] = TRUE]
    /\ overlap' = (overlap \/ \E c \in Callers : cpc[c] # "idle")
    /\ UNCHANGED <<taskVars, queue, rqueue, runnerVars, ctask, scan, crash, scheduled>>

\* task_runner::finish() joins the thread.
Join ==
    /\ cpc[Main] = "join" /\ rpc[joining] = "exited"
    /\ cpc' = [cpc EXCEPT ![Main] = "drain"]
    /\ UNCHANGED <<taskVars, queue, rqueue, stop, runnerVars, ctask, scan, joining, crash, history>>

\* task_runner::finish() passes one of the tasks left behind to the scheduler.
Drain ==
    /\ cpc[Main] = "drain" /\ rqueue[joining] # <<>>
    /\ queue' = Append(queue, Head(rqueue[joining]))
    /\ rqueue' = [rqueue EXCEPT ![joining] = Tail(@)]
    /\ UNCHANGED <<taskVars, stop, runnerVars, callVars, joining, crash, history>>

\* A task_runner::finish() without the loop that passes the tasks on.
DrainNothing ==
    /\ cpc[Main] = "drain"
    /\ IF joining < RunnerCount
       THEN /\ joining' = joining + 1
            /\ stop' = [stop EXCEPT ![joining + 1] = TRUE]
            /\ cpc' = [cpc EXCEPT ![Main] = "join"]
       ELSE /\ cpc' = [cpc EXCEPT ![Main] = "finish"]
            /\ UNCHANGED <<joining, stop>>
    /\ UNCHANGED <<taskVars, queue, rqueue, runnerVars, ctask, scan, crash, history>>

\* The runner's queue is empty: on to the next runner, or to the tasks.
Drained ==
    /\ cpc[Main] = "drain" /\ rqueue[joining] = <<>>
    /\ IF joining < RunnerCount
       THEN /\ joining' = joining + 1
            /\ stop' = [stop EXCEPT ![joining + 1] = TRUE]
            /\ cpc' = [cpc EXCEPT ![Main] = "join"]
       ELSE /\ cpc' = [cpc EXCEPT ![Main] = "finish"]
            /\ UNCHANGED <<joining, stop>>
    /\ UNCHANGED <<taskVars, queue, rqueue, runnerVars, ctask, scan, crash, history>>

\* finish() pops a task and finishes it if it is ready.
FinishTask ==
    /\ cpc[Main] = "finish" /\ queue # <<>>
    /\ state' = IF state[Head(queue)] = "ready"
                THEN [state EXCEPT ![Head(queue)] = "finished"] ELSE state
    /\ queue' = Tail(queue)
    /\ UNCHANGED <<last, rqueue, stop, runnerVars, callVars, joining, crash, history>>

\* finish() finds the queue empty and returns.
FinishReturn ==
    /\ cpc[Main] = "finish" /\ queue = <<>>
    /\ cpc' = [cpc EXCEPT ![Main] = "done"]
    /\ UNCHANGED <<taskVars, queue, rqueue, stop, runnerVars, ctask, scan, joining, crash, history>>

-----------------------------------------------------------------------------
(* A runner's thread: task_runner::run() and task::execute().              *)

\* A loop_count that lives outside of the loop.
LoopKeepsCount(r) ==
    /\ rpc[r] = "loop"
    /\ rpc' = [rpc EXCEPT ![r] = IF stop[r] THEN "exited" ELSE "pop"]
    /\ UNCHANGED <<taskVars, queue, rqueue, stop, rtask, rcount, callVars, joining, crash, history>>

\* A runner that never looks at stop_ again.
LoopForever(r) ==
    /\ rpc[r] = "loop"
    /\ rpc' = [rpc EXCEPT ![r] = "pop"]
    /\ rcount' = [rcount EXCEPT ![r] = 0]
    /\ UNCHANGED <<taskVars, queue, rqueue, stop, rtask, callVars, joining, crash, history>>

\* while (!stop_), and the sleep at the end of an idle loop.
LoopTop(r) ==
    /\ rpc[r] = "loop"
    /\ rpc' = [rpc EXCEPT ![r] = IF stop[r] THEN "exited" ELSE "pop"]
    /\ rcount' = [rcount EXCEPT ![r] = 0]
    /\ UNCHANGED <<taskVars, queue, rqueue, stop, rtask, callVars, joining, crash, history>>

\* The runner's queue is empty: back to the outer loop.
PopNothing(r) ==
    /\ rpc[r] = "pop" /\ rqueue[r] = <<>>
    /\ rpc' = [rpc EXCEPT ![r] = "loop"]
    /\ UNCHANGED <<taskVars, queue, rqueue, stop, rtask, rcount, callVars, joining, crash, history>>

\* A runner whose queue is a stack.
PopLastTask(r) ==
    /\ rpc[r] = "pop" /\ rqueue[r] # <<>>
    /\ rtask' = [rtask EXCEPT ![r] = rqueue[r][Len(rqueue[r])]]
    /\ rqueue' = [rqueue EXCEPT ![r] = SubSeq(@, 1, Len(@) - 1)]
    /\ rpc' = [rpc EXCEPT ![r] = "execute"]
    /\ UNCHANGED <<taskVars, queue, stop, rcount, callVars, joining, crash, history>>

\* A runner that leaves the task it peeked at in its queue.
PeekTask(r) ==
    /\ rpc[r] = "pop" /\ rqueue[r] # <<>>
    /\ rtask' = [rtask EXCEPT ![r] = Head(rqueue[r])]
    /\ rpc' = [rpc EXCEPT ![r] = "execute"]
    /\ UNCHANGED <<taskVars, queue, rqueue, stop, rcount, callVars, joining, crash, history>>

\* The runner pops a task.
PopTask(r) ==
    /\ rpc[r] = "pop" /\ rqueue[r] # <<>>
    /\ rtask' = [rtask EXCEPT ![r] = Head(rqueue[r])]
    /\ rqueue' = [rqueue EXCEPT ![r] = Tail(@)]
    /\ rpc' = [rpc EXCEPT ![r] = "execute"]
    /\ UNCHANGED <<taskVars, queue, stop, rcount, callVars, joining, crash, history>>

\* task::has_right_affinity().
has_right_affinity(t, r) == t \in Affinity /\ (last[t] = r \/ last[t] = 0)

\* How task::execute() goes on: an exception, or on_execute().
Outcome(t, r) ==
    IF state[t] # "ready" THEN "not_ready"
    ELSE IF t \in Affinity /\ ~has_right_affinity(t, r) THEN "bad_affinity" ELSE "none"

\* task::execute() up to on_execute(); an exception leaves the thread's
\* function and ends the process.
ExecuteTask(r) ==
    LET t == rtask[r]
        entered == Outcome(t, r) = "none"
    IN  /\ rpc[r] = "execute"
        /\ crash' = Outcome(t, r)
        /\ last' = IF entered THEN [last EXCEPT ![t] = r] ELSE last
        /\ rpc' = IF entered THEN [rpc EXCEPT ![r] = "running"] ELSE rpc
        /\ UNCHANGED <<state, queue, rqueue, stop, rtask, rcount, callVars, joining, history>>

\* on_execute() calls the task's own finish().
FinishItself(r) ==
    /\ rpc[r] = "running" /\ rtask[r] \in SelfFinish /\ state[rtask[r]] = "ready"
    /\ state' = [state EXCEPT ![rtask[r]] = "finished"]
    /\ UNCHANGED <<last, queue, rqueue, stop, runnerVars, callVars, joining, crash, history>>

\* A runner that passes a task back only if the runner may go on.
PassUnlessStopped(r) ==
    /\ rpc[r] = "running"
    /\ queue' = IF stop[r] THEN queue ELSE Append(queue, rtask[r])
    /\ rtask' = [rtask EXCEPT ![r] = NoTask]
    /\ rpc' = [rpc EXCEPT ![r] = "loop"]
    /\ UNCHANGED <<taskVars, rqueue, stop, rcount, callVars, joining, crash, history>>

\* on_execute() has returned: task_scheduler::pass(), and the loop limit.
Pass(r) ==
    /\ rpc[r] = "running"
    /\ queue' = Append(queue, rtask[r])
    /\ rtask' = [rtask EXCEPT ![r] = NoTask]
    /\ rcount' = [rcount EXCEPT ![r] = IF RunLimit > 0 THEN @ + 1 ELSE @]
    /\ rpc' = [rpc EXCEPT ![r] = IF RunLimit > 0 /\ rcount[r] + 1 >= RunLimit
                                 THEN "loop" ELSE "pop"]
    /\ UNCHANGED <<taskVars, rqueue, stop, callVars, joining, crash, history>>

-----------------------------------------------------------------------------

RunnerStep(r) ==
    \/ LoopTop(r) \/ PopNothing(r) \/ PopTask(r)
    \/ ExecuteTask(r) \/ FinishItself(r) \/ Pass(r)

RunSchedule(c) == RunPop(c) \/ RunReturn(c) \/ Scan(c) \/ Push(c)

FinishStep == Join \/ Drain \/ Drained \/ FinishTask \/ FinishReturn

Running ==
    \/ Start
    \/ \E t \in Tasks : TaskStart(t)
    \/ \E c \in Callers, t \in Tasks, ok \in BOOLEAN : schedule(c, t, ok)
    \/ \E c \in Callers : execute(c)
    \/ \E c \in Callers : RunSchedule(c)
    \/ finish
    \/ FinishStep
    \/ \E r \in Runners : RunnerStep(r)

\* The process has ended, or finish() has returned and every call with it.
Over ==
    /\ crash # "none" \/ (cpc[Main] = "done" /\ \A c \in Callers \ {Main} : cpc[c] = "idle")
    /\ UNCHANGED vars

Next == (crash = "none" /\ Running) \/ Over

\* Threads that are in a call or in run() keep being scheduled by the system.
\* Nothing obliges a client to make a call.
Fairness ==
    /\ \A r \in Runners : WF_vars(crash = "none" /\ RunnerStep(r))
    /\ \A c \in Callers : WF_vars(crash = "none" /\ RunSchedule(c))
    /\ WF_vars(crash = "none" /\ FinishStep)

Spec == Init /\ [][Next]_vars /\ Fairness

-----------------------------------------------------------------------------

\* Every variable has its type; in particular loop_count stays within the
\* run limit and last_runner_id_ names a runner.
TypeOK ==
    /\ state \in [Tasks -> States]
    /\ last \in [Tasks -> 0 .. RunnerCount]
    /\ queue \in Seq(Tasks)
    /\ rqueue \in [Runners -> Seq(Tasks)]
    /\ stop \in [Runners -> BOOLEAN]
    /\ rpc \in [Runners -> {"off", "loop", "pop", "execute", "running", "exited"}]
    /\ rtask \in [Runners -> Tasks \cup {NoTask}]
    /\ rcount \in [Runners -> 0 .. RunLimit]
    /\ cpc \in [Callers -> {"idle", "pop", "scan", "join", "drain", "finish", "done"}]
    /\ ctask \in [Callers -> Tasks \cup {NoTask}]
    /\ scan \in [Callers -> Scans]
    /\ joining \in 0 .. RunnerCount
    /\ crash \in {"none", "out_of_range", "not_ready", "bad_affinity"}
    /\ scheduled \in SUBSET Tasks /\ overlap \in BOOLEAN

\* The queues and the threads' hands that task t is in.
Where(t) ==
    {<<"queue", 0>> : i \in {j \in DOMAIN queue : queue[j] = t}}
    \cup {<<"rqueue", r>> : r \in {x \in Runners : t \in Range(rqueue[x])}}
    \cup {<<"runner", r>> : r \in {x \in Runners : rtask[x] = t}}
    \cup {<<"caller", c>> : c \in {x \in Callers : ctask[x] = t}}

\* A task is in one place at a time: in one slot of one queue, in the hands of
\* one runner or in those of one run_schedule().  So no two runners ever
\* execute the same task at once, whoever calls the scheduler meanwhile.
SingleOwner ==
    /\ IsInjective(queue)
    /\ \A r \in Runners : IsInjective(rqueue[r])
    /\ \A t \in Tasks : \A p, q \in Where(t) : p = q

\* A scheduled task that has not finished is somewhere: no push, pass or drain
\* drops it, not even when finish() runs beside schedule().
NoTaskLost ==
    \A t \in scheduled : state[t] = "ready" => Where(t) # {}

\* task::execute() throws "task not ready" only for a task that finished
\* itself, and "invalid runner affinity" never.
ThrowsOnlySelfFinished ==
    /\ crash # "bad_affinity"
    /\ crash = "not_ready" => \E r \in Runners : rtask[r] \in SelfFinish

\* When finish() has returned, and no other call ran beside it, every task
\* that was ever scheduled has finished (what the scheduler's test expects).
FinishedWhenDone ==
    cpc[Main] = "done" /\ ~overlap /\ crash = "none"
        => \A t \in scheduled : state[t] = "finished"

\* finish() returns, whatever the runners are doing, unless a thread keeps
\* calling the scheduler beside it: run_schedule() then pushes drained tasks
\* back to the stopped runner as fast as finish() drains them.
FinishReturns ==
    cpc[Main] = "join" ~> (cpc[Main] = "done" \/ crash # "none" \/ overlap)

\* A task in a runner's queue gets its turn, unless finish() comes first.
QueuedTaskRuns ==
    \A t \in Tasks :
        (\E r \in Runners : t \in Range(rqueue[r]))
            ~> ((\E r \in Runners : rtask[r] = t) \/ joining # 0 \/ crash # "none")

\* The runner that run_schedule() picks for a task exists: it never indexes
\* runners_ past its end, whatever runner_count is (the default is 1).
RunnerIndexInRange == crash # "out_of_range"

=============================================================================
