# TLA+ models of lax

lax is a C++ server framework: a network layer on asio, message channels, a
task scheduler, actors and a server that puts them together. This directory
holds TLA+ models of its core, TLC configurations that check them on small
instances, and TLAPS proofs of the properties that matter most.

Paths below are relative to the repository root (`src/src/...` is code,
`src/include/lax/...` headers). Definitions keep the names of the source where
one function is one action; where a function is split into steps, each step has
a name of its own and `PROJECT.json` maps it to its lines.

## The system

| part | state | operations | what makes it correct |
|---|---|---|---|
| `util::sequence` | `current_`, the pool `seqs_` | `next`, `release` | an id has one holder, none is lost, reuse is delayed |
| `task` | `state_`, `last_runner_id_`, `affinity_` | `start`, `execute`, `finish` | executed by one runner at a time, pinned tasks stay with theirs |
| `task_runner` | its queue, `stop_`, its thread | `start`, `push`, `run`, `finish` | runs what it is given, stops when told, passes on what is left |
| `task_scheduler` | its queue, the runners | `start`, `schedule`, `execute`, `pass`, `finish` | no task lost or doubled; all finished after `finish` |
| `net::session` | socket, `sending_`, `recving_`, `destroyed_`, send buffer | `send`, `close`, completions, `destroy` | one read and one write, bytes in order, destroyed once and always |
| `net::service_impl` | acceptors, connectors, session slots, `mutex_` | `listen`, `connect`, `acquire`, `error`, handlers, `finish` | slot table matches the sessions, the lock excludes |
| `net::subs_close` | close callbacks by session | `subscribe`, `unsubscribe`, `post` | each callback once |
| `channel`, `sub_map`, `channel_map`, `dispatcher` | subscriptions by topic, delayed queue | `subscribe`, `unsubscribe`, `publish`, `execute` | each subscriber once per message, delayed ones in order |
| `timer` | slots with queues of requests, ids | `set`, `cancel`, `update` | none is forgotten, cancelled ones do not run, an id means one timer |
| `bits_protocol` and modifiers | receive buffer, sequence numbers, keys | `send`, `on_recv` | what is sent is what is received |
| buffers and pools | segments, free lists | `append`, `transfer`, `release`, ... | bytes kept, buffers used once |
| `util::state_machine` | tree of states, current state, queued transitions | `add`, `tran`, `execute` | the path of a transition is the shortest, the active states are a path from the root |
| actor, component, server | life cycle states | `start`, `execute`, `finish` | what was started is finished |

How they meet: io threads run asio completions, which are handlers of sessions,
acceptors and connectors; a session's destruction calls back into the service
(`error`) and into `subs_close` and the static session channel; the server
drives the scheduler (`execute`) and stops it before the network service; ids of
subscriptions, timers, actors and listeners come from `sequence`.

What is hard here: handlers of one session on several io threads, `close` from
any thread while operations are in progress, locks given up in the middle of a
handler, `schedule`/`execute` from several threads beside runner threads, and
stopping any of it. `PROJECT.json` lists these hazards at their lines with the
properties that watch them.

## Modules

`Sequence`, `TaskScheduler`, `Session`, `ServiceImpl`, `Channel`, `Timer`,
`BitsProtocol` and `StateMachine` each model one component; the configurations
(`MC*.cfg`) instantiate the modules directly, `Channel` through `MCChannel`,
which gives it its topics, `BitsProtocol` through `MCBitsProtocol`, which gives it
its message classes, `ServiceImpl` through `MCServiceImpl`, which gives it a table that has
been in use. `SendQueue` is the abstract specification that `Session`
implements. The theorems are in modules of their own, which extend the
component's: `SequenceProofs`, `TaskSchedulerProofs`, `SessionProofs`, `ServiceImplProofs`,
`ChannelProofs`, `TimerProofs`, `BitsProtocolProofs`, `StateMachineProofs`.

Components that use another rely on its promise, not on its code: `Channel` and
`Timer` take ids by the contract that `Sequence` shows (one that nobody holds),
`BitsProtocol` sends over the ordered stream that `SendQueue` states, and
`ServiceImpl` sees of a session its birth and what calls `error`.

Common conventions. A thread's program counter stands at the points where the
code has just touched, or is about to touch, shared state under a lock, through
an atomic or a concurrent queue, or through the socket; everything between two
such points is one step. `VERIFY` and `ENSURE` are empty in a release build
(`src/include/lax/util/macros.hpp`), so they never stop a step. Variables called
history in a module's header are written and never read by a guard, except by
the named bounds. Operators that stand just before a mapped definition and
share its parameters (`NextWithoutPop` before `next`) are faulty variants, used
only to show that a property notices them.

### Sequence (`src/include/lax/util/sequence.hpp`)

`next` refills the pool to the reserve, then takes its front; `release` appends
to it. Each runs under a mutex (its own, or that of the owner where the pool is
declared with the null mutex), hence one action each. A client releases only
ids it holds, as the class comment asks; a release out of range is refused.
`holders`, `recycled` and `age` are history.

### TaskScheduler (`src/src/task/`)

Runners are threads that pop, execute and pass back; callers are threads in
`schedule` or `execute`, both of which run `run_schedule`: pop a task, look at
the runners' queue lengths one by one, push. `finish` runs on one of the callers:
per runner it sets `stop_`, joins, and drains the queue to the scheduler's, and
in the end it finishes every task left. The queues are the platform's
concurrent FIFO queues. A task without affinity is pushed to the runner after
the chosen one, as the code does; past the end of the vector the process is
taken to end (`crash`). Exceptions of `task::execute` leave the thread function
and end the process too. A task is scheduled once (scheduling it twice puts it
into the queue twice, and two runners may execute it at once: a rule for
callers, which the model keeps).

### Session (`src/src/net/session.cpp`)

Application threads call `send` and `close`, io threads take completions. The
socket is external: a started operation completes once, successfully only while
the socket is open and unbroken; a completion waits until an io thread takes it.
`sendBuffer` is the segment buffer as a queue of messages, `sendingSegs` what
the write in progress holds. What a packet handler does to its session inside
`on_recv` is what an application thread may do at that moment. `lateOk` records
that a success was handled after the socket was closed, which is the way a
session is leaked (see findings).

### SendQueue, and how Session implements it

What a caller of `send` may rely on: a queue of accepted messages, delivered from
its front, all of them unless the connection ends (`WF(Deliver)`); afterwards
nothing is delivered and what is left may be dropped. The refinement mapping in
`Session` takes as `queue` the part of the segments in progress that the
socket has not taken (`Untaken`) followed by the send buffer, as `sent` what
the socket took, and as `ended` a closed or broken socket. `send` that has
passed its check may accept a message although the socket closed meanwhile,
so `Accept` is not conditional on `ended`.

### ServiceImpl (`src/src/net/detail/service_impl.cpp`, `acceptor.cpp`, `connector.cpp`)

The slot table with its free list and 16-bit sequence numbers (`Wrap`), the maps
of acceptors and connectors, and `mutex_` exactly as the code locks and unlocks
it: `on_new_socket` unlocks its caller's lock to construct a session, locks to
store it and unlocks; the caller's `unique_lock` unlocks once more. Unlocking
a mutex one does not hold is undefined; the model takes the platform's
implementation, in which it clears the writer flag whoever set it. A session is here
what it is to the table: born in `Construct`, and on its way out through
`destroy` in the two steps of the code, the look at `sending_` and `recving_` and
the call of `error`. Any threads that may be in `close` for it (`MayClose`) can have
looked already when the first goes on (`SessionEnds`); each of them goes on too
(`SessionEndsAgain`), so that `error` comes twice for one session, the consequence
of finding 3.

History records the three ways in which the table breaks: `raced`, two threads
were inside `mutex_` at once; `early`, a session failed before it was stored;
`doubled`, one was destroyed twice. `SlotsAccounted` and `TableMatchesSessions` hold
until the first of them, `LiveSlotsTaken` whether or not a session fails early.
After a second `error` a slot is free twice and two live sessions may share it.

That nobody calls `listen` or `connect` on a service that is stopping, and that nobody
calls beside `finish`, are assumptions on callers (`CanCall`, `MayClose`); the code does not
look. The bound on calls counts the calls that have yet to take their key
(`Calling`) with the keys given out, so that a key is never past `MaxKeys`.

### Channel (`src/src/channel/channel.cpp`, `detail/sub_map.cpp`)

A thread is a stack of calls, since a callback may call the channel again while
its thread is inside `post`. `sub_map`'s mutex is derived from the stacks: a
frame that posts holds it shared; a frame that waits for the readers to leave
has closed it to new readers, as the platform's `shared_timed_mutex` does. `publish`
looks for delayed subscribers on the topic and on its group in two locked
sections, enqueues, and posts to the immediate ones under a third. Entries of the
map outlive their subscriptions, as in the code. Keys come from `Sequence`'s
contract (one that is not in use). `owed` and `delivered` are history. The
configuration is the default one: locks used, the queue checked before enqueuing.
A message whose topic is a group's is posted to the group's subscribers twice, and
`DelayedInOrder` allows for it. `execute` called from a callback would post
later messages inside the post of an earlier one, so the order is claimed only for
callbacks that do not call it. A subscription to the topic 0.0, which is no valid
topic, is never posted to (`post_on_topic` returns at once), and so `publish` owes it nothing.

`Owes` is what the code looks for: the immediate subscribers of the message's topic and
group, and the delayed ones of the *given* topic and its group. For `publish(m)` these
are all the subscribers of the message. For `publish(topic, m)` they are not: the
delayed ones of the message's own topic are not looked for, although the header says that
`publish(m)` is called inside. The model
does what the code does, and `NothingMissed` speaks of those it looks for.

### Timer (`src/src/channel/timer.cpp`, `src/include/lax/channel/timer.hpp`)

The class is used by one thread; what is hard is that the actions `update` calls
may set and cancel timers, their own included. A request is an object with a
life of its own: `reqs_` and a slot's queue each point to it, `cancel` takes it
out of the first only, and the id goes back to the pool when the last pointer
goes. Time is counted in units of `min_interval`, `2^k` of which are the slots'
intervals. A slot's `top()` is the entry with the greatest due time (the
comparison is not reversed for the priority queue), any of them among equals. A
slot added by an action may move the vector `update` iterates; nothing is said
of what follows then (`pc = "moved"`).

### BitsProtocol (`src/src/net/protocol/bits/bits_protocol.cpp`, `protocol/util/`)

Two ends of one direction of a connection. A sender thread packs its message
(`send`) or hands over data that its caller has packed (`send_data`, the overload
`send(m, data, len)`), draws a number from the atomic `send_seq_` and appends the packet
to the session: three steps, between which other threads go on. `send(m)` writes the
length field, the trailers rewrite it (`Rewritten`); of data without trailers the field is the
caller's: what `pack()` leaves in it, 0, or the right one (`Fields`). The stream is the packets in the
order of the appends; a read ends at any of the places around the ends of
headers and packets (`Cuts`), and `on_recv` takes one message per step. Sizes are
in bytes as the code computes them, the length field as its four bytes; `ends`
keeps where each packet ends in the stream. A packet is posted
only if its length field says its length (`Readable`), since the checks and `unpack()`
need the bytes to the last; one with a wrong field is refused (`RecvFails`) once as many bytes
have arrived as the field says (`Misled`). A number
drawn while another thread holds one that it has not yet appended sets
`overlapped`. A `send` that is refused changes nothing and is no step.

### StateMachine (`src/include/lax/util/state.hpp`, `state_machine.hpp`)

States are numbered as they are added, so that runs go through all trees.
`has` and `get_transition_path` are the recursions of the code, as recursive
functions on the states; `IsTransition` says independently of them what the path of
a transition is (exits from the current state up to the first ancestor that has the
target, that ancestor, then entries down to the target, with `Above` the
ancestors of a state as a set). Each node of a path is a step; during its callback further transitions may be queued, and during an
`on_execute` also made at once. `Descend` follows `active_child_` as it is when
`on_execute` returns. `VerifiesHold` states the `VERIFY`s of `enter`, `exit` and
`tran_to`, for paths that were made before the callbacks along them ran.

## Runs

| run | instance | states | shows |
|---|---|---|---|
| `sequence` | ids 1..6, reserve 3 | 13 thousand | uniqueness, no loss, delayed reuse through exhaustion |
| `scheduler` | 3 tasks (2 pinned, 1 self-finishing), 2 runners, 2 callers, run limit 1 | 224 thousand | tasks neither doubled nor lost, none executed by a runner it is not meant for, `finish` returns and leaves nothing behind, queued tasks run |
| `scheduler_one_runner` | 1 task, 1 runner | violation | `runners_[id]` is past the end with the default configuration |
| `session` | 2 application, 2 io threads, 2 sends | 416 thousand | one operation at a time, order, no stranded data, a read or a closer always exists, the last handler destroys, `SendQueue` implemented, its liveness included |
| `session_leak` | 1 + 1 threads, 1 send | violation | a success handled after `close` leaves the session undestroyed |
| `session_twice` | 1 + 1 threads, 1 send | violation | `close` from outside and the handler of the read that fails by it both destroy |
| `service` | 2 io threads, 1 application thread, 2 slots of which 1 or 2 have been in use, numbers modulo 3, 2 keys, 2 connections, sessions destroyed by any threads at once | 400 thousand | slots accounted, table matches sessions, no slot shared, counters, accepting resumes, `finish` returns |
| `channel` | 2 threads, 2 topics of a group, 2 subscriptions, 2 messages, callbacks that post | 440 thousand | tables agree, no callback after `unsubscribe`, no subscriber that `publish` looks for missed, delayed order, calls return unless a callback is stuck in the lock its thread holds |
| `timer` | 2 ids, intervals 3 and 5, durations 0 and 6, 2 requests at once, clock to 8 | 3.3 million | known timers wait or run, cancelled ones do not run, ids match, a timer alone in its slot is in time |
| `protocol` | 2 sender threads (symmetric), 6 message classes, both `send`s, sequence byte modulo 3, 4 messages | 2.16 million | posted once and in order, nothing complete left, rejection only after overlapping numbers or a wrong length field |
| `state_machine` | up to 4 states below the root, 2 queued transitions | 492 thousand | the path is the right one, the active states are a path at every callback, the assertions of `enter`, `exit` and `tran_to` hold, a queued transition arrives |
| `service_lock` | as `service`, from an empty table | violation | two threads inside `mutex_`'s region |

Why the bounds are enough. Six ids with a reserve of three let the pool be
refilled partly, run dry and recover. Two runners and two callers give every
pairing of push, pop, pass and drain; a run limit of one makes a runner look at
`stop_` between tasks (without a limit a runner whose queue never empties does
not look at it: the limit is what makes `FinishReturns` hold with callers
outside `overlap`). Two io threads are what the two completions of a session
need to be handled at once, two application threads what two racing sends
need; two sends let one be appended while the other is being written. `service` starts from a table that earlier sessions have left, one
slot or two, all free, each number the last before it wraps (`MCServiceImpl`): two
connections then take a slot again, or beside a new one, pass the wrap, and meet the
limit of two slots; two at once are what it takes for one to be in the way of the other.
From an empty table and with three connections (`Spec` and `MaxSockets = 3` in
`MCServiceImpl.cfg`) the invariants hold as well, in 2.27 million states, which is too much for
the temporal properties. Two subscriptions and two messages let
a list change under a post, order be told and a callback post while a writer
waits, which is also where `CallsReturn` needs its exception. Intervals 3 and 5
(in units of the least interval) fall into one slot or two depending on the order
in which they are set, and eight ticks let both be due together, end and be
repeated. The message classes are a header alone, plain, numbered, with both trailers, and
two whose packets are 255 and 256 bytes long, the two sides of the length
field's limit; three values of the sequence byte wrap within four messages. Four
states below the root give every shape up to depth four, so that a path can
leave two states and enter two.

The slot limit is reached in `service`, and then the process ends, as in the
code; likewise when a session's constructor throws. `session` runs without the
deadlock check, since a session that was destroyed has nothing left to do;
`channel` does since its bounds end it, and a callback can be stuck (`CallsReturn`
says when); `timer` and `protocol` since the clock and the messages end.

What the properties leave out on purpose, each of them something the code does:

- `AloneIsPunctual` speaks of a timer that is alone in its slot. With a
  later one in the same slot it waits until that one is due, since the queue
  gives the latest first, and one that repeats can keep it waiting for ever.
- `ReceivedAsSent` says nothing of what follows a packet whose length field is wrong,
  one of 256 bytes or more or one whose caller left the field unset, and lets a last message
  without contents wait for the next byte (`remained_len > header_length`).
- `FailsOnlyOnOverlap` allows rejection when two threads numbered packets at once:
  they may be appended in the other order, and the receiver closes the session. It
  allows it too when a packet with a wrong length field is taken for complete (`Misled`):
  data that a caller left without a length, or a packet of 65536 bytes or more, whose field
  can say less than there is, even 0. The run has the former. (For the latter the
  checks of the receiver can read outside of the message; the model has a refusal there.)
- `NothingMissed` is about the subscribers that `publish` looks for; for `publish(topic, m)`
  the delayed ones of the message's own topic are not among them, although the header says
  'call publish(m) inside' (`src/include/lax/channel/channel.hpp:143`): the code gives
  `enqueue_checked` the given topic only (`src/src/channel/channel.cpp:56`), and they miss
  the message.
- `DelayedInOrder` follows delayed subscribers only: what an immediate one gets, and
  how often, is not recorded.
- `SlotsAccounted` and `TableMatchesSessions` end where one of the three ways
  in which the table breaks has happened (`Undisturbed`), among them a session that fails before
  it is stored and then stands in the table, dead. `LiveSlotsTaken` goes on after that, and ends
  where the lock was released under its holder or a session was destroyed twice.
- `AcceptsAgain` is about an acceptor that was given a connection; a failed accept asks again
  at once and is no step.
- `ThrowsOnlySelfFinished` allows the exception for a task that finished itself,
  as the usage notes of class `task` suggest: the runner passes it back whatever
  its state, and `execute` throws when it comes round again.

## Fairness

Threads inside a call or a handler keep being scheduled (weak fairness of their
steps): they are operating-system threads. Nobody is obliged to call the API.
In `Session` a write makes progress and completes (weak), and the completion
port hands completions out in the order they arrive, hence strong fairness for
taking a write's completion; `ImplementsSendQueue` holds under it, its `WF(Deliver)`
included. In `Channel` weak fairness of each thread suffices because the
bounds let every contention for the mutex end, in `ServiceImpl` even that some thread that is
inside a call goes on; the code relies on the fairness
of the platform's lock for the same.

## Proofs

All hold for every value of the constants that satisfies the assumption named in
the component's module; those say what the code or its use guarantees (the
threads that call `finish` or `execute` exist, limits are naturals) and nothing of
their size. A theorem that assumes more (all tasks have affinity, one thread makes
all the calls) has it as its `ASSUME`. Each module first states the inductive invariant `IInv`, as a
conjunction of named parts with a comment each, then lemmas about the data
(queues of distinct elements, counters that wrap, the least element of a set of
numbers), one lemma for each group of actions or each part that a step can
disturb, and last the theorems. TLC checked every `IInv` as an invariant of the
component's run before it was proved. The type invariants of `Session`, `Channel`,
`Timer`, `BitsProtocol` and `StateMachine` say no more than the ranges of the
variables; they are proved with the rest and no run repeats them.

`SequenceProofs` (any range and any reserve). `PoolInvariant` shows the inductive
invariant: `TypeOK`, `IdUnique`, `NoIdLost`, that the pool has no duplicates and
nothing `current_` has not passed (`PoolDistinct`), and that the pool is never
short of the reserve by more than one while unused ids are left, with each
recycled id's age plus its place in the queue at least the reserve
(`PoolKeepsReserve`). The last is what makes `ReuseDelayed` provable: an id at
the front has place 1, so its age plus one is at least the reserve.

`TaskSchedulerProofs` (any tasks, any number of runners and callers, any run
limit). `SingleOwner` and `NoTaskLost` need each other: `Disjoint` says that no
two of the places where a task may be share one, `Accounted` that a task is
somewhere exactly while it is scheduled and ready, or finished itself. `Places`
ties each thread's counter to the task in its hands. `ThrowsOnlySelfFinished`
needs `Pinned`: a pinned task that has run is with its runner,
or in the scheduler's queue, or with a caller whose search has ended at that runner.
`FinishedWhenDone` follows from `FinishProgress`, which says for each place in
`finish` which runners have left and which queues are empty; it holds while no
other call runs beside (`overlap`). Four theorems say when something cannot go
wrong: `PastTheEndAfterTheLastRunner` that finding 1 has one cause, a task without
affinity whose search ended on the last runner; `PinnedIndexInRange` that
`RunnerIndexInRange` holds when all tasks have affinity; `NoTaskFinishesItself` that
`execute` throws nothing when no task calls its own `finish`; `AloneFinishesAll`
that `FinishedWhenDone` needs no condition when one thread makes all the calls.

`SessionProofs` (any finite sets of threads, any number of sends). The inductive
invariant adds to the checked ones that accepted = delivered + rest of
the segments + buffer in sequence (what `InOrder` follows from), that an owner
of the write or of the read is unique and excludes an operation in progress,
and who will clear `sending_` and `recving_` of a closed session (what
`LastOneDestroys` follows from).

`SessionImplementsQueue` is the safety part of
`ImplementsSendQueue`: the initial state maps to the initial state, and each step
maps to `Accept`, `Deliver`, `End`, `Drop` or a stutter. It needs one more invariant,
`SegmentsKnown`: segments are held only while somebody has yet to release them, and
when they are released all were taken unless the connection has ended; with it the
end of a write and the swap of the buffers leave the abstract queue unchanged.
`AtMostOneNotificationPerThread` bounds what finding 3 can do: once the session is
destroyed nobody enters `destroy` any more, so the notifications made and the
threads still inside are together no more than the threads
(`NotifiedByDestroyers`). `DestroyedAloneNotifiesOnce` says that finding 3 has one cause: whatever
threads send and close, `NotifiedOnce` holds as long as no two are inside `destroy` at once.
`OneThreadNotifiesOnce` is a case in which that is so: one io thread, and application threads that
send and leave closing to the handlers.

`ServiceImplProofs` (any threads, slots, keys, and any range of the counters). The
core is who answers for a slot: `free_slots_`, the thread that constructs a
session for it, the live session, or the thread in `error`; `OneHolder` says
that there is no second, `EveryHolder` that there is one. `LiveSlotsTaken` needs
no more. Both hold until a session is destroyed twice (`doubled`): of the threads
that have looked at `destroyed_` in time only the first is the slot's holder. `SlotsAccounted` and `TableMatchesSessions` need `TableKnown`, what the
slot's entry holds in each of these cases, while no session fails before it is
stored (`early`). `ConnectorsCounted` needs `ConnectorsKnown`, which follows a
key from `connect` to the handler that erases it, under the lock while it excludes
(`raced`).

`ChannelProofs` (any threads, topics, keys, any calls from callbacks, any
depth). `Stacked` and `FramesKnown` say what stacks of calls look like;
`KeysMatchEntries` and `NoLateCallback` hold because the lists change only when no
frame reads them. `NothingMissed` needs that what is owed is owed to a subscriber
whose topic matches (`OwedKnown`) and that the two looks of `enqueue_checked` cover
the topics of the delayed ones (`AllLookedFor`). The order is an invariant of
its own (`OInv`, for callbacks that do not call `execute`): the queue keeps the order of
each publisher, what is delivered is earlier than what is queued, what
`execute` works on is earlier than what is about to be queued.

`TimerProofs` (any ids, intervals, durations, any calls from actions, any clock). An
object is in one slot or being run (`Placed`), objects and ids belong together
(`HeldIds`), and `reqs_` knows the ones that are not cancelled and no others
(`Known`); `NoneForgotten`, `IdsMatch` and `OnlyKnownTimersRun` follow. For
`AloneIsPunctual`: a timer alone in a slot is due no earlier than the slot was last
checked (`AloneIsLater`), and when `update` has passed a slot, the slot's next check is
later than now (`PassedBy`). What a slot's interval is (the greatest power of two
below half of the timer's) matters only in that it is positive.

`BitsProtocolProofs` (any sender threads, message classes, range of the sequence
byte). The packets lie one behind the other (`Contiguous`), and as long as no wrong
length field misleads it, `on_recv` stands at the end of the last packet it posted
(`InPlace`); so the next one, once whole, is the only one that begins there
(`NextIsWhole`). `Follows` says which number comes after the first packets: the
numbers in the stream follow each other while no two threads held one
(`InSequence`), what the receiver expects follows what it posted (`Expecting`), and
there is one number that follows (`FollowsOnce`). `ShortMessagesAreSafe` says when no length
field can mislead: every class stays below 256 bytes with its trailers, and callers of
`send(m, data, len)` leave the field unset only in data whose trailers rewrite it.

`StateMachineProofs` (trees of any size, any number of queued transitions). The
library's induction theorems take a predicate, which the provers cannot instantiate;
here induction is over a set of naturals (`Induction`, from `Least`: a nonempty
one has a least element, since `<` on the naturals is well-founded). From it follows
that a function whose value at a state is computed from its values at states of
lower rank exists (`RecursionExists`); for the ancestors the rank is the
state's number, for `has` its distance from the last one, and on a path the states from
which it goes down rank below those from which it goes up. With it `has`
and the path satisfy the equations the code states (`HasEquation`, `PathEquation`), `has` is
"the target is the state or below it" (`HasIsAbove`), and the path is the one that
`IsTransition` describes: straight down from a state above the target
(`RouteDown`), one exit and the rest from the parent otherwise (`RouteUp`,
`RouteFound`). The invariant says that the active states are the path from
the root to one state, its end, linked by `active_child_` (`Linked`), and that what
is left of the path that `tran_to` follows can be walked from that end (`Walks`): each
exit is the end's, each entry a child of the end's, the first `noop` is at the
end. `RouteWalks` shows that a new path can be walked from `current_`, `StepOK` that
a step leaves the rest walkable, from which `ActiveIsPath` and `VerifiesHold` follow;
`TransitionArrives` needs besides that the last node of the path is the
target of the transition at the front (`Aimed`).

Not proved, only model-checked: the leads-to properties (`FinishReturns` of the
scheduler and of the service, `QueuedTaskRuns`, `AcceptsAgain`, `CallsReturn`) and the
fairness of `SendQueue` in `ImplementsSendQueue`, since fairness and `ENABLED` are out
of the prover's reach. Every invariant and every action property that a passing run
checks has a theorem.

## Findings

Each is a violation run with its counterexample.

1. `run_schedule` indexes `runners_` by an id that counts from 1
   (`src/src/task/task_scheduler.cpp:127`).
2. A session whose last completion succeeded before `close` and is handled
   after it is never destroyed (`src/src/net/session.cpp:195`, `219`, `249`).
3. A session can be destroyed twice, by any two threads in `destroy` at once: `destroyed_` is
   set after the check's lock was released (`src/src/net/session.cpp:204`). In the run
   they are an application's `close` and the handler of the read that fails by it; the
   service's table does not survive it (`doubled` in `ServiceImpl`).
4. `on_new_socket` returns unlocked to a caller that goes on using the guarded
   map and unlocks again (`src/src/net/detail/service_impl.cpp:338`).

## Not modelled

- The life of C++ objects: handlers capture a raw `this`, a close callback may
  change the vector `subs_close` iterates, slots of a timer may move. What goes
  wrong there is a pointer, which these models do not have; the hazards list it.
- `cipher`: a network session's protocol is never bound to it, since
  `protocol::bind` does not call `on_bind`, and its arithmetic is Botan's. For
  the same reason the sequence counters start at 0 and not at `on_bind`'s 1.
- The cursor arithmetic of the segment and resize buffers (used through what
  they keep: a queue of messages, a window on the stream), the buffer pools.
- `channel_map` and `dispatcher`, actor, component and server: calls handed on by
  one thread, apart from the hazards listed at their lines.
- An immediate `tran` from `on_enter` or `on_exit`, which follows a second path
  inside the first.
- `wall_timer`, a placeholder copy of `timer`.
- Vendored code (asio, bitsery, botan, nanodbc, json, catch), which is most of
  the repository's lines, logging and formatting, generated messages, and the
  parts that are placeholders in this version (argos, db_service,
  service_directory, the bodies of `peer_service::process_*`, tools/bitsc).

## Plan

1. `channel_map` and the server's life cycle as modules.
2. The nested path of an immediate `tran` from `on_enter` or `on_exit`, with
   what remains true of the active states after it.
