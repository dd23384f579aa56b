# A verification project for boost::sml

boost::sml is a header only C++ library that turns a transition table written in
an embedded language into a state machine.  Almost all of it is compile time
machinery; what happens at run time is small, subtle and shared by every user:
the engine that dispatches one event, runs its reactions, and then works off the
events those reactions deferred or posted.  This directory models that engine in
TLA+, alone and composed with what surrounds it (sub machines, exception rows,
threads), and the coroutine utilities on top of it.  TLC checks the models on
families of small machines; TLAPS proves the invariants that matter most for every
table, every number of regions, threads, tasks and slots.

Paths below are relative to the repository (`src/` is its root).  `sml.hpp` is
`src/include/boost/sml.hpp`, `co_sm.hpp` is
`src/include/boost/sml/utility/co_sm.hpp`.

## 1. The system

| part | source | state it keeps | operations |
|---|---|---|---|
| transition table and lookup | `sml.hpp` 1052-1556, 3101-3330 | none (types) | find the row that reacts to an event in a state; execute it |
| engine `back::sm_impl` | `sml.hpp` 1830-2211 | `current_state_[region]`, `defer_`, `process_`, `defer_processing_`, `defer_again_`, `defer_it_` | constructor + `start`, `process_event`, and inside it the loops over post events, deferred events and posted events |
| facade `back::sm` | `sml.hpp` 2213-2357 | the pool of machines and dependencies | `process_event`, `is`, `visit_current_states` |
| actions `defer`, `process(e)` | `sml.hpp` 2617-2684 | - | push to the queues of the engine |
| sub state machines, history | `sml.hpp` 1365-1415, 3000-3100 | one `sm_impl` each | entry, exit, delegation of events, termination, reset |
| exception rows | `sml.hpp` 2059-2097 | - | catch, dispatch of `exception<E>` |
| thread safety policy | `sml.hpp` 1738-1756 | a lock | lock around `process_event` |
| dispatch policies | `sml.hpp` 1558-1633 | none | four ways to generate the same selection |
| logging, testing policies, front end, dependency injection | `sml.hpp` | none at run time | - |
| FIFO scheduler | `co_sm.hpp` 56-188 | ring of tasks, `head_`, `tail_`, `draining_` | `try_run_immediate`, `schedule`, destructor |
| `bool_task`, `co_sm` | `co_sm.hpp` 317-673 | coroutine handle, value, exception | `process_event_async`, `co_await`, `result` |
| pooled coroutine allocator | `co_sm.hpp` 206-277 | slots and a free list | `allocate`, `deallocate` |
| dispatch table | `utility/dispatch_table.hpp` | none | choose the event type for a run time id |
| pool of machines | `utility/sm_pool.hpp` | user storage, one machine | batches of `process_event` |

### How the parts interact

Everything is synchronous: `sm::process_event` calls `sm_impl::process_event` on
the caller's stack, which calls guards and actions, which may push to the two
queues of the engine that is calling them.  That is where the difficulty lies.
There is one thread of control but several loops on the stack at once, each with
locals and iterators that refer to state which the user code below them changes:

1. `process_event_and_post_events` dispatches the event to all regions, and then
   `completion<E>` and `anonymous` for as long as one of them is handled;
2. `process_defer_events`, entered when the state of region 0 has changed, walks
   the defer queue in place, erases what was handled and restarts from the
   beginning when the state changes; while it runs, `defer` only sets a flag;
3. `process_queued_events` processes the front of the process queue in place and
   pops it afterwards;
4. `process_event` alternates 2 and 3 until neither has anything to do.

An exception thrown by a guard or an action leaves all of them at once and leaves
the members as they are - unless the table has `exception<>` rows: then every
dispatch is a try block whose catch dispatches the exception to the table, in the
middle of whatever called the dispatch.

A state of the machine can be a machine.  It has an `sm_impl` with states and a defer
queue of its own; the outer machine calls it from the rows of that state, clears
its deferred events when it is left and resets its states when it is entered.

With `thread_safe<Lock>` the first statement of `sm_impl::process_event` takes a lock,
so threads share the states and queues that calls leave behind.  `co_sm` lets the
scheduler decide when `process_event` is called; its tasks refer to coroutine frames
by plain handles, from the ring of the scheduler and from the user's side.

### What is hard, and what makes it correct

* A reaction gets a reference to the event inside the queue it pushes to.
  The object must stay where it is until its processing has ended.
* An event must be handled once: not lost when queues are edited while they are
  scanned, not delivered again by a restart of the scan.
* A deferred event must be offered again after the state has changed, and order of
  arrival must be kept.
* Posted events must be processed in the order of posting and survive calls that
  are cut short by an exception.
* A call must leave nothing half done when it returns, and must return.
* A handler of an exception runs inside the reaction that threw, may move the same
  region and may throw; every region must hear of the exception, and the reaction must
  not undo what the handler did.
* A composite state that is left and entered again is the same object: history must be
  kept, deferred events must not.
* A sub machine can terminate at any step of an outer call and must then be left.
* Two threads must not see the middle of each other's calls, and a call that throws
  must give the lock back.
* A coroutine handle must not be used after the frame is gone, or resumed twice, and
  the result of a task must be that of its own event.
* What the documents promise about exceptions and about unexpected events.

`PROJECT.json` lists these and the other hazards at their lines.

## 2. The modules

`TransitionTable.tla` - tables as data.  A table is a record of the initial states
and a sequence of rows `[src, on, guard, action, to]`.  User code is abstracted to
what it can do to the engine: a guard is the set of verdicts it may return
(`"true"`, `"false"`, `"throws"`), an action is a sequence of operations (`Defer`,
`Process(e)`, `UserCall`, which may throw).  The overload resolution on mappings
becomes a set of rows with a priority order: rows of the state before rows of
`state<_>`, each group in table order (`Before`, `Reached`).  `Execution` is
`transition::execute` after the guard: exit action, state update, action, entry
action.

`SmImpl.tla` - the engine.  The members of `sm_impl` are variables of the same
name, the locals of its functions too (`handled` exists twice in the code and is
`event_handled`, `handled` and `accepted` here, from the outside in).  `pc` says
where control is:

| pc | code | actions |
|---|---|---|
| `lookup` | `transitions::execute` in one region | `RowFires`, `NoRowFires`, `GuardThrows` |
| `run` | a row is being executed | `UpdateState`, `PostEvent`, `DeferEvent`, `CallReturns`, `ActionThrows`, `RowDone` |
| `dispatched` | `process_internal_events` returned | `Dispatched` |
| `returned` | `process_event_and_post_events` returned | `EventReturns`, `RecallReturns`, `QueuedReturns` |
| `recheck` | head of the inner loop of `process_event` | `Recheck` |
| `recall` | head of the loop of `process_defer_events` | `Recall`, `RecallDone` |
| `queue` | head of the loop of `process_queued_events` | `TakeQueued`, `QueueDone` |
| `ready` | no call is active | `ProcessEvent`, `Idle` |
| `destroyed` | the constructor threw | `Idle` |

An event object is a trigger and an identity; a copy made by `defer` of the event
being processed keeps the identity, a posted event gets a new one.  The history
variables (`issued`, `posted`, `started`, `done`, `owed`, ...) are read by no guard
and decide nothing but the bound on calls and the numbers of new event objects.

`Next` bounds the calls; `Step` and `EngineSpec` are the same machine without the bound.
The modules that call the engine from elsewhere use `BeginCall`, and the proofs are
about `EngineSpec`, so that they hold in those modules too.

`MCSmImpl.tla` - instances for TLC.  `Tables` is a constant, so one run checks a
whole family of machines: the initial state picks one.

`SmImplProofs.tla`, `SmImplCallProofs.tla` - the theorems about `SmImpl`: types and the
process queue in the first, calls and the defer queue in the second.

`ThreadSafe.tla` extends `SmImpl`.  A thread has a `request` while it is in
`process_event`; `Acquire` takes the lock and begins the call, `Run` is a step of the
engine, `Release` is the destructor of the lock guard, which runs when the call has
returned or thrown (`pc = "ready"`).  The constructor runs before the machine is
shared.  `MCThreadSafe.tla`, `ThreadSafeProofs.tla`: instances and proofs.

`Composite.tla` extends `SmImpl`, which is the sub machine.  The outer machine has one
region; `at` says where it is:

| `at` | code | actions |
|---|---|---|
| `dispatch` | `transitions_sub::execute` | `DispatchOuter` |
| `in_sub` | the sub machine runs inside it | `SubRuns`, `SubAnonymousReturns`, `SubReturns` |
| `rows` | `transitions::execute` on the rows of the outer machine | `OuterRowFires`, `NoOuterRowFires` |
| `leaving` | the sub machine processes `on_exit`, then the state is updated | `SubRuns`, `OuterUpdate` |
| `updated`, `entering` | the sub machine processes `on_entry` | `OuterEnter`, `SubRuns`, `OuterEntered` |
| `dispatched` | `process_post_events` | `OuterDispatched` |
| `ready` | no call is active | `OuterProcessEvent`, `OuterIdle` |

The sub machine posts nothing (`process` pushes to the queue of the outermost machine)
and throws nothing; it defers, terminates, and has anonymous, entry and exit rows.  For
`anonymous` the outer machine calls `process_internal_events` of the sub machine and
not `process_event`, so the deferred events of the sub machine are not looked at
(`SubAnonymous`).  `MCComposite.tla`, `CompositeProofs.tla`: instances and proofs.

`ExceptionRows.tla` - a machine with `exception<>` rows, and so without a `SmImpl`
below it: here every dispatch can be interrupted and dispatches nest.  `frames` is the
stack of active `process_event_except_impl` calls; a frame has its trigger, its region,
whether it visits the rest of the regions (`whole`), where it is in the search for a row
(`stage`) and what is left of the row it runs (`todo`).  An exit or entry action and an
`unexpected_event` row are frames of one region above the one that waits for them;
`Throw` replaces the innermost frame by the dispatch of the handler to all regions, as
the `return` in the catch does.  `Unique` is `aux::unique_t`, batches included, because
the order of the catch clauses comes from it.  The machine has no queues (the default
policies).  `MCExceptionRows.tla`, `ExceptionRowsProofs.tla`: instances and proofs.

`FifoScheduler.tla` - `utility::policy::fifo_scheduler`, with its members under
their own names.  Tasks are numbered in the order in which they are accepted, and a
slot of the ring holds the number of the task whose closure lives in it, 0 for
none; so "constructed", "executing" and "destroyed" are facts about the slot.  The
code has nested calls - a running task calls `schedule` - but while user code runs
`draining_` is set, so the nested call ends in `enqueue` and one `pc` is enough:

| pc | code | actions |
|---|---|---|
| `idle` | no call is active | `RunImmediate`, `ScheduleQueued`, `Destroy` |
| `immediate` | the closure given to `try_run_immediate` runs | `ScheduleQueued`, `ImmediateReturns`, `ImmediateThrows` |
| `drain` | head of the loop of `drain_pending` | `TakeTask`, `DrainReturns` |
| `task` | a queued closure runs | `ScheduleQueued`, `TaskReturns`, `TaskThrows` |
| `terminated`, `destroyed` | `std::terminate`, the destructor | `Ended` |

`TaskQueue.tla` - what a scheduler promises, `strict_ordering_scheduler_contract`:
tasks wait in one queue in the order of acceptance, one runs at a time, none is
dropped while the scheduler lives.  `FifoScheduler` implements it under the mapping
that reads the waiting tasks out of the ring (`Pending`).

`MCFifoScheduler.tla` - instances for TLC, with the check that `NextIndex` is the
mask of the code for the capacities that compile.  `FifoSchedulerProofs.tla` - the
theorems.

`PooledAllocator.tla` - `utility::policy::pooled_coroutine_allocator` and the
`frame_header` that takes a coroutine frame back to its allocator.  Several
allocators, one of which may be a copy of another, share one address space with the
heap; the unit of addresses is a slot, so the remainder that `is_pool_pointer` also
looks at is always 0.  `AllocateSlot` and `AllocateHeap` are the two ways `allocate`
ends, `Deallocate` decides by size and address as the code does.  The history
variables `rank` and `free` describe the free list (the number of slots from one to
the end of the list), `lost` the slots that were in use when a pool was copied.
`MCPooledAllocator.tla` and `PooledAllocatorProofs.tla` are its instance and proofs.

`CoSm.tla` extends `FifoScheduler`: the closure of task `t` is that of the `t`-th event
given to `process_event_async`.  `frame[t]` is the coroutine frame of an event that had
to wait (`suspended` at the `co_await`, `done` at its final suspend point, `destroyed`),
`value[t]` what the `bool_task` or the promise holds, `owned` the tasks in the hands of the
user.  The state machine is the verdict of `process_event` for an event.  User code,
which runs outside of calls and in reactions, may send events, ask for results, await
and destroy its tasks, and destroy the `co_sm`, at any time; where the code would touch
a frame that is not there, or resume one that is not suspended at its `co_await`,
`dangling` is set and the behaviour ends, since anything could follow.  `misused` names
the tasks whose user had done what the class leaves to him not to do.  `MCCoSm.tla`,
`CoSmProofs.tla`: instance and proofs.

Operators introduced by "a mistake in the code below" belong to no action: they are the
plausible bugs that `PROJECT.json` puts in the place of the operators after them, to
see that each property notices one.

## 3. The runs

| run | machines | checked |
|---|---|---|
| `defer` | every machine with one region, two states and two events in which a state ignores an event, defers it, changes state, restarts, or defers and changes state, with or without anonymous transitions | `DeferredKept`, `AtMostOnce`, `RecallComplete`, `DeferInOrder`, `TerminatingReturn` |
| `engine` | two regions; reactions post up to two events, defer and throw; completion, anonymous, entry, unexpected_event and `state<_>` rows | `TypeOK`, `ReferenceStable`, `PostsInv`, `PostsInOrder`, `Quiescent`, `AtMostOnce` |
| `exceptions` | two regions with exception rows of a base class, a derived one, another type and `exception<_>`; everything that can throw does | `TypeOK`, `WellNested`, `HandledEverywhere`, `HandlerHasLastWord`, `CallsReturn` |
| `composite` | a sub machine with two regions, with and without history, in nine outer machines that leave, enter, restart, complete and terminate it | `OuterTypeOK`, `HistoryKept`, `VisitForgotten`, `CompletionTaken`, `InnermostFirst`, `OuterReturns` |
| `threads` | two threads on one machine that posts, defers, changes state and throws | `LockedWhileRunning`, `OwnPosts`, `Answered` |
| `fifo` | a ring of 4 slots, 9 tasks that schedule tasks and may throw | `ArrivalOrder`, `SlotsLive`, `DrainedOnReturn`, `FollowsContract`, `Begins` |
| `co_sm` | 5 events over a ring of 4 slots, reactions that send events, throw, and use tasks in any way | `NothingDangles`, `ResultIsVerdict`, `ReadyOutside`, `InCallOrder`, `OnlyFullEnds` |
| `pool` | two pools of 3 slots, 4 frames, heap memory after the first and before the second | `FreeListIntact`, `FramesApart`, `SlotsAccounted`, `HeapBalanced`, `PoolUsedFirst` |
| `guard_throws`, `error_region`, `defer_throws`, `handler_order` | one or two machines each | a counterexample, see section 6 |

What they show.

**The queues.**  `DeferredKept` and `AtMostOnce` together say that the in place
scan of the defer queue neither drops nor repeats an event, whatever mixture of
deferral, state change and anonymous transition the scan runs into.
`RecallComplete` says that the restarts are enough: when a call returns, every
event still deferred is one that the state of the machine defers.  It is checked
with one region and no posted events, because the state of region 0, before and after all
the posted events, decides whether the scan is made (`sml.hpp` 1902, 2131): with two regions,
an event deferred by the second one waits until the first one changes.  `ReferenceStable` says that user code keeps a valid
reference to its event; `PostsInv` and `PostsInOrder` that no posted event is lost or
overtaken, across any number of calls cut short by exceptions; `Quiescent` that a call
that returns leaves nothing posted, and nothing half done unless user code threw
earlier.

Two things that the code does are outside `AtMostOnce`.  An event that two regions defer is
stored twice and processed twice (`sml.hpp` 2623), and so is one that a single row defers
twice, as `defer_and_action` in `test/ft/actions_defer.cpp` (lines 295-325) expects; no table
of `defer` or `engine` has either, and `Orderly` excludes both (section 4).  And
where several regions react, an exception of a later one leaves a posted event that an
earlier one has deferred both in the defer queue and at the front of the process queue;
that is the condition `NeverThrows \/ OneRegionReacts`.

**Exceptions.**  `WellNested` says that the answer of a nested dispatch reaches the
frame that waits for it, in the region that asked.  `HandledEverywhere` says that a
region whose state, at the moment of the throw, has an unconditional row for the handler
runs a row of it, even when its own transition was the one interrupted.
`HandlerHasLastWord` says that a transition whose entry action threw does not move a
region that the handler has moved.  It excludes tables whose exit actions throw: the exit
action runs before the state is updated, its handler returns into the transition, and the
transition overwrites what the handler did (`sml.hpp` 3115-3116).

**Composite states.**  `HistoryKept`: while the composite state is left, nothing happens
in the sub machine and nothing waits there; on entry the regions with history are where
they were left, the others at their start.  `VisitForgotten`: no event deferred in one
visit is processed in the next, although the exit action runs the scan of the sub machine
once more before its queue is cleared.  `CompletionTaken`: a terminated sub machine has
been left when the outer call returns, if the outer machine has a row for it without a
guard.  `InnermostFirst`: the outer machine's row for an event fires only if the sub
machine did not handle it or was terminated by it.

**Threads.**  `LockedWhileRunning`: every step of a call is made by the thread that holds
the lock.  `OwnPosts`: where nothing throws, a call processes its own posted events only;
with exceptions the leftovers of one thread's call are processed in the next call of any
thread.  `Answered`: every call ends and is answered.

**The scheduler.**  `ArrivalOrder` says that tasks begin in the order of acceptance,
each once, whoever scheduled them and whatever threw in between; `SlotsLive` that no
closure is constructed over a living one, leaked or destroyed twice, for which the slot
that a full ring leaves free is needed, as `head_` has already passed the closure that is
executing; `DrainedOnReturn` that a call which returns leaves nothing behind;
`FollowsContract` that the ring is the queue of the contract.

**Coroutines.**  `NothingDangles` says that handles are used only while their frames live
and only once, if the user keeps three rules that the class does not enforce: a task is
not destroyed before its event was processed, not awaited before that (`await_suspend`
returns the task's own handle, `co_sm.hpp` 496, so awaiting a waiting task resumes it), and
not used after its `co_sm` is destroyed.  Without the rules TLC finds the use after free;
`misused` is where it records that one was broken.  `ResultIsVerdict` says that a task
reports its own event, also when that was processed in somebody else's call or threw
there; `ReadyOutside` that outside of reactions the rules about waiting tasks cannot be
broken, because no task waits; `InCallOrder` that events are processed in the order of
the calls; `OnlyFullEnds` that a throwing reaction never reaches a `noexcept` function of
the scheduler.

**The allocator.**  `FreeListIntact` says that the links make a list without cycle
whatever the order in which slots come back, `FramesApart` that no memory is given
out twice, `SlotsAccounted` and `HeapBalanced` that none is lost and each block
returns to where it came from, and `PoolUsedFirst` that the heap is used for a frame
that fits only when the pool is exhausted.  A copied pool never gets the slots that
were in use when it was copied; `lost` names them.

### Bounds

`MaxIssued` bounds the event objects created before the next call of
`process_event`; reactions may create more.  A call is never
cut off in the middle.  Two or three calls, each posting up to two events which post
again, reach every combination the loops distinguish: a leftover in either queue
when a call begins, an event deferred before and after the one that changes the
state, a restart of the scan with handled and kept events on either side of the
iterator.  Two states and one region are enough for restarts; two regions are
needed for everything that goes through the order of regions, and the second one
can always be varied while the first stays.  Events are three where a posted event
posts another.  Tables are enumerated, not hand picked, within the named shapes;
no symmetry is declared because the tables name their states and events.

`MaxThrows` 3 in `exceptions`: an action throws, its handler throws, and the handler of
that throws again, or a later call does; `MaxCalls` 2 lets a call begin in the states
that exceptions left.  `MaxCalls` 3 in `composite`: the state can be left, entered again
and left again.  In `threads` two threads are enough for every race for one lock, and
`MaxIssued` 4 gives each more than one call.

The ring has `Capacity` 4, hence three waiting tasks, and `MaxAccepted` 9 tasks: both
indices go around twice and the ring is filled at every position, also while the
slot in front of `head_` is executing.  `co_sm` has five tasks, enough to fill and wrap
the ring once; what more wrapping does is the business of `fifo`.

A pool of three slots has a first, a middle and a last one, and lists in every order;
four frames exhaust it and spill over.  The heap addresses are those next to a pool,
where the comparisons of `is_pool_pointer` could be off by one.  Frames are symmetric:
nothing orders or names them.

### Fairness

`Spec` has none.  `FairSpec` adds `WF_vars(Engine)`: once `process_event` has been
called, the engine runs on the caller's thread and nothing but user code that does
not return could stop it.  `ProcessEvent` is not in `Engine`: whether a call is made
is the user's choice.  The same holds of `FairSpec` in `ExceptionRows` and of
`FairOuterSpec` in `Composite`, where both machines run on the caller's thread.

That calls return is false without restrictions on the table - an
anonymous cycle, or a reaction that both defers its event and changes the state,
loops forever in the code too - which is why `TerminatingReturn` is about the tables of
`TerminatingTables`.  With exception rows one more loop exists: an exit action that always
throws, and a handler row that leaves the same state, call each other until the stack
ends.  `CallsReturn` is about reactions that stop throwing (`MaxThrows`).

The scheduler also runs on its caller's thread: `WF_vars(Work)` says that tasks
return and the loop goes on.  No call of `schedule` is assumed.  `Begins` excepts
what a throwing immediate task leaves behind, which waits until somebody calls again
(section 6).

`FairThreadSpec` says that the thread that holds the lock runs, releases it at the end of
the call, and that a lock which stays free is given to a waiting thread.  A mutex promises
no order, so a thread that waits is sure of the lock only when the others stop calling;
here their calls are bounded.

## 4. The proofs

### The engine

`SmImplProofs.tla` and `SmImplCallProofs.tla` prove for every value of the constants
that satisfies the assumptions `NumRegionsAssumption`, `WildcardAssumption`,
`TablesAssumption` and `MaxIssuedAssumption`:

| theorem | statement |
|---|---|
| `TypeCorrect` | `Spec => []TypeOK` |
| `ReferencesStable` | `Spec => []ReferenceStable` |
| `PostsAccounted` | `Spec => []PostsInv` |
| `PostsOrdered` | `Spec => []PostsInOrder` |
| `CallsQuiescent` | `Spec => []Quiescent` |
| `DeferredEventsKept` | `Spec => [](NeverThrows => DeferredKept)` |
| `DeferredEventsInOrder` | `Spec => []((\E home \in [States -> Regions] : Orderly(home)) => DeferInOrder)` |
| `ProcessedOnce` | `Spec => []((\E home \in [States -> Regions] : Orderly(home)) => AtMostOnce)` |
| `DeferredEventsRecalled` | `Spec => [](Watched => RecallComplete)` |

The theorems behind them (`TypesAndReferences`, `PostsInvariant`, `CallsCorrect`,
`KeptInvariant`, `OnceInvariant`, `WatchedInvariant`) are about `EngineSpec`, for the
modules that call the engine in another way; `Spec` is `EngineSpec` with the bound on calls.

`TablesAssumption` says what compiles: rows have the shape of `TransitionTables`,
entry and exit rows have no guard and no target here, `defer` appears in reactions
to events, completions and anonymous transitions, and an event that is posted is
known to the machine.

The argument.  `ReferenceStable` is not inductive alone, because nothing in it says
that the defer scan is in its mode while it runs; `ScanMode` adds that at
`pc = "recall"` the mode is on, and together they say that a push goes to the end
of a queue and an event in processing is never moved by it: `DeferEvent` stores
nothing while the mode is on, `PostEvent` appends behind the front.
`PostedAccounted` and `PostsInOrder` need four facts about identities: they grow
(`IdsBounded`), the process queue is sorted by them (`QueueSorted`), an event that
has begun is not behind one that waits (`StartedFirst`), and what is deferred has
begun (`KnownStarted`).  The key step is `QueuedReturns`: the popped front is the
event that has just ended, by `ReferenceStable`, so it is in `done` or `owed`.
`Unwind` needs no step of its own beyond that: exceptions leave the queues as they
are, and the leftover front is still sorted before everything posted later.  Steps
are grouped by action and, below that, by the conjunct the action can disturb.

`Quiescent` is an invariant of results, which only the end of a call sets; it needs
`CallInv`, which says for each place in the loops whether the mode can be on there if
user code never throws (`SmImplCallProofs.tla`).

The theorems about deferred events have hypotheses on the table, because the code keeps
these promises only for some tables.  Every table of run `defer` meets all of them.

* `NeverThrows`: no guard throws and no action contains user code that may.  An exception
  in the middle of a scan leaves `defer_processing_` on, and then `defer` stores nothing
  (run `defer_throws`).  An action that defers a posted event and then throws leaves it in
  both queues: it is processed and deferred again, and waits twice.
* `EventsDefer`: only reactions to events defer, and not those to completions or to
  nothing.  An anonymous row that defers sets the flags which `process_defer_events` reads
  for the event handled before it: that event stays in the queue although it was handled,
  and is processed once more in the next scan, against `AtMostOnce`.
* `Orderly(home)`, which adds that every state belongs to one region, its `home`, and that
  the rows deferring an event are rows of one region and defer it once.  An event that two
  regions defer is stored twice (`sml.hpp` 2623).
* `Watched`, which adds one region and no posted events.  The scan is made when the state
  of the first region has changed (`sml.hpp` 1902, 2131), so events that other regions defer
  may wait in states that would process them.  It compares the state before and after all
  the posted events: if the first of three posted events leaves the state, the second is
  deferred in the next one and the third returns, then `changed` is false and the second
  waits in a state that would process it.

`DeferredKept` needs the link between the flags and what is handled (`CountsHandled`): a
deferral counts as handling, so the loops cannot take the event for unhandled, and an event
deferred for the first time is in the queue at once, a recalled one stays where it is
(`Stored`).  `DeferInOrder` and `AtMostOnce` are proved together (`OnceInv`): a push to the
end keeps the order because the event in processing is younger than all that wait, unless
it is one of them (`OrderInv`); it is not pushed a second time because each region stays
among its states and no region that is still to be asked defers it (`HomeInv`); and what is
done is in neither queue (`DoneInv`).  In `RecallComplete` the scan is restarted whenever
the state differs from the one in which it began; `QueueWaits` says for every place in the
loops which part of the queue is known to be deferred in which state: all of it in the
state the call found, and the part before `defer_it_` in the state the scan began with.
`LookedUp` says that an event which is being deferred was looked up in just that state.

### Threads

`ThreadSafeProofs.tla`, for every number of threads (`NoThread` and `None` are none of
the threads and events):

| theorem | statement |
|---|---|
| `OneAtATime` | `ThreadSpec => EngineSpec` |
| `LockHeld` | `ThreadSpec => []LockedWhileRunning` |
| `PostsOwned` | `ThreadSpec => []OwnPosts` |

`OneAtATime` is a refinement: seen without threads, the machine under the lock is the
machine with one caller, so every theorem about `EngineSpec` is one about it.  Its
one real step is `Acquire`, which must find the engine at `ready`; that is
`LockedWhileRunning` with `LockInv` (nobody has the machine while it is constructed).
`OwnPosts` needs `FreshPosts`: while a call runs, everything in the process queue was
posted since it took the lock, which the previous call's `Drained` makes true at its start.

### Composite states

`CompositeProofs.tla` proves for every number of regions, every set of them with history,
every sub machine that posts and throws nothing (`SubTablesAssumption`) and every outer
machine (`OutersAssumption`, `OuterStatesAssumption`):

| theorem | statement |
|---|---|
| `OuterTypeCorrect` | `OuterSpec => []OuterTypeOK` |
| `HistoryHeld` | `OuterSpec => []HistoryKept` |
| `VisitsForget` | `OuterSpec => []VisitForgotten` |
| `CompletionsTaken` | `OuterSpec => []CompletionTaken` |
| `InnermostMachineFirst` | `OuterSpec => [](TerminateFinal => InnermostFirst)` |

The sub machine is `SmImpl` with one caller more (`process_internal_events`), so its types
and `RefInv` are proved again by the lemmas about the engine's steps, with what a sub
machine never does (`SubCalls`).  `HistoryInv` says at which places of the outer machine the
sub machine may be active, so that nothing of it moves while the outer machine is elsewhere.
`VisitForgotten` then follows from identities: all that the sub machine holds is younger
than the visit (`VisitInv`), for which the scan that `on_exit` starts must have ended before
the queue is cleared.  `CompletionInv` follows the answers from the sub machine to the outer
one: if `anonymous` was answered with "not handled" while the sub machine is terminated,
then no row could take it.

`TerminateFinal` says that no row of the sub machine leads out of X, nor one of `state<_>`.
The library does not forbid such rows; with one, an anonymous transition after `on_exit`
wakes a terminated region while its machine is being left, and the second part of
`InnermostFirst` is no longer about a terminated machine.  All machines of `composite` meet it.

### Exception rows

`ExceptionRowsProofs.tla` proves for every table of the shape the module describes, every
number of regions and every hierarchy of exceptions (`TablesAssumption`,
`CatchesAssumption`, `BoundsAssumption`):

| theorem | statement |
|---|---|
| `TypeCorrect` | `(\A t \in Tables : CatchClauses(t) \in Seq(Exceptions)) => (Spec => []TypeOK)` |
| `AlwaysWellNested` | `Spec => []WellNested` |
| `HandlerHeardEverywhere` | `Spec => []HandledEverywhere` |
| `HandlerMovesLast` | `Spec => []HandlerHasLastWord` |

Types and nesting are one invariant, `TypeNest`: a dispatch that returns gives its answer to
the frame below it, and that this frame is one that waits for it is known only because the
stack is well nested; that a frame asking the `unexpected_event` rows has an event to ask
about (`AskingEvent`) completes it.  It leaves out the type of `exceptions`, which never
changes: `CatchClauses` is computed by folds over the table, so the type of its result is
induction over data.  It is the hypothesis of `TypeCorrect`, which the run checks for its
tables; the other three do not use it.

`HandledEverywhere` speaks of the end of a dispatch, after any number of further throws.
`HeardInv` says what is true before: either all regions that must hear of the last exception
have, or the frame of its handler is on the stack (`Handling`), it has been through the
regions below its own, what runs above it belongs to its own region, and the regions it
has not reached are still in the states of the throw.  A further throw makes another
exception the last one and starts over with its handler.

`HandlerHasLastWord` follows from where an update can be: in front of what a row has left
to do, or behind its exit action (`UpdateFirst`).  Before the update only the exit action can
have been above the frame, and it does not throw, so no handler has run (`OwnUpdate`).

### The scheduler

`FifoSchedulerProofs.tla` proves for every `Capacity` above 1 - the power of two
matters only for the mask:

| theorem | statement |
|---|---|
| `RingCorrect` | `Spec => [](TypeOK /\ RingInv)` |
| `SchedulerTypes`, `SchedulerOrder`, `SchedulerSlots`, `SchedulerRunningKept`, `SchedulerDrained` | `TypeOK`, `ArrivalOrder`, `SlotsLive`, `RunningKept`, `DrainedOnReturn` |
| `SchedulerContract` | `Spec => FollowsContract` |

`RingInv` adds `CallState` to the three properties: `draining_` is set exactly
while the outer call is active, and the executing slot is the one in front of
`head_`.  The arithmetic of the ring is kept in two lemmas: distances from `head_`
are positions without repetition (`DistPos`), and the number of waiting tasks stays
below the capacity (`CountBounds`).  The refinement then needs what each action does
to `Pending`: append (`PendingAppend`), tail (`PendingTail`), or nothing
(`PendingStill`).

### Coroutines

`CoSmProofs.tla`, for every capacity and number of events:

| theorem | statement |
|---|---|
| `SchedulerUsed` | `CoSpec => Spec` of `FifoScheduler` |
| `TasksCorrect` | `CoSpec => [](CoTypeOK /\ CoInv)` |
| `FramesSafe`, `ResultsTrue`, `TasksReady`, `EventsInOrder`, `ExceptionsContained` | the five invariants of `co_sm` |

By `SchedulerUsed` the ring invariant holds in the composition.  `CoInv` then relates the
two sides: every closure in the ring has a coroutine suspended for it unless the user
broke a rule (`HandlesInv`), a task is owned by the call that makes it or by the user and
has a frame only once it was accepted (`OwnersInv`), an event has a verdict exactly when
its closure has ended (`VerdictsInv`), and a finished task holds that verdict
(`ValuesInv`).  The order of verdicts is the order of the ring.

### The allocator

`PooledAllocatorProofs.tla` proves for every number of pools, slots and frames, where
pools and heap do not overlap (`BeginAssumption`, `HeapAssumption`):

| theorem | statement |
|---|---|
| `PoolCorrect` | `Spec => [](TypeOK /\ PoolInv)` |
| `PoolTypes`, `PoolListIntact`, `PoolFramesApart`, `PoolSlotsAccounted`, `PoolHeapBalanced` | `TypeOK` and the four invariants of `pool` |
| `PoolFirst` | `Spec => PoolUsedFirst` |

`PoolInv` adds `FramesPlaced`: the memory of a frame is a slot of its own pool, if it
fits, or heap memory.  With it `CameFrom` shows that the address test of `deallocate`
answers where the frame came from.  The list is handled by rank instead of by
sequence: `PopIntact` and `PushIntact` show that taking and returning the first slot
keep "every link lowers the rank by one".

## 5. Model-checked only

* `TerminatingReturn`, `CallsReturn`, `OuterReturns`, `Answered`, `Begins`: liveness under
  fairness is outside what the provers do.
* That the catch clauses of a table are a sequence of exceptions, and their order
  (`HandlersInOrder`, refuted by run `handler_order`): what a fold computes is induction over
  data.
* `AtMostOnce` of machines that throw and in which one region reacts: run `engine`.  The
  theorem is about machines that do not throw; with exceptions it would need to say what
  each of them leaves in the two queues.
* `InnermostFirst` of a sub machine that can leave X: not checked either, no table of
  `composite` has such a row.

The hypotheses of the theorems about deferred events are not there for the proof: section 4
gives for each what the code does without it.

## 6. Where the documents and the code disagree

Each is a run with `expect: violation`; TLC's counterexample is the trace.

* `guard_throws` - `doc/overview.md` line 57 says that the machine stays in its
  state when a guard throws.  With two regions the first may have moved already.
* `error_region` - `doc/tutorial.md` line 352 says that `unexpected_event` is fired
  when the machine cannot handle an event, and line 379 recommends an orthogonal
  region for it.  That region fires on events which another region handles.
* `defer_throws` - after an exception in an action of a deferred event,
  `defer_processing_` stays on and the next `defer` stores nothing: the event is
  lost, against what `test/ft/actions_defer.cpp` lines 35-45 show of deferral.
* `handler_order` - `doc/tutorial.md` line 398 says that exception handlers are processed
  in the order they were defined.  The catch clauses are in the order of `aux::unique_t`
  (`sml.hpp` 404-607), which reads eight or more types in batches and gives each batch
  back in reverse: from eight internal events on (each row counts twice, for its source
  and its target) a handler for a base class that is defined first is not the one
  called.  `test/ut/utility.cpp` lines 13-21 test seven types at most.  The regions
  of a machine with eight or more of them are reversed by the same function.

Two more that were seen while modelling and have no run:

* `doc/overview.md` line 58 says that the machine is in the new state when an action
  throws.  If the action is that of an `on_exit` row it is in the old one: `sml.hpp` 3115
  runs the exit action before the update.
* The comment at `co_sm.hpp` line 105 says that the queue cannot
  have tasks in it while nobody drains it.  It has after the closure given to
  `try_run_immediate` has scheduled a task and thrown (line 88).  The branch below
  the comment handles the case: the next `schedule` runs both tasks, in order
  (`ArrivalOrder` and `InCallOrder` hold there too).

## 7. Not modelled

* Re-entrant calls: user code that calls `process_event` of its own machine from a guard
  or an action (and so `co_sm::process_event` from a reaction).  Each nested call has
  locals of its own, so the model would need a stack of all of them.
* Deferral through a `back::defer` argument, which pushes while the queue is scanned.
* `event<_>` rows, guards on entry and exit rows, `completion<E>` of an event the machine
  does not know otherwise.
* Exception rows in a machine with queues; sub machines that post or throw, several
  levels of them, and an outer machine with several regions.
* `is` and `visit_current_states` from another thread: they take no lock, and what they
  read during a call is a data race.  A lock that is recursive.
* Copies of a `co_sm`; a task that destroys its scheduler, which is outside the contract;
  assignment to an allocator that has frames; `operator new` that fails.
* The dispatch table (a range check before an array of functions) and the pool of machines
  (a loop over `process_event`): no state that could go wrong.
* Logging, the front end language and dependency injection have no state at run time.
  The dispatch policies select the same mapping; the model has the mapping.

## 8. Plan

Done, in this order: `TransitionTable` and `SmImpl`; `FifoScheduler` with the abstract
queue `TaskQueue` it implements; `PooledAllocator`; `ExceptionRows`; `Composite`;
`ThreadSafe`; `CoSm`.

Proved: every safety invariant that a run checks, `TypeOK` included, some under the
hypotheses on the table that section 4 gives.

Left, most useful first:

1. `AtMostOnce` with exceptions, where one region reacts.
2. The catch clauses as a sequence of exceptions, by the least number theorem of the
   library, which takes a set and no operator.
3. Re-entrant calls: `SmImpl` with a stack of calls.
4. Exception rows together with the two queues.
5. Several sub machines and levels.
