--------------------------------- MODULE CoSm ---------------------------------
(***************************************************************************)
(* utility::co_sm and bool_task (src/include/boost/sml/utility/co_sm.hpp):  *)
(* process_event_async over the fifo_scheduler of FifoScheduler, whose task *)
(* t is the closure of the t-th event.  A closure that runs at once answers *)
(* through a value; any other is scheduled by a coroutine, whose frame      *)
(* lives until the bool_task that owns it is destroyed.                    *)
(*                                                                         *)
(* The state machine appears as the verdict of process_event for an event;  *)
(* its reactions are user code and may use co_sm and their tasks.  A        *)
(* continuation never waits: await_suspend resumes the coroutine it is      *)
(* asked to wait for, so the user's code goes on within the same step.     *)
(***************************************************************************)
EXTENDS FifoScheduler

VARIABLES
    frame,      \* task -> its coroutine frame, "none" if it has none
    value,      \* task -> what its bool_task or promise holds
    calling,    \* task whose process_event_async is on the stack, or 0
    owned,      \* tasks whose bool_task the user has
    dangling    \* a frame was used outside of its life: undefined behaviour

VARIABLES       \* history, read by no action
    verdict,    \* task -> what process_event did with its event
    got,        \* the last answer the user was given, and its task
    misused     \* tasks awaited or destroyed before their event was
                \* processed, or used after the machine was destroyed

coroutineVars == <<frame, value, calling, owned, dangling>>
userVars      == <<verdict, got, misused>>
coVars == <<vars, coroutineVars, userVars>>

Ids == 1..MaxAccepted
New == accepted + 1

(* What process_event can do with an event, and a result before it has.     *)
Verdicts == {"true", "false", "threw"}

Defined == ~dangling

(* User code runs outside of any call, and in reactions to events.         *)
UserCode == Defined /\ pc \in {"idle", "immediate", "task", "destroyed"}

-----------------------------------------------------------------------------
(* process_event_async, an event that can be processed at once: the value   *)
(* is kept until the queue is drained ...                                  *)
AsyncImmediate ==
    /\ UserCode
    /\ RunImmediate("try_run_immediate")
    /\ calling' = New
    /\ UNCHANGED <<frame, value, owned, dangling, userVars>>

HandledAtOnce(v) ==
    /\ Defined
    /\ ImmediateReturns
    /\ value' = [value EXCEPT ![running] = v]
    /\ verdict' = [verdict EXCEPT ![running] = v]
    /\ UNCHANGED <<frame, calling, owned, dangling, got, misused>>

(* ... and an exception goes to the caller, who gets no task.              *)
ThrowsAtOnce ==
    /\ Defined
    /\ ImmediateThrows
    /\ verdict' = [verdict EXCEPT ![running] = "threw"]
    /\ got' = [task |-> running, answer |-> "threw"]
    /\ calling' = 0
    /\ UNCHANGED <<frame, value, owned, dangling, misused>>

(* process_event_async_impl, an event that waits: the coroutine begins at   *)
(* once (suspend_never), awaits process_event_awaitable and is suspended.   *)
(* Inside a running task the caller gets its bool_task at once; where an    *)
(* exception left tasks behind, schedule drains the queue first.           *)
AsyncQueued ==
    /\ UserCode
    /\ ScheduleQueued
    /\ IF Full
       THEN UNCHANGED <<frame, calling, owned>>
       ELSE /\ frame' = [frame EXCEPT ![New] = "suspended"]
            /\ owned' = (IF draining_ THEN owned \cup {New} ELSE owned)
            /\ calling' = (IF draining_ THEN calling ELSE New)
    /\ UNCHANGED <<value, dangling, userVars>>

(* Mistakes in the code below, for the mutants of PROJECT.json: an          *)
(* exception of process_event lost, or let out of the closure; a coroutine  *)
(* that does not stop at its final suspend point and so frees its frame.    *)
Lost(v) == IF v = "threw" THEN "false" ELSE v
FinalSuspendNever == "destroyed"

ClosureUncaught(v) ==
    /\ Defined
    /\ IF v = "threw" THEN TaskThrows ELSE TaskReturns
    /\ verdict' = [verdict EXCEPT ![running] = v]
    /\ UNCHANGED <<coroutineVars, got, misused>>

(* The exception, or accepted.                                             *)
Outcome(v) == v

(* final_suspend keeps the frame for the bool_task.                        *)
Finished == "done"

(* The closure: process_event, its outcome stored in the frame, and         *)
(* handle.resume(), which runs the coroutine to its end.  Both need a frame *)
(* whose coroutine is suspended at the await.                              *)
ClosureRuns(v) ==
    /\ Defined
    /\ TaskReturns
    /\ verdict' = [verdict EXCEPT ![running] = v]
    /\ IF frame[running] = "suspended"
       THEN /\ value' = [value EXCEPT ![running] = Outcome(v)]
            /\ frame' = [frame EXCEPT ![running] = Finished]
            /\ UNCHANGED dangling
       ELSE dangling' = TRUE /\ UNCHANGED <<value, frame>>
    /\ UNCHANGED <<calling, owned, got, misused>>

TakeClosure ==
    /\ Defined
    /\ TakeTask
    /\ UNCHANGED <<coroutineVars, userVars>>

(* process_event_async returns its bool_task.                              *)
AsyncReturns ==
    /\ Defined
    /\ DrainReturns
    /\ owned' = owned \cup {calling}
    /\ calling' = 0
    /\ UNCHANGED <<frame, value, dangling, userVars>>

-----------------------------------------------------------------------------
(* The frame can be read: it is there, and so is the co_sm whose pool or    *)
(* allocator holds it.                                                     *)
Readable(t) == frame[t] \in {"suspended", "done"} /\ pc # "destroyed"

(* bool_task::result.                                                      *)
Result(t) ==
    /\ UserCode
    /\ t \in owned
    /\ IF frame[t] = "none" \/ Readable(t)
       THEN /\ got' = [task |-> t,
                        answer |-> IF frame[t] = "suspended" THEN "logic_error"
                                   ELSE value[t]]
            /\ UNCHANGED <<dangling, misused>>
       ELSE /\ dangling' = TRUE
            /\ misused' = (IF pc = "destroyed" THEN misused \cup {t} ELSE misused)
            /\ UNCHANGED got
    /\ UNCHANGED <<vars, frame, value, calling, owned, verdict>>

(* ~bool_task, also the one in the move assignment: handle_.destroy().  The  *)
(* allocator of the frame must still be there.                             *)
Drop(t) ==
    /\ UserCode
    /\ t \in owned
    /\ owned' = owned \ {t}
    /\ frame' = [frame EXCEPT ![t] = IF @ = "none" THEN "none" ELSE "destroyed"]
    /\ dangling' = (frame[t] # "none" /\ ~Readable(t))
    /\ misused' = (IF frame[t] = "suspended" \/ (pc = "destroyed" /\ frame[t] # "none")
                   THEN misused \cup {t} ELSE misused)
    /\ UNCHANGED <<vars, value, calling, verdict, got>>

(* co_await of a task that is not ready: await_suspend returns handle_, so   *)
(* the coroutine goes on at once, with the accepted of an event that nobody *)
(* has processed.  A task that is ready answers as result does.            *)
AwaitEarly(t) ==
    /\ UserCode
    /\ t \in owned
    /\ frame[t] = "suspended"
    /\ Readable(t)
    /\ frame' = [frame EXCEPT ![t] = Finished]
    /\ value' = [value EXCEPT ![t] = "false"]
    /\ got' = [task |-> t, answer |-> "false"]
    /\ misused' = misused \cup {t}
    /\ UNCHANGED <<vars, calling, owned, dangling, verdict>>

(* ~co_sm; bool_tasks may outlive it.                                      *)
DestroyMachine ==
    /\ Defined
    /\ Destroy
    /\ UNCHANGED <<coroutineVars, userVars>>

(* The program has ended, or means nothing any more.                       *)
Over == (Ended \/ (dangling /\ UNCHANGED vars)) /\ UNCHANGED <<coroutineVars, userVars>>

CoInit ==
    /\ Init
    /\ frame = [t \in Ids |-> "none"] /\ value = [t \in Ids |-> "none"]
    /\ calling = 0 /\ owned = {} /\ dangling = FALSE
    /\ verdict = [t \in Ids |-> "none"] /\ got = [task |-> 0, answer |-> "none"]
    /\ misused = {}

(* process_event throws only where the closure lets the exception out.     *)
Closures ==
    \/ \E v \in Verdicts : ClosureRuns(v)
    \/ \E v \in Verdicts \ {"threw"} : HandledAtOnce(v)
    \/ ThrowsAtOnce \/ TakeClosure \/ AsyncReturns

User == \E t \in Ids : Result(t) \/ Drop(t) \/ AwaitEarly(t)

CoNext ==
    AsyncImmediate \/ AsyncQueued \/ Closures \/ User \/ DestroyMachine \/ Over

CoSpec == CoInit /\ [][CoNext]_coVars
-----------------------------------------------------------------------------
(* Every variable has the shape the code gives it.                         *)
CoTypeOK ==
    /\ frame \in [Ids -> {"none", "suspended", "done", "destroyed"}]
    /\ value \in [Ids -> Verdicts \cup {"none"}]
    /\ calling \in Ids \cup {0}
    /\ owned \subseteq Ids /\ misused \subseteq Ids
    /\ dangling \in BOOLEAN
    /\ verdict \in [Ids -> Verdicts \cup {"none"}]
    /\ got \in [task : Ids \cup {0}, answer : Verdicts \cup {"none", "logic_error"}]

(* Closures in the ring and bool_tasks refer to coroutine frames by plain    *)
(* handles: none is used after its frame has ended or resumed twice, as long *)
(* as the user keeps a task until its event was processed, does not await   *)
(* it before, and destroys it before the co_sm.                            *)
NothingDangles ==
    /\ dangling => misused # {}
    /\ Defined /\ pc = "task" => frame[running] = "suspended" \/ running \in misused

(* What result() reports is what process_event did with the event of that   *)
(* task, also when the event was processed much later, in somebody else's   *)
(* call, and also when it threw there.                                     *)
ResultIsVerdict ==
    got.answer \in Verdicts /\ got.task \notin misused =>
       got.answer = verdict[got.task]

(* Outside of reactions a task is born ready: when process_event_async has  *)
(* returned, no coroutine waits, so result() of a task never fails then.    *)
ReadyOutside ==
    Defined /\ pc = "idle" /\ outcome = "returned" =>
       \A t \in Ids : frame[t] # "suspended"

(* Events are processed in the order of the calls of process_event_async:    *)
(* none before an earlier one has been dealt with.                          *)
InCallOrder ==
    \A t, u \in Ids : u < t /\ verdict[t] # "none" => verdict[u] # "none"

(* The scheduler runs its tasks in noexcept functions; an exception thrown  *)
(* by a reaction reaches the user all the same and does not end the program. *)
OnlyFullEnds == pc = "terminated" => Full

-----------------------------------------------------------------------------
(* What makes these inductive.  A closure finds its coroutine suspended ... *)
Resumable(t) == t \in Ids /\ (frame[t] = "suspended" \/ t \in misused)

HandlesInv ==
    /\ \A i \in Slots : Defined /\ Queued(i) /\ pc # "destroyed" => Resumable(tasks_[i])
    /\ Defined /\ pc = "task" => Resumable(running)
    /\ dangling => misused # {}

(* ... a task belongs to the call that made it or to the user ...          *)
OwnersInv ==
    /\ pc \in {"immediate", "drain", "task"} => calling # 0
    /\ calling \notin owned
    /\ \A t \in Ids : t \in owned \/ t = calling => t <= accepted /\ frame[t] # "destroyed"
    /\ \A t \in Ids : t > accepted => frame[t] = "none" /\ value[t] = "none"
    /\ pc = "immediate" =>
          calling = running /\ frame[running] = "none" /\ entered = "try_run_immediate"

(* ... events have a verdict when their closure has ended ...              *)
VerdictsInv ==
    /\ running \in {0, begun}
    /\ \A t \in Ids : verdict[t] # "none" <=> t <= begun /\ t # running
    /\ \A t \in Ids : Defined /\ frame[t] = "suspended" => t > begun \/ t = running

(* ... and then the task holds it.                                         *)
ValuesInv ==
    \A t \in Ids \ misused :
       frame[t] = "done" \/ (frame[t] = "none" /\ (t \in owned \/ t = calling))
         => value[t] = verdict[t]

CoInv == HandlesInv /\ OwnersInv /\ VerdictsInv /\ ValuesInv
=============================================================================
