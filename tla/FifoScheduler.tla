---------------------------- MODULE FifoScheduler ----------------------------
(***************************************************************************)
(* utility::policy::fifo_scheduler (src/include/boost/sml/utility/          *)
(* co_sm.hpp): a ring of closures that one thread schedules and runs.  A    *)
(* closure is a task number, 0 is a slot without one.  Running tasks call   *)
(* schedule in their turn; they never get further than enqueue, because     *)
(* draining_ is set as long as user code runs, so one outer call with its   *)
(* loop is all the stack there is.  try_run_immediate changes nothing when  *)
(* it returns false and has no action for that case.                       *)
(***************************************************************************)
EXTENDS Integers, Sequences

CONSTANTS
    Capacity,     \* size of the ring, a power of two
    MaxAccepted,  \* no new task once this many were accepted
    MayThrow      \* tasks may throw

ASSUME CapacityAssumption == Capacity \in Nat /\ Capacity > 1
ASSUME MaxAcceptedAssumption == MaxAccepted \in Nat
ASSUME MayThrowAssumption == MayThrow \in BOOLEAN

VARIABLES
    tasks_, head_, tail_, draining_,
    pc,         \* where control is
    entered,    \* the function the outer call was made to
    slot,       \* task_slot& task of drain_pending
    running,    \* the task whose closure is executing, 0 if none is
    accepted,   \* number of tasks accepted so far
    begun,      \* the last task that began
    outcome     \* how the last outer call ended

memberVars == <<tasks_, head_, tail_, draining_>>
historyVars == <<accepted, begun, outcome>>
vars == <<memberVars, pc, entered, slot, running, historyVars>>

Slots == 0..(Capacity - 1)

-----------------------------------------------------------------------------
(* next: (index + 1) & (Capacity - 1).                                     *)
NextIndex(i) == IF i + 1 = Capacity THEN 0 ELSE i + 1

(* Mistakes in the code below, for the mutants of PROJECT.json.            *)
FullNever    == FALSE
RunNowIfIdle == ~draining_

Empty == head_ = tail_
Full  == NextIndex(tail_) = head_

CanRunNow == ~draining_ /\ Empty

(* The queued tasks, from head_ to tail_.                                  *)
Count ==
    IF head_ <= tail_ THEN tail_ - head_ ELSE Capacity - head_ + tail_
Pos(i) ==
    IF head_ + i < Capacity THEN head_ + i ELSE head_ + i - Capacity
Pending == [i \in 1..Count |-> tasks_[Pos(i - 1)]]

(* Slot i is one of them, Dist(i) places behind head_.                     *)
Dist(i) == IF head_ <= i THEN i - head_ ELSE Capacity - head_ + i
Queued(i) == Dist(i) < Count

Init ==
    /\ tasks_ = [i \in Slots |-> 0]
    /\ head_ = 0 /\ tail_ = 0 /\ draining_ = FALSE
    /\ pc = "idle" /\ entered = "schedule" /\ slot = 0 /\ running = 0
    /\ accepted = 0 /\ begun = 0 /\ outcome = "none"

-----------------------------------------------------------------------------
(* try_run_immediate, called by the user or by schedule: the task runs on   *)
(* the spot.                                                               *)
RunImmediate(f) ==
    /\ pc = "idle"
    /\ accepted < MaxAccepted
    /\ CanRunNow
    /\ draining_' = TRUE
    /\ entered' = f
    /\ accepted' = accepted + 1
    /\ running' = accepted + 1
    /\ begun' = accepted + 1
    /\ pc' = "immediate"
    /\ UNCHANGED <<tasks_, head_, tail_, slot, outcome>>

ImmediateReturns ==
    /\ pc = "immediate"
    /\ running' = 0
    /\ pc' = "drain"
    /\ UNCHANGED <<memberVars, entered, slot, historyVars>>

(* The guard object resets draining_ on the way out, nothing is drained;    *)
(* schedule is noexcept.                                                   *)
ImmediateThrows ==
    /\ pc = "immediate"
    /\ MayThrow
    /\ IF entered = "schedule"
       THEN pc' = "terminated" /\ UNCHANGED <<draining_, running, outcome>>
       ELSE /\ pc' = "idle"
            /\ draining_' = FALSE
            /\ running' = 0
            /\ outcome' = "threw"
    /\ UNCHANGED <<tasks_, head_, tail_, entered, slot, accepted, begun>>

(* schedule when try_run_immediate says no: by user code that a task runs,  *)
(* or by the user while tasks are left in the queue.  A full ring ends the  *)
(* program.                                                                *)
ScheduleQueued ==
    /\ pc \in {"idle", "immediate", "task"}
    /\ accepted < MaxAccepted
    /\ ~CanRunNow
    /\ IF Full
       THEN pc' = "terminated" /\ UNCHANGED <<tasks_, tail_, accepted, draining_, entered>>
       ELSE /\ tasks_' = [tasks_ EXCEPT ![tail_] = accepted + 1]
            /\ tail_' = NextIndex(tail_)
            /\ accepted' = accepted + 1
            /\ draining_' = TRUE
            /\ IF draining_
               THEN UNCHANGED <<pc, entered>>
               ELSE pc' = "drain" /\ entered' = "schedule"
    /\ UNCHANGED <<head_, slot, running, begun, outcome>>

(* Mistakes in the code below, for the mutants of PROJECT.json: the        *)
(* task at the wrong end, an "if" for the "while".                         *)
TakeNewest ==
    LET last == IF tail_ = 0 THEN Capacity - 1 ELSE tail_ - 1
    IN  /\ pc = "drain" /\ ~Empty
        /\ slot' = last /\ tail_' = last
        /\ running' = tasks_[last] /\ begun' = tasks_[last]
        /\ pc' = "task"
        /\ UNCHANGED <<tasks_, head_, draining_, entered, accepted, outcome>>

DrainOnce ==
    /\ pc = "drain"
    /\ draining_' = FALSE /\ outcome' = "returned" /\ pc' = "idle"
    /\ UNCHANGED <<tasks_, head_, tail_, entered, slot, running, accepted, begun>>

(* drain_pending: head_ moves on before the task runs ...                  *)
TakeTask ==
    /\ pc = "drain"
    /\ ~Empty
    /\ slot' = head_
    /\ head_' = NextIndex(head_)
    /\ running' = tasks_[head_]
    /\ begun' = tasks_[head_]
    /\ pc' = "task"
    /\ UNCHANGED <<tasks_, tail_, draining_, entered, accepted, outcome>>

(* ... and its closure is destroyed after it has run.                      *)
TaskReturns ==
    /\ pc = "task"
    /\ tasks_' = [tasks_ EXCEPT ![slot] = 0]
    /\ running' = 0
    /\ pc' = "drain"
    /\ UNCHANGED <<head_, tail_, draining_, entered, slot, historyVars>>

(* invoke is noexcept.                                                     *)
TaskThrows ==
    /\ pc = "task"
    /\ MayThrow
    /\ pc' = "terminated"
    /\ UNCHANGED <<memberVars, entered, slot, running, historyVars>>

DrainReturns ==
    /\ pc = "drain"
    /\ Empty
    /\ draining_' = FALSE
    /\ outcome' = "returned"
    /\ pc' = "idle"
    /\ UNCHANGED <<tasks_, head_, tail_, entered, slot, running, accepted, begun>>

(* The destructor: clear.                                                  *)
Destroy ==
    /\ pc = "idle"
    /\ tasks_' = [i \in Slots |->
                    IF Queued(i) THEN 0 ELSE tasks_[i]]
    /\ head_' = tail_
    /\ draining_' = FALSE
    /\ pc' = "destroyed"
    /\ UNCHANGED <<tail_, entered, slot, running, historyVars>>

Ended == pc \in {"terminated", "destroyed"} /\ UNCHANGED vars

Work == ImmediateReturns \/ ImmediateThrows \/ TakeTask \/ TaskReturns
          \/ TaskThrows \/ DrainReturns

Next ==
    \/ \E f \in {"schedule", "try_run_immediate"} : RunImmediate(f)
    \/ ScheduleQueued \/ Work \/ Destroy \/ Ended

Spec == Init /\ [][Next]_vars

(* The scheduler runs on the thread of its caller and tasks return; nobody  *)
(* has to call it again.                                                   *)
FairSpec == Spec /\ WF_vars(Work)
-----------------------------------------------------------------------------
(* Every variable has the shape the code gives it.                         *)
TypeOK ==
    /\ tasks_ \in [Slots -> Nat]
    /\ head_ \in Slots /\ tail_ \in Slots /\ draining_ \in BOOLEAN
    /\ pc \in {"idle", "immediate", "drain", "task", "terminated", "destroyed"}
    /\ entered \in {"schedule", "try_run_immediate"}
    /\ slot \in Slots /\ running \in Nat
    /\ accepted \in Nat /\ begun \in Nat
    /\ outcome \in {"none", "returned", "threw"}

(* Tasks begin in the order they were accepted, each exactly once, also     *)
(* when an exception left some of them behind: what waits are the tasks     *)
(* after the last one that began.                                          *)
ArrivalOrder ==
    /\ pc # "destroyed" => begun + Count = accepted
    /\ \A i \in Slots : Queued(i) => tasks_[i] = begun + 1 + Dist(i)

(* A closure lives in a slot exactly while it waits or executes: set never  *)
(* constructs over a live closure, and none is leaked or destroyed twice.   *)
SlotsLive ==
    pc # "terminated" =>
       \A i \in Slots : tasks_[i] # 0 <=> Queued(i) \/ (pc = "task" /\ i = slot)

(* The slot of the executing closure is not given to another task, although *)
(* head_ has already moved past it.                                        *)
RunningKept ==
    pc = "task" => tasks_[slot] = running /\ ~Queued(slot)

(* run_to_completion: a call that returns has run everything that waited.   *)
DrainedOnReturn == pc = "idle" /\ outcome = "returned" => Empty

(* What makes these inductive: draining_ is set exactly while the outer     *)
(* call is active, running is the task that began last, and its slot is the *)
(* one that a full ring leaves free.                                       *)
CallState ==
    /\ pc = "idle" => ~draining_
    /\ pc \in {"immediate", "drain", "task"} => draining_
    /\ pc \in {"immediate", "task"} => running = begun /\ running # 0
    /\ pc \in {"idle", "drain", "destroyed"} => running = 0
    /\ pc = "task" => NextIndex(slot) = head_

RingInv == ArrivalOrder /\ SlotsLive /\ RunningKept /\ CallState

(* An accepted task begins, unless the program ends before, or an exception *)
(* out of an immediate task left it in the queue.                          *)
Begins ==
    \A t \in 1..MaxAccepted :
       [](accepted >= t => <>(begun >= t \/ pc = "terminated" \/ outcome = "threw"))

(* The scheduler is the queue its contract asks for.                       *)
Contract ==
    INSTANCE TaskQueue WITH
        accepted <- accepted, waiting <- Pending, executing <- running,
        stopped <- pc \in {"terminated", "destroyed"}

FollowsContract == Contract!Spec
=============================================================================
