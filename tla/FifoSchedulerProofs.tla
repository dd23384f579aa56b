------------------------- MODULE FifoSchedulerProofs -------------------------
(***************************************************************************)
(* Theorems about FifoScheduler: the ring invariant and the refinement of   *)
(* the contract, for every capacity.                                       *)
(***************************************************************************)
EXTENDS FifoScheduler, SequenceTheorems, TLAPS

USE CapacityAssumption, MaxAcceptedAssumption, MayThrowAssumption
USE DEF CapacityAssumption, MaxAcceptedAssumption, MayThrowAssumption

(* The queue is never as long as the ring, and grows and shrinks by one.    *)
LEMMA CountBounds ==
    ASSUME TypeOK
    PROVE  /\ Count \in 0..(Capacity - 1)
           /\ Empty <=> Count = 0
           /\ Full <=> Count = Capacity - 1
           /\ \A i \in Slots : NextIndex(i) \in Slots
BY DEF TypeOK, Count, Empty, Full, NextIndex, Slots

(* Distances from head_ are positions of the ring, without repetition.      *)
LEMMA DistPos ==
    ASSUME TypeOK
    PROVE  /\ \A i \in Slots : Dist(i) \in 0..(Capacity - 1) /\ Pos(Dist(i)) = i
           /\ \A k \in 0..(Capacity - 1) : Pos(k) \in Slots /\ Dist(Pos(k)) = k
BY DEF TypeOK, Dist, Pos, Slots

LEMMA InitRing == Init => TypeOK /\ RingInv
<1> SUFFICES ASSUME Init PROVE TypeOK /\ RingInv
  OBVIOUS
<1>1. TypeOK
  <2>1. draining_ \in BOOLEAN
    BY Zenon DEF Init
  <2> QED
    BY <2>1 DEF Init, TypeOK, Slots
<1>2. Count = 0 /\ \A i \in Slots : ~Queued(i)
  BY DEF Init, Queued, Dist, Count, Slots
<1> QED
  BY <1>1, <1>2 DEF Init, RingInv, ArrivalOrder, SlotsLive, RunningKept, CallState

(* Types.                                                                  *)
LEMMA TypeStep ==
    ASSUME TypeOK, [Next]_vars
    PROVE  TypeOK'
<1> USE DEF TypeOK, Slots
<1>1. ASSUME NEW f \in {"schedule", "try_run_immediate"}, RunImmediate(f)
      PROVE  TypeOK'
  BY <1>1 DEF RunImmediate
<1>2. CASE ScheduleQueued
  <2>1. CASE Full
    BY <1>2, <2>1 DEF ScheduleQueued
  <2>2. CASE ~Full
    <3>1. tail_' \in Slots /\ tasks_' \in [Slots -> Nat] /\ accepted' \in Nat
      BY <1>2, <2>2 DEF ScheduleQueued, NextIndex
    <3>2. CASE draining_
      BY <1>2, <2>2, <3>1, <3>2 DEF ScheduleQueued
    <3>3. CASE ~draining_
      BY <1>2, <2>2, <3>1, <3>3 DEF ScheduleQueued
    <3> QED
      BY <3>2, <3>3
  <2> QED
    BY <2>1, <2>2
<1>3. CASE ImmediateReturns
  BY <1>3 DEF ImmediateReturns, memberVars, historyVars
<1>4. CASE ImmediateThrows
  <2>1. CASE entered = "schedule"
    BY <1>4, <2>1 DEF ImmediateThrows
  <2>2. CASE entered # "schedule"
    <3>1. draining_' \in BOOLEAN
      BY <1>4, <2>2, Zenon DEF ImmediateThrows
    <3> QED
      BY <1>4, <2>2, <3>1 DEF ImmediateThrows
  <2> QED
    BY <2>1, <2>2
<1>5. CASE TakeTask
  BY <1>5 DEF TakeTask, NextIndex
<1>6. CASE TaskReturns
  BY <1>6 DEF TaskReturns, historyVars
<1>7. CASE TaskThrows
  BY <1>7 DEF TaskThrows, memberVars, historyVars
<1>8. CASE DrainReturns
  BY <1>8 DEF DrainReturns
<1>9. CASE Destroy
  BY <1>9 DEF Destroy, historyVars
<1>10. CASE UNCHANGED vars
  BY <1>10 DEF vars, memberVars, historyVars
<1> QED
  BY <1>1, <1>2, <1>3, <1>4, <1>5, <1>6, <1>7, <1>8, <1>9, <1>10
  DEF Next, Work, Ended

(* A task is placed behind all that wait, in a slot nobody uses.            *)
LEMMA Enqueue ==
    ASSUME TypeOK, ~Full, head_' = head_, tail_' = NextIndex(tail_)
    PROVE  /\ Count' = Count + 1
           /\ Dist(tail_) = Count
           /\ \A i \in Slots : Dist(i)' = Dist(i)
           /\ \A i \in Slots : Queued(i)' <=> Queued(i) \/ i = tail_
           /\ \A k \in Nat : Pos(k)' = Pos(k)
           /\ Pos(Count) = tail_
BY DEF TypeOK, Full, NextIndex, Count, Dist, Queued, Pos, Slots

(* The oldest task leaves the ring.                                        *)
LEMMA Dequeue ==
    ASSUME TypeOK, ~Empty, head_' = NextIndex(head_), tail_' = tail_
    PROVE  /\ Count' = Count - 1 /\ Count \in 1..(Capacity - 1)
           /\ Dist(head_) = 0 /\ Queued(head_)
           /\ \A i \in Slots : Queued(i)' <=> Queued(i) /\ i # head_
           /\ \A i \in Slots : Queued(i)' => Dist(i)' = Dist(i) - 1
           /\ \A k \in 0..(Capacity - 2) : Pos(k)' = Pos(k + 1)
           /\ Pos(0) = head_
<1> USE DEF TypeOK, Empty, NextIndex, Slots
<1>1. /\ Count' = Count - 1 /\ Count \in 1..(Capacity - 1)
      /\ Dist(head_) = 0 /\ \A i \in Slots : i = head_ => Dist(i)' = Capacity - 1
  BY DEF Count, Dist
<1>2. \A i \in Slots : i # head_ => Dist(i)' = Dist(i) - 1
  BY DEF Dist
<1>3. \A i \in Slots : Dist(i) \in Int /\ Dist(i)' \in Int
  BY DEF Dist
<1>4. /\ Queued(head_)
      /\ \A i \in Slots : Queued(i)' <=> Queued(i) /\ i # head_
  <2>1. Queued(head_)
    BY <1>1 DEF Queued
  <2>2. ASSUME NEW i \in Slots
        PROVE  Queued(i)' <=> Queued(i) /\ i # head_
    <3>1. CASE i = head_
      BY <1>1, <3>1 DEF Queued
    <3>2. CASE i # head_
      <4>1. Dist(i)' = Dist(i) - 1 /\ Dist(i) \in Int /\ Dist(i)' \in Int
        BY <1>2, <1>3, <3>2
      <4>2. Queued(i)' <=> Dist(i)' < Count'
        BY DEF Queued
      <4>3. Queued(i) <=> Dist(i) < Count
        BY DEF Queued
      <4> QED
        BY <1>1, <3>2, <4>1, <4>2, <4>3
    <3> QED
      BY <3>1, <3>2
  <2> QED
    BY <2>1, <2>2
<1>5. \A k \in 0..(Capacity - 2) : Pos(k)' = Pos(k + 1)
  BY DEF Pos
<1>6. Pos(0) = head_
  BY DEF Pos
<1> QED
  BY <1>1, <1>2, <1>4, <1>5, <1>6

(* Nothing moves.                                                          *)
LEMMA Still ==
    ASSUME UNCHANGED <<head_, tail_>>
    PROVE  /\ Count' = Count
           /\ \A i \in Slots : Dist(i)' = Dist(i) /\ (Queued(i)' <=> Queued(i))
           /\ \A k \in Nat : Pos(k)' = Pos(k)
BY DEF Count, Dist, Queued, Pos

(* The ring.                                                               *)
LEMMA RingStep ==
    ASSUME TypeOK, TypeOK', RingInv, [Next]_vars
    PROVE  RingInv'
<1> USE DEF RingInv, ArrivalOrder, SlotsLive, RunningKept, CallState
<1>a. Count \in Nat /\ (Empty <=> Count = 0)
  BY CountBounds
<1>t. /\ accepted \in Nat /\ begun \in Nat /\ running \in Nat
      /\ tasks_ \in [Slots -> Nat] /\ slot \in Slots
      /\ head_ \in Slots /\ tail_ \in Slots /\ draining_ \in BOOLEAN
  BY DEF TypeOK
<1>1. ASSUME NEW f \in {"schedule", "try_run_immediate"}, RunImmediate(f)
      PROVE  RingInv'
  <2>1. Count = 0 /\ \A i \in Slots : ~Queued(i)
    BY <1>1, <1>a, DistPos DEF RunImmediate, CanRunNow, Queued
  <2> QED
    BY <1>1, <1>t, <2>1, Still DEF RunImmediate
<1>2. CASE ScheduleQueued
  <2>1. CASE Full
    BY <1>2, <2>1, Still DEF ScheduleQueued
  <2>2. CASE ~Full
    <3>1. /\ Count' = Count + 1
          /\ Dist(tail_) = Count
          /\ \A i \in Slots : Dist(i)' = Dist(i)
          /\ \A i \in Slots : Queued(i)' <=> Queued(i) \/ i = tail_
      BY <1>2, <2>2, Enqueue DEF ScheduleQueued
    <3>2. ~Queued(tail_)
      BY <3>1, <1>a DEF Queued
    <3>3. pc = "task" => slot # tail_
      BY <2>2, <1>t DEF Full
    <3>4. pc # "destroyed" /\ pc' # "destroyed"
      BY <1>2 DEF ScheduleQueued
    <3>5. ArrivalOrder'
      BY <1>2, <2>2, <1>t, <1>a, <3>1, <3>2, <3>4 DEF ScheduleQueued
    <3> QED
      BY <1>2, <2>2, <1>t, <3>1, <3>2, <3>3, <3>5 DEF ScheduleQueued
  <2> QED
    BY <2>1, <2>2
<1>3. CASE ImmediateReturns
  BY <1>3, Still DEF ImmediateReturns, memberVars, historyVars
<1>4. CASE ImmediateThrows
  BY <1>4, Still DEF ImmediateThrows
<1>5. CASE TakeTask
  <2>1. /\ Count' = Count - 1 /\ Dist(head_) = 0
        /\ Queued(head_)
        /\ \A i \in Slots : Queued(i)' <=> Queued(i) /\ i # head_
        /\ \A i \in Slots : Queued(i)' => Dist(i)' = Dist(i) - 1
    BY <1>5, Dequeue DEF TakeTask
  <2>2. tasks_[head_] = begun + 1
    BY <2>1, <1>t
  <2>3. \A i \in Slots : Dist(i) \in Nat
    BY DistPos
  <2> QED
    BY <1>5, <1>t, <1>a, <2>1, <2>2, <2>3 DEF TakeTask
<1>6. CASE TaskReturns
  BY <1>6, <1>t, Still DEF TaskReturns, historyVars
<1>7. CASE TaskThrows
  BY <1>7, Still DEF TaskThrows, memberVars, historyVars
<1>8. CASE DrainReturns
  BY <1>8, Still DEF DrainReturns
<1>9. CASE Destroy
  <2>1. \A i \in Slots : ~Queued(i)'
    BY <1>9, <1>t DEF Destroy, Queued, Dist, Count, Slots
  <2> QED
    BY <1>9, <1>t, <2>1 DEF Destroy, historyVars
<1>10. CASE UNCHANGED vars
  <2>1. /\ UNCHANGED <<tasks_, head_, tail_, draining_, pc, slot, running>>
        /\ UNCHANGED <<accepted, begun>>
    BY <1>10 DEF vars, memberVars, historyVars
  <2> QED
    BY <2>1, Still, <1>t DEF NextIndex
<1> QED
  BY <1>1, <1>2, <1>3, <1>4, <1>5, <1>6, <1>7, <1>8, <1>9, <1>10
  DEF Next, Work, Ended

(* In every reachable state the ring is well formed: nothing is lost,       *)
(* repeated, overtaken, leaked or overwritten, whatever tasks schedule and   *)
(* throw.                                                                   *)
THEOREM RingCorrect == Spec => [](TypeOK /\ RingInv)
<1>1. Init => TypeOK /\ RingInv
  BY InitRing
<1>2. TypeOK /\ RingInv /\ [Next]_vars => (TypeOK /\ RingInv)'
  BY TypeStep, RingStep
<1> QED
  BY <1>1, <1>2, PTL DEF Spec

(* Every variable keeps its type.                                          *)
THEOREM SchedulerTypes == Spec => []TypeOK
BY RingCorrect, PTL

(* The tasks of fifo_scheduler begin in the order they were accepted, each  *)
(* exactly once.                                                           *)
THEOREM SchedulerOrder == Spec => []ArrivalOrder
<1>1. RingInv => ArrivalOrder
  BY DEF RingInv
<1> QED
  BY <1>1, RingCorrect, PTL

(* Closures live in exactly the slots of tasks that wait or execute.        *)
THEOREM SchedulerSlots == Spec => []SlotsLive
<1>1. RingInv => SlotsLive
  BY DEF RingInv
<1> QED
  BY <1>1, RingCorrect, PTL

(* The closure that executes is not overwritten by a task scheduled from it *)
(* although its slot has already left the queue.                           *)
THEOREM SchedulerRunningKept == Spec => []RunningKept
<1>1. RingInv => RunningKept
  BY DEF RingInv
<1> QED
  BY <1>1, RingCorrect, PTL

(* run_to_completion: a call of the scheduler that returns normally leaves   *)
(* no task behind, however many tasks its tasks scheduled.                  *)
THEOREM SchedulerDrained == Spec => []DrainedOnReturn
<1>1. Init => DrainedOnReturn
  BY DEF Init, DrainedOnReturn
<1>2. RingInv /\ DrainedOnReturn /\ [Next]_vars => DrainedOnReturn'
  <2> SUFFICES ASSUME RingInv, DrainedOnReturn, [Next]_vars
               PROVE  DrainedOnReturn'
    OBVIOUS
  <2> USE DEF RingInv, CallState, DrainedOnReturn, Empty
  <2>1. ASSUME NEW f \in {"schedule", "try_run_immediate"}, RunImmediate(f)
        PROVE  DrainedOnReturn'
    BY <2>1 DEF RunImmediate
  <2>2. CASE ScheduleQueued
    BY <2>2 DEF ScheduleQueued
  <2>3. CASE Work
    BY <2>3
    DEF Work, ImmediateReturns, ImmediateThrows, TakeTask, TaskReturns, TaskThrows,
        DrainReturns
  <2>4. CASE Destroy
    BY <2>4 DEF Destroy
  <2>5. CASE UNCHANGED vars
    BY <2>5 DEF vars, memberVars, historyVars
  <2> QED
    BY <2>1, <2>2, <2>3, <2>4, <2>5 DEF Next, Ended
<1>3. QED
  BY <1>1, <1>2, RingCorrect, PTL DEF Spec

-----------------------------------------------------------------------------
(* The refinement: every step of the ring is a step of the queue its        *)
(* contract describes, or changes nothing of it.                           *)

LEMMA PendingSeq ==
    ASSUME TypeOK
    PROVE  /\ Pending \in Seq(Nat) /\ Len(Pending) = Count
           /\ \A i \in 1..Count : Pending[i] = tasks_[Pos(i - 1)]
<1>1. Count \in 0..(Capacity - 1)
  BY CountBounds
<1>2. \A i \in 1..Count : tasks_[Pos(i - 1)] \in Nat
  BY <1>1, DistPos DEF TypeOK
<1> QED
  BY <1>1, <1>2 DEF Pending

LEMMA PendingStill ==
    ASSUME TypeOK, UNCHANGED <<head_, tail_>>,
           \A i \in Slots : Queued(i) => tasks_'[i] = tasks_[i]
    PROVE  Pending' = Pending
<1>1. Count \in 0..(Capacity - 1) /\ Count' = Count
  BY CountBounds, Still
<1>2. ASSUME NEW i \in 1..Count
      PROVE  tasks_'[Pos(i - 1)'] = tasks_[Pos(i - 1)]
  <2>1. i - 1 \in 0..(Capacity - 1) /\ i - 1 < Count
    BY <1>1
  <2>2. Pos(i - 1) \in Slots /\ Queued(Pos(i - 1))
    BY <2>1, DistPos DEF Queued
  <2>3. Pos(i - 1)' = Pos(i - 1)
    BY <2>1, Still
  <2> QED
    BY <2>2, <2>3
<1> QED
  BY <1>1, <1>2 DEF Pending

LEMMA PendingEmpty ==
    ASSUME TypeOK
    PROVE  Empty <=> Pending = <<>>
BY CountBounds, PendingSeq

LEMMA PendingAppend ==
    ASSUME TypeOK, ~Full, head_' = head_, tail_' = NextIndex(tail_),
           tasks_' = [tasks_ EXCEPT ![tail_] = accepted + 1]
    PROVE  Pending' = Append(Pending, accepted + 1)
<1>1. /\ Count \in 0..(Capacity - 1) /\ Count' = Count + 1
      /\ Pos(Count) = tail_ /\ tail_ \in Slots /\ Dist(tail_) = Count
      /\ \A k \in Nat : Pos(k)' = Pos(k)
      /\ tasks_ \in [Slots -> Nat] /\ accepted + 1 \in Nat
  BY CountBounds, Enqueue DEF TypeOK
<1>2. ASSUME NEW i \in 1..Count
      PROVE  tasks_'[Pos(i - 1)'] = tasks_[Pos(i - 1)]
  <2>1. i - 1 \in 0..(Capacity - 1) /\ i - 1 # Count /\ i - 1 \in Nat
    BY <1>1
  <2>2. Pos(i - 1) \in Slots /\ Pos(i - 1) # tail_
    BY <1>1, <2>1, DistPos
  <2> QED
    BY <1>1, <2>1, <2>2
<1>3. ASSUME NEW k \in Nat, k = Count
      PROVE  tasks_'[Pos(k)'] = accepted + 1
  BY <1>1, <1>3
<1>4. Pending' = [i \in 1..(Count + 1) |->
                    IF i = Count + 1 THEN accepted + 1 ELSE Pending[i]]
  <2>1. Pending' = [i \in 1..(Count + 1) |-> tasks_'[Pos(i - 1)']]
    BY <1>1 DEF Pending
  <2>2. ASSUME NEW i \in 1..(Count + 1)
        PROVE  tasks_'[Pos(i - 1)'] = IF i = Count + 1 THEN accepted + 1 ELSE Pending[i]
    <3>1. CASE i = Count + 1
      <4>1. i - 1 \in Nat /\ i - 1 = Count
        BY <1>1, <3>1
      <4> QED
        BY <1>3, <3>1, <4>1
    <3>2. CASE i # Count + 1
      <4>1. i \in 1..Count
        BY <1>1, <3>2
      <4> QED
        BY <1>2, <4>1, <3>2, PendingSeq
    <3> QED
      BY <3>1, <3>2
  <2> QED
    BY <2>1, <2>2
<1>5. Append(Pending, accepted + 1)
        = [i \in 1..(Count + 1) |-> IF i = Count + 1 THEN accepted + 1 ELSE Pending[i]]
  BY <1>1, PendingSeq
<1> QED
  BY <1>4, <1>5

LEMMA PendingTail ==
    ASSUME TypeOK, ~Empty, head_' = NextIndex(head_), UNCHANGED <<tail_, tasks_>>
    PROVE  /\ Pending # <<>>
           /\ tasks_[head_] = Head(Pending)
           /\ Pending' = Tail(Pending)
<1>1. /\ Count \in 1..(Capacity - 1) /\ Count' = Count - 1 /\ Pos(0) = head_
      /\ \A k \in 0..(Capacity - 2) : Pos(k)' = Pos(k + 1)
  BY Dequeue
<1>2. /\ Pending \in Seq(Nat) /\ Len(Pending) = Count
      /\ \A i \in 1..Count : Pending[i] = tasks_[Pos(i - 1)]
  BY PendingSeq
<1>3. Pending' = [i \in 1..(Count - 1) |-> tasks_[Pos(i - 1)']]
  BY <1>1 DEF Pending
<1>4. ASSUME NEW i \in 1..(Count - 1)
      PROVE  tasks_[Pos(i - 1)'] = Pending[i + 1]
  <2>1. i - 1 \in 0..(Capacity - 2) /\ i + 1 \in 1..Count /\ (i - 1) + 1 = i
           /\ (i + 1) - 1 = i
    BY <1>1
  <2> QED
    BY <1>1, <1>2, <2>1
<1>5. /\ Pending # <<>> /\ Head(Pending) = Pending[1]
      /\ Tail(Pending) \in Seq(Nat) /\ Len(Tail(Pending)) = Count - 1
      /\ \A i \in 1..(Count - 1) : Tail(Pending)[i] = Pending[i + 1]
  BY <1>1, <1>2, HeadTailProperties
<1>6. Pending' = Tail(Pending)
  <2>1. Tail(Pending) \in [1..(Count - 1) -> Nat]
    BY <1>5, LenProperties
  <2> QED
    BY <1>3, <1>4, <1>5, <2>1
<1> QED
  BY <1>1, <1>2, <1>5, <1>6

(* Every step of the ring is a step of the contract.                       *)
LEMMA ContractStep ==
    ASSUME TypeOK, RingInv, [Next]_vars
    PROVE  [Contract!Next]_(Contract!taskVars)
<1>s. ASSUME UNCHANGED <<head_, tail_, tasks_>> PROVE Pending' = Pending
  BY <1>s, PendingStill
<1>e. Empty <=> Pending = <<>>
  BY PendingEmpty
<1>1. ASSUME NEW f \in {"schedule", "try_run_immediate"}, RunImmediate(f)
      PROVE  Contract!RunAtOnce
  <2>1. Pending' = Pending /\ Pending = <<>>
    BY <1>1, <1>s, <1>e DEF RunImmediate, CanRunNow
  <2>2. running = 0 /\ pc = "idle" /\ pc' = "immediate"
    BY <1>1 DEF RunImmediate, RingInv, CallState
  <2> QED
    BY <1>1, <2>1, <2>2 DEF RunImmediate, Contract!RunAtOnce
<1>2. CASE ScheduleQueued
  <2>1. CASE Full
    BY <1>2, <2>1, <1>s DEF ScheduleQueued, Contract!Next, Contract!Stop
  <2>2. CASE ~Full
    <3>1. Pending' = Append(Pending, accepted + 1)
      BY <1>2, <2>2, PendingAppend DEF ScheduleQueued
    <3>2. /\ pc \notin {"terminated", "destroyed"}
          /\ pc' \notin {"terminated", "destroyed"}
      BY <1>2, <2>2 DEF ScheduleQueued
    <3> QED
      BY <1>2, <2>2, <3>1, <3>2 DEF ScheduleQueued, Contract!Next, Contract!Accept
  <2> QED
    BY <2>1, <2>2
<1>3. CASE ImmediateReturns
  <2>1. running # 0
    BY <1>3 DEF ImmediateReturns, RingInv, CallState
  <2> QED
    BY <1>3, <1>s, <2>1 DEF ImmediateReturns, memberVars, historyVars, Contract!Next, Contract!End
<1>4. CASE ImmediateThrows
  <2>1. running # 0 /\ Pending' = Pending
    BY <1>4, <1>s DEF ImmediateThrows, RingInv, CallState
  <2>2. CASE entered = "schedule"
    BY <1>4, <2>1, <2>2 DEF ImmediateThrows, Contract!Next, Contract!Stop
  <2>3. CASE entered # "schedule"
    BY <1>4, <2>1, <2>3 DEF ImmediateThrows, Contract!Next, Contract!End
  <2> QED
    BY <2>2, <2>3
<1>5. CASE TakeTask
  <2>1. /\ Pending # <<>> /\ tasks_[head_] = Head(Pending)
        /\ Pending' = Tail(Pending)
    BY <1>5, PendingTail DEF TakeTask
  <2>2. running = 0
    BY <1>5 DEF TakeTask, RingInv, CallState
  <2> QED
    BY <1>5, <2>1, <2>2 DEF TakeTask, Contract!Next, Contract!Begin
<1>6. CASE TaskReturns
  <2>1. running # 0 /\ ~Queued(slot) /\ tasks_ \in [Slots -> Nat] /\ slot \in Slots
    BY <1>6 DEF TaskReturns, RingInv, CallState, RunningKept, TypeOK
  <2>2. \A i \in Slots : Queued(i) => tasks_'[i] = tasks_[i]
    BY <1>6, <2>1 DEF TaskReturns
  <2>3. Pending' = Pending
    BY <1>6, <2>2, PendingStill DEF TaskReturns
  <2> QED
    BY <1>6, <2>1, <2>3 DEF TaskReturns, historyVars, Contract!Next, Contract!End
<1>7. CASE TaskThrows
  BY <1>7, <1>s DEF TaskThrows, memberVars, historyVars, Contract!Next, Contract!Stop
<1>8. CASE DrainReturns
  BY <1>8, <1>s DEF DrainReturns, Contract!taskVars
<1>9. CASE Destroy
  <2>1. Count' = 0
    BY <1>9 DEF Destroy, Count, TypeOK, Slots
  <2>2. Pending' = <<>>
    BY <2>1 DEF Pending
  <2> QED
    BY <1>9, <2>2 DEF Destroy, historyVars, Contract!Next, Contract!Stop
<1>10. CASE UNCHANGED vars
  BY <1>10, <1>s DEF vars, memberVars, historyVars, Contract!taskVars
<1> QED
  BY <1>1, <1>2, <1>3, <1>4, <1>5, <1>6, <1>7, <1>8, <1>9, <1>10
  DEF Next, Work, Ended, Contract!Next

(* fifo_scheduler keeps the contract of strict_ordering_scheduler_contract: *)
(* it behaves as a queue whose tasks run one at a time, in order, to the    *)
(* end.                                                                    *)
THEOREM SchedulerContract == Spec => FollowsContract
<1>1. Init => Contract!Init
  <2> SUFFICES ASSUME Init PROVE Contract!Init
    OBVIOUS
  <2>1. TypeOK /\ Empty
    BY InitRing DEF Init, Empty
  <2>2. Pending = <<>>
    BY <2>1, PendingEmpty
  <2>3. (pc \in {"terminated", "destroyed"}) = FALSE
    BY DEF Init
  <2> QED
    BY <2>2, <2>3 DEF Init, Contract!Init
<1>2. TypeOK /\ RingInv /\ [Next]_vars => [Contract!Next]_(Contract!taskVars)
  BY ContractStep
<1> QED
  BY <1>1, <1>2, RingCorrect, PTL DEF Spec, FollowsContract, Contract!Spec
=============================================================================
