----------------------------- MODULE CoSmProofs -----------------------------
(***************************************************************************)
(* Theorems about CoSm, for every capacity and number of events: it uses    *)
(* the scheduler as FifoScheduler describes it, so that the theorems about  *)
(* the ring hold of it, and handles, frames and answers fit together.       *)
(***************************************************************************)
EXTENDS CoSm, FifoSchedulerProofs

USE CapacityAssumption, MaxAcceptedAssumption, MayThrowAssumption
USE DEF CapacityAssumption, MaxAcceptedAssumption, MayThrowAssumption

(* The ring and the tasks together.                                        *)
Ring   == TypeOK /\ RingInv
Tasks  == CoTypeOK /\ CoInv /\ ResultIsVerdict /\ OnlyFullEnds
Safe   == Ring /\ Tasks

-----------------------------------------------------------------------------
(* co_sm does with its scheduler only what FifoScheduler lets its users do. *)
LEMMA SchedulerStep == [CoNext]_coVars => [Next]_vars
<1> SUFFICES ASSUME [CoNext]_coVars PROVE [Next]_vars
  OBVIOUS
<1>1. CASE AsyncImmediate
  BY <1>1 DEF AsyncImmediate, Next
<1>2. CASE AsyncQueued
  BY <1>2 DEF AsyncQueued, Next
<1>3. CASE Closures
  BY <1>3
  DEF Closures, ClosureRuns, HandledAtOnce, ThrowsAtOnce, TakeClosure, AsyncReturns, Next, Work
<1>4. CASE User
  BY <1>4 DEF User, Result, Drop, AwaitEarly
<1>5. CASE DestroyMachine
  BY <1>5 DEF DestroyMachine, Next
<1>6. CASE Over
  BY <1>6 DEF Over, Next
<1>7. CASE UNCHANGED coVars
  BY <1>7 DEF coVars
<1> QED
  BY <1>1, <1>2, <1>3, <1>4, <1>5, <1>6, <1>7 DEF CoNext

(* process_event_async uses the fifo_scheduler within its specification:    *)
(* what is proved of the ring is true of the ring of co_sm.                *)
THEOREM SchedulerUsed == CoSpec => Spec
<1>1. CoInit => Init
  BY DEF CoInit
<1> QED
  BY <1>1, SchedulerStep, PTL DEF CoSpec, Spec

-----------------------------------------------------------------------------
LEMMA TasksInit == CoInit => Tasks
<1> SUFFICES ASSUME CoInit PROVE Tasks
  OBVIOUS
<1>1. Init /\ TypeOK /\ Count = 0
  <2>1. Init
    BY DEF CoInit
  <2>2. TypeOK
    BY <2>1, InitRing
  <2> QED
    BY <2>1, <2>2 DEF Init, Count
<1>2. \A i \in Slots : ~Queued(i)
  BY <1>1, DistPos DEF Queued
<1>3. dangling \in BOOLEAN
  BY Zenon DEF CoInit
<1>4. CoTypeOK
  BY <1>1, <1>3 DEF CoInit, Init, CoTypeOK, Ids, Verdicts
<1> QED
  BY <1>1, <1>2, <1>4
  DEF CoInit, Init, Tasks, CoInv, HandlesInv, OwnersInv, VerdictsInv, ValuesInv, Ids,
      ResultIsVerdict, Verdicts, OnlyFullEnds, Defined

(* An event that finds the scheduler idle.                                 *)
LEMMA AsyncImmediateStep ==
    ASSUME Safe, Ring', AsyncImmediate
    PROVE  Tasks'
<1> USE DEF Safe, Ring, Tasks
<1>1. /\ New \in Ids /\ accepted' = New /\ running' = New /\ begun' = New
      /\ pc = "idle" /\ pc' = "immediate" /\ calling' = New
      /\ entered' = "try_run_immediate"
      /\ UNCHANGED <<tasks_, head_, tail_, frame, value, owned, dangling, userVars>>
      /\ Empty
  BY DEF AsyncImmediate, RunImmediate, CanRunNow, Ids, TypeOK, New
<1>2. Count = 0 /\ accepted = begun /\ running = 0 /\ accepted \in Nat
  BY <1>1, CountBounds DEF RingInv, ArrivalOrder, CallState, TypeOK
<1>3. \A i \in Slots : ~Queued(i)'
  BY <1>1, <1>2, DistPos, Still DEF Queued
<1>4. CoTypeOK'
  BY <1>1 DEF CoTypeOK, userVars
<1>5. HandlesInv'
  BY <1>1, <1>3 DEF CoInv, HandlesInv, userVars, Defined
<1>6. New \notin owned /\ frame[New] = "none" /\ value[New] = "none"
  BY <1>1, <1>2 DEF CoInv, OwnersInv, New
<1>7. OwnersInv'
  BY <1>1, <1>2, <1>6 DEF CoInv, OwnersInv, Ids, New
<1>8. verdict[New] = "none"
  BY <1>1, <1>2 DEF CoInv, VerdictsInv, New
<1>9. VerdictsInv'
  <2>1. \A t \in Ids : verdict[t] # "none" <=> t <= New /\ t # New
    BY <1>1, <1>2, <1>8 DEF CoInv, VerdictsInv, Ids, New
  <2>2. \A t \in Ids : Defined => frame[t] # "suspended"
    BY <1>1, <1>2 DEF CoInv, VerdictsInv, OwnersInv, Ids
  <2> QED
    BY <1>1, <2>1, <2>2 DEF VerdictsInv, userVars, Defined
<1>10. ValuesInv'
  <2>1. \A t \in Ids : t # New /\ t = calling' => FALSE
    BY <1>1
  <2> QED
    BY <1>1, <1>6, <1>8, <2>1 DEF CoInv, ValuesInv, userVars
<1> QED
  BY <1>1, <1>4, <1>5, <1>7, <1>9, <1>10
  DEF CoInv, ResultIsVerdict, userVars, OnlyFullEnds

(* The event that was processed at once has its verdict.                   *)
LEMMA HandledAtOnceStep ==
    ASSUME Safe, Ring', NEW v \in Verdicts, HandledAtOnce(v)
    PROVE  Tasks'
<1> USE DEF Safe, Ring, Tasks
<1>1. /\ pc = "immediate" /\ pc' = "drain" /\ running' = 0
      /\ UNCHANGED <<tasks_, head_, tail_, draining_, entered, slot, accepted, begun>>
      /\ UNCHANGED <<frame, calling, owned, dangling, got, misused>>
      /\ value' = [value EXCEPT ![running] = v]
      /\ verdict' = [verdict EXCEPT ![running] = v]
      /\ Defined
  BY DEF HandledAtOnce, ImmediateReturns, memberVars, historyVars
<1>2. running = calling /\ running \in Ids /\ frame[running] = "none" /\ running = begun
  BY <1>1 DEF CoInv, OwnersInv, CoTypeOK, RingInv, CallState
<1>3. CoTypeOK'
  BY <1>1, <1>2 DEF CoTypeOK
<1>4. HandlesInv'
  BY <1>1, Still DEF CoInv, HandlesInv, Defined, Resumable
<1>5. running <= accepted
  BY <1>1, <1>2 DEF CoInv, OwnersInv
<1>6. OwnersInv'
  BY <1>1, <1>2, <1>5 DEF CoInv, OwnersInv, CoTypeOK, Ids, TypeOK
<1>7. verdict[running] = "none"
  BY <1>2 DEF CoInv, VerdictsInv
<1>8. VerdictsInv'
  <2>1. \A t \in Ids : verdict'[t] # "none" <=> t <= begun
    BY <1>1, <1>2 DEF CoInv, VerdictsInv, CoTypeOK, Verdicts, Ids
  <2>2. \A t \in Ids : Defined /\ frame[t] = "suspended" => t > begun
    BY <1>2 DEF CoInv, VerdictsInv
  <2>3. \A t \in Ids : t # 0
    BY DEF Ids
  <2> QED
    BY <1>1, <2>1, <2>2, <2>3 DEF VerdictsInv, Defined
<1>9. ValuesInv'
  BY <1>1, <1>2 DEF CoInv, ValuesInv, CoTypeOK
<1>10. ResultIsVerdict'
  BY <1>1, <1>2, <1>7 DEF ResultIsVerdict, CoTypeOK, Verdicts
<1> QED
  BY <1>1, <1>3, <1>4, <1>6, <1>8, <1>9, <1>10 DEF CoInv, OnlyFullEnds

(* An exception goes to the caller.                                        *)
LEMMA ThrowsAtOnceStep ==
    ASSUME Safe, Ring', ThrowsAtOnce
    PROVE  Tasks'
<1> USE DEF Safe, Ring, Tasks
<1>1. /\ pc = "immediate" /\ pc' = "idle" /\ running' = 0
      /\ UNCHANGED <<tasks_, head_, tail_, entered, slot, accepted, begun>>
      /\ UNCHANGED <<frame, value, owned, dangling, misused>>
      /\ calling' = 0
      /\ verdict' = [verdict EXCEPT ![running] = "threw"]
      /\ got' = [task |-> running, answer |-> "threw"]
      /\ Defined
  BY DEF ThrowsAtOnce, ImmediateThrows, CoInv, OwnersInv
<1>2. running = calling /\ running \in Ids /\ frame[running] = "none" /\ running = begun
  BY <1>1 DEF CoInv, OwnersInv, CoTypeOK, RingInv, CallState
<1>3. CoTypeOK'
  BY <1>1, <1>2 DEF CoTypeOK, Verdicts
<1>4. HandlesInv'
  BY <1>1, Still DEF CoInv, HandlesInv, Defined, Resumable
<1>5. 0 \notin Ids
  BY DEF Ids
<1>6. OwnersInv'
  BY <1>1, <1>2, <1>5 DEF CoInv, OwnersInv, CoTypeOK
<1>7. VerdictsInv'
  <2>1. \A t \in Ids : verdict'[t] # "none" <=> t <= begun
    BY <1>1, <1>2 DEF CoInv, VerdictsInv, CoTypeOK, Verdicts, Ids
  <2>2. \A t \in Ids : Defined /\ frame[t] = "suspended" => t > begun
    BY <1>2 DEF CoInv, VerdictsInv
  <2> QED
    BY <1>1, <1>5, <2>1, <2>2 DEF VerdictsInv, Defined
<1>8. ValuesInv'
  <2>1. running \notin owned
    BY <1>2 DEF CoInv, OwnersInv
  <2> QED
    BY <1>1, <1>2, <1>5, <2>1 DEF CoInv, ValuesInv, CoTypeOK
<1>9. ResultIsVerdict'
  BY <1>1, <1>2 DEF ResultIsVerdict, CoTypeOK
<1> QED
  BY <1>1, <1>3, <1>4, <1>6, <1>7, <1>8, <1>9 DEF CoInv, OnlyFullEnds

(* An event that has to wait.                                              *)
LEMMA AsyncQueuedStep ==
    ASSUME Safe, Ring', AsyncQueued
    PROVE  Tasks'
<1> USE DEF Safe, Ring, Tasks
<1>1. /\ pc \in {"idle", "immediate", "task"} /\ Defined
      /\ New \in Ids /\ accepted \in Nat /\ begun <= accepted
      /\ UNCHANGED <<head_, running, begun, value, dangling, verdict, got, misused>>
  <2>a. pc \in {"idle", "immediate", "task"}
    BY DEF AsyncQueued, ScheduleQueued
  <2>1. begun + Count = accepted /\ Count \in Nat /\ begun \in Nat /\ accepted \in Nat
    BY <2>a, CountBounds DEF RingInv, ArrivalOrder, TypeOK
  <2> QED
    BY <2>1 DEF AsyncQueued, ScheduleQueued, UserCode, userVars, New, Ids
<1>2. CASE Full
  <2>1. /\ pc' = "terminated" /\ UNCHANGED <<tasks_, tail_, accepted, frame, calling, owned>>
        /\ Full'
    BY <1>1, <1>2 DEF AsyncQueued, ScheduleQueued, Full, NextIndex
  <2>2. \A i \in Slots : Queued(i)' <=> Queued(i)
    BY <1>1, <2>1, Still
  <2>3. CoTypeOK' /\ ResultIsVerdict' /\ OnlyFullEnds'
    BY <1>1, <2>1 DEF CoTypeOK, ResultIsVerdict, OnlyFullEnds
  <2>4. HandlesInv'
    BY <1>1, <2>1, <2>2 DEF CoInv, HandlesInv, Defined, Resumable
  <2>5. OwnersInv' /\ VerdictsInv' /\ ValuesInv'
    BY <1>1, <2>1 DEF CoInv, OwnersInv, VerdictsInv, ValuesInv, Defined
  <2> QED
    BY <2>3, <2>4, <2>5 DEF CoInv
<1>3. CASE ~Full
  <2>1. /\ tasks_' = [tasks_ EXCEPT ![tail_] = New] /\ tasks_ \in [Slots -> Nat]
        /\ tail_ \in Slots /\ accepted' = New
        /\ frame' = [frame EXCEPT ![New] = "suspended"]
        /\ owned' = (IF draining_ THEN owned \cup {New} ELSE owned)
        /\ calling' = (IF draining_ THEN calling ELSE New)
    BY <1>1, <1>3 DEF AsyncQueued, ScheduleQueued, New, TypeOK
  <2>2. /\ draining_ => pc' = pc /\ entered' = entered /\ pc \in {"immediate", "task"}
        /\ ~draining_ => pc = "idle" /\ pc' = "drain"
    BY <1>1, <1>3 DEF AsyncQueued, ScheduleQueued, RingInv, CallState
  <2>3. \A i \in Slots : Queued(i)' => i = tail_ \/ Queued(i)
    BY <1>3, Enqueue DEF AsyncQueued, ScheduleQueued
  <2>4. New # 0 /\ New \notin owned /\ calling # New
    BY <1>1 DEF CoInv, OwnersInv, CoTypeOK, New, Ids
  <2>5. \A t \in Ids : t # New => frame'[t] = frame[t]
    BY <2>1 DEF CoTypeOK
  <2>6. frame'[New] = "suspended"
    BY <1>1, <2>1 DEF CoTypeOK
  <2>7. CoTypeOK' /\ ResultIsVerdict' /\ OnlyFullEnds'
    BY <1>1, <2>1, <2>2 DEF CoTypeOK, ResultIsVerdict, OnlyFullEnds
  <2>8. HandlesInv'
    <3>1. ASSUME NEW i \in Slots, Queued(i)'
          PROVE  Resumable(tasks_[i])'
      <4>1. CASE i = tail_
        BY <1>1, <2>1, <2>6, <4>1 DEF Resumable
      <4>2. CASE i # tail_
        <5>1. Queued(i) /\ tasks_'[i] = tasks_[i]
          BY <2>1, <2>3, <3>1, <4>2
        <5>2. Resumable(tasks_[i])
          BY <1>1, <5>1 DEF CoInv, HandlesInv
        <5> QED
          BY <1>1, <2>5, <2>6, <5>1, <5>2 DEF Resumable
      <4> QED
        BY <4>1, <4>2
    <3>2. pc' = "task" => Resumable(running)'
      BY <1>1, <2>2, <2>5, <2>6 DEF CoInv, HandlesInv, Resumable
    <3> QED
      BY <1>1, <3>1, <3>2 DEF CoInv, HandlesInv, Defined
  <2>9. OwnersInv'
    <3>1. calling' \notin owned' /\ (pc' \in {"immediate", "drain", "task"} => calling' # 0)
      BY <2>1, <2>2, <2>4 DEF CoInv, OwnersInv
    <3>2. \A t \in Ids : t \in owned' \/ t = calling' => t <= accepted' /\ frame'[t] # "destroyed"
      BY <1>1, <2>1, <2>4, <2>5, <2>6 DEF CoInv, OwnersInv, New, Ids
    <3>3. \A t \in Ids : t > accepted' => frame'[t] = "none" /\ value'[t] = "none"
      BY <1>1, <2>1, <2>5 DEF CoInv, OwnersInv, New, Ids
    <3>4. pc' = "immediate" =>
             calling' = running' /\ frame'[running'] = "none" /\ entered' = "try_run_immediate"
      <4>1. calling \in Ids \cup {0}
        BY DEF CoTypeOK
      <4> QED
        BY <1>1, <2>1, <2>2, <2>4, <2>5, <4>1 DEF CoInv, OwnersInv
    <3> QED
      BY <3>1, <3>2, <3>3, <3>4 DEF OwnersInv
  <2>10. VerdictsInv'
    <3>1. New > begun
      BY <1>1, <2>1 DEF New, TypeOK
    <3> QED
      BY <1>1, <2>5, <3>1 DEF CoInv, VerdictsInv, Defined
  <2>11. ValuesInv'
    BY <1>1, <2>1, <2>4, <2>5, <2>6 DEF CoInv, ValuesInv
  <2> QED
    BY <2>7, <2>8, <2>9, <2>10, <2>11 DEF CoInv
<1> QED
  BY <1>2, <1>3

(* The closure of a queued event answers through the frame it finds         *)
(* suspended.                                                              *)
LEMMA ClosureRunsStep ==
    ASSUME Safe, Ring', NEW v \in Verdicts, ClosureRuns(v)
    PROVE  Tasks'
<1> USE DEF Safe, Ring, Tasks
<1>1. /\ pc = "task" /\ pc' = "drain" /\ running' = 0 /\ Defined
      /\ tasks_' = [tasks_ EXCEPT ![slot] = 0]
      /\ verdict' = [verdict EXCEPT ![running] = v]
      /\ UNCHANGED <<head_, tail_, accepted, begun, calling, owned, got, misused>>
  BY DEF ClosureRuns, TaskReturns, historyVars
<1>2. /\ running \in Ids /\ running # 0 /\ running = begun /\ running <= accepted
      /\ frame[running] = "suspended" \/ running \in misused
      /\ begun \in Nat /\ accepted \in Nat /\ slot \in Slots /\ ~Queued(slot)
  <2>1. begun + Count = accepted /\ Count \in Nat /\ begun \in Nat /\ accepted \in Nat
    BY <1>1, CountBounds DEF RingInv, ArrivalOrder, TypeOK
  <2> QED
    BY <1>1, <2>1
    DEF CoInv, HandlesInv, Resumable, RingInv, CallState, RunningKept, Ids, TypeOK
<1>3. ASSUME NEW i \in Slots, Queued(i)'
      PROVE  Queued(i) /\ tasks_'[i] = tasks_[i] /\ tasks_[i] # running
  <2>1. Queued(i) /\ i # slot /\ Dist(i) \in Nat
    BY <1>1, <1>2, <1>3, Still, DistPos
  <2> QED
    BY <1>1, <1>2, <2>1 DEF RingInv, ArrivalOrder, TypeOK
<1>4. verdict[running] = "none"
  BY <1>2 DEF CoInv, VerdictsInv
<1>5. /\ \A t \in Ids : t # running => frame'[t] = frame[t] /\ value'[t] = value[t]
      /\ frame[running] = "suspended" =>
            frame'[running] = "done" /\ value'[running] = v /\ dangling' = dangling
      /\ frame[running] # "suspended" => dangling' = TRUE /\ frame' = frame /\ value' = value
  BY <1>2 DEF ClosureRuns, CoTypeOK, Outcome, Finished
<1>6. CoTypeOK'
  <2>1. dangling' \in BOOLEAN
    BY <1>5, Zenon DEF CoTypeOK
  <2> QED
    BY <1>1, <1>2, <2>1 DEF CoTypeOK, ClosureRuns, Outcome, Finished
<1>7. HandlesInv'
  <2>1. \A i \in Slots : Queued(i)' /\ Defined' => Resumable(tasks_[i])'
    BY <1>1, <1>3, <1>5 DEF CoInv, HandlesInv, Resumable, Defined
  <2>2. dangling' => misused' # {}
    BY <1>1, <1>2, <1>5 DEF Defined
  <2> QED
    BY <1>1, <2>1, <2>2 DEF HandlesInv
<1>8. OwnersInv'
  BY <1>1, <1>2, <1>5 DEF CoInv, OwnersInv
<1>9. VerdictsInv'
  <2>1. \A t \in Ids : verdict'[t] # "none" <=> t <= begun
    BY <1>1, <1>2 DEF CoInv, VerdictsInv, CoTypeOK, Verdicts, Ids
  <2>2. \A t \in Ids : Defined' /\ frame'[t] = "suspended" => t > begun
    BY <1>1, <1>2, <1>5 DEF CoInv, VerdictsInv, Defined
  <2>3. 0 \notin Ids
    BY DEF Ids
  <2> QED
    BY <1>1, <2>1, <2>2, <2>3 DEF VerdictsInv
<1>10. ValuesInv'
  BY <1>1, <1>2, <1>5 DEF CoInv, ValuesInv, CoTypeOK
<1>11. ResultIsVerdict'
  BY <1>1, <1>2, <1>4 DEF ResultIsVerdict, CoTypeOK, Verdicts
<1> QED
  BY <1>1, <1>6, <1>7, <1>8, <1>9, <1>10, <1>11 DEF CoInv, OnlyFullEnds

(* The next closure begins.                                                *)
LEMMA TakeClosureStep ==
    ASSUME Safe, Ring', TakeClosure
    PROVE  Tasks'
<1> USE DEF Safe, Ring, Tasks
<1>1. /\ pc = "drain" /\ pc' = "task" /\ Defined /\ ~Empty
      /\ running' = tasks_[head_] /\ begun' = tasks_[head_]
      /\ UNCHANGED <<tasks_, accepted, frame, value, calling, owned, dangling>>
      /\ UNCHANGED <<verdict, got, misused>>
  BY DEF TakeClosure, TakeTask, coroutineVars, userVars
<1>2. /\ Queued(head_) /\ Dist(head_) = 0 /\ head_ \in Slots
      /\ \A i \in Slots : Queued(i)' => Queued(i)
  BY Dequeue DEF TakeClosure, TakeTask, TypeOK
<1>3. tasks_[head_] = begun + 1 /\ running = 0 /\ begun \in Nat
  BY <1>1, <1>2 DEF RingInv, ArrivalOrder, CallState, TypeOK
<1>4. CoTypeOK' /\ ResultIsVerdict' /\ OnlyFullEnds' /\ ValuesInv' /\ OwnersInv'
  BY <1>1 DEF CoTypeOK, ResultIsVerdict, OnlyFullEnds, CoInv, ValuesInv, OwnersInv
<1>5. HandlesInv'
  BY <1>1, <1>2 DEF CoInv, HandlesInv, Defined, Resumable
<1>6. VerdictsInv'
  BY <1>1, <1>3 DEF CoInv, VerdictsInv, Defined, Ids
<1> QED
  BY <1>4, <1>5, <1>6 DEF CoInv

(* The user is given the task.                                             *)
LEMMA AsyncReturnsStep ==
    ASSUME Safe, Ring', AsyncReturns
    PROVE  Tasks'
<1> USE DEF Safe, Ring, Tasks
<1>1. /\ pc = "drain" /\ pc' = "idle" /\ Defined
      /\ owned' = owned \cup {calling} /\ calling' = 0
      /\ UNCHANGED <<tasks_, head_, tail_, running, accepted, begun>>
      /\ UNCHANGED <<frame, value, dangling, verdict, got, misused>>
  BY DEF AsyncReturns, DrainReturns, userVars
<1>2. calling \in Ids /\ 0 \notin Ids
  BY <1>1 DEF CoTypeOK, CoInv, OwnersInv, Ids
<1>3. CoTypeOK' /\ ResultIsVerdict' /\ OnlyFullEnds'
  BY <1>1, <1>2 DEF CoTypeOK, ResultIsVerdict, OnlyFullEnds
<1>4. HandlesInv'
  BY <1>1, Still DEF CoInv, HandlesInv, Defined, Resumable
<1>5. OwnersInv' /\ VerdictsInv' /\ ValuesInv'
  BY <1>1, <1>2 DEF CoTypeOK, CoInv, OwnersInv, VerdictsInv, ValuesInv, Defined
<1> QED
  BY <1>3, <1>4, <1>5 DEF CoInv

(* What the user does with a task.                                         *)
LEMMA ResultStep ==
    ASSUME Safe, Ring', NEW t \in Ids, Result(t)
    PROVE  Tasks'
<1> USE DEF Safe, Ring, Tasks
<1>1. /\ t \in owned /\ Defined
      /\ UNCHANGED <<tasks_, head_, tail_, pc, entered, running, accepted, begun>>
      /\ UNCHANGED <<frame, value, calling, owned, verdict>>
  BY DEF Result, UserCode, vars, memberVars, historyVars
<1>2. frame[t] # "destroyed" /\ frame[t] \in {"none", "suspended", "done", "destroyed"}
  BY <1>1 DEF CoInv, OwnersInv, CoTypeOK
<1>3. CASE frame[t] = "none" \/ Readable(t)
  <2>1. /\ UNCHANGED <<dangling, misused>>
        /\ got' = [task |-> t,
                   answer |-> IF frame[t] = "suspended" THEN "logic_error" ELSE value[t]]
    BY <1>3 DEF Result
  <2>2. CoTypeOK' /\ OnlyFullEnds'
    BY <1>1, <2>1 DEF CoTypeOK, OnlyFullEnds, Full
  <2>3. HandlesInv'
    BY <1>1, <2>1, Still DEF CoInv, HandlesInv, Defined, Resumable
  <2>4. OwnersInv' /\ VerdictsInv' /\ ValuesInv'
    BY <1>1, <2>1 DEF CoInv, OwnersInv, VerdictsInv, ValuesInv, Defined
  <2>5. ResultIsVerdict'
    <3>1. frame[t] \in {"none", "done"} /\ t \notin misused => value[t] = verdict[t]
      BY <1>1 DEF CoInv, ValuesInv
    <3> QED
      BY <1>1, <1>2, <2>1, <3>1 DEF ResultIsVerdict, Verdicts
  <2> QED
    BY <2>2, <2>3, <2>4, <2>5 DEF CoInv
<1>4. CASE ~(frame[t] = "none" \/ Readable(t))
  <2>1. /\ dangling' = TRUE /\ misused' = misused \cup {t} /\ UNCHANGED got
        /\ pc = "destroyed"
    BY <1>2, <1>4 DEF Result, Readable
  <2>2. CoTypeOK' /\ OnlyFullEnds' /\ ResultIsVerdict'
    <3>1. dangling' \in BOOLEAN
      BY <2>1, Zenon
    <3> QED
      BY <1>1, <2>1, <3>1 DEF CoTypeOK, OnlyFullEnds, ResultIsVerdict
  <2>3. HandlesInv'
    BY <1>1, <2>1 DEF HandlesInv
  <2>4. OwnersInv' /\ VerdictsInv' /\ ValuesInv'
    BY <1>1, <2>1 DEF CoInv, OwnersInv, VerdictsInv, ValuesInv, Defined
  <2> QED
    BY <2>2, <2>3, <2>4 DEF CoInv
<1> QED
  BY <1>3, <1>4

LEMMA DropStep ==
    ASSUME Safe, Ring', NEW t \in Ids, Drop(t)
    PROVE  Tasks'
<1> USE DEF Safe, Ring, Tasks
<1>1. /\ t \in owned /\ Defined
      /\ UNCHANGED <<tasks_, head_, tail_, pc, entered, running, accepted, begun>>
      /\ UNCHANGED <<value, calling, verdict, got>>
      /\ owned' = owned \ {t} /\ misused \subseteq misused' /\ misused' \subseteq misused \cup {t}
      /\ frame[t] = "suspended" => t \in misused'
  BY DEF Drop, UserCode, vars, memberVars, historyVars
<1>2. /\ frame[t] # "destroyed" /\ t <= accepted /\ t # calling
      /\ frame[t] \in {"none", "suspended", "done", "destroyed"}
      /\ frame \in [Ids -> {"none", "suspended", "done", "destroyed"}]
  BY <1>1 DEF CoInv, OwnersInv, CoTypeOK
<1>3. /\ \A u \in Ids : u # t => frame'[u] = frame[u]
      /\ frame'[t] = IF frame[t] = "none" THEN "none" ELSE "destroyed"
      /\ frame' \in [Ids -> {"none", "suspended", "done", "destroyed"}]
  BY <1>2 DEF Drop
<1>4. dangling' => t \in misused'
  BY <1>2 DEF Drop, Readable
<1>5. CoTypeOK'
  <2>1. dangling' \in BOOLEAN
    BY Zenon DEF Drop
  <2> QED
    BY <1>1, <1>3, <2>1 DEF CoTypeOK
<1>6. HandlesInv'
  <2>1. \A u \in Ids : frame[u] = "suspended" \/ u \in misused =>
                         frame'[u] = "suspended" \/ u \in misused'
    BY <1>1, <1>3
  <2>2. \A i \in Slots : Queued(i)' <=> Queued(i)
    BY <1>1, Still
  <2> QED
    BY <1>1, <1>4, <2>1, <2>2 DEF CoInv, HandlesInv, Defined, Resumable
<1>7. OwnersInv'
  <2>1. pc = "immediate" => running \in Ids /\ running # t
    BY <1>2 DEF CoInv, OwnersInv, CoTypeOK
  <2>2. pc = "immediate" => frame'[running] = "none"
    BY <1>1, <1>3, <2>1 DEF CoInv, OwnersInv
  <2> QED
    BY <1>1, <1>2, <1>3, <2>2 DEF CoInv, OwnersInv, Ids, TypeOK
<1>8. VerdictsInv' /\ ValuesInv'
  BY <1>1, <1>2, <1>3 DEF CoInv, VerdictsInv, ValuesInv, Defined
<1>9. ResultIsVerdict' /\ OnlyFullEnds'
  BY <1>1 DEF ResultIsVerdict, OnlyFullEnds, Full
<1> QED
  BY <1>5, <1>6, <1>7, <1>8, <1>9 DEF CoInv

LEMMA AwaitEarlyStep ==
    ASSUME Safe, Ring', NEW t \in Ids, AwaitEarly(t)
    PROVE  Tasks'
<1> USE DEF Safe, Ring, Tasks
<1>1. /\ t \in owned /\ Defined
      /\ UNCHANGED <<tasks_, head_, tail_, pc, entered, running, accepted, begun>>
      /\ UNCHANGED <<owned, calling, verdict, dangling>>
      /\ frame[t] = "suspended" /\ misused' = misused \cup {t}
      /\ got' = [task |-> t, answer |-> "false"]
  BY DEF AwaitEarly, UserCode, vars, memberVars, historyVars
<1>2. t <= accepted /\ t # calling
  BY <1>1 DEF CoInv, OwnersInv
<1>3. /\ \A u \in Ids : u # t => frame'[u] = frame[u] /\ value'[u] = value[u]
      /\ frame'[t] = "done"
  BY DEF AwaitEarly, CoTypeOK, Finished
<1>4. CoTypeOK'
  BY <1>1 DEF CoTypeOK, AwaitEarly, Finished, Verdicts
<1>5. HandlesInv'
  <2>1. \A u \in Ids : frame[u] = "suspended" \/ u \in misused =>
                         frame'[u] = "suspended" \/ u \in misused'
    BY <1>1, <1>3
  <2>2. \A i \in Slots : Queued(i)' <=> Queued(i)
    BY <1>1, Still
  <2> QED
    BY <1>1, <2>1, <2>2 DEF CoInv, HandlesInv, Defined, Resumable
<1>6. OwnersInv'
  <2>1. pc = "immediate" => running \in Ids /\ running # t
    BY <1>2 DEF CoInv, OwnersInv, CoTypeOK
  <2>2. pc = "immediate" => frame'[running] = "none"
    BY <1>1, <1>3, <2>1 DEF CoInv, OwnersInv
  <2> QED
    BY <1>1, <1>2, <1>3, <2>2 DEF CoInv, OwnersInv, Ids, TypeOK
<1>7. VerdictsInv' /\ ValuesInv'
  BY <1>1, <1>2, <1>3 DEF CoInv, VerdictsInv, ValuesInv, Defined
<1>8. ResultIsVerdict' /\ OnlyFullEnds'
  BY <1>1 DEF ResultIsVerdict, OnlyFullEnds, Full
<1> QED
  BY <1>4, <1>5, <1>6, <1>7, <1>8 DEF CoInv

(* The machine goes, its tasks stay.                                       *)
LEMMA DestroyMachineStep ==
    ASSUME Safe, Ring', DestroyMachine
    PROVE  Tasks'
<1> USE DEF Safe, Ring, Tasks
<1>1. /\ pc = "idle" /\ pc' = "destroyed" /\ Defined
      /\ UNCHANGED <<entered, running, accepted, begun>>
      /\ UNCHANGED <<frame, value, calling, owned, dangling, verdict, got, misused>>
  BY DEF DestroyMachine, Destroy, historyVars, coroutineVars, userVars
<1>2. CoTypeOK' /\ ResultIsVerdict' /\ OnlyFullEnds'
  BY <1>1 DEF CoTypeOK, ResultIsVerdict, OnlyFullEnds
<1>3. HandlesInv' /\ OwnersInv' /\ VerdictsInv' /\ ValuesInv'
  BY <1>1 DEF CoInv, HandlesInv, OwnersInv, VerdictsInv, ValuesInv, Defined
<1> QED
  BY <1>2, <1>3 DEF CoInv

LEMMA IdleStep ==
    ASSUME Safe, Ring', UNCHANGED coVars
    PROVE  Tasks'
<1> USE DEF Safe, Ring, Tasks
<1>1. /\ UNCHANGED <<tasks_, head_, tail_, pc, entered, running, accepted, begun>>
      /\ UNCHANGED <<frame, value, calling, owned, dangling, verdict, got, misused>>
  BY DEF coVars, vars, memberVars, historyVars, coroutineVars, userVars
<1>2. CoTypeOK' /\ ResultIsVerdict' /\ OnlyFullEnds'
  BY <1>1 DEF CoTypeOK, ResultIsVerdict, OnlyFullEnds, Full
<1>3. HandlesInv'
  BY <1>1, Still DEF CoInv, HandlesInv, Defined, Resumable
<1>4. OwnersInv' /\ VerdictsInv' /\ ValuesInv'
  BY <1>1 DEF CoInv, OwnersInv, VerdictsInv, ValuesInv, Defined
<1> QED
  BY <1>2, <1>3, <1>4 DEF CoInv

LEMMA TasksStep ==
    ASSUME Safe, Ring', [CoNext]_coVars
    PROVE  Tasks'
<1>1. CASE Closures
  BY <1>1, ClosureRunsStep, HandledAtOnceStep, ThrowsAtOnceStep, TakeClosureStep, AsyncReturnsStep
  DEF Closures
<1>2. CASE User
  BY <1>2, ResultStep, DropStep, AwaitEarlyStep DEF User
<1>3. CASE Over
  BY <1>3, IdleStep DEF Over, Ended, coVars
<1> QED
  BY <1>1, <1>2, <1>3, AsyncImmediateStep, AsyncQueuedStep, DestroyMachineStep, IdleStep
  DEF CoNext

-----------------------------------------------------------------------------
(* In every reachable state tasks, frames, closures and answers belong       *)
(* together, whatever reactions, callers and exceptions do.                *)
THEOREM TasksCorrect == CoSpec => []Safe
<1>1. CoInit => Tasks
  BY TasksInit
<1>2. Safe /\ Ring' /\ [CoNext]_coVars => Tasks'
  BY TasksStep
<1>3. CoSpec => [](TypeOK /\ RingInv)
  BY SchedulerUsed, RingCorrect, PTL
<1>4. TypeOK /\ RingInv <=> Ring
  BY DEF Ring
<1>5. Safe <=> Ring /\ Tasks
  BY DEF Safe
<1> QED
  BY <1>1, <1>2, <1>3, <1>4, <1>5, PTL DEF CoSpec

(* No coroutine frame is used outside of its life unless the user misused a *)
(* task.                                                                   *)
THEOREM FramesSafe == CoSpec => []NothingDangles
<1>1. Safe => NothingDangles
  BY DEF Safe, Tasks, CoInv, HandlesInv, Resumable, NothingDangles
<1> QED
  BY <1>1, TasksCorrect, PTL

(* result() reports what process_event did with the event of the task.      *)
THEOREM ResultsTrue == CoSpec => []ResultIsVerdict
<1>1. Safe => ResultIsVerdict
  BY DEF Safe, Tasks
<1> QED
  BY <1>1, TasksCorrect, PTL

(* Exceptions of reactions never end the program; only a full ring does.    *)
THEOREM ExceptionsContained == CoSpec => []OnlyFullEnds
<1>1. Safe => OnlyFullEnds
  BY DEF Safe, Tasks
<1> QED
  BY <1>1, TasksCorrect, PTL

(* When process_event_async has returned to user code that is not a         *)
(* reaction, its task and all others are ready.                            *)
THEOREM TasksReady == CoSpec => []ReadyOutside
<1>1. Safe /\ DrainedOnReturn => ReadyOutside
  <2> SUFFICES ASSUME Safe, DrainedOnReturn, Defined, pc = "idle", outcome = "returned",
                      NEW t \in Ids
               PROVE  frame[t] # "suspended"
    BY DEF ReadyOutside
  <2>1. Count = 0 /\ begun + Count = accepted /\ begun \in Nat /\ running = 0
    BY CountBounds
    DEF Safe, Ring, DrainedOnReturn, RingInv, ArrivalOrder, CallState, TypeOK
  <2>2. frame[t] = "suspended" => t > begun \/ t = running
    BY DEF Safe, Tasks, CoInv, VerdictsInv
  <2>3. t > accepted => frame[t] = "none"
    BY DEF Safe, Tasks, CoInv, OwnersInv
  <2> QED
    BY <2>1, <2>2, <2>3 DEF Ids
<1>2. CoSpec => []DrainedOnReturn
  BY SchedulerUsed, SchedulerDrained, PTL
<1> QED
  BY <1>1, <1>2, TasksCorrect, PTL

(* Events are processed in the order of the calls of process_event_async.   *)
THEOREM EventsInOrder == CoSpec => []InCallOrder
<1>1. Safe => InCallOrder
  <2> SUFFICES ASSUME Safe, NEW t \in Ids, NEW u \in Ids, u < t, verdict[t] # "none"
               PROVE  verdict[u] # "none"
    BY DEF InCallOrder
  <2>1. running \in {0, begun} /\ begun \in Nat /\ t <= begun /\ t # running
    BY DEF Safe, Ring, TypeOK, Tasks, CoInv, VerdictsInv
  <2> QED
    BY <2>1 DEF Safe, Tasks, CoInv, VerdictsInv, Ids
<1> QED
  BY <1>1, TasksCorrect, PTL
=============================================================================
