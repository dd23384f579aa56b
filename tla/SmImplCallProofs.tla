--------------------------- MODULE SmImplCallProofs ---------------------------
(* Proofs about whole calls of SmImpl, what holds when process_event has     *)
(* returned, and about the deferred events, for every set of tables, every  *)
(* number of regions and of calls.                                         *)
EXTENDS SmImplProofs

(* None of the operations O is in s.                                       *)
Free(s, O) == \A n \in DOMAIN s : s[n] \notin O

(* No operation of s is user code that could throw.                        *)
Calm(s) == Free(s, {UserCall})

(* A call is going on exactly while its result is not known; and unless     *)
(* user code throws, the deferred events mode is on only inside the scan.   *)
CallState ==
    /\ pc \notin {"ready", "destroyed"} => result \in {"constructing", "pending"}
    /\ pc \in {"ready", "destroyed"} => result \notin {"constructing", "pending"}
    /\ Drained

InScan == pc = "recall" \/ (Processing /\ caller = "process_defer_events")

CalmState == NeverThrows => Calm(todo) /\ (defer_processing_ => InScan)

CallInv == CallState /\ CalmState

-----------------------------------------------------------------------------
(* Sequences of operations without those of O.                             *)
LEMMA FreeConcat ==
    ASSUME NEW O, NEW s \in Seq(Operations), NEW t \in Seq(Operations), Free(s, O), Free(t, O)
    PROVE  s \o t \in Seq(Operations) /\ Free(s \o t, O)
<1> SUFFICES ASSUME NEW n \in DOMAIN (s \o t) PROVE (s \o t)[n] \notin O
  BY ConcatProperties DEF Free
<1>1. Len(s) \in Nat /\ Len(t) \in Nat /\ DOMAIN s = 1..Len(s) /\ DOMAIN t = 1..Len(t)
  OBVIOUS
<1>2. n \in 1..(Len(s) + Len(t))
  BY ConcatProperties
<1>3. CASE n <= Len(s)
  BY <1>1, <1>2, <1>3, ConcatProperties DEF Free
<1>4. CASE n > Len(s)
  <2>1. (s \o t)[n] = t[n - Len(s)]
    BY <1>1, <1>2, <1>4, ConcatProperties
  <2>2. n - Len(s) \in 1..Len(t)
    BY <1>1, <1>2, <1>4
  <2>3. QED
    BY <1>1, <2>1, <2>2 DEF Free
<1>5. QED
  BY <1>1, <1>2, <1>3, <1>4

LEMMA TailOperations ==
    ASSUME NEW s \in Seq(Operations), s # <<>>
    PROVE  /\ 1 \in DOMAIN s /\ Head(s) = s[1] /\ Head(s) \in Operations
           /\ Tail(s) \in Seq(Operations)
           /\ \A n \in DOMAIN Tail(s) : n + 1 \in DOMAIN s /\ Tail(s)[n] = s[n + 1]
<1>1. /\ Tail(s) \in Seq(Operations) /\ Len(Tail(s)) = Len(s) - 1
      /\ \A n \in 1..Len(Tail(s)) : Tail(s)[n] = s[n + 1]
  BY HeadTailProperties
<1>2. \A n \in 1..Len(Tail(s)) : n + 1 \in 1..Len(s)
  BY <1>1
<1>3. 1 \in DOMAIN s /\ Head(s) = s[1]
  BY LenProperties, EmptySeq
<1>4. QED
  BY <1>1, <1>2, <1>3, ElementOfSeq, LenProperties

LEMMA FreeTail ==
    ASSUME NEW O, NEW s \in Seq(Operations), s # <<>>, Free(s, O)
    PROVE  Free(Tail(s), O)
BY TailOperations DEF Free

(* The exit and entry actions run nothing that their rows do not.           *)
LEMMA FreeStateAction ==
    ASSUME NEW O, NEW t \in TransitionTables, NEW on, NEW s,
           \A i \in DOMAIN t.rows : t.rows[i].on = on => Free(t.rows[i].action, O)
    PROVE  Free(StateAction(t, on, s), O)
<1> DEFINE C == First(t, StateRows(t, on, s) \cup AnyRows(t, on))
<1>1. \A i \in C : i \in DOMAIN t.rows /\ t.rows[i].on = on
  BY DEF First, StateRows, AnyRows
<1>2. CASE C = {}
  BY <1>2 DEF StateAction, Free
<1>3. CASE C # {}
  <2>1. (CHOOSE i \in C : TRUE) \in C
    BY <1>3
  <2>2. QED
    BY <1>1, <1>3, <2>1 DEF StateAction
<1>4. QED
  BY <1>2, <1>3

(* Nor does a row run more than its own action, the exit and entry actions   *)
(* and the update of the state.                                            *)
LEMMA FreeExecution ==
    ASSUME NEW O, NEW t \in TransitionTables, NEW i \in DOMAIN t.rows, NEW s,
           Free(t.rows[i].action, O),
           t.rows[i].to # Internal =>
              /\ Update(t.rows[i].to) \notin O
              /\ \A j \in DOMAIN t.rows : t.rows[j].on \in {OnExit, OnEntry} =>
                                             Free(t.rows[j].action, O)
    PROVE  Free(Execution(t, i, s), O)
<1> DEFINE row == t.rows[i]
           exit == StateAction(t, OnExit, s)
           entry == StateAction(t, OnEntry, row.to)
<1>1. row.action \in Seq(Operations) /\ row.to \in States \cup {Internal}
  BY ActionType
<1>2. CASE row.to = Internal
  BY <1>2 DEF Execution
<1>3. CASE row.to # Internal
  <2>1. Free(exit, O) /\ Free(entry, O)
    BY <1>3, FreeStateAction
  <2>2. exit \in Seq(Operations) /\ entry \in Seq(Operations)
    BY StateActionType
  <2>3. Update(row.to) \in Operations
    BY <1>1, <1>3, OperationTypes
  <2>4. <<Update(row.to)>> \in Seq(Operations) /\ Free(<<Update(row.to)>>, O)
    BY <1>3, <2>3 DEF Free
  <2> HIDE DEF row, exit, entry
  <2>5. exit \o <<Update(row.to)>> \in Seq(Operations) /\ Free(exit \o <<Update(row.to)>>, O)
    BY <2>1, <2>2, <2>4, FreeConcat
  <2>6. /\ (exit \o <<Update(row.to)>>) \o row.action \in Seq(Operations)
        /\ Free((exit \o <<Update(row.to)>>) \o row.action, O)
    BY <1>1, <2>5, FreeConcat DEF row
  <2>7. Free(((exit \o <<Update(row.to)>>) \o row.action) \o entry, O)
    BY <2>1, <2>2, <2>6, FreeConcat
  <2>8. QED
    BY <1>3, <2>7 DEF Execution, row, exit, entry
<1>4. QED
  BY <1>2, <1>3

LEMMA CalmAction ==
    ASSUME NeverThrows, NEW i \in DOMAIN table.rows
    PROVE  Calm(table.rows[i].action) /\ "throws" \notin table.rows[i].guard
BY DEF NeverThrows, Calm, Free

(* A row of a table that never throws runs nothing that could.             *)
LEMMA CalmExecution ==
    ASSUME NeverThrows, MemberTypes, NEW i \in DOMAIN table.rows, NEW s
    PROVE  Calm(Execution(table, i, s))
<1>1. \A j \in DOMAIN table.rows : Free(table.rows[j].action, {UserCall})
  BY CalmAction DEF Calm
<1>2. \A x : Update(x) # UserCall
  BY DEF Update, UserCall
<1>3. QED
  BY <1>1, <1>2, FreeExecution DEF MemberTypes, Calm

-----------------------------------------------------------------------------
LEMMA CallInit == Init => CallInv
BY DEF Init, CallInv, CallState, CalmState, Drained, Calm, Free

(* Steps inside a call that end nothing: the result stays unknown.         *)
LEMMA CallStateStep ==
    ASSUME EngineTypes, CallInv, [Step]_vars
    PROVE  CallState'
<1>1. ASSUME NEW i, RowFires(i) PROVE CallState'
  BY <1>1 DEF RowFires, CallInv, CallState, Drained, memberVars
<1>2. ASSUME NoRowFires PROVE CallState'
  BY <1>2 DEF NoRowFires, NextRegion, AfterUnexpected, CallInv, CallState, Drained, memberVars
<1>3. ASSUME GuardThrows \/ ActionThrows PROVE CallState'
  BY <1>3 DEF GuardThrows, ActionThrows, Unwind, CallInv, CallState, Drained
<1>4. ASSUME UpdateState \/ PostEvent \/ DeferEvent \/ CallReturns PROVE CallState'
  BY <1>4
  DEF UpdateState, PostEvent, DeferEvent, CallReturns, Running, CallInv, CallState, Drained,
      memberVars
<1>5. ASSUME RowDone PROVE CallState'
  BY <1>5 DEF RowDone, NextRegion, AfterUnexpected, CallInv, CallState, Drained, memberVars
<1>6. ASSUME Dispatched PROVE CallState'
  BY <1>6, DispatchFirstTypes DEF Dispatched, CallInv, CallState, Drained, memberVars
<1>7. ASSUME EventReturns \/ Recheck \/ RecallReturns \/ RecallDone \/ QueuedReturns
      PROVE  CallState'
  BY <1>7
  DEF EventReturns, Recheck, RecallReturns, RecallDone, QueuedReturns, CallInv, CallState,
      Drained
<1>8. ASSUME Recall \/ TakeQueued PROVE CallState'
  BY <1>8, ProcessAndPostTypes
  DEF Recall, TakeQueued, CallInv, CallState, Drained, memberVars
<1>9. ASSUME QueueDone PROVE CallState'
  BY <1>9 DEF QueueDone, CallInv, CallState, Drained, memberVars
<1>10. ASSUME NEW e \in Events, Call(e) PROVE CallState'
  BY <1>10, ProcessAndPostTypes DEF Call, BeginCall, CallInv, CallState, Drained, memberVars
<1>11. CASE UNCHANGED vars
  BY <1>11 DEF vars, memberVars, CallInv, CallState, Drained
<1>12. QED
  BY <1>1, <1>2, <1>3, <1>4, <1>5, <1>6, <1>7, <1>8, <1>9, <1>10, <1>11
  DEF Step, Engine, Lookup, Execute, Loops

(* What the dispatch leaves alone.                                         *)
LEMMA CalmFrame ==
    ASSUME CallInv, UNCHANGED <<table, defer_processing_, todo, caller>>,
           Processing, Processing'
    PROVE  CalmState'
BY DEF CallInv, CalmState, NeverThrows, Calm, Free, InScan, Processing

(* User code that throws is part of the table.                             *)
LEMMA ThrowersThrow ==
    ASSUME EngineTypes, CallInv, GuardThrows \/ ActionThrows
    PROVE  ~NeverThrows
<1>1. CASE GuardThrows
  BY <1>1, ReachedInTable DEF GuardThrows, NeverThrows, EngineTypes
<1>2. CASE ActionThrows
  <2>1. todo # <<>> /\ todo \in Seq(Operations) /\ todo[1].op = "call"
    BY <1>2 DEF ActionThrows, Running, Operation, EngineTypes, DispatchTypes
  <2>2. todo[1] \in Operations /\ 1 \in DOMAIN todo
    BY <2>1
  <2>3. todo[1] = UserCall
    BY <2>1, <2>2 DEF Operations, UserOperations, UserCall
  <2> QED
    BY <2>2, <2>3 DEF CallInv, CalmState, Calm, Free
<1> QED
  BY <1>1, <1>2

LEMMA CalmStateStep ==
    ASSUME EngineTypes, RefInv, CallInv, [Step]_vars
    PROVE  CalmState'
<1>1. ASSUME NEW i, RowFires(i) PROVE CalmState'
  <2>1. i \in DOMAIN table.rows
    BY <1>1, ReachedInTable DEF RowFires, EngineTypes
  <2>2. NeverThrows => Calm(Execution(table, i, current_state_[region]))
    BY <2>1, CalmExecution DEF EngineTypes
  <2>3. NeverThrows' = NeverThrows
    BY <1>1 DEF RowFires, memberVars, NeverThrows
  <2>4. QED
    BY <1>1, <2>2, <2>3
    DEF RowFires, memberVars, CallInv, CalmState, InScan, Processing, Calm, Free
<1>2. ASSUME NoRowFires PROVE CalmState'
  BY <1>2, CalmFrame DEF NoRowFires, NextRegion, AfterUnexpected, memberVars, Processing
<1>3. ASSUME GuardThrows PROVE CalmState'
  BY <1>3, ThrowersThrow DEF GuardThrows, Unwind, memberVars, CalmState, NeverThrows
<1>4. ASSUME ActionThrows PROVE CalmState'
  BY <1>4, ThrowersThrow DEF ActionThrows, Unwind, memberVars, CalmState, NeverThrows
<1>5. ASSUME UpdateState \/ PostEvent \/ DeferEvent \/ CallReturns PROVE CalmState'
  <2>1. /\ pc' = pc /\ pc = "run" /\ todo # <<>> /\ todo' = Tail(todo)
        /\ UNCHANGED <<table, defer_processing_, caller>>
    BY <1>5 DEF UpdateState, PostEvent, DeferEvent, CallReturns, Running, memberVars
  <2>2. Calm(todo) => Calm(Tail(todo))
    BY <2>1, FreeTail DEF EngineTypes, DispatchTypes, Calm
  <2>3. Calm(Tail(todo)) => Calm(todo)'
    BY <2>1 DEF Calm
  <2>4. NeverThrows' = NeverThrows
    BY <2>1 DEF NeverThrows
  <2>5. InScan' = InScan
    BY <2>1 DEF InScan, Processing
  <2>6. QED
    BY <2>1, <2>2, <2>3, <2>4, <2>5 DEF CallInv, CalmState
<1>6. ASSUME RowDone PROVE CalmState'
  BY <1>6, CalmFrame DEF RowDone, NextRegion, AfterUnexpected, memberVars, Processing
<1>7. ASSUME Dispatched PROVE CalmState'
  BY <1>7, CalmFrame, DispatchFirstTypes DEF Dispatched, memberVars, Processing
<1>8. ASSUME EventReturns \/ Recheck \/ RecallReturns \/ RecallDone \/ QueuedReturns
      PROVE  CalmState'
  <2>1. table' = table /\ todo' = todo
    BY <1>8
    DEF EventReturns, Recheck, RecallReturns, RecallDone, QueuedReturns, memberVars,
        dispatchVars
  <2>2. NeverThrows /\ defer_processing_' => pc' = "recall"
    BY <1>8
    DEF EventReturns, Recheck, RecallReturns, RecallDone, QueuedReturns, memberVars,
        CallInv, CalmState, InScan, Processing
  <2>3. QED
    BY <2>1, <2>2 DEF CallInv, CalmState, NeverThrows, Calm, Free, InScan
<1>9. ASSUME Recall \/ TakeQueued PROVE CalmState'
  <2>1. todo' = <<>> /\ pc' = "lookup" /\ UNCHANGED memberVars
    BY <1>9, ProcessAndPostTypes DEF Recall, TakeQueued, ProcessAndPost
  <2>2. NeverThrows /\ defer_processing_ => caller' = "process_defer_events"
    BY <1>9, ProcessAndPostTypes
    DEF Recall, TakeQueued, CallInv, CalmState, InScan, Processing
  <2>3. QED
    BY <2>1, <2>2 DEF memberVars, CalmState, NeverThrows, Calm, Free, InScan, Processing
<1>10. ASSUME QueueDone PROVE CalmState'
  BY <1>10
  DEF QueueDone, memberVars, dispatchVars, CallInv, CalmState, NeverThrows, Calm, Free, InScan,
      Processing
<1>11. ASSUME NEW e \in Events, Call(e) PROVE CalmState'
  <2>1. todo' = <<>> /\ pc' = "lookup" /\ UNCHANGED memberVars
    BY <1>11, ProcessAndPostTypes DEF Call, BeginCall, ProcessAndPost
  <2>2. NeverThrows => ~defer_processing_
    BY <1>11 DEF Call, BeginCall, CallInv, CalmState, InScan, Processing
  <2>3. QED
    BY <2>1, <2>2 DEF memberVars, CalmState, NeverThrows, Calm, Free
<1>12. CASE UNCHANGED vars
  BY <1>12
  DEF vars, memberVars, dispatchVars, CallInv, CalmState, NeverThrows, Calm, Free, InScan, Processing
<1>13. QED
  BY <1>1, <1>2, <1>3, <1>4, <1>5, <1>6, <1>7, <1>8, <1>9, <1>10, <1>11, <1>12
  DEF Step, Engine, Lookup, Execute, Loops

(* A step of the engine is a step inside a call, which either goes on or    *)
(* ends with a result; only a constructor can leave nothing behind.        *)
LEMMA EngineResult ==
    ASSUME Engine
    PROVE  /\ pc \notin {"ready", "destroyed"}
           /\ \/ pc' \notin {"ready", "destroyed"} /\ result' = result
              \/ /\ result' \in {"true", "false", "guard_threw", "action_threw"}
                 /\ pc' = "destroyed" => result = "constructing"
                 /\ pc' \in {"ready", "destroyed"}
<1>1. ASSUME NEW i, RowFires(i)
      PROVE  /\ pc \notin {"ready", "destroyed"}
             /\ pc' \notin {"ready", "destroyed"} /\ result' = result
  BY <1>1 DEF RowFires
<1>2. ASSUME NoRowFires \/ RowDone
      PROVE  /\ pc \notin {"ready", "destroyed"}
             /\ pc' \notin {"ready", "destroyed"} /\ result' = result
  BY <1>2 DEF NoRowFires, RowDone, NextRegion, AfterUnexpected
<1>3. ASSUME GuardThrows \/ ActionThrows
      PROVE  /\ pc \notin {"ready", "destroyed"}
             /\ result' \in {"true", "false", "guard_threw", "action_threw"}
             /\ pc' = "destroyed" => result = "constructing"
             /\ pc' \in {"ready", "destroyed"}
  BY <1>3 DEF GuardThrows, ActionThrows, Running, Unwind
<1>4. ASSUME UpdateState \/ PostEvent \/ DeferEvent \/ CallReturns
      PROVE  /\ pc \notin {"ready", "destroyed"}
             /\ pc' \notin {"ready", "destroyed"} /\ result' = result
  BY <1>4 DEF UpdateState, PostEvent, DeferEvent, CallReturns, Running
<1>5. ASSUME Dispatched
      PROVE  /\ pc \notin {"ready", "destroyed"}
             /\ pc' \notin {"ready", "destroyed"} /\ result' = result
  BY <1>5, DispatchFirstTypes DEF Dispatched
<1>6. ASSUME EventReturns \/ Recheck \/ RecallReturns \/ RecallDone \/ QueuedReturns
      PROVE  /\ pc \notin {"ready", "destroyed"}
             /\ pc' \notin {"ready", "destroyed"} /\ result' = result
  BY <1>6 DEF EventReturns, Recheck, RecallReturns, RecallDone, QueuedReturns
<1>7. ASSUME Recall \/ TakeQueued
      PROVE  /\ pc \notin {"ready", "destroyed"}
             /\ pc' \notin {"ready", "destroyed"} /\ result' = result
  BY <1>7, ProcessAndPostTypes DEF Recall, TakeQueued
<1>8. ASSUME QueueDone
      PROVE  /\ pc \notin {"ready", "destroyed"}
             /\ \/ pc' \notin {"ready", "destroyed"} /\ result' = result
                \/ result' \in {"true", "false"} /\ pc' = "ready"
  BY <1>8 DEF QueueDone
<1> QED
  BY <1>1, <1>2, <1>3, <1>4, <1>5, <1>6, <1>7, <1>8 DEF Engine, Lookup, Execute, Loops

(* The state of the calls of process_event.                                *)
THEOREM CallsCorrect == EngineSpec => []CallInv
<1>1. EngineTypes /\ RefInv /\ CallInv /\ [Step]_vars => CallInv'
  BY CallStateStep, CalmStateStep DEF CallInv
<1>2. QED
  BY <1>1, TypesAndReferences, CallInit, PTL DEF EngineSpec

(* process_event returns with the process queue empty, also after calls     *)
(* that exceptions cut short; and where no user code throws, it returns     *)
(* with the deferred events mode off, so that the next deferral is stored   *)
(* (sml.hpp process_event, process_defer_events).                          *)
THEOREM CallsQuiescent == Spec => []Quiescent
<1>1. CallInv => Quiescent
  BY DEF CallInv, CallState, CalmState, Quiescent, Drained, InScan, Processing
<1>2. QED
  BY <1>1, EngineUsed, CallsCorrect, PTL

-----------------------------------------------------------------------------
(* Deferred events.                                                        *)
Unexpected == stage \in {"unexpected", "unexpected_any"}

(* The object that is processed is not one of the defer queue.             *)
FirstTime == Processing /\ caller # "process_defer_events"

(* An event that was deferred counts as handled: an unexpected_event row,   *)
(* which does not, has no defer action.                                    *)
CountsHandled ==
    /\ pc = "run" /\ ~Free(todo, {Defer}) => ~Unexpected
    /\ pc \in {"lookup", "run", "dispatched"} /\ deferring =>
          IF what = "event" THEN accepted \/ (pc = "run" /\ ~Unexpected) ELSE handled
    /\ pc = "returned" /\ deferring => handled

(* What is deferred is stored at once, or stays where it is.               *)
Stored ==
    /\ DeferredKept
    /\ FirstTime /\ deferring => item.id \in Ids(defer_)
    /\ Processing /\ caller = "process_defer_events" /\ deferring => defer_again_

KeptInv == table \in Tables /\ CountsHandled /\ (NeverThrows => Stored)

(* The row that is reached reacts to what is looked up.                    *)
LEMMA ReachedTrigger ==
    ASSUME NEW i, Reached(table, Candidates, i)
    PROVE  i \in DOMAIN table.rows /\ table.rows[i].on = StageTrigger
BY DEF Reached, Candidates, StateRows, AnyRows

(* Only the reactions to events, completions and nothing defer.            *)
LEMMA DeferRows ==
    ASSUME table \in Tables, NEW i \in DOMAIN table.rows,
           table.rows[i].on.kind \notin {"event", "completion", "anonymous"}
    PROVE  Free(table.rows[i].action, {Defer})
BY TablesAssumption DEF Free

(* Entry and exit rows do not defer.                                       *)
LEMMA StateActionsDeferNothing ==
    ASSUME table \in Tables, NEW j \in DOMAIN table.rows,
           table.rows[j].on \in {OnExit, OnEntry}
    PROVE  Free(table.rows[j].action, {Defer})
<1>1. OnExit.kind = "on_exit" /\ OnEntry.kind = "on_entry"
  BY DEF OnExit, OnEntry
<1>2. table.rows[j].on.kind \in {"on_exit", "on_entry"}
  BY <1>1
<1> QED
  BY <1>2, DeferRows

LEMMA UnexpectedDefersNothing ==
    ASSUME table \in Tables, DispatchTypes, Unexpected,
           NEW i, Reached(table, Candidates, i), NEW s
    PROVE  Free(Execution(table, i, s), {Defer})
<1>1. i \in DOMAIN table.rows /\ table.rows[i].on = StageTrigger
  BY ReachedTrigger
<1>2. StageTrigger.kind \in {"unexpected", "unexpected_any"}
  <2>1. StageTrigger \in {OnUnexpected(item.on.ev), OnUnexpectedAny}
    BY DEF StageTrigger, Unexpected
  <2>2. QED
    BY <2>1 DEF OnUnexpected, OnUnexpectedAny
<1>3. Free(table.rows[i].action, {Defer})
  BY <1>1, <1>2, DeferRows
<1>4. \A x : Update(x) # Defer
  BY DEF Update, Defer
<1>5. table \in TransitionTables
  BY TablesAssumption
<1> QED
  BY <1>1, <1>3, <1>4, <1>5, StateActionsDeferNothing, FreeExecution

(* The operation that runs is the head of what is left to do.              *)
LEMMA RunningOperation ==
    ASSUME DispatchTypes, NEW op, Running(op)
    PROVE  /\ pc = "run" /\ todo # <<>> /\ todo \in Seq(Operations)
           /\ Operation = todo[1] /\ 1 \in DOMAIN todo /\ Operation \in Operations
           /\ op = "defer" => Operation = Defer
           /\ Operation.op = op
BY TailOperations DEF DispatchTypes, Running, Operation, Operations, UserOperations, Defer

LEMMA CountsHandledStep ==
    ASSUME EngineTypes, table \in Tables, CountsHandled, [Step]_vars
    PROVE  CountsHandled'
<1> USE DEF CountsHandled, Unexpected
<1>1. ASSUME NEW i, RowFires(i) PROVE CountsHandled'
  <2>1. Unexpected => Free(todo', {Defer})
    BY <1>1, UnexpectedDefersNothing DEF RowFires, EngineTypes
  <2>2. Free(todo', {Defer}) = Free(todo, {Defer})'
    BY DEF Free
  <2>3. QED
    BY <1>1, <2>1, <2>2 DEF RowFires
<1>2. CASE NoRowFires
  BY <1>2 DEF NoRowFires, NextRegion, AfterUnexpected, ghostVars
<1>3. CASE GuardThrows \/ ActionThrows
  BY <1>3 DEF GuardThrows, ActionThrows, Unwind
<1>4. CASE UpdateState \/ PostEvent \/ CallReturns
  <2>1. /\ pc = "run" /\ todo # <<>> /\ todo' = Tail(todo)
        /\ UNCHANGED <<pc, what, stage, accepted, handled, deferring>>
    BY <1>4 DEF UpdateState, PostEvent, CallReturns, Running, ghostVars
  <2>2. Free(todo, {Defer}) => Free(todo, {Defer})'
    BY <2>1, FreeTail DEF EngineTypes, DispatchTypes, Free
  <2>3. QED
    BY <2>1, <2>2
<1>5. CASE DeferEvent
  <2>1. /\ pc = "run" /\ todo # <<>> /\ todo' = Tail(todo) /\ ~Free(todo, {Defer})
        /\ deferring' = (deferring \/ what = "event")
        /\ UNCHANGED <<pc, what, stage, accepted, handled>>
    BY <1>5, RunningOperation DEF DeferEvent, Running, Free, EngineTypes
  <2>2. QED
    BY <2>1
<1>6. CASE RowDone
  BY <1>6 DEF RowDone, NextRegion, AfterUnexpected, ghostVars
<1>7. CASE Dispatched
  BY <1>7, StageTypes DEF Dispatched, DispatchFirst
<1>8. CASE EventReturns \/ Recheck \/ RecallReturns \/ RecallDone \/ QueuedReturns \/ QueueDone
  BY <1>8 DEF EventReturns, Recheck, RecallReturns, RecallDone, QueuedReturns, QueueDone
<1>9. ASSUME Recall \/ TakeQueued \/ \E e \in Events : Call(e) PROVE CountsHandled'
  <2>1. pc' = "lookup" /\ ~deferring'
    BY <1>9, ProcessAndPostTypes DEF Recall, TakeQueued, Call, BeginCall, ProcessAndPost
  <2>2. QED
    BY <2>1
<1>10. CASE UNCHANGED vars
  BY <1>10 DEF vars, dispatchVars, ghostVars, Free
<1> QED
  BY <1>1, <1>2, <1>3, <1>4, <1>5, <1>6, <1>7, <1>8, <1>9, <1>10
  DEF Step, Engine, Lookup, Execute, Loops

(* A deferral appends the event, or a new object, while nothing is recalled *)
(* and leaves a note while something is.                                   *)
LEMMA DeferEventIds ==
    ASSUME EngineTypes, DeferEvent
    PROVE  /\ defer_processing_ => /\ UNCHANGED <<defer_, issued, owed>>
                                   /\ defer_again_'
           /\ ~defer_processing_ =>
                 /\ Ids(defer_') = Ids(defer_) \cup {IF what = "event" THEN item.id
                                                     ELSE issued + 1}
                 /\ owed' \subseteq owed \cup {issued + 1}
                 /\ what = "event" => UNCHANGED <<issued, owed>>
                 /\ UNCHANGED defer_again_
           /\ deferring' = (deferring \/ what = "event")
<1> DEFINE x == [on |-> Trigger, id |-> IF what = "event" THEN item.id ELSE issued + 1]
<1>1. x \in EventObjects /\ defer_ \in Seq(EventObjects)
  BY TriggerType DEF EngineTypes, MemberTypes, DispatchTypes, HistoryTypes, EventObjects
<1>2. ~defer_processing_ => defer_' = Append(defer_, x)
  BY DEF DeferEvent, Push
<1>3. x.id = IF what = "event" THEN item.id ELSE issued + 1
  OBVIOUS
<1> HIDE DEF x
<1>4. ~defer_processing_ => Ids(defer_') = Ids(defer_) \cup {x.id}
  BY <1>1, <1>2, IdsAppend
<1>5. defer_processing_ => UNCHANGED <<defer_, issued, owed>> /\ defer_again_'
  BY DEF DeferEvent
<1>6. ~defer_processing_ =>
         /\ owed' \subseteq owed \cup {issued + 1}
         /\ what = "event" => UNCHANGED <<issued, owed>>
         /\ UNCHANGED defer_again_
  BY DEF DeferEvent
<1>7. deferring' = (deferring \/ what = "event")
  BY DEF DeferEvent
<1> QED
  BY <1>3, <1>4, <1>5, <1>6, <1>7

(* What the end of a recall does to the defer queue.                       *)
LEMMA RecallReturnsIds ==
    ASSUME EngineTypes, RefInv, RecallReturns
    PROVE  /\ Kept => defer_' = defer_
           /\ Ids(defer_') \subseteq Ids(defer_)
           /\ Ids(defer_) \ {item.id} \subseteq Ids(defer_')
           /\ item.id \in Ids(defer_) /\ item = defer_[defer_it_]
           /\ defer_it_ \in DOMAIN defer_
<1>1. defer_ \in Seq(EventObjects) /\ defer_it_ \in 1..Len(defer_) /\ item = defer_[defer_it_]
  BY LenProperties
  DEF RecallReturns, EngineTypes, MemberTypes, RefInv, ReferenceStable, Processing
<1>2. defer_it_ \in DOMAIN defer_ /\ item.id \in Ids(defer_)
  BY <1>1, LenProperties DEF Ids
<1>3. defer_' = IF Kept THEN defer_ ELSE Removed(defer_, defer_it_)
  BY DEF RecallReturns, Removed
<1> QED
  BY <1>1, <1>2, <1>3, IdsRemove

LEMMA StoredStep ==
    ASSUME EngineTypes, RefInv, CallInv, CountsHandled, NeverThrows, Stored, [Step]_vars
    PROVE  Stored'
<1> USE DEF Stored, DeferredKept, FirstTime
<1>1. ASSUME \/ \E i \in Candidates : RowFires(i)
             \/ NoRowFires \/ UpdateState \/ PostEvent \/ CallReturns \/ RowDone
      PROVE  Stored'
  <2>1. /\ Processing /\ Processing'
        /\ UNCHANGED <<defer_, owed, caller, item, deferring, defer_again_>>
    BY <1>1
    DEF RowFires, NoRowFires, NextRegion, AfterUnexpected, UpdateState, PostEvent, CallReturns,
        RowDone, Running, Processing, memberVars, ghostVars
  <2>2. QED
    BY <2>1
<1>2. CASE GuardThrows \/ ActionThrows
  BY <1>2, ThrowersThrow
<1>3. CASE DeferEvent
  <2>1. Processing /\ Processing' /\ UNCHANGED <<caller, item>>
    BY <1>3 DEF DeferEvent, Running, Processing
  <2>2. CASE defer_processing_
    <3>1. caller = "process_defer_events"
      BY <2>1, <2>2 DEF CallInv, CalmState, InScan, Processing
    <3>2. QED
      BY <1>3, <2>1, <2>2, <3>1, DeferEventIds
  <2>3. CASE ~defer_processing_
    <3>1. caller # "process_defer_events"
      BY <2>1, <2>3 DEF RefInv, ReferenceStable
    <3>2. what # "event" => owed' \subseteq Ids(defer_')
      BY <1>3, <2>3, DeferEventIds
    <3>3. what = "event" => owed' \subseteq Ids(defer_')
      BY <1>3, <2>3, DeferEventIds
    <3>4. deferring' => item.id \in Ids(defer_')
      BY <1>3, <2>1, <2>3, <3>1, DeferEventIds
    <3>5. QED
      BY <2>1, <3>1, <3>2, <3>3, <3>4
  <2>4. QED
    BY <2>2, <2>3
<1>4. CASE Dispatched
  <2>1. /\ Processing /\ Processing'
        /\ UNCHANGED <<defer_, owed, caller, item, deferring, defer_again_>>
    BY <1>4, DispatchFirstTypes DEF Dispatched, Processing, memberVars
  <2>2. QED
    BY <2>1
<1>5. CASE EventReturns \/ QueuedReturns
  <2>1. FirstTime /\ Settle /\ defer_' = defer_ /\ ~Processing'
    BY <1>5 DEF EventReturns, QueuedReturns, Processing, memberVars
  <2>2. QED
    BY <2>1 DEF Settle
<1>6. CASE RecallReturns
  <2>1. Settle /\ ~Processing' /\ Processing /\ caller = "process_defer_events"
    BY <1>6 DEF RecallReturns, Processing
  <2>2. deferring => Kept
    BY <1>6, <2>1 DEF RecallReturns, CountsHandled, Kept
  <2>3. QED
    BY <1>6, <2>1, <2>2, RecallReturnsIds DEF Settle
<1>7. CASE Recheck \/ RecallDone \/ QueueDone
  <2>1. ~Processing' /\ UNCHANGED <<defer_, owed>>
    BY <1>7 DEF Recheck, RecallDone, QueueDone, Processing, memberVars, ghostVars
  <2>2. QED
    BY <2>1
<1>8. ASSUME Recall \/ TakeQueued \/ \E e \in Events : Call(e) PROVE Stored'
  <2>1. ~deferring' /\ UNCHANGED <<defer_, owed>>
    BY <1>8 DEF Recall, TakeQueued, Call, BeginCall, ProcessAndPost, memberVars
  <2>2. QED
    BY <2>1
<1>9. CASE UNCHANGED vars
  BY <1>9 DEF vars, memberVars, dispatchVars, ghostVars, Processing
<1> QED
  BY <1>1, <1>2, <1>3, <1>4, <1>5, <1>6, <1>7, <1>8, <1>9
  DEF Step, Engine, Lookup, Execute, Loops

(* The table of a machine is the one it was built with.                    *)
LEMMA TableFixed ==
    ASSUME [Step]_vars
    PROVE  table' = table /\ NeverThrows' = NeverThrows
<1>1. table' = table
  BY DEF Step, Engine, Lookup, Execute, Loops, RowFires, NoRowFires, GuardThrows, UpdateState,
         PostEvent, DeferEvent, CallReturns, ActionThrows, RowDone, Dispatched, EventReturns,
         Recheck, Recall, RecallReturns, RecallDone, TakeQueued, QueuedReturns, QueueDone,
         Call, BeginCall, Unwind, memberVars, vars
<1>2. QED
  BY <1>1 DEF NeverThrows

LEMMA KeptInit == Init => KeptInv
<1> SUFFICES ASSUME Init PROVE KeptInv
  OBVIOUS
<1>1. table \in Tables /\ ~deferring /\ owed = {} /\ pc = "lookup"
  BY DEF Init
<1> QED
  BY <1>1 DEF KeptInv, CountsHandled, Stored, DeferredKept

THEOREM KeptInvariant == EngineSpec => []KeptInv
<1>1. EngineTypes /\ RefInv /\ CallInv /\ KeptInv /\ [Step]_vars => KeptInv'
  BY CountsHandledStep, StoredStep, TableFixed DEF KeptInv
<1> QED
  BY <1>1, KeptInit, TypesAndReferences, CallsCorrect, PTL DEF EngineSpec

(* back::defer, process_event_no_defer: unless user code throws, no deferred *)
(* event is lost, whatever the table does: it waits in the defer queue until *)
(* a later processing of it ends without deferring it again.  After an       *)
(* exception in the middle of a scan it is not so (run defer_throws).       *)
THEOREM DeferredEventsKept == Spec => [](NeverThrows => DeferredKept)
<1>1. KeptInv => (NeverThrows => DeferredKept)
  BY DEF KeptInv, Stored
<1> QED
  BY <1>1, EngineUsed, KeptInvariant, PTL

-----------------------------------------------------------------------------
(* The order of the deferred events.  It is kept where an event is deferred  *)
(* once in a dispatch, by one row of one region, and by no reaction to a     *)
(* completion or to nothing, which deferring would note for the event that   *)
(* was handled before it.                                                  *)
Defers(i) == ~Free(table.rows[i].action, {Defer})

EventsDefer == \A i \in DOMAIN table.rows : Defers(i) => table.rows[i].on.kind = "event"

(* The states in which a row may fire.                                     *)
Sources(row) == IF row.src = AnyState THEN States ELSE {row.src}

Once(s) == \A m, n \in DOMAIN s : s[m] = Defer /\ s[n] = Defer => m = n

(* Every state is a state of one region, its home, which no transition       *)
(* leaves; the rows that defer an event are rows of the same region, and do  *)
(* it once.                                                                *)
DefersOnce(home) ==
    /\ \A r \in Regions : home[table.initial[r]] = r
    /\ \A i \in DOMAIN table.rows :
          LET row == table.rows[i]
          IN  /\ row.to # Internal => \A s \in Sources(row) : home[row.to] = home[s]
              /\ Once(row.action)
              /\ \A j \in DOMAIN table.rows :
                    Defers(i) /\ Defers(j) /\ table.rows[j].on = row.on =>
                      \A s \in Sources(row), u \in Sources(table.rows[j]) : home[s] = home[u]

Orderly(home) == NeverThrows /\ EventsDefer /\ DefersOnce(home)

(* The regions that may defer the event are not after r.                   *)
DeferredUpTo(home, r) ==
    \A k \in DOMAIN table.rows :
       Defers(k) /\ table.rows[k].on = item.on =>
          \A s \in Sources(table.rows[k]) : home[s] <= r

(* Every region stays among its states, and once the event is deferred no    *)
(* region is left that would defer it again.                               *)
HomeInv(home) ==
    /\ \A r \in Regions : home[current_state_[r]] = r
    /\ pc = "run" =>
         /\ Free(todo, {Update(s) : s \in {u \in States : home[u] # region}})
         /\ Once(todo)
         /\ ~Free(todo, {Defer}) =>
               what = "event" /\ ~deferring /\ DeferredUpTo(home, region)
    /\ what = "event" /\ deferring =>
         /\ pc = "lookup" \/ (pc = "run" /\ Unexpected) => DeferredUpTo(home, region - 1)
         /\ pc = "run" => DeferredUpTo(home, region)

(* Deferred events are older than the one processed, unless it is one of     *)
(* them, and than those posted.                                            *)
OrderInv ==
    /\ DeferInOrder
    /\ FirstTime => \A x \in Ids(defer_) : x < item.id \/ (deferring /\ x = item.id)
    /\ \A x \in Ids(defer_), p \in Ids(process_) :
          \/ x < p
          \/ /\ x = p /\ p = item.id /\ deferring
             /\ Processing /\ caller = "process_queued_events"
    /\ Processing /\ caller = "process_event" => \A p \in Ids(process_) : item.id < p

(* What is done is in no queue and is not processed.                       *)
DoneInv ==
    /\ \A x \in done : x <= issued
    /\ done \cap Ids(process_) = {}
    /\ done \cap Ids(defer_) = {}
    /\ Processing => item.id \notin done
    /\ pc = "recall" => ~defer_again_
    /\ Processing /\ caller = "process_defer_events" /\ defer_again_ => deferring

(* No call was cut short.                                                  *)
Unhurt == result \notin {"guard_threw", "action_threw"}

OnceInv ==
    /\ NeverThrows => Unhurt
    /\ \A home \in [States -> Regions] :
          Orderly(home) => HomeInv(home) /\ OrderInv /\ DoneInv

(* The table is never changed, so what is asked of it stays true.           *)
LEMMA OrderlyFixed ==
    ASSUME [Step]_vars, NEW home
    PROVE  Orderly(home)' = Orderly(home)
BY TableFixed DEF Orderly, NeverThrows, EventsDefer, DefersOnce, Defers, Free

(* One deferral in a sequence of operations.                               *)
LEMMA OnceConcat ==
    ASSUME NEW s \in Seq(Operations), NEW t \in Seq(Operations), Once(s), Once(t),
           Free(s, {Defer}) \/ Free(t, {Defer})
    PROVE  Once(s \o t)
<1> SUFFICES ASSUME NEW m \in DOMAIN (s \o t), NEW n \in DOMAIN (s \o t),
                    (s \o t)[m] = Defer, (s \o t)[n] = Defer
             PROVE  m = n
  BY DEF Once
<1>1. /\ Len(s) \in Nat /\ Len(t) \in Nat /\ DOMAIN s = 1..Len(s) /\ DOMAIN t = 1..Len(t)
      /\ DOMAIN (s \o t) = 1..(Len(s) + Len(t))
      /\ \A k \in 1..(Len(s) + Len(t)) :
            (s \o t)[k] = IF k <= Len(s) THEN s[k] ELSE t[k - Len(s)]
  BY ConcatProperties, LenProperties
<1>2. ASSUME NEW k \in DOMAIN (s \o t), (s \o t)[k] = Defer
      PROVE  \/ k \in DOMAIN s /\ s[k] = Defer /\ ~Free(s, {Defer})
             \/ /\ k > Len(s) /\ k - Len(s) \in DOMAIN t /\ t[k - Len(s)] = Defer
                /\ ~Free(t, {Defer})
  BY <1>1, <1>2 DEF Free
<1>3. CASE Free(t, {Defer})
  BY <1>2, <1>3 DEF Once
<1>4. CASE Free(s, {Defer})
  <2>1. m - Len(s) = n - Len(s)
    BY <1>2, <1>4 DEF Once
  <2>2. QED
    BY <1>1, <2>1
<1> QED
  BY <1>3, <1>4

LEMMA OnceFree ==
    ASSUME NEW s, Free(s, {Defer})
    PROVE  Once(s)
BY DEF Once, Free

LEMMA OnceTail ==
    ASSUME NEW s \in Seq(Operations), s # <<>>, Once(s)
    PROVE  Once(Tail(s)) /\ (Head(s) = Defer => Free(Tail(s), {Defer}))
<1>1. /\ 1 \in DOMAIN s /\ Head(s) = s[1]
      /\ \A n \in DOMAIN Tail(s) : n + 1 \in DOMAIN s /\ Tail(s)[n] = s[n + 1]
      /\ \A n \in DOMAIN Tail(s) : n \in Nat /\ n >= 1
  BY TailOperations, LenProperties, HeadTailProperties
<1>2. \A m, n \in DOMAIN Tail(s) : m + 1 = n + 1 => m = n
  BY <1>1
<1>3. \A n \in DOMAIN Tail(s) : n + 1 # 1
  BY <1>1
<1> QED
  BY <1>1, <1>2, <1>3 DEF Once, Free

LEMMA OnceExecution ==
    ASSUME NEW t \in TransitionTables, NEW i \in DOMAIN t.rows, NEW s,
           Once(t.rows[i].action),
           \A j \in DOMAIN t.rows : t.rows[j].on \in {OnExit, OnEntry} =>
                                      Free(t.rows[j].action, {Defer})
    PROVE  Once(Execution(t, i, s))
<1> DEFINE row == t.rows[i]
           exit == StateAction(t, OnExit, s)
           entry == StateAction(t, OnEntry, row.to)
           upd == <<Update(row.to)>>
<1>1. row.action \in Seq(Operations) /\ row.to \in States \cup {Internal}
  BY ActionType
<1>2. CASE row.to = Internal
  BY <1>2 DEF Execution
<1>3. CASE row.to # Internal
  <2>1. Free(exit, {Defer}) /\ Free(entry, {Defer})
    BY <1>3, FreeStateAction
  <2>2. exit \in Seq(Operations) /\ entry \in Seq(Operations)
    BY StateActionType
  <2>3. Update(row.to) \in Operations
    BY <1>1, <1>3, OperationTypes
  <2>4. upd \in Seq(Operations) /\ Free(upd, {Defer})
    BY <2>3 DEF Free, Update, Defer
  <2> HIDE DEF row, exit, entry, upd
  <2>5. exit \o upd \in Seq(Operations) /\ Free(exit \o upd, {Defer})
    BY <2>1, <2>2, <2>4, FreeConcat
  <2>6. (exit \o upd) \o row.action \in Seq(Operations) /\ Once((exit \o upd) \o row.action)
    BY <1>1, <2>5, OnceFree, OnceConcat, ConcatProperties DEF row
  <2>7. Once(((exit \o upd) \o row.action) \o entry)
    BY <2>1, <2>2, <2>6, OnceFree, OnceConcat
  <2>8. QED
    BY <1>3, <2>7 DEF Execution, row, exit, entry, upd
<1>4. QED
  BY <1>2, <1>3

(* Only the update that the engine inserts changes a state.                *)
LEMMA ActionsUpdateNothing ==
    ASSUME NEW t \in TransitionTables, NEW i \in DOMAIN t.rows, NEW S
    PROVE  Free(t.rows[i].action, {Update(s) : s \in S})
<1>1. t.rows[i].action \in Seq(UserOperations)
  BY RowType
<1>2. \A n \in DOMAIN t.rows[i].action : t.rows[i].action[n] \in UserOperations
  BY <1>1, ElementOfSeq, LenProperties
<1>3. \A o \in UserOperations : o.op # "update"
  BY DEF UserOperations
<1>4. \A s : Update(s).op = "update"
  BY DEF Update
<1> QED
  BY <1>2, <1>3, <1>4 DEF Free

(* A row that fires in region r changes the state of r to a state of r; if   *)
(* it defers, it defers the event, and no region did so before.            *)
LEMMA RowFiresHome ==
    ASSUME EngineTypes, table \in Tables, NEW home \in [States -> Regions], Orderly(home),
           HomeInv(home), NEW i, RowFires(i)
    PROVE  HomeInv(home)'
<1> DEFINE row == table.rows[i]
           here == current_state_[region]
<1>1. /\ i \in DOMAIN table.rows /\ row.on = StageTrigger
      /\ row.src \in {AnyState, here} /\ pc = "lookup"
      /\ pc' = "run" /\ todo' = Execution(table, i, here)
      /\ UNCHANGED <<table, current_state_, what, region, stage, deferring, item>>
  BY ReachedTrigger DEF RowFires, memberVars, Reached, Candidates, StateRows, AnyRows
<1>2. here \in Sources(row) /\ home[here] = region /\ region \in Regions
  BY <1>1 DEF EngineTypes, MemberTypes, DispatchTypes, Sources, HomeInv
<1>3. table \in TransitionTables /\ row.to \in States \cup {Internal}
  BY <1>1, TablesAssumption, RowType
<1> DEFINE others == {u \in States : home[u] # region}
           updates == {Update(s) : s \in others}
<1>4. Free(Execution(table, i, here), updates)
  <2>1. row.to # Internal => Update(row.to) \notin updates
    <3> SUFFICES ASSUME row.to # Internal, NEW s \in others, Update(row.to) = Update(s)
                 PROVE  FALSE
      OBVIOUS
    <3>1. row.to = s
      BY DEF Update
    <3>2. home[row.to] = home[here]
      BY <1>1, <1>2 DEF Orderly, DefersOnce
    <3>3. QED
      BY <1>2, <3>1, <3>2
  <2> HIDE DEF others
  <2>2. QED
    BY <1>1, <1>3, <2>1, ActionsUpdateNothing, FreeExecution
<1>5. Once(Execution(table, i, here))
  BY <1>1, <1>3, StateActionsDeferNothing, OnceExecution DEF Orderly, DefersOnce
<1>6. ASSUME ~Free(Execution(table, i, here), {Defer})
      PROVE  what = "event" /\ ~deferring /\ DeferredUpTo(home, region)
  <2>1. Defers(i)
    <3>1. \A x : Update(x) \notin {Defer}
      BY DEF Update, Defer
    <3>2. QED
      BY <1>1, <1>3, <1>6, <3>1, StateActionsDeferNothing, FreeExecution DEF Defers
  <2>2. row.on.kind = "event"
    BY <1>1, <2>1 DEF Orderly, EventsDefer
  <2>3. what = "event" /\ row.on = item.on /\ ~Unexpected
    <3>1. /\ OnUnexpected(item.on.ev).kind # "event" /\ OnUnexpectedAny.kind # "event"
          /\ OnCompletion(item.on.ev).kind # "event" /\ OnAnonymous.kind # "event"
      BY DEF OnUnexpected, OnUnexpectedAny, OnCompletion, OnAnonymous
    <3>2. QED
      BY <1>1, <2>2, <3>1 DEF StageTrigger, Trigger, Unexpected
  <2>4. \A k \in DOMAIN table.rows :
           Defers(k) /\ table.rows[k].on = item.on =>
              \A s \in Sources(table.rows[k]) : home[s] = region
    BY <1>1, <1>2, <2>1, <2>3 DEF Orderly, DefersOnce
  <2>5. ~deferring
    <3> SUFFICES ASSUME deferring PROVE FALSE
      OBVIOUS
    <3>1. home[here] <= region - 1
      BY <1>1, <1>2, <2>1, <2>3 DEF HomeInv, DeferredUpTo
    <3>2. QED
      BY <1>2, <3>1 DEF Regions
  <2>6. DeferredUpTo(home, region)
    BY <1>2, <2>4 DEF DeferredUpTo, Regions
  <2> QED
    BY <2>3, <2>5, <2>6
<1>7. what = "event" /\ deferring =>
         DeferredUpTo(home, region - 1) /\ DeferredUpTo(home, region)
  <2> SUFFICES ASSUME what = "event", deferring
               PROVE  DeferredUpTo(home, region - 1) /\ DeferredUpTo(home, region)
    OBVIOUS
  <2>1. DeferredUpTo(home, region - 1)
    BY <1>1 DEF HomeInv
  <2>2. \A k \in DOMAIN table.rows : \A s \in Sources(table.rows[k]) : home[s] \in Regions
    <3>1. \A k \in DOMAIN table.rows : table.rows[k].src \in States \cup {AnyState}
      BY <1>3, RowType
    <3>2. QED
      BY <3>1 DEF Sources
  <2>3. DeferredUpTo(home, region)
    BY <1>2, <2>1, <2>2 DEF DeferredUpTo, Regions
  <2> QED
    BY <2>1, <2>3
<1>8. \A r : DeferredUpTo(home, r)' = DeferredUpTo(home, r)
  BY <1>1 DEF DeferredUpTo, Defers, Free
<1> QED
  BY <1>1, <1>4, <1>5, <1>6, <1>7, <1>8 DEF HomeInv, Free, Once, Unexpected

LEMMA HomeInit ==
    ASSUME Init, NEW home \in [States -> Regions], Orderly(home)
    PROVE  HomeInv(home)
<1>1. current_state_ = table.initial /\ pc = "lookup" /\ ~deferring
  BY DEF Init
<1> QED
  BY <1>1 DEF HomeInv, Orderly, DefersOnce

LEMMA HomeStep ==
    ASSUME EngineTypes, CallInv, table \in Tables, CountsHandled,
           NEW home \in [States -> Regions], Orderly(home), HomeInv(home), [Step]_vars
    PROVE  HomeInv(home)'
<1>0. UNCHANGED item => \A r : DeferredUpTo(home, r)' = DeferredUpTo(home, r)
  BY TableFixed DEF DeferredUpTo, Defers, Free
<1>1. CASE NoRowFires
  <2>1. /\ pc = "lookup" /\ pc' \in {"lookup", "dispatched"} /\ region \in Regions
        /\ region' = region \/ region' = region + 1
        /\ UNCHANGED <<item, what, deferring, current_state_>>
    BY <1>1 DEF NoRowFires, NextRegion, AfterUnexpected, memberVars, ghostVars,
                EngineTypes, DispatchTypes
  <2>2. what = "event" /\ deferring => DeferredUpTo(home, region - 1)
    BY <2>1 DEF HomeInv
  <2>3. region' = region + 1 => region' - 1 = region
    BY <2>1 DEF Regions
  <2>4. what = "event" /\ deferring => DeferredUpTo(home, region)
    <3>1. \A k \in DOMAIN table.rows : \A s \in Sources(table.rows[k]) : home[s] \in Regions
      <4>1. \A k \in DOMAIN table.rows : table.rows[k].src \in States \cup {AnyState}
        BY RowType DEF EngineTypes, MemberTypes
      <4>2. QED
        BY <4>1 DEF Sources
    <3>2. QED
      BY <2>1, <2>2, <3>1 DEF DeferredUpTo, Regions
  <2> QED
    BY <1>0, <2>1, <2>2, <2>3, <2>4 DEF HomeInv
<1>2. CASE GuardThrows \/ ActionThrows
  BY <1>2, ThrowersThrow DEF Orderly
<1>3. CASE UpdateState \/ PostEvent \/ CallReturns \/ DeferEvent
  <2>1. /\ pc = "run" /\ pc' = "run" /\ todo # <<>> /\ todo \in Seq(Operations)
        /\ todo' = Tail(todo)
        /\ UNCHANGED <<item, what, region, stage>>
    BY <1>3 DEF UpdateState, PostEvent, CallReturns, DeferEvent, Running, EngineTypes,
                DispatchTypes
  <2>2. /\ \A O : Free(todo, O) => Free(todo, O)'
        /\ Once(todo)'
    BY <2>1, FreeTail, OnceTail DEF Free, HomeInv, Once
  <2>3. \A r \in Regions : home[current_state_'[r]] = r
    <3>1. CASE UpdateState
      <4>1. /\ Operation = todo[1] /\ 1 \in DOMAIN todo /\ Operation \in Operations
            /\ Operation.op = "update"
        BY <3>1, RunningOperation DEF UpdateState, EngineTypes
      <4>2. Operation = Update(Operation.arg) /\ Operation.arg \in States
        BY <4>1, OperationTypes DEF Operations, UserOperations, Update
      <4>3. home[Operation.arg] = region
        BY <2>1, <4>1, <4>2 DEF HomeInv, Free
      <4>4. current_state_' = [current_state_ EXCEPT ![region] = Operation.arg]
        BY <3>1 DEF UpdateState
      <4>5. QED
        BY <4>3, <4>4 DEF HomeInv, EngineTypes, MemberTypes, DispatchTypes
    <3>2. CASE ~UpdateState
      BY <1>3, <3>2
      DEF PostEvent, CallReturns, DeferEvent, memberVars, HomeInv
    <3>3. QED
      BY <3>1, <3>2
  <2>4. CASE DeferEvent
    <3>1. 1 \in DOMAIN todo /\ todo[1] = Defer /\ Head(todo) = Defer
      BY <2>4, <2>1, RunningOperation, TailOperations DEF DeferEvent, EngineTypes
    <3>2. ~Free(todo, {Defer})
      BY <3>1 DEF Free
    <3>3. what = "event" /\ DeferredUpTo(home, region) /\ ~Unexpected
      BY <2>1, <3>2 DEF HomeInv, CountsHandled
    <3>4. Free(todo, {Defer})'
      BY <2>1, <3>1, OnceTail DEF HomeInv, Free
    <3>5. QED
      BY <1>0, <2>1, <2>2, <2>3, <3>3, <3>4 DEF HomeInv, Unexpected, Free
  <2>5. CASE ~DeferEvent
    <3>1. deferring' = deferring
      BY <1>3, <2>5 DEF UpdateState, PostEvent, CallReturns, ghostVars
    <3>2. QED
      BY <1>0, <2>1, <2>2, <2>3, <3>1 DEF HomeInv, Unexpected, Free
  <2> QED
    BY <2>4, <2>5
<1>4. CASE RowDone
  <2>1. /\ pc = "run" /\ pc' \in {"lookup", "dispatched"} /\ region \in Regions
        /\ IF Unexpected THEN region' = region ELSE region' \in {region, region + 1}
        /\ ~Unexpected /\ pc' = "lookup" => region' = region + 1
        /\ UNCHANGED <<item, what, deferring, current_state_>>
    BY <1>4 DEF RowDone, NextRegion, AfterUnexpected, memberVars, ghostVars, Unexpected,
                EngineTypes, DispatchTypes
  <2>2. region' = region + 1 => region' - 1 = region
    BY <2>1 DEF Regions
  <2> QED
    BY <1>0, <2>1, <2>2 DEF HomeInv
<1>5. CASE Dispatched
  <2>1. /\ pc' # "run" /\ (pc' = "lookup" => what' # "event")
        /\ UNCHANGED <<current_state_>>
    BY <1>5 DEF Dispatched, DispatchFirst, memberVars
  <2> QED
    BY <2>1 DEF HomeInv
<1>6. CASE EventReturns \/ Recheck \/ RecallReturns \/ RecallDone \/ QueuedReturns \/ QueueDone
  <2>1. pc' \notin {"run", "lookup"} /\ UNCHANGED current_state_
    BY <1>6 DEF EventReturns, Recheck, RecallReturns, RecallDone, QueuedReturns, QueueDone,
                memberVars
  <2> QED
    BY <2>1 DEF HomeInv
<1>7. ASSUME Recall \/ TakeQueued \/ \E e \in Events : Call(e) PROVE HomeInv(home)'
  <2>1. pc' = "lookup" /\ ~deferring' /\ UNCHANGED current_state_
    BY <1>7, ProcessAndPostTypes
    DEF Recall, TakeQueued, Call, BeginCall, ProcessAndPost, memberVars
  <2> QED
    BY <2>1 DEF HomeInv
<1>8. CASE UNCHANGED vars
  BY <1>0, <1>8 DEF vars, memberVars, dispatchVars, ghostVars, HomeInv, Free, Once, Unexpected
<1> QED
  BY <1>1, <1>2, <1>3, <1>4, <1>5, <1>6, <1>7, <1>8, RowFiresHome
  DEF Step, Engine, Lookup, Execute, Loops

(* Queues in the order of their ids.                                       *)
Sorted(q) == \A i, j \in DOMAIN q : i < j => q[i].id < q[j].id

LEMMA SortedAppend ==
    ASSUME NEW q \in Seq(EventObjects), NEW x \in EventObjects, Sorted(q),
           \A y \in Ids(q) : y < x.id
    PROVE  Sorted(Append(q, x))
<1>1. /\ Len(q) \in Nat /\ DOMAIN q = 1..Len(q) /\ DOMAIN Append(q, x) = 1..(Len(q) + 1)
      /\ \A i \in 1..Len(q) : Append(q, x)[i] = q[i]
      /\ Append(q, x)[Len(q) + 1] = x
  BY AppendProperties, LenProperties
<1>2. \A i \in 1..Len(q) : q[i].id < x.id
  BY <1>1 DEF Ids
<1> SUFFICES ASSUME NEW i \in 1..(Len(q) + 1), NEW j \in 1..(Len(q) + 1), i < j
             PROVE  Append(q, x)[i].id < Append(q, x)[j].id
  BY <1>1 DEF Sorted
<1>3. i \in 1..Len(q)
  BY <1>1
<1>4. CASE j = Len(q) + 1
  BY <1>1, <1>2, <1>3, <1>4
<1>5. CASE j \in 1..Len(q)
  BY <1>1, <1>3, <1>5 DEF Sorted
<1> QED
  BY <1>1, <1>4, <1>5

LEMMA SortedRemoved ==
    ASSUME NEW q \in Seq(EventObjects), Sorted(q), NEW k \in 1..Len(q)
    PROVE  Sorted(Removed(q, k)) /\ q[k].id \notin Ids(Removed(q, k))
<1> DEFINE r == Removed(q, k)
           n == Len(q)
           at(i) == IF i < k THEN i ELSE i + 1
<1>1. /\ r \in Seq(EventObjects) /\ Len(r) = n - 1
      /\ \A i \in 1..(n - 1) : r[i] = q[at(i)]
  BY RemoveOne
<1>2. n \in Nat /\ DOMAIN q = 1..n /\ DOMAIN r = 1..(n - 1) /\ k \in 1..n
  BY <1>1, LenProperties
<1>3. \A i \in 1..n : q[i].id \in Nat
  <2>1. \A i \in 1..n : q[i] \in EventObjects
    BY ElementOfSeq
  <2>2. QED
    BY <2>1 DEF EventObjects
<1> HIDE DEF r, n
<1>4. \A i \in 1..(n - 1) : at(i) \in 1..n /\ (at(i) < k \/ at(i) > k)
  BY <1>2
<1>5. \A i, j \in 1..(n - 1) : i < j => at(i) < at(j)
  BY <1>2
<1> HIDE DEF at
<1>6. Sorted(r)
  <2> SUFFICES ASSUME NEW i \in 1..(n - 1), NEW j \in 1..(n - 1), i < j
               PROVE  r[i].id < r[j].id
    BY <1>2 DEF Sorted
  <2>1. q[at(i)].id < q[at(j)].id
    BY <1>2, <1>4, <1>5 DEF Sorted
  <2>2. QED
    BY <1>1, <2>1
<1>7. q[k].id \notin Ids(r)
  <2> SUFFICES ASSUME NEW i \in 1..(n - 1) PROVE q[k].id # r[i].id
    BY <1>2 DEF Ids
  <2>1. at(i) \in DOMAIN q /\ k \in DOMAIN q /\ (at(i) < k \/ k < at(i))
    BY <1>2, <1>4
  <2>2. q[at(i)].id < q[k].id \/ q[k].id < q[at(i)].id
    BY <2>1 DEF Sorted
  <2>3. q[at(i)].id # q[k].id
    BY <1>2, <1>3, <2>1, <2>2
  <2>4. QED
    BY <1>1, <2>3
<1> QED
  BY <1>6, <1>7 DEF r

LEMMA SortedTail ==
    ASSUME NEW q \in Seq(EventObjects), q # <<>>, Sorted(q)
    PROVE  \A y \in Ids(Tail(q)) : Head(q).id < y
<1> SUFFICES ASSUME NEW y \in Ids(Tail(q)) PROVE Head(q).id < y
  OBVIOUS
<1>1. PICK i \in DOMAIN q : i > 1 /\ y = q[i].id
  BY IdsTail
<1>2. 1 \in DOMAIN q /\ Head(q) = q[1]
  BY LenProperties, EmptySeq
<1> QED
  BY <1>1, <1>2 DEF Sorted

(* A step inside the processing of an event that leaves the queues alone.   *)
LEMMA OrderFrame ==
    ASSUME OrderInv, DoneInv, Processing, Processing',
           UNCHANGED <<defer_, process_, item, caller, deferring, done, issued, defer_again_>>
    PROVE  OrderInv' /\ DoneInv'
BY DEF OrderInv, DeferInOrder, FirstTime, DoneInv, Processing

(* The event that is deferred is younger than those deferred before.       *)
LEMMA DeferEventOrder ==
    ASSUME EngineTypes, CallerType, RefInv, PostsInv, OrderInv, DoneInv, DeferEvent,
           what = "event", ~deferring
    PROVE  OrderInv' /\ DoneInv'
<1>1. /\ Processing /\ Processing' /\ pc' = "run" /\ deferring'
      /\ UNCHANGED <<process_, item, caller, done, defer_processing_>>
  BY DEF DeferEvent, Running, Processing
<1>2. issued' = issued
  BY DeferEventIds
<1>3. CASE defer_processing_
  <2>1. UNCHANGED defer_
    BY <1>3, DeferEventIds
  <2>2. OrderInv'
    BY <1>1, <2>1 DEF OrderInv, DeferInOrder, FirstTime
  <2>3. DoneInv'
    BY <1>1, <1>2, <2>1 DEF DoneInv, Processing
  <2> QED
    BY <2>2, <2>3
<1>4. CASE ~defer_processing_
  <2> DEFINE x == [on |-> Trigger, id |-> item.id]
  <2>1. /\ x \in EventObjects /\ defer_ \in Seq(EventObjects) /\ process_ \in Seq(EventObjects)
        /\ item.id \in Nat
    BY TriggerType DEF EngineTypes, MemberTypes, DispatchTypes, EventObjects
  <2>2. defer_' = Append(defer_, x) /\ x.id = item.id
    BY <1>4 DEF DeferEvent, Push
  <2> HIDE DEF x
  <2>3. caller \in {"process_event", "process_queued_events"} /\ FirstTime
    BY <1>1, <1>4 DEF RefInv, ReferenceStable, CallerType, FirstTime
  <2>4. Ids(defer_') = Ids(defer_) \cup {item.id} /\ \A y \in Ids(defer_) : y < item.id
    BY <2>1, <2>2, <2>3, IdsAppend DEF OrderInv
  <2>5. Sorted(defer_')
    BY <2>1, <2>2, <2>4, SortedAppend DEF OrderInv, DeferInOrder, Sorted
  <2>6. ASSUME NEW p \in Ids(process_)
        PROVE  item.id < p \/ (item.id = p /\ caller = "process_queued_events")
    <3>1. CASE caller = "process_event"
      BY <1>1, <2>6, <3>1 DEF OrderInv
    <3>2. CASE caller = "process_queued_events"
      <4>1. process_ # <<>> /\ Head(process_) = item
        BY <1>1, <3>2 DEF RefInv, ReferenceStable
      <4>2. p = item.id \/ p \in Ids(Tail(process_))
        BY <2>1, <2>6, <4>1, IdsTail
      <4>3. QED
        BY <2>1, <3>2, <4>1, <4>2, SortedTail DEF PostsInv, QueueSorted, Sorted
    <3>3. QED
      BY <2>3, <3>1, <3>2
  <2>7. \A y \in Ids(defer_), p \in Ids(process_) : y < p
    BY <2>3, <2>4 DEF OrderInv
  <2>8. OrderInv'
    <3>1. DeferInOrder'
      BY <2>5 DEF DeferInOrder, Sorted
    <3>2. \A y \in Ids(defer_') : y < item'.id \/ (deferring' /\ y = item'.id)
      BY <1>1, <2>4
    <3>3. \A y \in Ids(defer_'), p \in Ids(process_') :
            \/ y < p
            \/ /\ y = p /\ p = item'.id /\ deferring'
               /\ Processing' /\ caller' = "process_queued_events"
      BY <1>1, <2>4, <2>6, <2>7
    <3>4. caller' = "process_event" => \A p \in Ids(process_') : item'.id < p
      BY <1>1 DEF OrderInv
    <3>5. QED
      BY <3>1, <3>2, <3>3, <3>4 DEF OrderInv
  <2>9. DoneInv'
    <3>1. item.id \notin done
      BY <1>1 DEF DoneInv
    <3>2. QED
      BY <1>1, <1>2, <2>3, <2>4, <3>1 DEF DoneInv
  <2> QED
    BY <2>8, <2>9
<1> QED
  BY <1>3, <1>4

(* What is posted is younger than everything.                              *)
LEMMA PostEventOrder ==
    ASSUME EngineTypes, PostsInv, OrderInv, DoneInv, PostEvent
    PROVE  OrderInv' /\ DoneInv'
<1> DEFINE x == [on |-> OnEvent(Operation.arg), id |-> issued + 1]
<1>1. /\ Processing /\ Processing' /\ pc' = "run" /\ issued' = issued + 1
      /\ process_' = Append(process_, x)
      /\ UNCHANGED <<defer_, item, caller, deferring, done, defer_again_>>
  BY DEF PostEvent, Push, Running, Processing
<1>2. /\ process_ \in Seq(EventObjects) /\ defer_ \in Seq(EventObjects)
      /\ issued \in Nat /\ item.id \in Nat /\ done \subseteq Nat
  BY DEF EngineTypes, MemberTypes, DispatchTypes, HistoryTypes, EventObjects
<1>3. x \in EventObjects
  <2>1. Operation \in Operations /\ Operation.op = "process"
    BY RunningOperation DEF PostEvent, EngineTypes
  <2>2. QED
    BY <1>2, <2>1, OperationTypes, TriggerTypes DEF EventObjects
<1>4. Ids(process_') = Ids(process_) \cup {issued + 1}
  BY <1>1, <1>2, <1>3, IdsAppend
<1>5. /\ \A y \in Ids(defer_) : y \in Nat /\ y < issued + 1
      /\ item.id < issued + 1 /\ issued + 1 \notin done
      /\ \A y \in done : y <= issued + 1
  BY <1>2, IdsNat DEF PostsInv, IdsBounded, DoneInv
<1> HIDE DEF x
<1>6. OrderInv'
  BY <1>1, <1>4, <1>5 DEF OrderInv, DeferInOrder, FirstTime
<1>7. DoneInv'
  BY <1>1, <1>4, <1>5 DEF DoneInv
<1> QED
  BY <1>6, <1>7

(* The processing of the called event or of a posted one ends: if it was not *)
(* deferred, it is in no queue any more.                                   *)
LEMMA FirstTimeEndsOrder ==
    ASSUME EngineTypes, RefInv, PostsInv, OrderInv, DoneInv, EventReturns \/ QueuedReturns
    PROVE  OrderInv' /\ DoneInv'
<1>1. /\ Processing /\ FirstTime /\ ~Processing' /\ pc' # "recall"
      /\ defer_' = defer_ /\ issued' = issued /\ done \subseteq Nat /\ item.id \in Nat
      /\ process_ \in Seq(EventObjects) /\ defer_ \in Seq(EventObjects) /\ issued \in Nat
      /\ done' = IF deferring THEN done ELSE done \cup {item.id}
  BY DEF EventReturns, QueuedReturns, FirstTime, Processing, Settle, memberVars, EngineTypes,
         MemberTypes, DispatchTypes, HistoryTypes, EventObjects
<1>2. /\ Ids(process_') \subseteq Ids(process_)
      /\ \A p \in Ids(process_') : item.id < p
  <2>1. CASE EventReturns
    BY <1>1, <2>1 DEF EventReturns, memberVars, OrderInv
  <2>2. CASE QueuedReturns
    <3>1. process_ # <<>> /\ Head(process_) = item /\ process_' = Tail(process_)
      BY <1>1, <2>2 DEF QueuedReturns, Pop, RefInv, ReferenceStable
    <3>2. QED
      BY <1>1, <3>1, IdsTail, SortedTail DEF PostsInv, QueueSorted, Sorted
  <2>3. QED
    BY <2>1, <2>2
<1>3. \A x \in Ids(defer_), p \in Ids(process_') : x < p
  <2> SUFFICES ASSUME NEW x \in Ids(defer_), NEW p \in Ids(process_') PROVE x < p
    OBVIOUS
  <2>1. p \in Nat /\ p \in Ids(process_) /\ item.id < p
    BY <1>1, <1>2, IdsNat
  <2>2. QED
    BY <1>1, <2>1 DEF OrderInv
<1>4. OrderInv'
  BY <1>1, <1>3 DEF OrderInv, DeferInOrder, FirstTime
<1>5. ~deferring => item.id \notin Ids(defer_) /\ item.id \notin Ids(process_')
  <2>1. \A x \in Ids(defer_) \cup Ids(process_') : x \in Nat
    BY <1>1, <1>2, IdsNat
  <2>2. QED
    BY <1>1, <1>2, <2>1 DEF OrderInv
<1>6. item.id <= issued
  BY DEF PostsInv, IdsBounded
<1>7. DoneInv'
  BY <1>1, <1>2, <1>5, <1>6 DEF DoneInv
<1> QED
  BY <1>4, <1>7

(* The processing of a recalled event ends: it keeps its place if it was     *)
(* deferred again, otherwise it is removed and is in no queue any more.    *)
LEMMA RecallEndsOrder ==
    ASSUME EngineTypes, RefInv, PostsInv, OrderInv, DoneInv, RecallReturns
    PROVE  OrderInv' /\ DoneInv'
<1>1. /\ Processing /\ caller = "process_defer_events" /\ ~Processing' /\ ~defer_again_'
      /\ process_' = process_ /\ issued' = issued
      /\ process_ \in Seq(EventObjects) /\ defer_ \in Seq(EventObjects)
      /\ done' = IF deferring THEN done ELSE done \cup {item.id}
      /\ defer_' = IF Kept THEN defer_ ELSE Removed(defer_, defer_it_)
  BY DEF RecallReturns, Removed, Processing, Settle, EngineTypes, MemberTypes
<1>2. /\ defer_it_ \in 1..Len(defer_) /\ item = defer_[defer_it_]
      /\ item.id \in Ids(defer_) /\ Ids(defer_') \subseteq Ids(defer_)
  BY <1>1, RecallReturnsIds, LenProperties
<1>3. Sorted(defer_)
  BY DEF OrderInv, DeferInOrder, Sorted
<1>4. \A x \in Ids(defer_), p \in Ids(process_) : x < p
  BY <1>1 DEF OrderInv
<1>5. OrderInv'
  <2>1. Sorted(defer_')
    BY <1>1, <1>2, <1>3, SortedRemoved
  <2>2. QED
    BY <1>1, <1>2, <1>4, <2>1 DEF OrderInv, DeferInOrder, FirstTime, Sorted
<1>6. ~deferring => item.id \notin Ids(defer_') /\ item.id \notin Ids(process_)
  <2> SUFFICES ASSUME ~deferring
               PROVE  item.id \notin Ids(defer_') /\ item.id \notin Ids(process_)
    OBVIOUS
  <2>1. ~Kept
    BY <1>1 DEF DoneInv, Kept
  <2>2. item.id \notin Ids(defer_')
    BY <1>1, <1>2, <1>3, <2>1, SortedRemoved
  <2>3. item.id \in Nat
    BY DEF EngineTypes, DispatchTypes, EventObjects
  <2>4. item.id \notin Ids(process_)
    BY <1>2, <1>4, <2>3
  <2> QED
    BY <2>2, <2>4
<1>7. item.id <= issued
  BY DEF PostsInv, IdsBounded
<1>8. DoneInv'
  BY <1>1, <1>2, <1>6, <1>7 DEF DoneInv
<1> QED
  BY <1>5, <1>8

(* Outside the processing of an event every deferred one is older than every *)
(* posted one.                                                             *)
LEMMA OutsideOrder ==
    ASSUME OrderInv, DoneInv, Recheck \/ RecallDone \/ QueueDone
    PROVE  OrderInv' /\ DoneInv'
<1>1. /\ ~Processing /\ ~Processing' /\ (pc' = "recall" => ~defer_again_')
      /\ UNCHANGED <<defer_, process_, done, issued>>
  BY DEF Recheck, RecallDone, QueueDone, Processing, memberVars, ghostVars
<1> QED
  BY <1>1 DEF OrderInv, DeferInOrder, FirstTime, DoneInv

(* An event begins: a deferred one, the oldest posted one, or a new one, for *)
(* which both earlier calls have emptied the process queue.                *)
LEMMA BeginsOrder ==
    ASSUME EngineTypes, RefInv, CallInv, PostsInv, Unhurt, OrderInv, DoneInv,
           Recall \/ TakeQueued \/ \E e \in Events : Call(e)
    PROVE  OrderInv' /\ DoneInv'
<1>1. /\ ~Processing /\ Processing' /\ pc' = "lookup" /\ ~deferring'
      /\ UNCHANGED <<defer_, process_, done, defer_again_>>
  BY ProcessAndPostTypes
  DEF Recall, TakeQueued, Call, BeginCall, ProcessAndPost, Processing, memberVars
<1>2. \A x \in Ids(defer_), p \in Ids(process_) : x < p
  BY <1>1 DEF OrderInv
<1>3. CASE Recall
  <2>1. /\ caller' = "process_defer_events" /\ item' = defer_[defer_it_]
        /\ defer_it_ \in DOMAIN defer_ /\ issued' = issued
    BY <1>3, ProcessAndPostTypes, LenProperties DEF Recall, EngineTypes, MemberTypes
  <2>2. item'.id \notin done
    BY <2>1 DEF DoneInv, Ids
  <2>3. ~defer_again_
    BY <1>3 DEF Recall, DoneInv
  <2> QED
    BY <1>1, <1>2, <2>1, <2>2, <2>3 DEF OrderInv, DeferInOrder, FirstTime, DoneInv
<1>4. CASE TakeQueued
  <2>1. /\ caller' = "process_queued_events" /\ item' = Head(process_)
        /\ process_ # <<>> /\ issued' = issued /\ process_ \in Seq(EventObjects)
    BY <1>4, ProcessAndPostTypes DEF TakeQueued, EngineTypes, MemberTypes
  <2>2. item'.id \in Ids(process_)
    BY <2>1, IdsTail
  <2>3. item'.id \notin done
    BY <2>2 DEF DoneInv
  <2> QED
    BY <1>1, <1>2, <2>1, <2>2, <2>3 DEF OrderInv, DeferInOrder, FirstTime, DoneInv
<1>5. CASE \E e \in Events : Call(e)
  <2>1. /\ pc = "ready" /\ caller' = "process_event" /\ item'.id = issued + 1
        /\ issued' = issued + 1 /\ issued \in Nat
    BY <1>5, ProcessAndPostTypes DEF Call, BeginCall, EngineTypes, HistoryTypes
  <2>2. process_ = <<>>
    BY <2>1 DEF CallInv, CallState, Drained, Unhurt, EngineTypes, LoopTypes
  <2>3. Ids(process_) = {}
    BY <2>2 DEF Ids
  <2>4. \A x \in Ids(defer_) \cup done : x \in Nat /\ x <= issued
    BY IdsNat DEF PostsInv, IdsBounded, DoneInv, EngineTypes, MemberTypes, HistoryTypes
  <2>5. /\ \A x \in Ids(defer_) : x < issued + 1
        /\ \A x \in done : x <= issued + 1
        /\ issued + 1 \notin done
    BY <2>1, <2>4
  <2>6. OrderInv'
    BY <1>1, <2>1, <2>3, <2>5 DEF OrderInv, DeferInOrder, FirstTime
  <2>7. DoneInv'
    BY <1>1, <2>1, <2>3, <2>5 DEF DoneInv
  <2> QED
    BY <2>6, <2>7
<1> QED
  BY <1>3, <1>4, <1>5

LEMMA OrderStep ==
    ASSUME EngineTypes, CallerType, RefInv, CallInv, PostsInv, NeverThrows, Unhurt,
           NEW home, HomeInv(home), OrderInv, DoneInv, [Step]_vars
    PROVE  OrderInv' /\ DoneInv'
<1>1. CASE \/ \E i \in Candidates : RowFires(i)
           \/ NoRowFires \/ UpdateState \/ CallReturns \/ RowDone \/ Dispatched
  <2>1. /\ Processing /\ Processing'
        /\ UNCHANGED <<defer_, process_, item, caller, deferring, done, issued, defer_again_>>
    BY <1>1, DispatchFirstTypes
    DEF RowFires, NoRowFires, NextRegion, AfterUnexpected, UpdateState, CallReturns, RowDone,
        Running, Dispatched, Processing, memberVars, ghostVars
  <2>2. QED
    BY <2>1, OrderFrame
<1>2. CASE GuardThrows \/ ActionThrows
  BY <1>2, ThrowersThrow
<1>3. CASE DeferEvent
  <2>1. ~Free(todo, {Defer}) /\ pc = "run"
    BY <1>3, RunningOperation DEF DeferEvent, EngineTypes, Free
  <2>2. what = "event" /\ ~deferring
    BY <2>1 DEF HomeInv
  <2>3. QED
    BY <1>3, <2>2, DeferEventOrder
<1>4. CASE UNCHANGED vars
  BY <1>4
  DEF vars, memberVars, dispatchVars, ghostVars, OrderInv, DeferInOrder, FirstTime, DoneInv,
      Processing
<1> QED
  BY <1>1, <1>2, <1>3, <1>4, PostEventOrder, FirstTimeEndsOrder, RecallEndsOrder,
     OutsideOrder, BeginsOrder
  DEF Step, Engine, Lookup, Execute, Loops

LEMMA OrderInit == Init => OrderInv /\ DoneInv /\ Unhurt
<1> SUFFICES ASSUME Init PROVE OrderInv /\ DoneInv /\ Unhurt
  OBVIOUS
<1>1. /\ defer_ = <<>> /\ process_ = <<>> /\ done = {} /\ ~deferring
      /\ pc = "lookup" /\ caller = "process_event" /\ result = "constructing"
  BY DEF Init
<1>2. Ids(<<>>) = {} /\ DOMAIN <<>> = {}
  BY DEF Ids
<1> QED
  BY <1>1, <1>2 DEF OrderInv, DeferInOrder, FirstTime, DoneInv, Unhurt

(* Only an exception cuts a call short.                                    *)
LEMMA UnhurtStep ==
    ASSUME EngineTypes, CallInv, NeverThrows, Unhurt, [Step]_vars
    PROVE  Unhurt'
<1>1. CASE GuardThrows \/ ActionThrows
  BY <1>1, ThrowersThrow
<1>2. CASE UNCHANGED result
  BY <1>2 DEF Unhurt
<1>3. CASE QueueDone \/ \E e \in Events : Call(e)
  BY <1>3 DEF QueueDone, Call, BeginCall, Unhurt
<1>4. Engine /\ ~GuardThrows /\ ~ActionThrows /\ ~QueueDone => UNCHANGED result
  BY DEF Engine, Lookup, Execute, Loops, RowFires, NoRowFires, UpdateState, PostEvent,
         DeferEvent, CallReturns, RowDone, Dispatched, EventReturns, Recheck, Recall,
         RecallReturns, RecallDone, TakeQueued, QueuedReturns
<1> QED
  BY <1>1, <1>2, <1>3, <1>4 DEF Step, vars

THEOREM OnceInvariant == EngineSpec => []OnceInv
<1>1. Init => OnceInv
  BY HomeInit, OrderInit DEF OnceInv
<1>2. /\ EngineTypes /\ CallerType /\ RefInv /\ CallInv /\ PostsInv /\ KeptInv /\ OnceInv
      /\ [Step]_vars
      => OnceInv'
  <2> SUFFICES ASSUME EngineTypes, CallerType, RefInv, CallInv, PostsInv, KeptInv, OnceInv,
                      [Step]_vars
               PROVE  OnceInv'
    OBVIOUS
  <2>1. NeverThrows' => Unhurt'
    BY UnhurtStep, TableFixed DEF OnceInv
  <2>2. ASSUME NEW home \in [States -> Regions], Orderly(home)'
        PROVE  HomeInv(home)' /\ OrderInv' /\ DoneInv'
    <3>1. Orderly(home) /\ NeverThrows /\ Unhurt /\ table \in Tables /\ CountsHandled
      BY <2>2, OrderlyFixed DEF Orderly, KeptInv, OnceInv
    <3>2. HomeInv(home) /\ OrderInv /\ DoneInv
      BY <3>1 DEF OnceInv
    <3>3. QED
      BY <3>1, <3>2, HomeStep, OrderStep
  <2>3. QED
    BY <2>1, <2>2 DEF OnceInv
<1> QED
  BY <1>1, <1>2, TypesAndReferences, CallsCorrect, PostsInvariant, KeptInvariant, PTL
  DEF EngineSpec

(* process_defer_events, process_event_no_defer: deferred events keep the    *)
(* order in which they arrived, through every recall, re-deferral, erasure   *)
(* and restart of the scan, where one region defers an event and no user    *)
(* code throws.                                                            *)
THEOREM DeferredEventsInOrder ==
    Spec => []((\E home \in [States -> Regions] : Orderly(home)) => DeferInOrder)
<1>1. OnceInv => ((\E home \in [States -> Regions] : Orderly(home)) => DeferInOrder)
  BY DEF OnceInv, OrderInv
<1> QED
  BY <1>1, EngineUsed, OnceInvariant, PTL

(* In the same machines no event is processed again once it has been        *)
(* processed without being deferred, by any of the three callers of          *)
(* process_event_and_post_events.                                          *)
THEOREM ProcessedOnce ==
    Spec => []((\E home \in [States -> Regions] : Orderly(home)) => AtMostOnce)
<1>1. OnceInv => ((\E home \in [States -> Regions] : Orderly(home)) => AtMostOnce)
  BY DEF OnceInv, DoneInv, AtMostOnce, Processing
<1> QED
  BY <1>1, EngineUsed, OnceInvariant, PTL

-----------------------------------------------------------------------------
(* What still waits when a call returns.  process_event looks at the deferred *)
(* events again only if the state of the first region has changed, so that   *)
(* the following holds of machines with that region alone.  Nor does it of    *)
(* machines that post: the states before and after all the posted events are *)
(* compared, and one may have been deferred in a state between them.         *)
Posts == {Process(e) : e \in Events}

PostsNothing == \A i \in DOMAIN table.rows : Free(table.rows[i].action, Posts)

Watched == NeverThrows /\ EventsDefer /\ PostsNothing /\ NumRegions = 1

(* A machine in state s defers an event that triggers on.                  *)
DeferredIn(on, s) ==
    LET C == StateRows(table, on, s) \cup AnyRows(table, on)
    IN  \E k \in C : Reached(table, C, k) /\ Defers(k)

FirstDeferredIn(n, s) == \A i \in DOMAIN defer_ : i <= n => DeferredIn(defer_[i].on, s)

AllDeferredIn(s) == \A i \in DOMAIN defer_ : DeferredIn(defer_[i].on, s)

(* The state in which the event that is processed was looked up.           *)
Base == IF caller = "process_event" THEN old ELSE defer_old

(* The rows are looked up in that state ...                                *)
LookedUp ==
    /\ pc \in {"lookup", "run"} /\ what = "event" =>
          IF stage = "rows" THEN pc = "lookup" => current_state_[1] = Base
          ELSE StateRows(table, item.on, Base) = {}
    /\ pc = "run" => Free(todo, Posts)
    /\ pc = "run" /\ ~Free(todo, {Defer}) => what = "event" /\ DeferredIn(item.on, Base)

(* ... and all events deferred so far, or those before the one recalled, are *)
(* deferred in it.                                                         *)
QueueWaits ==
    /\ process_ = <<>> /\ caller # "process_queued_events" /\ pc # "destroyed"
    /\ Processing /\ caller = "process_event" => AllDeferredIn(old)
    /\ Processing /\ caller = "process_defer_events" =>
          /\ FirstDeferredIn(defer_it_ - 1, defer_old)
          /\ deferring => DeferredIn(item.on, defer_old)
          /\ defer_again_ => deferring
    /\ pc = "recheck" /\ old = current_state_[1] => AllDeferredIn(old)
    /\ pc = "recall" =>
          /\ defer_old = current_state_[1]
          /\ FirstDeferredIn(defer_it_ - 1, defer_old)
          /\ ~defer_again_
    /\ pc = "queue" => ~wasnt_empty
    /\ pc \in {"queue", "ready"} => AllDeferredIn(current_state_[1])

WatchedInv == Watched => LookedUp /\ QueueWaits

(* What is asked of the table stays true.                                  *)
LEMMA WatchedFixed ==
    ASSUME [Step]_vars
    PROVE  /\ Watched' = Watched
           /\ \A on, s : DeferredIn(on, s)' = DeferredIn(on, s)
           /\ \A on, s : StateRows(table, on, s)' = StateRows(table, on, s)
BY TableFixed
DEF Watched, NeverThrows, EventsDefer, PostsNothing, DeferredIn, Defers, Free, StateRows, AnyRows,
    Reached, Before

(* A row that fires in a watched machine.                                  *)
LEMMA RowFiresWatched ==
    ASSUME EngineTypes, table \in Tables, Watched, LookedUp, NEW i, RowFires(i)
    PROVE  LookedUp'
<1> DEFINE row == table.rows[i]
           here == current_state_[region]
<1>1. /\ i \in DOMAIN table.rows /\ row.on = StageTrigger /\ Reached(table, Candidates, i)
      /\ pc = "lookup" /\ pc' = "run" /\ todo' = Execution(table, i, here)
      /\ UNCHANGED <<table, current_state_, caller, what, region, stage, item, old, defer_old>>
  BY ReachedTrigger DEF RowFires, memberVars, loopVars
<1>2. region = 1
  BY DEF Watched, EngineTypes, DispatchTypes, Regions
<1>3. table \in TransitionTables
  BY TablesAssumption
<1>4. Free(Execution(table, i, here), Posts)
  <2>1. \A x : Update(x) \notin Posts
    BY DEF Posts, Update, Process
  <2>2. QED
    BY <1>1, <1>3, <2>1, FreeExecution DEF Watched, PostsNothing
<1>5. ASSUME ~Free(Execution(table, i, here), {Defer})
      PROVE  what = "event" /\ DeferredIn(item.on, Base)
  <2>1. Defers(i)
    <3>1. \A x : Update(x) \notin {Defer}
      BY DEF Update, Defer
    <3>2. QED
      BY <1>1, <1>3, <1>5, <3>1, StateActionsDeferNothing, FreeExecution DEF Defers
  <2>2. row.on.kind = "event"
    BY <1>1, <2>1 DEF Watched, EventsDefer
  <2>3. what = "event" /\ Trigger = item.on /\ StageTrigger = item.on /\ ~Unexpected
    <3>1. /\ OnUnexpected(item.on.ev).kind # "event" /\ OnUnexpectedAny.kind # "event"
          /\ OnCompletion(item.on.ev).kind # "event" /\ OnAnonymous.kind # "event"
      BY DEF OnUnexpected, OnUnexpectedAny, OnCompletion, OnAnonymous
    <3>2. QED
      BY <1>1, <2>2, <3>1 DEF StageTrigger, Trigger, Unexpected
  <2>4. Candidates = StateRows(table, item.on, Base) \cup AnyRows(table, item.on)
    <3>1. CASE stage = "rows"
      BY <1>1, <1>2, <2>3, <3>1 DEF LookedUp, Candidates
    <3>2. CASE stage = "any"
      BY <1>1, <2>3, <3>2 DEF LookedUp, Candidates
    <3>3. QED
      BY <2>3, <3>1, <3>2 DEF Unexpected, EngineTypes, DispatchTypes
  <2>5. DeferredIn(item.on, Base)
    <3>1. i \in Candidates
      BY <1>1 DEF Reached
    <3>2. QED
      BY <1>1, <2>1, <2>4, <3>1 DEF DeferredIn
  <2> QED
    BY <2>3, <2>5
<1>6. Base' = Base /\ \A on, s : DeferredIn(on, s)' = DeferredIn(on, s)
  BY <1>1 DEF Base, DeferredIn, Defers, Free, StateRows, AnyRows, Reached, Before
<1>7. \A on, s : StateRows(table, on, s)' = StateRows(table, on, s)
  BY <1>1 DEF StateRows
<1> QED
  BY <1>1, <1>4, <1>5, <1>6, <1>7 DEF LookedUp, Free

(* A machine in which nothing posts does not run process.                  *)
LEMMA NoPost ==
    ASSUME DispatchTypes, Running("process"), Free(todo, Posts)
    PROVE  FALSE
<1>1. /\ todo[1] \in Operations /\ todo[1].op = "process" /\ 1 \in DOMAIN todo
  BY RunningOperation
<1>2. todo[1].arg \in Events /\ todo[1] = Process(todo[1].arg)
  BY <1>1 DEF Operations, UserOperations, Process
<1> QED
  BY <1>1, <1>2 DEF Free, Posts

LEMMA LookedUpStep ==
    ASSUME EngineTypes, CallInv, table \in Tables, Watched, LookedUp, QueueWaits, [Step]_vars
    PROVE  LookedUp'
<1>a. /\ \A on, s : DeferredIn(on, s)' = DeferredIn(on, s)
      /\ \A on, s : StateRows(table, on, s)' = StateRows(table, on, s)
  BY WatchedFixed
<1>b. region = 1 /\ NumRegions = 1
  BY DEF Watched, EngineTypes, DispatchTypes, Regions
<1>1. ASSUME NEW i, RowFires(i) PROVE LookedUp'
  BY <1>1, RowFiresWatched
<1>2. CASE NoRowFires
  <2>1. /\ pc = "lookup" /\ UNCHANGED <<item, what, Base>>
        /\ \/ pc' = "lookup" /\ stage # "rows" /\ stage' # "rows"
           \/ pc' = "dispatched"
    BY <1>2, <1>b DEF NoRowFires, NextRegion, AfterUnexpected, loopVars, Base
  <2>2. QED
    BY <1>a, <2>1 DEF LookedUp
<1>3. CASE GuardThrows \/ ActionThrows
  BY <1>3, ThrowersThrow DEF Watched
<1>4. CASE UpdateState \/ PostEvent \/ DeferEvent \/ CallReturns
  <2>1. /\ pc = "run" /\ todo # <<>> /\ todo' = Tail(todo)
        /\ UNCHANGED <<pc, item, what, stage, Base>>
    BY <1>4 DEF UpdateState, PostEvent, DeferEvent, CallReturns, Running, loopVars, Base
  <2>2. \A O : Free(todo, O) => Free(todo, O)'
    BY <2>1, FreeTail DEF EngineTypes, DispatchTypes, Free
  <2>3. Posts' = Posts
    BY DEF Posts
  <2>4. Free(todo, Posts)' /\ (~Free(todo, {Defer})' => ~Free(todo, {Defer}))
    BY <2>1, <2>2, <2>3 DEF LookedUp
  <2>5. QED
    BY <1>a, <2>1, <2>4 DEF LookedUp
<1>5. CASE RowDone
  <2>1. /\ pc = "run" /\ UNCHANGED <<item, what, Base>>
        /\ \/ pc' = "lookup" /\ stage # "rows" /\ stage' # "rows"
           \/ pc' = "dispatched"
    BY <1>5, <1>b DEF RowDone, NextRegion, AfterUnexpected, loopVars, Base
  <2>2. QED
    BY <1>a, <2>1 DEF LookedUp
<1>6. CASE Dispatched
  BY <1>6, DispatchFirstTypes DEF Dispatched, LookedUp
<1>7. CASE EventReturns \/ Recheck \/ RecallReturns \/ RecallDone \/ QueuedReturns \/ QueueDone
  BY <1>7
  DEF EventReturns, Recheck, RecallReturns, RecallDone, QueuedReturns, QueueDone, LookedUp
<1>8. CASE TakeQueued
  BY <1>8 DEF TakeQueued, QueueWaits
<1>9. ASSUME NEW c, NEW x, ProcessAndPost(c, x), Base' = current_state_[1],
             UNCHANGED current_state_
      PROVE  LookedUp'
  <2>1. /\ pc' = "lookup" /\ what' = "event" /\ item' = x /\ todo' = <<>>
        /\ stage' = FirstStage(table, x.on, current_state_[1])
    BY <1>9 DEF ProcessAndPost, DispatchFirst
  <2>2. stage' # "rows" => StateRows(table, x.on, current_state_[1]) = {}
    BY <2>1 DEF FirstStage
  <2>3. QED
    BY <1>a, <1>9, <2>1, <2>2 DEF LookedUp
<1>10. CASE Recall
  <2>1. Base' = current_state_[1] /\ UNCHANGED current_state_
    BY <1>10, ProcessAndPostTypes DEF Recall, QueueWaits, Base, memberVars, loopVars
  <2>2. QED
    BY <1>9, <1>10, <2>1 DEF Recall
<1>11. ASSUME NEW e \in Events, Call(e) PROVE LookedUp'
  <2>1. Base' = current_state_[1] /\ UNCHANGED current_state_
    BY <1>11, ProcessAndPostTypes DEF Call, BeginCall, Base, memberVars
  <2>2. QED
    BY <1>9, <1>11, <2>1 DEF Call, BeginCall
<1>12. CASE UNCHANGED vars
  <2>1. UNCHANGED <<pc, item, what, stage, todo, current_state_, Base>>
    BY <1>12 DEF vars, memberVars, dispatchVars, loopVars, Base
  <2>2. QED
    BY <1>a, <2>1 DEF LookedUp, Free, Posts
<1> QED
  BY <1>1, <1>2, <1>3, <1>4, <1>5, <1>6, <1>7, <1>8, <1>10, <1>11, <1>12
  DEF Step, Engine, Lookup, Execute, Loops

(* What is deferred, by the event itself and in the state it was looked up in. *)
LEMMA DeferEventWaiting ==
    ASSUME EngineTypes, CallerType, RefInv, CallInv, Watched, LookedUp, QueueWaits, DeferEvent
    PROVE  QueueWaits'
<1>a. \A on, s : DeferredIn(on, s)' = DeferredIn(on, s)
  BY WatchedFixed DEF Step, Engine, Execute
<1>1. /\ pc = "run" /\ ~Free(todo, {Defer})
      /\ UNCHANGED <<pc, caller, item, old, defer_old, process_, current_state_, defer_it_>>
  BY RunningOperation DEF DeferEvent, Running, Free, EngineTypes, loopVars
<1>2. what = "event" /\ Trigger = item.on /\ DeferredIn(item.on, Base) /\ deferring'
  BY <1>1 DEF LookedUp, Trigger, DeferEvent
<1>3. CASE caller = "process_event"
  <2>1. ~defer_processing_
    BY <1>1, <1>3 DEF CallInv, CalmState, InScan, Processing, Watched
  <2>2. defer_' = Append(defer_, [on |-> item.on, id |-> item.id])
    BY <1>2, <2>1 DEF DeferEvent, Push
  <2>3. defer_ \in Seq(EventObjects)
    BY DEF EngineTypes, MemberTypes
  <2>4. /\ DOMAIN defer_' = 1..(Len(defer_) + 1) /\ DOMAIN defer_ = 1..Len(defer_)
        /\ Len(defer_) \in Nat
        /\ \A i \in 1..Len(defer_) : defer_'[i] = defer_[i]
        /\ defer_'[Len(defer_) + 1].on = item.on
    BY <2>2, <2>3, AppendProperties, LenProperties
  <2>5. AllDeferredIn(old)
    BY <1>1, <1>3 DEF QueueWaits, Processing
  <2>6. \A i \in DOMAIN defer_' : DeferredIn(defer_'[i].on, old)
    <3>1. TAKE i \in DOMAIN defer_'
    <3>2. CASE i \in 1..Len(defer_)
      BY <2>4, <2>5, <3>2 DEF AllDeferredIn
    <3>3. CASE i = Len(defer_) + 1
      BY <1>2, <1>3, <2>4, <3>3 DEF Base
    <3>4. QED
      BY <2>4, <3>2, <3>3
  <2>7. AllDeferredIn(old)'
    BY <1>a, <1>1, <2>6 DEF AllDeferredIn
  <2>8. QED
    BY <1>1, <1>3, <2>7 DEF QueueWaits, Processing
<1>4. CASE caller = "process_defer_events"
  <2>1. defer_processing_
    BY <1>1, <1>4 DEF RefInv, ReferenceStable, Processing
  <2>2. defer_' = defer_
    BY <2>1 DEF DeferEvent
  <2>3. DeferredIn(item.on, defer_old)
    BY <1>2, <1>4 DEF Base
  <2>4. QED
    BY <1>a, <1>1, <1>2, <1>4, <2>2, <2>3 DEF QueueWaits, Processing, FirstDeferredIn
<1>5. QED
  BY <1>1, <1>3, <1>4 DEF QueueWaits, CallerType

(* The end of a recall: what stays is deferred in the state of the recall,  *)
(* and if the state has changed the scan restarts.                         *)
LEMMA RecallReturnsWaiting ==
    ASSUME EngineTypes, RefInv, table \in Tables, CountsHandled, Watched, QueueWaits, RecallReturns
    PROVE  QueueWaits'
<1>a. \A on, s : DeferredIn(on, s)' = DeferredIn(on, s)
  BY WatchedFixed DEF Step, Engine, Loops
<1>1. /\ pc = "returned" /\ caller = "process_defer_events" /\ Processing
      /\ pc' = "recall" /\ defer_old' = current_state_[1] /\ ~defer_again_'
      /\ defer_it_' = NextPosition
      /\ UNCHANGED <<current_state_, process_, caller>>
  BY DEF RecallReturns, Processing, dispatchVars
<1>2. /\ FirstDeferredIn(defer_it_ - 1, defer_old)
      /\ Kept => DeferredIn(item.on, defer_old)
  BY <1>1 DEF QueueWaits, Kept
<1>3. /\ defer_ \in Seq(EventObjects) /\ defer_it_ \in 1..Len(defer_)
      /\ item = defer_[defer_it_] /\ Len(defer_) \in Nat /\ DOMAIN defer_ = 1..Len(defer_)
  BY <1>1, LenProperties DEF EngineTypes, MemberTypes, RefInv, ReferenceStable
<1>4. FirstDeferredIn(defer_it_ - 1, defer_old)'
  <2>1. SUFFICES ASSUME NEW i \in DOMAIN defer_', i <= NextPosition - 1
                 PROVE  DeferredIn(defer_'[i].on, current_state_[1])
    BY <1>a, <1>1 DEF FirstDeferredIn
  <2>2. CASE Moved
    <3>1. DOMAIN defer_' = 1..Len(defer_')
      <4>1. defer_' \in Seq(EventObjects)
        BY <1>3, RemoveOne DEF RecallReturns, Removed
      <4>2. QED
        BY <4>1, LenProperties
    <3>2. QED
      BY <2>1, <2>2, <3>1 DEF NextPosition
  <2>3. CASE ~Moved /\ Kept
    <3>1. defer_' = defer_ /\ i \in 1..Len(defer_) /\ i <= defer_it_
      BY <1>3, <2>1, <2>3 DEF RecallReturns, NextPosition
    <3>2. i <= defer_it_ - 1 \/ i = defer_it_
      BY <1>3, <3>1
    <3>3. QED
      BY <1>2, <1>3, <2>3, <3>1, <3>2 DEF Moved, FirstDeferredIn
  <2>4. CASE ~Moved /\ ~Kept
    <3>1. defer_' = Removed(defer_, defer_it_)
      BY <2>4 DEF RecallReturns, Removed
    <3>2. /\ defer_' \in Seq(EventObjects) /\ Len(defer_') = Len(defer_) - 1
          /\ \A k \in 1..(Len(defer_) - 1) :
                defer_'[k] = defer_[IF k < defer_it_ THEN k ELSE k + 1]
      BY <1>3, <3>1, RemoveOne
    <3>3. i \in 1..(Len(defer_) - 1) /\ i <= defer_it_ - 1
      BY <2>1, <2>4, <3>2, LenProperties DEF NextPosition
    <3>4. defer_'[i] = defer_[i] /\ i \in DOMAIN defer_
      BY <1>3, <3>2, <3>3
    <3>5. QED
      BY <1>2, <2>4, <3>3, <3>4 DEF Moved, FirstDeferredIn
  <2>5. QED
    BY <2>2, <2>3, <2>4
<1>5. process_' = <<>> /\ caller' # "process_queued_events"
  BY <1>1 DEF QueueWaits
<1> QED
  BY <1>1, <1>4, <1>5 DEF QueueWaits, Processing

LEMMA WaitingStep ==
    ASSUME EngineTypes, CallerType, RefInv, CallInv, table \in Tables, CountsHandled, Watched,
           LookedUp, QueueWaits, [Step]_vars
    PROVE  QueueWaits'
<1>a. \A on, s : DeferredIn(on, s)' = DeferredIn(on, s)
  BY WatchedFixed
<1>1. ASSUME \/ \E i \in Candidates : RowFires(i)
             \/ NoRowFires \/ UpdateState \/ CallReturns \/ RowDone
      PROVE  QueueWaits'
  <2>1. /\ Processing /\ Processing'
        /\ UNCHANGED <<defer_, process_, caller, item, deferring, defer_again_, defer_it_,
                       old, defer_old>>
    BY <1>1
    DEF RowFires, NoRowFires, NextRegion, AfterUnexpected, UpdateState, CallReturns,
        RowDone, Running, Processing, memberVars, loopVars, ghostVars
  <2>2. QED
    BY <1>a, <2>1 DEF QueueWaits, Processing, AllDeferredIn, FirstDeferredIn
<1>2. CASE GuardThrows \/ ActionThrows
  BY <1>2, ThrowersThrow DEF Watched
<1>3. CASE PostEvent
  BY <1>3, NoPost DEF PostEvent, LookedUp, EngineTypes, Running
<1>4. CASE Dispatched
  <2>1. /\ Processing /\ Processing'
        /\ UNCHANGED <<defer_, process_, caller, item, deferring, defer_again_, defer_it_,
                       old, defer_old>>
    BY <1>4, DispatchFirstTypes DEF Dispatched, Processing, memberVars, loopVars
  <2>2. QED
    BY <1>a, <2>1 DEF QueueWaits, Processing, AllDeferredIn, FirstDeferredIn
<1>5. CASE EventReturns
  <2>1. /\ Processing /\ caller = "process_event" /\ pc' = "recheck" /\ caller' = caller
        /\ UNCHANGED <<defer_, process_, old>>
    BY <1>5 DEF EventReturns, Processing, memberVars, dispatchVars
  <2>2. QED
    BY <1>a, <2>1 DEF QueueWaits, Processing, AllDeferredIn
<1>6. CASE Recheck
  <2>1. pc = "recheck" /\ UNCHANGED <<defer_, process_, caller, current_state_>>
    BY <1>6 DEF Recheck, dispatchVars
  <2>2. CASE old # current_state_[1]
    <3>1. /\ pc' = "recall" /\ defer_it_' = 1 /\ ~defer_again_'
          /\ defer_old' = current_state_[1]
      BY <1>6, <2>2 DEF Recheck
    <3>2. FirstDeferredIn(0, defer_old)'
      <4>1. DOMAIN defer_ \subseteq Nat \ {0}
        BY LenProperties DEF EngineTypes, MemberTypes
      <4>2. QED
        BY <2>1, <4>1 DEF FirstDeferredIn
    <3>3. QED
      BY <2>1, <3>1, <3>2 DEF QueueWaits, Processing, FirstDeferredIn
  <2>3. CASE old = current_state_[1]
    BY <1>a, <1>6, <2>1, <2>3 DEF Recheck, QueueWaits, Processing, AllDeferredIn
  <2>4. QED
    BY <2>2, <2>3
<1>7. CASE Recall
  <2>1. /\ pc = "recall" /\ caller' = "process_defer_events" /\ ~deferring' /\ pc' = "lookup"
        /\ UNCHANGED <<defer_, process_, defer_again_, defer_it_, defer_old>>
    BY <1>7, ProcessAndPostTypes DEF Recall, ProcessAndPost, memberVars, loopVars
  <2>2. QED
    BY <1>a, <2>1 DEF QueueWaits, Processing, FirstDeferredIn
<1>8. CASE RecallDone
  <2>1. /\ pc = "recall" /\ defer_it_ > Len(defer_) /\ pc' \in {"recheck", "queue"}
        /\ pc' = "queue" => wasnt_empty' = (process_ # <<>>)
        /\ UNCHANGED <<defer_, process_, caller, old, current_state_>>
    BY <1>8 DEF RecallDone, dispatchVars
  <2>2. AllDeferredIn(current_state_[1])
    <3>1. \A i \in DOMAIN defer_ : i <= defer_it_ - 1
      BY <2>1, LenProperties DEF EngineTypes, MemberTypes
    <3>2. QED
      BY <2>1, <3>1 DEF QueueWaits, FirstDeferredIn, AllDeferredIn
  <2>3. QED
    BY <1>a, <2>1, <2>2 DEF QueueWaits, Processing, AllDeferredIn
<1>9. CASE TakeQueued \/ QueuedReturns
  BY <1>9 DEF TakeQueued, QueuedReturns, QueueWaits
<1>10. CASE QueueDone
  <2>1. /\ pc = "queue" /\ pc' = "ready"
        /\ UNCHANGED <<defer_, process_, caller, current_state_>>
    BY <1>10 DEF QueueDone, QueueWaits, memberVars, dispatchVars
  <2>2. QED
    BY <1>a, <2>1 DEF QueueWaits, Processing, AllDeferredIn
<1>11. ASSUME NEW e \in Events, Call(e) PROVE QueueWaits'
  <2>1. /\ pc = "ready" /\ pc' = "lookup" /\ caller' = "process_event"
        /\ old' = current_state_[1] /\ UNCHANGED <<defer_, process_>>
    BY <1>11, ProcessAndPostTypes DEF Call, BeginCall, memberVars
  <2>2. QED
    BY <1>a, <2>1 DEF QueueWaits, Processing, AllDeferredIn
<1>12. CASE UNCHANGED vars
  BY <1>a, <1>12
  DEF vars, memberVars, dispatchVars, loopVars, ghostVars, QueueWaits, Processing, AllDeferredIn,
      FirstDeferredIn
<1> QED
  BY <1>1, <1>2, <1>3, <1>4, <1>5, <1>6, <1>7, <1>8, <1>9, <1>10, <1>11, <1>12,
     DeferEventWaiting, RecallReturnsWaiting
  DEF Step, Engine, Lookup, Execute, Loops

LEMMA WatchedInit == Init => WatchedInv
<1> SUFFICES ASSUME Init PROVE LookedUp /\ QueueWaits
  BY DEF WatchedInv
<1>1. /\ pc = "lookup" /\ caller = "process_event" /\ defer_ = <<>> /\ process_ = <<>>
      /\ stage = "rows" /\ old = current_state_[1]
  BY DEF Init
<1> QED
  BY <1>1 DEF LookedUp, QueueWaits, Processing, AllDeferredIn, Base

THEOREM WatchedInvariant == EngineSpec => []WatchedInv
<1>1. EngineTypes /\ CallerType /\ RefInv /\ CallInv /\ KeptInv /\ WatchedInv /\ [Step]_vars
      => WatchedInv'
  BY LookedUpStep, WaitingStep, WatchedFixed DEF WatchedInv, KeptInv
<1> QED
  BY <1>1, WatchedInit, TypesAndReferences, CallsCorrect, KeptInvariant, PTL DEF EngineSpec

(* process_event, process_defer_events: when a call has returned, each event *)
(* that still waits is one that the state the machine is in defers, however  *)
(* the scan of the deferred events was restarted and whatever anonymous,     *)
(* completion and unexpected rows were run on the way.                     *)
THEOREM DeferredEventsRecalled == Spec => [](Watched => RecallComplete)
<1>1. CallInv /\ WatchedInv => (Watched => RecallComplete)
  <2> SUFFICES ASSUME CallInv, LookedUp, QueueWaits, Watched, result \in {"true", "false"},
                      NEW i \in DOMAIN defer_
               PROVE  \E r \in Regions :
                         LET C == StateRows(table, defer_[i].on, current_state_[r])
                                    \cup AnyRows(table, defer_[i].on)
                         IN  \E k \in C : Reached(table, C, k)
                                            /\ Defer \in {table.rows[k].action[n] :
                                                          n \in DOMAIN table.rows[k].action}
    BY DEF WatchedInv, RecallComplete
  <2>1. pc = "ready"
    BY DEF CallInv, CallState, QueueWaits
  <2>2. DeferredIn(defer_[i].on, current_state_[1])
    BY <2>1 DEF QueueWaits, AllDeferredIn
  <2>3. 1 \in Regions
    BY FirstRegion
  <2>4. \A k : Defers(k) => Defer \in {table.rows[k].action[n] :
                                       n \in DOMAIN table.rows[k].action}
    BY DEF Defers, Free
  <2>5. QED
    BY <2>2, <2>3, <2>4 DEF DeferredIn
<1> QED
  BY <1>1, EngineUsed, CallsCorrect, WatchedInvariant, PTL
=============================================================================
