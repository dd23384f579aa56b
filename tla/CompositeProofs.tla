--------------------------- MODULE CompositeProofs ---------------------------
(***************************************************************************)
(* Theorems about Composite, for all machines, regions and calls: while a    *)
(* composite state is not active its sub machine sleeps, and it wakes up in *)
(* the states that (H) asks for, with nothing left of an earlier visit; the  *)
(* sub machine has an event first, and one that has terminated is left.    *)
(***************************************************************************)
EXTENDS Composite, SmImplCallProofs

(* The outer machine calls the sub machine in three places only, and waits. *)
Waits == at \in {"ready", "dispatch", "rows", "updated", "dispatched"} => SubIdle

HistoryInv == HistoryKept /\ Waits /\ result # "constructing"

LEMMA HistoryInit == OuterInit => HistoryInv
BY DEF OuterInit, SubInit, HistoryInv, HistoryKept, Waits, SubIdle

(* A step of the sub machine.                                              *)
LEMMA SubStep ==
    ASSUME HistoryInv, SubRuns \/ SubAnonymousReturns
    PROVE  HistoryInv'
<1>1. UNCHANGED outerVars /\ pc # "ready"
  BY EngineResult DEF SubRuns, SubAnonymousReturns, SubDispatched
<1>2. outer = Sub /\ at \notin {"ready", "dispatch", "rows", "updated", "dispatched"}
  BY <1>1 DEF HistoryInv, HistoryKept, Waits, SubIdle
<1>3. result' # "constructing"
  BY EngineResult DEF SubRuns, SubAnonymousReturns, HistoryInv
<1> QED
  BY <1>1, <1>2, <1>3 DEF HistoryInv, HistoryKept, Waits, outerVars

(* A call of the sub machine while the composite state is active.          *)
LEMMA CallStep ==
    ASSUME HistoryInv, outer = Sub, outer' = Sub, result' # "constructing",
           at' \in {"in_sub", "leaving", "entering"}
    PROVE  HistoryInv'
BY DEF HistoryInv, HistoryKept, Waits

(* A step of the outer machine that does nothing to the sub machine.       *)
LEMMA OuterOnly ==
    ASSUME HistoryInv, UNCHANGED <<subVars, outer_table, history, outer, left>>,
           at' # "updated",
           SubIdle \/ at' \notin {"ready", "dispatch", "rows", "dispatched"}
    PROVE  HistoryInv'
BY DEF HistoryInv, HistoryKept, Waits, SubIdle, subVars, vars, memberVars

(* Leaving and entering.                                                   *)
LEMMA UpdateStep ==
    ASSUME HistoryInv, OuterUpdate
    PROVE  HistoryInv'
<1> DEFINE to == outer_table.rows[chosen].to
<1>1. /\ SubIdle' /\ SubIdle /\ outer' = to /\ at' = "updated"
      /\ UNCHANGED <<table, history, result>>
  BY DEF OuterUpdate, SubIdle
<1>2. outer = Sub => ClearDeferred /\ left' = current_state_
  BY DEF OuterUpdate
<1>3. outer # Sub => UNCHANGED <<defer_, defer_processing_, left>>
  BY DEF OuterUpdate
<1>4. to = Sub => current_state_' = EnterStates
  BY DEF OuterUpdate
<1>5. to # Sub => current_state_' = current_state_
  BY DEF OuterUpdate
<1> HIDE DEF to
<1>6. left' = current_state_
  BY <1>2, <1>3 DEF HistoryInv, HistoryKept
<1>7. outer' # Sub => defer_' = <<>> /\ ~defer_processing_' /\ current_state_' = left'
  BY <1>1, <1>2, <1>3, <1>5, <1>6 DEF HistoryInv, HistoryKept, ClearDeferred
<1>8. ASSUME outer' = Sub, NEW r \in Regions
      PROVE  current_state_'[r] = IF r \in history' THEN left'[r] ELSE table'.initial[r]
  BY <1>1, <1>4, <1>6, <1>8 DEF EnterStates
<1> QED
  BY <1>1, <1>7, <1>8 DEF HistoryInv, HistoryKept, Waits

LEMMA HistoryStep ==
    ASSUME HistoryInv, [OuterNext]_allVars
    PROVE  HistoryInv'
<1> USE DEF SubProcessEvent, BeginCall
<1>1. CASE DispatchOuter
  <2>1. CASE outer = Sub /\ at' = "in_sub"
    BY <1>1, <2>1, CallStep DEF DispatchOuter, SubAnonymous, HistoryInv
  <2>2. CASE ~(outer = Sub /\ at' = "in_sub")
    BY <1>1, <2>2, OuterOnly DEF DispatchOuter, HistoryInv, Waits
  <2> QED
    BY <2>1, <2>2
<1>2. CASE SubReturns
  BY <1>2, OuterOnly DEF SubReturns
<1>3. ASSUME NEW i \in OuterRows, OuterRowFires(i) PROVE HistoryInv'
  <2>1. CASE outer = Sub /\ at' = "leaving"
    BY <1>3, <2>1, CallStep DEF OuterRowFires, HistoryInv, subVars, vars
  <2>2. CASE ~(outer = Sub /\ at' = "leaving")
    BY <1>3, <2>2, OuterOnly DEF OuterRowFires, HistoryInv, Waits
  <2> QED
    BY <2>1, <2>2
<1>4. CASE NoOuterRowFires
  BY <1>4, OuterOnly DEF NoOuterRowFires, HistoryInv, Waits
<1>5. CASE OuterEnter
  <2>1. CASE outer = Sub
    BY <1>5, <2>1, CallStep DEF OuterEnter, HistoryInv, subVars, vars
  <2>2. CASE outer # Sub
    BY <1>5, <2>2, OuterOnly DEF OuterEnter
  <2> QED
    BY <2>1, <2>2
<1>6. CASE OuterEntered
  BY <1>6, OuterOnly DEF OuterEntered
<1>7. CASE OuterDispatched
  BY <1>7, OuterOnly DEF OuterDispatched, HistoryInv, Waits
<1>8. ASSUME NEW e \in Events, OuterProcessEvent(e) PROVE HistoryInv'
  BY <1>8, OuterOnly DEF OuterProcessEvent, HistoryInv, Waits
<1>9. CASE UNCHANGED allVars
  BY <1>9 DEF allVars, outerVars, vars, memberVars, HistoryInv, HistoryKept, Waits, SubIdle
<1> QED
  BY <1>1, <1>2, <1>3, <1>4, <1>5, <1>6, <1>7, <1>8, <1>9, SubStep, UpdateStep
  DEF OuterNext, OuterEngine, OuterIdle

(* update_composite_states, clear_sub_sm_defer_state: a sub machine that is *)
(* not active sleeps with empty queues in the states it was left in, and    *)
(* its regions are reactivated as their (H) says.                          *)
THEOREM HistoryHeld == OuterSpec => []HistoryKept
<1>1. HistoryInv => HistoryKept
  BY DEF HistoryInv
<1>2. HistoryInv /\ [OuterNext]_allVars => HistoryInv'
  BY HistoryStep
<1> QED
  BY <1>1, <1>2, HistoryInit, PTL DEF OuterSpec

-----------------------------------------------------------------------------
(* What a step of the composition is to the sub machine.                   *)
SubStepKinds ==
    \/ SubRuns
    \/ SubAnonymousReturns
    \/ SubIdle /\ \E on \in Triggers : BeginCall(on)
    \/ SubIdle /\ SubAnonymous
    \/ OuterUpdate
    \/ UNCHANGED subVars

(* What the variables of the outer machine hold.                           *)
OuterTypes ==
    /\ outer_table \in Outers /\ history \in Histories
    /\ outer \in OuterStates
    /\ at \in {"ready", "dispatch", "in_sub", "rows", "leaving", "updated", "entering",
               "dispatched"}
    /\ cause \in Triggers
    /\ chosen \in Nat
    /\ at = "leaving" => outer_table.rows[chosen].to \in OuterStates
    /\ sub_handled \in BOOLEAN /\ answer \in BOOLEAN
    /\ calls \in 0..MaxCalls
    /\ left \in [Regions -> States] /\ visit \in Nat

LEMMA OuterRowType ==
    ASSUME outer_table \in Outers, NEW i \in DOMAIN outer_table.rows
    PROVE  /\ i \in Nat
           /\ outer_table.rows[i].to \in OuterStates \cup {Internal}
           /\ outer_table.rows[i].guard \in {{"true"}, {"true", "false"}}
<1> DEFINE R == [src : OuterStates, on : Triggers, guard : {{"true"}, {"true", "false"}},
                 action : {<<>>}, to : OuterStates \cup {Internal}]
<1>1. outer_table.rows \in Seq(R)
  BY OutersAssumption
<1> HIDE DEF R
<1>2. i \in Nat /\ outer_table.rows[i] \in R
  BY <1>1, ElementOfSeq, LenProperties
<1> QED
  BY <1>2 DEF R

LEMMA InternalTriggers == OnExit \in Triggers /\ OnEntry \in Triggers /\ OnAnonymous \in Triggers
BY DEF Triggers, OnExit, OnEntry, OnAnonymous

LEMMA OuterStepKinds ==
    ASSUME Waits, cause \in Triggers, [OuterNext]_allVars
    PROVE  SubStepKinds
<1> USE DEF SubStepKinds, SubProcessEvent, Waits
<1>1. CASE DispatchOuter
  BY <1>1 DEF DispatchOuter
<1>2. CASE SubReturns \/ NoOuterRowFires \/ OuterEntered \/ OuterDispatched
  BY <1>2 DEF SubReturns, NoOuterRowFires, OuterEntered, OuterDispatched
<1>3. ASSUME NEW i \in OuterRows, OuterRowFires(i) PROVE SubStepKinds
  BY <1>3, InternalTriggers DEF OuterRowFires
<1>4. CASE OuterEnter
  BY <1>4, InternalTriggers DEF OuterEnter
<1>5. ASSUME NEW e \in Events, OuterProcessEvent(e) PROVE SubStepKinds
  BY <1>5 DEF OuterProcessEvent
<1>6. CASE UNCHANGED allVars
  BY <1>6 DEF allVars, subVars
<1> QED
  BY <1>1, <1>2, <1>3, <1>4, <1>5, <1>6 DEF OuterNext, OuterEngine, OuterIdle

LEMMA OuterTypesStep ==
    ASSUME EngineTypes, OuterTypes, [OuterNext]_allVars
    PROVE  OuterTypes'
<1> USE DEF OuterTypes
<1>1. CASE SubRuns \/ SubAnonymousReturns
  BY <1>1 DEF SubRuns, SubAnonymousReturns, outerVars
<1>2. CASE DispatchOuter
  BY <1>2 DEF DispatchOuter
<1>3. CASE SubReturns
  BY <1>3 DEF SubReturns
<1>4. ASSUME NEW i \in OuterRows, OuterRowFires(i) PROVE OuterTypes'
  <2>1. /\ i \in Nat /\ outer_table.rows[i].to \in OuterStates \cup {Internal}
    BY <1>4, OuterRowType DEF OuterRows
  <2> QED
    BY <1>4, <2>1 DEF OuterRowFires
<1>5. CASE NoOuterRowFires
  BY <1>5 DEF NoOuterRowFires
<1>6. CASE OuterUpdate
  <2>1. /\ at = "leaving" /\ at' = "updated" /\ outer' = outer_table.rows[chosen].to
        /\ left' \in {left, current_state_} /\ visit' \in {visit, issued}
        /\ UNCHANGED <<outer_table, history, cause, chosen, sub_handled, answer, calls>>
    BY <1>6 DEF OuterUpdate
  <2> QED
    BY <2>1 DEF EngineTypes, MemberTypes, HistoryTypes
<1>7. CASE OuterEnter \/ OuterEntered
  BY <1>7 DEF OuterEnter, OuterEntered
<1>8. CASE OuterDispatched
  BY <1>8, InternalTriggers DEF OuterDispatched
<1>9. ASSUME NEW e \in Events, OuterProcessEvent(e) PROVE OuterTypes'
  <2>1. calls' \in 0..MaxCalls
    BY <1>9, MaxCallsAssumption DEF OuterProcessEvent
  <2>2. cause' \in Triggers /\ at' = "dispatch" /\ answer' \in BOOLEAN
    BY <1>9, TriggerTypes DEF OuterProcessEvent
  <2>3. UNCHANGED <<outer_table, history, outer, chosen, sub_handled, left, visit>>
    BY <1>9 DEF OuterProcessEvent
  <2> QED
    BY <2>1, <2>2, <2>3
<1>10. CASE UNCHANGED allVars
  BY <1>10 DEF allVars, outerVars
<1> QED
  BY <1>1, <1>2, <1>3, <1>4, <1>5, <1>6, <1>7, <1>8, <1>9, <1>10
  DEF OuterNext, OuterEngine, OuterIdle

(* Nothing is posted in the sub machine and nothing throws.                *)
Foreign == Posts \cup {UserCall}

SubCalls ==
    /\ table \in Tables
    /\ process_ = <<>>
    /\ Free(todo, Foreign)
    /\ caller \in {"process_event", "process_defer_events", "process_internal_events"}

LEMMA SubTables ==
    ASSUME table \in Tables
    PROVE  /\ table \in TransitionTables /\ NeverThrows
           /\ \A i \in DOMAIN table.rows : Free(table.rows[i].action, Foreign)
<1>1. ASSUME NEW i \in DOMAIN table.rows, NEW n \in DOMAIN table.rows[i].action
      PROVE  table.rows[i].action[n] = Defer
  BY <1>1, SubTablesAssumption
<1>2. Defer \notin Foreign
  BY DEF Defer, Foreign, Posts, Process, UserCall
<1>3. Defer # UserCall
  BY DEF Defer, UserCall
<1>4. \A i \in DOMAIN table.rows : "throws" \notin table.rows[i].guard
  BY SubTablesAssumption
<1> QED
  BY <1>1, <1>2, <1>3, <1>4, TablesAssumption DEF Free, NeverThrows

(* Neither a guard nor an action of the sub machine throws or posts.       *)
LEMMA NothingForeign ==
    ASSUME EngineTypes, SubCalls
    PROVE  ~GuardThrows /\ ~ActionThrows /\ ~PostEvent /\ ~TakeQueued /\ ~QueuedReturns
<1>1. ~GuardThrows
  BY SubTables, ReachedInTable DEF GuardThrows, NeverThrows, EngineTypes, SubCalls
<1>2. ~PostEvent
  BY NoPost DEF PostEvent, SubCalls, Free, Foreign, EngineTypes
<1>3. ~ActionThrows
  <2>1. SUFFICES ASSUME ActionThrows PROVE FALSE
    OBVIOUS
  <2>2. todo[1] \in Operations /\ todo[1].op = "call" /\ 1 \in DOMAIN todo
    BY <2>1, RunningOperation DEF ActionThrows, EngineTypes
  <2>3. todo[1] = UserCall
    BY <2>2 DEF Operations, UserOperations, UserCall
  <2> QED
    BY <2>2, <2>3 DEF SubCalls, Free, Foreign
<1>4. ~TakeQueued /\ ~QueuedReturns
  BY DEF TakeQueued, QueuedReturns, SubCalls
<1> QED
  BY <1>1, <1>2, <1>3, <1>4

LEMMA SubCallsStep ==
    ASSUME EngineTypes, SubCalls, Engine
    PROVE  SubCalls'
<1> USE DEF SubCalls
<1>f. Foreign' = Foreign
  BY DEF Foreign, Posts
<1>1. ASSUME NEW i, RowFires(i) PROVE SubCalls'
  <2>1. i \in DOMAIN table.rows
    BY <1>1, ReachedInTable DEF RowFires, EngineTypes
  <2>2. \A x : Update(x) \notin Foreign
    BY DEF Update, Foreign, Posts, Process, UserCall
  <2>3. Free(Execution(table, i, current_state_[region]), Foreign)
    BY <2>1, <2>2, SubTables, FreeExecution
  <2> QED
    BY <1>f, <1>1, <2>3 DEF RowFires, memberVars, Free
<1>2. CASE UpdateState \/ DeferEvent \/ CallReturns
  <2>1. /\ todo # <<>> /\ todo' = Tail(todo) /\ UNCHANGED <<table, process_, caller>>
    BY <1>2 DEF UpdateState, DeferEvent, CallReturns, Running, memberVars
  <2>2. Free(todo', Foreign)
    BY <2>1, FreeTail DEF EngineTypes, DispatchTypes
  <2> QED
    BY <1>f, <2>1, <2>2 DEF Free
<1>3. CASE NoRowFires \/ RowDone \/ Dispatched \/ EventReturns \/ Recheck \/ RecallReturns
             \/ RecallDone \/ QueueDone
  <2>1. UNCHANGED <<table, process_, caller, todo>>
    BY <1>3
    DEF NoRowFires, RowDone, Dispatched, EventReturns, Recheck, RecallReturns, RecallDone,
        QueueDone, memberVars, dispatchVars
  <2> QED
    BY <1>f, <2>1 DEF Free
<1>4. CASE Recall
  BY <1>4, ProcessAndPostTypes DEF Recall, ProcessAndPost, memberVars, Free
<1> QED
  BY <1>1, <1>2, <1>3, <1>4, NothingForeign DEF Engine, Lookup, Execute, Loops

SubInv == EngineTypes /\ RefInv /\ SubCalls /\ OuterTypes

LEMMA SubInvInit == OuterInit => SubInv
<1> SUFFICES ASSUME OuterInit PROVE SubInv
  OBVIOUS
<1> USE DEF OuterInit, SubInit
<1>1. table \in TransitionTables /\ table.initial \in [Regions -> States]
  BY TablesAssumption DEF TransitionTables
<1>2. Start \in EventObjects
  BY TriggerTypes DEF Start, EventObjects
<1>3. MemberTypes
  <2>1. /\ defer_ = <<>> /\ process_ = <<>> /\ defer_it_ = 1 /\ current_state_ = table.initial
        /\ defer_processing_ = FALSE /\ defer_again_ = FALSE
    OBVIOUS
  <2>2. defer_processing_ \in BOOLEAN /\ defer_again_ \in BOOLEAN
    BY <2>1, Zenon
  <2>3. QED
    BY <1>1, <2>1, <2>2, EmptySeq DEF MemberTypes
<1>4. DispatchTypes
  BY <1>2, FirstRegion, EmptySeq DEF DispatchTypes
<1>5. LoopTypes
  BY <1>1, FirstRegion DEF LoopTypes
<1>6. HistoryTypes
  <2>1. /\ issued = 0 /\ posted = {} /\ started = {} /\ done = {} /\ owed = {}
        /\ deferring = FALSE /\ unexpected_ran = FALSE /\ before = table.initial
    OBVIOUS
  <2>2. deferring \in BOOLEAN /\ unexpected_ran \in BOOLEAN
    BY <2>1, Zenon
  <2> QED
    BY <1>1, <2>1, <2>2 DEF HistoryTypes
<1>7. RefInv
  BY DEF RefInv, ReferenceStable, ScanMode, Processing
<1>8. OuterTypes
  <2>1. outer \in OuterStates
    BY OutersAssumption
  <2>2. calls \in 0..MaxCalls
    BY MaxCallsAssumption
  <2>3. sub_handled \in BOOLEAN /\ answer \in BOOLEAN
    OBVIOUS
  <2>4. left \in [Regions -> States]
    BY <1>1
  <2> QED
    BY <2>1, <2>2, <2>3, <2>4, InternalTriggers DEF OuterTypes
<1> QED
  BY <1>3, <1>4, <1>5, <1>6, <1>7, <1>8 DEF SubInv, EngineTypes, SubCalls, Free

LEMMA SubInvStep ==
    ASSUME SubInv, Waits, [OuterNext]_allVars
    PROVE  SubInv'
<1>1. EngineTypes /\ RefInv /\ SubCalls /\ OuterTypes
  BY DEF SubInv
<1>2. OuterTypes'
  BY <1>1, OuterTypesStep
<1>3. ASSUME SubRuns \/ UNCHANGED subVars PROVE EngineTypes' /\ RefInv' /\ SubCalls'
  <2>1. [Step]_vars
    BY <1>3 DEF SubRuns, Step, subVars
  <2>2. EngineTypes' /\ RefInv'
    BY <1>1, <2>1, TypeStep, RefStep DEF RefInv
  <2>3. SubCalls'
    BY <1>1, <1>3, SubCallsStep
    DEF SubRuns, subVars, vars, memberVars, dispatchVars, SubCalls, Free, Foreign, Posts
  <2> QED
    BY <2>2, <2>3
<1>4. ASSUME NEW on \in Triggers, BeginCall(on) PROVE EngineTypes' /\ RefInv' /\ SubCalls'
  <2>1. SubCalls'
    BY <1>1, <1>4, ProcessAndPostTypes DEF BeginCall, ProcessAndPost, memberVars, SubCalls, Free
  <2> QED
    BY <1>1, <1>4, <2>1, BeginCallTypes, BeginCallRef
<1>5. ASSUME SubAnonymous PROVE EngineTypes' /\ RefInv' /\ SubCalls'
  <2>1. /\ caller' = "process_internal_events" /\ DispatchFirst("anonymous", OnAnonymous)
        /\ UNCHANGED <<memberVars, item, todo, handled, loopVars, result, issued, posted,
                       started, done, owed, deferring>>
    BY <1>5 DEF SubAnonymous
  <2>2. EngineTypes'
    <3>1. MemberTypes'
      BY <1>1, <2>1 DEF EngineTypes, MemberTypes, memberVars
    <3>2. DispatchTypes'
      BY <1>1, <2>1, DispatchFirstTypes DEF EngineTypes, DispatchTypes
    <3>3. LoopTypes'
      BY <1>1, <2>1 DEF EngineTypes, LoopTypes, loopVars
    <3>4. HistoryTypes'
      BY <1>1, <2>1, DispatchFirstTypes DEF EngineTypes, HistoryTypes, MemberTypes
    <3> QED
      BY <3>1, <3>2, <3>3, <3>4 DEF EngineTypes
  <2>3. RefInv'
    BY <2>1, DispatchFirstTypes DEF RefInv, ReferenceStable, ScanMode
  <2> QED
    BY <1>1, <2>1, <2>2, <2>3 DEF memberVars, SubCalls, Free, Foreign, Posts
<1>6. ASSUME SubAnonymousReturns PROVE EngineTypes' /\ RefInv' /\ SubCalls'
  <2>1. /\ pc' = "ready" /\ result' \in {"true", "false"}
        /\ UNCHANGED <<memberVars, dispatchVars, loopVars, ghostVars>>
    BY <1>6 DEF SubAnonymousReturns
  <2>2. EngineTypes'
    BY <1>1, <2>1
    DEF EngineTypes, MemberTypes, DispatchTypes, LoopTypes, HistoryTypes, memberVars,
        dispatchVars, loopVars, ghostVars
  <2>3. RefInv'
    BY <2>1, RefOutside DEF Processing
  <2> QED
    BY <1>1, <2>1, <2>2, <2>3 DEF memberVars, dispatchVars, SubCalls, Free, Foreign, Posts
<1>7. ASSUME OuterUpdate PROVE EngineTypes' /\ RefInv' /\ SubCalls'
  <2>1. /\ pc = "ready"
        /\ UNCHANGED <<table, process_, pc, dispatchVars, loopVars, result, ghostVars>>
    BY <1>7 DEF OuterUpdate, SubIdle
  <2>2. \/ ClearDeferred
        \/ UNCHANGED <<defer_, defer_processing_, defer_again_, defer_it_>>
    BY <1>7 DEF OuterUpdate
  <2>3. current_state_' \in {EnterStates, current_state_}
    BY <1>7 DEF OuterUpdate
  <2>4. EnterStates \in [Regions -> States]
    <3>1. table.initial \in [Regions -> States] /\ current_state_ \in [Regions -> States]
      BY <1>1 DEF EngineTypes, MemberTypes, TransitionTables
    <3> QED
      BY <3>1 DEF EnterStates
  <2>5. MemberTypes'
    <3>1. defer_' \in Seq(EventObjects) /\ defer_it_' \in Nat \ {0}
      <4>1. CASE ClearDeferred
        <5>1. defer_' = <<>> /\ defer_it_' = 1
          BY <4>1 DEF ClearDeferred
        <5> QED
          BY <5>1, EmptySeq
      <4>2. CASE UNCHANGED <<defer_, defer_it_>>
        BY <1>1, <4>2 DEF EngineTypes, MemberTypes
      <4> QED
        BY <2>2, <4>1, <4>2
    <3>2. defer_processing_' \in BOOLEAN /\ defer_again_' \in BOOLEAN
      BY <1>1, <2>2, Zenon DEF ClearDeferred, EngineTypes, MemberTypes
    <3> QED
      BY <1>1, <2>1, <2>3, <2>4, <3>1, <3>2 DEF EngineTypes, MemberTypes
  <2>6. DispatchTypes' /\ LoopTypes' /\ HistoryTypes'
    BY <1>1, <2>1
    DEF EngineTypes, DispatchTypes, LoopTypes, HistoryTypes, dispatchVars, loopVars, ghostVars
  <2>7. RefInv'
    BY <2>1, RefOutside DEF Processing
  <2> QED
    BY <1>1, <2>1, <2>5, <2>6, <2>7
    DEF EngineTypes, dispatchVars, SubCalls, Free, Foreign, Posts
<1>8. SubStepKinds
  BY <1>1, OuterStepKinds DEF OuterTypes
<1> QED
  BY <1>2, <1>3, <1>4, <1>5, <1>6, <1>7, <1>8 DEF SubInv, SubStepKinds

THEOREM SubInvariant == OuterSpec => [](SubInv /\ HistoryInv)
<1>1. SubInv /\ HistoryInv /\ [OuterNext]_allVars => (SubInv /\ HistoryInv)'
  BY SubInvStep, HistoryStep DEF HistoryInv
<1> QED
  BY <1>1, SubInvInit, HistoryInit, PTL DEF OuterSpec

(* Type correctness of the composition, the sub machine's own variables      *)
(* included, for all tables of both machines (sml.hpp transitions_sub).    *)
THEOREM OuterTypeCorrect == OuterSpec => []OuterTypeOK
<1>1. SubInv => OuterTypeOK
  BY DEF SubInv, EngineTypes, SubCalls, OuterTypes, OuterTypeOK
<1> QED
  BY <1>1, SubInvariant, PTL

-----------------------------------------------------------------------------
(* What was deferred in a visit of the composite state.                    *)

(* process_internal_events(anonymous) is a dispatch and nothing else.      *)
OneDispatch ==
    /\ pc # "ready" /\ caller = "process_internal_events" =>
          /\ pc \in {"lookup", "run", "dispatched"} /\ what = "anonymous" /\ stage = "rows"
          /\ at = "in_sub" /\ cause = OnAnonymous
    /\ pc # "ready" /\ at = "in_sub" /\ cause = OnAnonymous =>
          caller = "process_internal_events"

(* Every object the sub machine has is younger than the visit.             *)
VisitInv ==
    /\ visit <= issued
    /\ outer = Sub =>
          /\ \A x \in Ids(defer_) : x > visit
          /\ pc # "ready" /\ caller # "process_internal_events" => item.id > visit

LEMMA OuterFixed ==
    ASSUME [OuterNext]_allVars
    PROVE  /\ UNCHANGED <<outer_table, history, table>>
           /\ OuterUpdate \/ UNCHANGED <<outer, left, visit>>
<1>1. CASE SubRuns
  BY <1>1, TableFixed DEF SubRuns, Step, outerVars
<1>2. CASE UNCHANGED allVars
  BY <1>2 DEF allVars, outerVars, vars, memberVars
<1>3. ASSUME SubAnonymousReturns \/ DispatchOuter \/ SubReturns \/ NoOuterRowFires
             \/ (\E i \in OuterRows : OuterRowFires(i)) \/ OuterUpdate \/ OuterEnter
             \/ OuterEntered \/ OuterDispatched \/ (\E e \in Events : OuterProcessEvent(e))
      PROVE  /\ UNCHANGED <<outer_table, history, table>>
             /\ OuterUpdate \/ UNCHANGED <<outer, left, visit>>
  BY <1>3
  DEF SubAnonymousReturns, DispatchOuter, SubReturns, OuterRowFires, NoOuterRowFires,
      OuterUpdate, OuterEnter, OuterEntered, OuterDispatched, OuterProcessEvent,
      SubProcessEvent, SubAnonymous, BeginCall, outerVars, subVars, vars, memberVars
<1> QED
  BY <1>1, <1>2, <1>3 DEF OuterNext, OuterEngine, OuterIdle

(* A step of the sub machine in its dispatch of anonymous.                 *)
LEMMA AnonymousStages ==
    ASSUME what = "anonymous", stage = "rows", NoRowFires \/ RowDone
    PROVE  stage' = "rows" /\ pc' \in {"lookup", "dispatched"}
<1>1. \A s : FirstStage(table, Trigger, s) = "rows"
  BY DEF Trigger, FirstStage, OnAnonymous
<1> QED
  BY <1>1 DEF NoRowFires, RowDone, NextRegion

LEMMA OneDispatchSub ==
    ASSUME OneDispatch, SubRuns, result # "constructing"
    PROVE  OneDispatch'
<1> USE DEF OneDispatch
<1>1. UNCHANGED <<at, cause>>
  BY DEF SubRuns, outerVars
<1>2. CASE caller # "process_internal_events"
  <2>1. Engine => caller' # "process_internal_events"
    BY <1>2, ProcessAndPostTypes
    DEF Engine, Lookup, Execute, Loops, RowFires, NoRowFires, GuardThrows, UpdateState,
        PostEvent, DeferEvent, CallReturns, ActionThrows, RowDone, Dispatched, EventReturns,
        Recheck, Recall, RecallReturns, RecallDone, TakeQueued, QueuedReturns, QueueDone,
        Unwind, dispatchVars
  <2>2. pc # "ready"
    BY EngineResult DEF SubRuns
  <2> QED
    BY <1>1, <1>2, <2>1, <2>2 DEF SubRuns
<1>3. CASE caller = "process_internal_events"
  <2>1. /\ pc \in {"lookup", "run"} /\ what = "anonymous" /\ stage = "rows"
        /\ at = "in_sub" /\ cause = OnAnonymous
    BY <1>3, EngineResult DEF SubRuns, SubDispatched
  <2>2. CASE NoRowFires \/ RowDone
    <3>1. UNCHANGED <<caller, what>>
      BY <2>2 DEF NoRowFires, RowDone
    <3> QED
      BY <1>1, <1>3, <2>1, <2>2, <3>1, AnonymousStages
  <2>3. CASE GuardThrows \/ ActionThrows
    BY <1>1, <1>3, <2>1, <2>3
    DEF GuardThrows, ActionThrows, Unwind, dispatchVars, Running
  <2>4. ASSUME \/ \E i \in Candidates : RowFires(i)
               \/ UpdateState \/ PostEvent \/ DeferEvent \/ CallReturns
        PROVE  OneDispatch'
    <3>1. UNCHANGED <<caller, what, stage>> /\ pc' = "run"
      BY <2>4 DEF RowFires, UpdateState, PostEvent, DeferEvent, CallReturns, Running
    <3> QED
      BY <1>1, <1>3, <2>1, <3>1
  <2>5. ~Loops
    BY <2>1
    DEF Loops, Dispatched, EventReturns, Recheck, Recall, RecallReturns, RecallDone,
        TakeQueued, QueuedReturns, QueueDone
  <2> QED
    BY <2>2, <2>3, <2>4, <2>5 DEF SubRuns, Engine, Lookup, Execute
<1> QED
  BY <1>2, <1>3

LEMMA OneDispatchStep ==
    ASSUME HistoryInv, OneDispatch, [OuterNext]_allVars
    PROVE  OneDispatch'
<1> USE DEF OneDispatch, HistoryInv, Waits, SubIdle, SubProcessEvent
<1>1. CASE DispatchOuter
  <2>1. pc = "ready" /\ cause' = cause
    BY <1>1 DEF DispatchOuter
  <2>2. CASE UNCHANGED subVars
    BY <2>1, <2>2 DEF subVars, vars
  <2>3. CASE cause # OnAnonymous /\ BeginCall(cause)
    BY <2>1, <2>3, ProcessAndPostTypes DEF BeginCall
  <2>4. CASE cause = OnAnonymous /\ at' = "in_sub" /\ SubAnonymous
    <3>1. stage' = "rows"
      BY <2>4 DEF SubAnonymous, DispatchFirst, FirstStage, OnAnonymous
    <3> QED
      BY <2>1, <2>4, <3>1, DispatchFirstTypes DEF SubAnonymous
  <2> QED
    BY <1>1, <2>2, <2>3, <2>4 DEF DispatchOuter
<1>2. CASE SubRuns
  BY <1>2, OneDispatchSub
<1>3. CASE SubReturns \/ NoOuterRowFires \/ OuterEntered \/ OuterDispatched \/ OuterUpdate
  BY <1>3
  DEF SubReturns, NoOuterRowFires, OuterEntered, OuterDispatched, OuterUpdate, subVars, vars
<1>4. ASSUME NEW i \in OuterRows, OuterRowFires(i) PROVE OneDispatch'
  <2>1. CASE BeginCall(OnExit)
    BY <1>4, <2>1, ProcessAndPostTypes DEF OuterRowFires, BeginCall, subVars, vars
  <2>2. CASE UNCHANGED subVars
    BY <1>4, <2>2 DEF OuterRowFires, subVars, vars
  <2> QED
    BY <1>4, <2>1, <2>2 DEF OuterRowFires
<1>5. CASE OuterEnter
  <2>1. CASE BeginCall(OnEntry)
    BY <1>5, <2>1, ProcessAndPostTypes DEF OuterEnter, BeginCall
  <2>2. CASE UNCHANGED subVars
    BY <1>5, <2>2 DEF OuterEnter, subVars, vars
  <2> QED
    BY <1>5, <2>1, <2>2 DEF OuterEnter
<1>6. CASE SubAnonymousReturns
  BY <1>6 DEF SubAnonymousReturns
<1>7. ASSUME NEW e \in Events, OuterProcessEvent(e) PROVE OneDispatch'
  BY <1>7 DEF OuterProcessEvent, subVars, vars
<1>8. CASE UNCHANGED allVars
  BY <1>8 DEF allVars, outerVars, vars, dispatchVars
<1> QED
  BY <1>1, <1>2, <1>3, <1>4, <1>5, <1>6, <1>7, <1>8 DEF OuterNext, OuterEngine, OuterIdle

(* What the sub machine does to the objects it has.                        *)
LEMMA VisitSub ==
    ASSUME SubInv, OneDispatch, VisitInv, SubRuns
    PROVE  VisitInv'
<1>1. /\ Engine /\ pc # "ready" /\ UNCHANGED <<outer, visit>>
      /\ EngineTypes /\ RefInv /\ SubCalls
  BY EngineResult DEF SubRuns, outerVars, SubInv
<1>2. /\ issued \in Nat /\ visit \in Nat /\ item.id \in Nat /\ Ids(defer_) \subseteq Nat
  BY IdsNat
  DEF SubInv, EngineTypes, HistoryTypes, DispatchTypes, EventObjects, OuterTypes, MemberTypes
<1>3. CASE DeferEvent
  <2>1. pc = "run" /\ UNCHANGED <<pc, caller, item>>
    BY <1>3 DEF DeferEvent, Running
  <2>2. what = "event" => caller # "process_internal_events"
    BY <2>1 DEF OneDispatch
  <2>3. issued' \in {issued, issued + 1}
    BY <1>3 DEF DeferEvent
  <2>4. Ids(defer_') \subseteq Ids(defer_) \cup {IF what = "event" THEN item.id ELSE issued + 1}
    BY <1>1, <1>3, DeferEventIds
  <2>5. outer = Sub => \A x \in Ids(defer_') : x > visit
    BY <1>2, <2>1, <2>2, <2>4 DEF VisitInv
  <2>6. visit <= issued'
    BY <1>2, <2>3 DEF VisitInv
  <2>7. Ids(defer_)' = Ids(defer_')
    BY DEF Ids
  <2> QED
    BY <1>1, <2>1, <2>5, <2>6, <2>7 DEF VisitInv
<1>4. CASE RecallReturns
  <2>1. Ids(defer_') \subseteq Ids(defer_)
    BY <1>1, <1>4, RecallReturnsIds
  <2>2. Ids(defer_)' = Ids(defer_')
    BY DEF Ids
  <2>3. UNCHANGED <<caller, item, issued>>
    BY <1>4 DEF RecallReturns, Settle, dispatchVars
  <2> QED
    BY <1>1, <2>1, <2>2, <2>3 DEF VisitInv
<1>5. CASE Recall
  <2>1. /\ pc = "recall" /\ item' = defer_[defer_it_] /\ UNCHANGED <<defer_, issued>>
        /\ defer_it_ <= Len(defer_)
    BY <1>5, ProcessAndPostTypes DEF Recall, memberVars
  <2>2. item'.id \in Ids(defer_)
    <3>1. defer_it_ \in DOMAIN defer_
      BY <1>1, <2>1, LenProperties DEF EngineTypes, MemberTypes
    <3> QED
      BY <2>1, <3>1 DEF Ids
  <2> QED
    BY <1>1, <2>1, <2>2 DEF VisitInv, Ids
<1>6. CASE \/ \E i \in Candidates : RowFires(i)
           \/ NoRowFires \/ UpdateState \/ CallReturns \/ RowDone \/ Dispatched
           \/ EventReturns \/ Recheck \/ RecallDone \/ QueueDone
  <2>1. UNCHANGED <<defer_, caller, item, issued>>
    BY <1>6
    DEF RowFires, NoRowFires, UpdateState, CallReturns, RowDone, Dispatched, EventReturns,
        Recheck, RecallDone, QueueDone, Settle, memberVars, dispatchVars, ghostVars
  <2> QED
    BY <1>1, <2>1 DEF VisitInv, Ids
<1> QED
  BY <1>1, <1>3, <1>4, <1>5, <1>6, NothingForeign DEF Engine, Lookup, Execute, Loops

LEMMA VisitStep ==
    ASSUME SubInv, HistoryInv, OneDispatch, VisitInv, [OuterNext]_allVars
    PROVE  VisitInv'
<1>1. CASE SubRuns
  BY <1>1, VisitSub
<1>2. CASE OuterUpdate
  <2>1. /\ pc' = "ready" /\ issued' = issued /\ issued \in Nat /\ visit <= issued
        /\ outer' = Sub => visit' = issued
        /\ outer' # Sub => visit' = visit
    BY <1>2 DEF OuterUpdate, SubIdle, ghostVars, SubInv, EngineTypes, HistoryTypes, VisitInv
  <2>2. defer_' = <<>>
    BY <1>2 DEF OuterUpdate, ClearDeferred, HistoryInv, HistoryKept
  <2>3. Ids(defer_)' = {}
    BY <2>2 DEF Ids
  <2> QED
    BY <2>1, <2>3 DEF VisitInv
<1>3. CASE ~OuterUpdate /\ UNCHANGED subVars
  BY <1>3, OuterFixed
  DEF subVars, vars, memberVars, dispatchVars, ghostVars, VisitInv, Ids
<1>4. ASSUME NEW on \in Triggers, BeginCall(on), ~OuterUpdate PROVE VisitInv'
  <2>1. /\ item'.id = issued + 1 /\ issued' = issued + 1 /\ UNCHANGED defer_
        /\ UNCHANGED <<outer, visit>> /\ issued \in Nat /\ visit \in Nat
    BY <1>4, OuterFixed, ProcessAndPostTypes
    DEF BeginCall, memberVars, SubInv, EngineTypes, HistoryTypes, OuterTypes
  <2> QED
    BY <2>1 DEF VisitInv, Ids
<1>5. CASE SubAnonymous /\ ~OuterUpdate
  BY <1>5, OuterFixed DEF SubAnonymous, memberVars, VisitInv, Ids
<1>6. CASE SubAnonymousReturns
  BY <1>6 DEF SubAnonymousReturns, memberVars, ghostVars, outerVars, VisitInv, Ids
<1> QED
  BY <1>1, <1>2, <1>3, <1>4, <1>5, <1>6, OuterStepKinds
  DEF SubStepKinds, HistoryInv, SubInv, OuterTypes

LEMMA VisitInit == OuterInit => OneDispatch /\ VisitInv
<1> SUFFICES ASSUME OuterInit PROVE OneDispatch /\ VisitInv
  OBVIOUS
<1>1. pc = "ready" /\ visit = 0 /\ issued = 0 /\ defer_ = <<>>
  BY DEF OuterInit, SubInit
<1> QED
  BY <1>1 DEF OneDispatch, VisitInv, Ids

THEOREM VisitInvariant == OuterSpec => [](OneDispatch /\ VisitInv)
<1>1. SubInv /\ HistoryInv /\ OneDispatch /\ VisitInv /\ [OuterNext]_allVars
      => OneDispatch' /\ VisitInv'
  BY OneDispatchStep, VisitStep
<1> QED
  BY <1>1, VisitInit, SubInvariant, PTL DEF OuterSpec

(* clear_sub_sm_defer_state: what a sub machine deferred in one visit of the  *)
(* composite state is neither kept nor processed in the next, whatever its   *)
(* rows defer and however often the scan of its queue restarts.            *)
THEOREM VisitsForget == OuterSpec => []VisitForgotten
<1>1. VisitInv => VisitForgotten
  BY DEF VisitInv, VisitForgotten, SubIdle, Ids
<1> QED
  BY <1>1, VisitInvariant, PTL

-----------------------------------------------------------------------------
(* A sub machine that has terminated is left.                              *)

(* The outer machine has no row to leave by, or no need to.                *)
Stays == OuterRows = {} \/ ~IsTerminated

Refused == \A i \in OuterRows : "false" \in outer_table.rows[i].guard

(* The sub machine does not handle anonymous, and so changes no state, or   *)
(* the rows of the composite state have been tried, whenever the outer      *)
(* machine ends a dispatch of anonymous without a reaction.                *)
CompletionInv ==
    /\ at = "in_sub" /\ cause = OnAnonymous =>
          /\ outer = Sub
          /\ pc \in {"lookup", "dispatched"} /\ ~accepted => Stays
          /\ pc = "ready" => result = "true" \/ Stays
    /\ at = "rows" /\ cause = OnAnonymous => ~sub_handled
    /\ at \in {"leaving", "updated", "entering"} => answer
    /\ at = "dispatched" /\ cause = OnAnonymous /\ outer = Sub /\ ~answer => Stays \/ Refused
    /\ CompletionTaken

(* What these speak of does not change with the rest.                      *)
LEMMA StaysFixed ==
    ASSUME UNCHANGED <<outer_table, outer, cause>>
    PROVE  /\ UNCHANGED current_state_ => Stays' = Stays
           /\ Refused' = Refused
           /\ OuterRows' = OuterRows
<1>1. OuterRows' = OuterRows
  BY DEF OuterRows
<1>2. UNCHANGED current_state_ => IsTerminated' = IsTerminated
  BY DEF IsTerminated
<1> QED
  BY <1>1, <1>2 DEF Stays, Refused

LEMMA CompletionSub ==
    ASSUME SubInv, HistoryInv, OneDispatch, CompletionInv, SubRuns
    PROVE  CompletionInv'
<1>1. /\ pc # "ready" /\ Engine /\ UNCHANGED outerVars /\ EngineTypes /\ SubCalls
  BY EngineResult DEF SubRuns, SubInv
<1>2. at \in {"in_sub", "leaving", "entering"}
  BY <1>1 DEF HistoryInv, Waits, SubIdle, SubInv, OuterTypes
<1>3. CASE at # "in_sub" \/ cause # OnAnonymous
  BY <1>1, <1>2, <1>3 DEF outerVars, CompletionInv, CompletionTaken
<1>4. CASE at = "in_sub" /\ cause = OnAnonymous
  <2>1. /\ caller = "process_internal_events" /\ pc \in {"lookup", "run"} /\ stage = "rows"
        /\ pc = "lookup" /\ ~accepted => Stays
    BY <1>1, <1>4 DEF OneDispatch, CompletionInv, SubRuns, SubDispatched
  <2>2. /\ at' = "in_sub" /\ outer' = Sub /\ UNCHANGED <<outer_table, outer, cause>>
    BY <1>1, <1>4 DEF outerVars, CompletionInv
  <2>3. SUFFICES /\ pc' \in {"lookup", "dispatched"} /\ ~accepted' => Stays'
                 /\ pc' # "ready"
    BY <2>2 DEF CompletionInv, CompletionTaken
  <2>4. CASE NoRowFires
    <3>1. UNCHANGED <<current_state_, accepted>> /\ pc = "lookup" /\ pc' # "ready"
      BY <2>4 DEF NoRowFires, NextRegion, AfterUnexpected, memberVars
    <3> QED
      BY <2>1, <2>2, <3>1, StaysFixed
  <2>5. CASE RowDone
    BY <2>1, <2>5 DEF RowDone, NextRegion
  <2>6. CASE \/ \E i \in Candidates : RowFires(i)
             \/ UpdateState \/ DeferEvent \/ CallReturns
    BY <2>6 DEF RowFires, UpdateState, DeferEvent, CallReturns, Running
  <2>7. ~Loops
    BY <2>1
    DEF Loops, Dispatched, EventReturns, Recheck, Recall, RecallReturns, RecallDone,
        TakeQueued, QueuedReturns, QueueDone
  <2> QED
    BY <1>1, <2>4, <2>5, <2>6, <2>7, NothingForeign DEF Engine, Lookup, Execute
<1> QED
  BY <1>3, <1>4

LEMMA CompletionStep ==
    ASSUME SubInv, HistoryInv, OneDispatch, CompletionInv, [OuterNext]_allVars
    PROVE  CompletionInv'
<1>a. OnAnonymous.kind = "anonymous"
  BY DEF OnAnonymous
<1>b. pc # "ready" => at \in {"in_sub", "leaving", "entering"}
  BY DEF HistoryInv, Waits, SubIdle, SubInv, OuterTypes
<1>1. CASE SubRuns
  BY <1>1, CompletionSub
<1>2. CASE SubAnonymousReturns
  <2>1. /\ at = "in_sub" /\ cause = OnAnonymous /\ pc = "dispatched" /\ pc' = "ready"
        /\ result' = (IF accepted THEN "true" ELSE "false")
        /\ UNCHANGED <<current_state_, outerVars>>
    BY <1>2 DEF SubAnonymousReturns, SubDispatched, OneDispatch, memberVars
  <2>2. result' = "true" \/ Stays'
    BY <2>1, StaysFixed DEF CompletionInv, outerVars
  <2> QED
    BY <2>1, <2>2 DEF CompletionInv, CompletionTaken, outerVars
<1>3. CASE DispatchOuter
  <2>1. /\ at' \in {"in_sub", "rows"} /\ ~sub_handled' /\ UNCHANGED <<outer_table, outer, cause>>
    BY <1>3 DEF DispatchOuter
  <2>2. ASSUME at' = "in_sub", cause = OnAnonymous
        PROVE  outer = Sub /\ pc' = "lookup" /\ Stays'
    <3>1. outer = Sub /\ SubAnonymous /\ ~(OuterRows # {} /\ IsTerminated)
      BY <1>3, <2>2 DEF DispatchOuter
    <3>2. UNCHANGED current_state_ /\ pc' = "lookup"
      BY <3>1, DispatchFirstTypes DEF SubAnonymous, memberVars
    <3> QED
      BY <2>1, <3>1, <3>2, StaysFixed DEF Stays
  <2> QED
    BY <2>1, <2>2 DEF CompletionInv, CompletionTaken
<1>4. CASE SubReturns
  <2>1. /\ at = "in_sub" /\ pc = "ready" /\ UNCHANGED <<current_state_, outer_table, outer, cause>>
        /\ answer' = (result = "true")
        /\ at' = IF Propagates THEN "rows" ELSE "dispatched"
    BY <1>4 DEF SubReturns, SubIdle, subVars, vars, memberVars
  <2>2. cause = OnAnonymous => ~Propagates
    BY <1>a DEF Propagates
  <2>3. cause = OnAnonymous /\ ~answer' => Stays'
    BY <2>1, StaysFixed DEF CompletionInv
  <2> QED
    BY <2>1, <2>2, <2>3 DEF CompletionInv, CompletionTaken
<1>5. ASSUME NEW i \in OuterRows, OuterRowFires(i) PROVE CompletionInv'
  BY <1>5 DEF OuterRowFires, CompletionInv, CompletionTaken
<1>6. CASE NoOuterRowFires
  <2>1. /\ at = "rows" /\ at' = "dispatched" /\ Refused
        /\ UNCHANGED <<outer_table, outer, cause>>
    BY <1>6 DEF NoOuterRowFires, Refused
  <2> QED
    BY <2>1, StaysFixed DEF CompletionInv, CompletionTaken
<1>7. CASE OuterUpdate \/ OuterEnter \/ OuterEntered
  BY <1>7 DEF OuterUpdate, OuterEnter, OuterEntered, CompletionInv, CompletionTaken
<1>8. CASE OuterDispatched
  <2>1. CASE at' = "dispatch"
    BY <2>1 DEF CompletionInv, CompletionTaken
  <2>2. CASE at' = "ready"
    <3>1. /\ at = "dispatched" /\ ~(EitherMentions(OnAnonymous) /\ PostAgain)
          /\ UNCHANGED <<outer_table, outer, cause, current_state_>>
      BY <1>8, <2>2 DEF OuterDispatched, subVars, vars, memberVars
    <3>2. IsTerminated' = IsTerminated
      BY <3>1 DEF IsTerminated
    <3>3. ASSUME outer = Sub, IsTerminated, NEW i \in DOMAIN outer_table.rows,
                 outer_table.rows[i].src = Sub, outer_table.rows[i].on = OnAnonymous
          PROVE  "false" \in outer_table.rows[i].guard
      <4>1. EitherMentions(OnAnonymous)
        BY <3>3 DEF EitherMentions, Mentions
      <4>2. cause = OnAnonymous /\ ~answer
        BY <3>1, <4>1 DEF PostAgain
      <4>3. i \in OuterRows
        BY <3>3, <4>2 DEF OuterRows
      <4> QED
        BY <3>1, <3>3, <4>2, <4>3 DEF CompletionInv, Stays, Refused
    <3> QED
      BY <2>2, <3>1, <3>2, <3>3 DEF CompletionInv, CompletionTaken
  <2> QED
    BY <1>8, <2>1, <2>2 DEF OuterDispatched
<1>9. ASSUME NEW e \in Events, OuterProcessEvent(e) PROVE CompletionInv'
  BY <1>9 DEF OuterProcessEvent, CompletionInv, CompletionTaken
<1>10. CASE UNCHANGED allVars
  <2>1. UNCHANGED <<outerVars, current_state_, pc, accepted, result>>
    BY <1>10 DEF allVars, vars, memberVars, dispatchVars
  <2>2. IsTerminated' = IsTerminated
    BY <2>1 DEF IsTerminated
  <2> QED
    BY <2>1, <2>2, StaysFixed DEF outerVars, CompletionInv, CompletionTaken
<1> QED
  BY <1>1, <1>2, <1>3, <1>4, <1>5, <1>6, <1>7, <1>8, <1>9, <1>10
  DEF OuterNext, OuterEngine, OuterIdle

(* is_terminated, process_post_events: when the outer call has returned, a   *)
(* sub machine all of whose regions have reached X has been left if the     *)
(* outer machine has an anonymous row for that whose guard does not refuse,  *)
(* whichever event, deferred event, anonymous or entry row terminated it.  *)
THEOREM CompletionsTaken == OuterSpec => []CompletionTaken
<1>1. OuterInit => CompletionInv
  BY DEF OuterInit, CompletionInv, CompletionTaken
<1>2. SubInv /\ HistoryInv /\ OneDispatch /\ CompletionInv /\ [OuterNext]_allVars
      => CompletionInv'
  BY CompletionStep
<1>3. CompletionInv => CompletionTaken
  BY DEF CompletionInv
<1> QED
  BY <1>1, <1>2, <1>3, SubInvariant, VisitInvariant, PTL DEF OuterSpec

-----------------------------------------------------------------------------
(* The innermost machine comes first.                                      *)

(* The states of a region that has reached X are left by no row: the library *)
(* does not forbid a row from X, nor one of state<_> that leaves X.        *)
TerminateFinal ==
    \A i \in DOMAIN table.rows :
       table.rows[i].src \in {Terminate, AnyState} => table.rows[i].to = Internal

Updates == {Update(s) : s \in States}

(* The sub machine has terminated, and what it still runs moves no region.  *)
Ended == IsTerminated /\ (pc = "run" => Free(todo, Updates))

(* The row that leads to X is the only one for the event.                  *)
OnlyExit ==
    \E i \in OuterRows : /\ outer_table.rows[i].to = Terminate
                         /\ outer_table.rows[i].guard = {"true"}
                         /\ OuterRows = {i}

FirstInv ==
    /\ at = "in_sub" => outer = Sub
    /\ at \in {"rows", "leaving"} /\ outer # Sub => ~sub_handled
    /\ outer = Sub /\ cause.kind = "event" /\ sub_handled =>
          /\ at = "rows" => IsTerminated
          /\ at = "leaving" => Ended /\ chosen \in OuterRows
          /\ at \in {"updated", "entering"} => ~OnlyExit
          /\ at = "dispatched" /\ IsTerminated => ~OnlyExit

(* Whatever a terminated sub machine still processes, it stays terminated.  *)
LEMMA EndedStep ==
    ASSUME EngineTypes, SubCalls, TerminateFinal, Ended, Engine
    PROVE  Ended'
<1>1. ASSUME NEW i \in Candidates, RowFires(i) PROVE Ended'
  <2>1. /\ i \in DOMAIN table.rows /\ UNCHANGED current_state_
        /\ todo' = Execution(table, i, current_state_[region])
    BY <1>1, ReachedInTable DEF RowFires, EngineTypes, memberVars
  <2>2. table.rows[i].src \in {Terminate, AnyState}
    <3>1. current_state_[region] = Terminate
      BY DEF Ended, IsTerminated, EngineTypes, DispatchTypes
    <3> QED
      BY <3>1 DEF Candidates, AnyRows, StateRows
  <2>3. todo' = table.rows[i].action
    BY <2>1, <2>2 DEF TerminateFinal, Execution
  <2>4. table.rows[i].action \in Seq(UserOperations)
    BY <2>1, SubTables, RowType DEF SubCalls
  <2>5. ASSUME NEW n \in DOMAIN table.rows[i].action
        PROVE  table.rows[i].action[n] \notin Updates
    <3>1. table.rows[i].action[n] \in UserOperations
      BY <2>4, ElementOfSeq, LenProperties
    <3> QED
      BY <3>1 DEF UserOperations, Updates, Update
  <2> QED
    BY <2>1, <2>3, <2>5 DEF Ended, IsTerminated, Free, Updates
<1>2. ~UpdateState
  <2>1. SUFFICES ASSUME UpdateState PROVE FALSE
    OBVIOUS
  <2>2. /\ todo[1] \in Operations /\ todo[1].op = "update" /\ 1 \in DOMAIN todo
        /\ pc = "run"
    BY <2>1, RunningOperation DEF UpdateState, EngineTypes
  <2>3. todo[1].arg \in States /\ todo[1] = Update(todo[1].arg)
    BY <2>2 DEF Operations, UserOperations, Update
  <2> QED
    BY <2>2, <2>3 DEF Ended, Free, Updates
<1>3. CASE DeferEvent \/ CallReturns
  <2>1. pc = "run" /\ todo # <<>> /\ todo' = Tail(todo) /\ UNCHANGED current_state_
    BY <1>3 DEF DeferEvent, CallReturns, Running, memberVars
  <2>2. Free(todo', Updates)
    BY <2>1, FreeTail DEF EngineTypes, DispatchTypes, Ended
  <2> QED
    BY <2>1, <2>2 DEF Ended, IsTerminated, Free, Updates
<1>4. CASE NoRowFires \/ RowDone \/ Dispatched \/ EventReturns \/ Recheck \/ RecallReturns
             \/ RecallDone \/ QueueDone
  <2>1. UNCHANGED current_state_ /\ pc' # "run"
    BY <1>4, DispatchFirstTypes
    DEF NoRowFires, RowDone, NextRegion, AfterUnexpected, Dispatched, EventReturns, Recheck,
        RecallReturns, RecallDone, QueueDone, memberVars
  <2> QED
    BY <2>1 DEF Ended, IsTerminated
<1>5. CASE Recall
  BY <1>5, ProcessAndPostTypes DEF Recall, memberVars, Ended, IsTerminated
<1> QED
  BY <1>1, <1>2, <1>3, <1>4, <1>5, NothingForeign DEF Engine, Lookup, Execute, Loops

LEMMA OnlyExitFixed ==
    ASSUME UNCHANGED <<outer_table, outer, cause>>
    PROVE  OnlyExit' = OnlyExit /\ OuterRows' = OuterRows
<1>1. OuterRows' = OuterRows
  BY DEF OuterRows
<1> QED
  BY <1>1 DEF OnlyExit

LEMMA FirstStep ==
    ASSUME SubInv, HistoryInv, FirstInv, TerminateFinal, [OuterNext]_allVars
    PROVE  FirstInv'
<1>b. pc # "ready" => at \in {"in_sub", "leaving", "entering"}
  BY DEF HistoryInv, Waits, SubIdle, SubInv, OuterTypes
<1>1. CASE SubRuns
  <2>1. /\ Engine /\ EngineTypes /\ SubCalls /\ pc # "ready"
        /\ UNCHANGED <<outer_table, outer, cause, at, sub_handled, chosen>>
    BY <1>1, EngineResult DEF SubRuns, SubInv, outerVars
  <2>2. Ended => Ended'
    BY <2>1, EndedStep
  <2> QED
    BY <1>b, <2>1, <2>2, OnlyExitFixed DEF FirstInv
<1>2. CASE SubAnonymousReturns
  <2>1. /\ UNCHANGED <<outer_table, outer, cause, at, sub_handled, chosen, current_state_>>
        /\ pc' = "ready"
    BY <1>2 DEF SubAnonymousReturns, outerVars, memberVars
  <2> QED
    BY <2>1, OnlyExitFixed DEF FirstInv, Ended, IsTerminated
<1>3. CASE DispatchOuter
  BY <1>3 DEF DispatchOuter, FirstInv
<1>4. CASE SubReturns
  <2>1. /\ at = "in_sub" /\ UNCHANGED <<outer_table, outer, cause, current_state_>>
        /\ sub_handled' => result = "true"
        /\ Propagates => at' = "rows"
        /\ ~Propagates => at' = "dispatched"
    BY <1>4 DEF SubReturns, subVars, vars, memberVars
  <2>2. outer = Sub
    BY <2>1 DEF FirstInv
  <2>3. IsTerminated' = IsTerminated
    BY <2>1 DEF IsTerminated
  <2>4. OnlyExit => HasTerminateRow
    BY DEF OnlyExit, HasTerminateRow
  <2>5. ASSUME cause.kind = "event", sub_handled'
        PROVE  /\ at' = "rows" => IsTerminated
               /\ at' = "dispatched" /\ IsTerminated => ~OnlyExit
    BY <2>1, <2>4, <2>5 DEF Propagates
  <2>6. at' \in {"rows", "dispatched"}
    BY <2>1
  <2> QED
    BY <2>1, <2>2, <2>3, <2>5, <2>6, OnlyExitFixed DEF FirstInv
<1>5. ASSUME NEW i \in OuterRows, OuterRowFires(i) PROVE FirstInv'
  <2>1. /\ at = "rows" /\ chosen' = i /\ UNCHANGED <<outer_table, outer, cause, sub_handled>>
        /\ UNCHANGED current_state_
    BY <1>5
    DEF OuterRowFires, SubProcessEvent, BeginCall, subVars, vars, memberVars
  <2>2. IsTerminated' = IsTerminated
    BY <2>1 DEF IsTerminated
  <2>3. CASE outer_table.rows[i].to = Internal
    <3>1. at' = "dispatched" /\ ~OnlyExit
      BY <1>5, <2>3, OuterStatesAssumption DEF OuterRowFires, OnlyExit
    <3> QED
      BY <2>1, <3>1, OnlyExitFixed DEF FirstInv
  <2>4. CASE outer_table.rows[i].to # Internal
    <3>1. at' = "leaving" /\ i \in OuterRows'
      BY <1>5, <2>1, <2>4, OnlyExitFixed DEF OuterRowFires
    <3>2. pc' # "run"
      <4>1. pc = "ready"
        BY <2>1 DEF HistoryInv, Waits, SubIdle
      <4> QED
        BY <1>5, <2>4, <4>1, ProcessAndPostTypes
        DEF OuterRowFires, SubProcessEvent, BeginCall, subVars, vars
    <3> QED
      BY <2>1, <2>2, <3>1, <3>2 DEF FirstInv, Ended
  <2> QED
    BY <2>3, <2>4
<1>6. CASE NoOuterRowFires
  <2>1. /\ at = "rows" /\ at' = "dispatched"
        /\ UNCHANGED <<outer_table, outer, cause, sub_handled>>
        /\ \A i \in OuterRows : "false" \in outer_table.rows[i].guard
    BY <1>6 DEF NoOuterRowFires
  <2>2. ~OnlyExit
    BY <2>1 DEF OnlyExit
  <2> QED
    BY <2>1, <2>2, OnlyExitFixed DEF FirstInv
<1>7. CASE OuterUpdate
  <2>1. /\ at = "leaving" /\ at' = "updated" /\ outer' = outer_table.rows[chosen].to
        /\ UNCHANGED <<outer_table, cause, sub_handled>>
    BY <1>7 DEF OuterUpdate
  <2>2. ASSUME outer' = Sub, cause.kind = "event", sub_handled PROVE ~OnlyExit'
    <3>1. outer = Sub /\ chosen \in OuterRows
      BY <2>1, <2>2 DEF FirstInv
    <3>2. ~OnlyExit
      BY <2>1, <2>2, <3>1, OuterStatesAssumption DEF OnlyExit
    <3> QED
      BY <2>1, <2>2, <3>1, <3>2, OnlyExitFixed
  <2> QED
    BY <2>1, <2>2 DEF FirstInv
<1>8. CASE OuterEnter
  <2>1. /\ at = "updated" /\ at' = "entering"
        /\ UNCHANGED <<outer_table, outer, cause, sub_handled>>
    BY <1>8 DEF OuterEnter
  <2> QED
    BY <2>1, OnlyExitFixed DEF FirstInv
<1>9. CASE OuterEntered
  <2>1. /\ at = "entering" /\ at' = "dispatched"
        /\ UNCHANGED <<outer_table, outer, cause, sub_handled>>
    BY <1>9 DEF OuterEntered
  <2> QED
    BY <2>1, OnlyExitFixed DEF FirstInv
<1>10. CASE OuterDispatched \/ \E e \in Events : OuterProcessEvent(e)
  BY <1>10 DEF OuterDispatched, OuterProcessEvent, FirstInv
<1>11. CASE UNCHANGED allVars
  <2>1. UNCHANGED <<outerVars, current_state_, pc, todo>>
    BY <1>11 DEF allVars, vars, memberVars, dispatchVars
  <2> QED
    BY <2>1, OnlyExitFixed DEF outerVars, FirstInv, Ended, IsTerminated, Free, Updates
<1> QED
  BY <1>1, <1>2, <1>3, <1>4, <1>5, <1>6, <1>7, <1>8, <1>9, <1>10, <1>11
  DEF OuterNext, OuterEngine, OuterIdle

(* transitions_sub::execute: an event goes to the sub machine first, and a   *)
(* row of the composite state reacts to it only if the sub machine did not  *)
(* or was terminated by it, also while on_exit runs; in that case the row   *)
(* that leads to X is taken.  If a row may leave X, an anonymous transition  *)
(* after on_exit may wake a terminated region up.                          *)
THEOREM InnermostMachineFirst == OuterSpec => [](TerminateFinal => InnermostFirst)
<1>1. OuterInit => (TerminateFinal => FirstInv)
  <2>1. OuterInit => at = "dispatch"
    BY DEF OuterInit
  <2> QED
    BY <2>1 DEF FirstInv
<1>2. SubInv /\ HistoryInv /\ (TerminateFinal => FirstInv) /\ [OuterNext]_allVars
      => (TerminateFinal => FirstInv)'
  <2>1. [OuterNext]_allVars => TerminateFinal' = TerminateFinal
    BY OuterFixed DEF TerminateFinal
  <2> QED
    BY <2>1, FirstStep
<1>3. FirstInv => InnermostFirst
  BY DEF FirstInv, InnermostFirst, Ended, OnlyExit
<1> QED
  BY <1>1, <1>2, <1>3, SubInvariant, PTL DEF OuterSpec
=============================================================================
