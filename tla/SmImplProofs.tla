----------------------------- MODULE SmImplProofs -----------------------------
(* Proofs about SmImpl for every set of tables, every number of regions and *)
(* every number of calls.                                                  *)
EXTENDS SmImpl, SequenceTheorems, TLAPS

-----------------------------------------------------------------------------
(* What is fixed about triggers and operations.                            *)
LEMMA OperationTypes ==
    /\ \A s \in States : Update(s) \in Operations
    /\ UserOperations \subseteq Operations
    /\ \A o \in Operations : o.op = "update" => o.arg \in States
    /\ \A o \in Operations : o.op = "process" => o.arg \in Events
BY DEF Operations, UserOperations, Update

LEMMA TriggerTypes ==
    /\ \A e \in Events : OnEvent(e) \in Triggers /\ OnCompletion(e) \in Triggers
    /\ OnAnonymous \in Triggers /\ OnEntry \in Triggers /\ OnUnexpectedAny \in Triggers
    /\ \A t \in Triggers : t.kind = "event" => t.ev \in Events
BY DEF Triggers, OnEvent, OnCompletion, OnAnonymous, OnEntry, OnUnexpectedAny

(* The parts of a row.                                                     *)
LEMMA RowType ==
    ASSUME NEW t \in TransitionTables, NEW i \in DOMAIN t.rows
    PROVE  /\ t.rows[i].src \in States \cup {AnyState} /\ t.rows[i].on \in Triggers
           /\ t.rows[i].action \in Seq(UserOperations)
           /\ t.rows[i].to \in States \cup {Internal}
<1>1. t.rows \in Seq(Rows)
  BY DEF TransitionTables
<1>2. t.rows[i] \in Rows
  BY <1>1, ElementOfSeq
<1>3. QED
  BY <1>2 DEF Rows

(* The action of a row is a sequence of operations.                        *)
LEMMA ActionType ==
    ASSUME NEW t \in TransitionTables, NEW i \in DOMAIN t.rows
    PROVE  t.rows[i].action \in Seq(Operations) /\ t.rows[i].to \in States \cup {Internal}
BY RowType, OperationTypes, SeqMonotonic

(* The exit and entry actions of a state are sequences of operations.      *)
LEMMA StateActionType ==
    ASSUME NEW t \in TransitionTables, NEW on, NEW s
    PROVE  StateAction(t, on, s) \in Seq(Operations)
<1> DEFINE C == First(t, StateRows(t, on, s) \cup AnyRows(t, on))
<1>1. C \subseteq DOMAIN t.rows
  BY DEF First, StateRows, AnyRows
<1>2. CASE C = {}
  BY <1>2, EmptySeq DEF StateAction
<1>3. CASE C # {}
  <2>1. (CHOOSE i \in C : TRUE) \in DOMAIN t.rows
    BY <1>1, <1>3
  <2>2. QED
    BY <1>3, <2>1, ActionType DEF StateAction
<1>4. QED
  BY <1>2, <1>3

(* What a row does is a sequence of operations.                            *)
LEMMA ExecutionType ==
    ASSUME NEW t \in TransitionTables, NEW i \in DOMAIN t.rows, NEW s
    PROVE  Execution(t, i, s) \in Seq(Operations)
<1> DEFINE row == t.rows[i]
<1>1. row.action \in Seq(Operations) /\ row.to \in States \cup {Internal}
  BY ActionType
<1>2. CASE row.to = Internal
  BY <1>1, <1>2 DEF Execution
<1>3. CASE row.to # Internal
  <2> DEFINE exit == StateAction(t, OnExit, s)
             enter == StateAction(t, OnEntry, row.to)
             upd == <<Update(row.to)>>
  <2>1. upd \in Seq(Operations)
    BY <1>1, <1>3, OperationTypes
  <2>2. exit \in Seq(Operations) /\ enter \in Seq(Operations)
    BY StateActionType
  <2>3. exit \o upd \in Seq(Operations)
    BY <2>1, <2>2, ConcatProperties
  <2>4. exit \o upd \o row.action \in Seq(Operations)
    BY <1>1, <2>3, ConcatProperties
  <2>5. exit \o upd \o row.action \o enter \in Seq(Operations)
    BY <2>2, <2>4, ConcatProperties
  <2>6. QED
    BY <1>3, <2>5 DEF Execution
<1>4. QED
  BY <1>2, <1>3

(* A row that is reached is a row of the table.                            *)
LEMMA ReachedInTable ==
    ASSUME DispatchTypes, NEW i, Reached(table, Candidates, i)
    PROVE  i \in DOMAIN table.rows
BY DEF DispatchTypes, Reached, Candidates, StateRows, AnyRows
-----------------------------------------------------------------------------
(* Types of what the actions read from the queues and dispatch.            *)
LEMMA TriggerType == DispatchTypes => Trigger \in Triggers
BY TriggerTypes DEF DispatchTypes, Trigger, EventObjects

LEMMA StageTypes ==
    /\ \A t, on, s : FirstStage(t, on, s) \in {"rows", "unexpected"}
    /\ PostEventStep \in {"completion", "anonymous", "none"}
    /\ PostEventStep = "completion" => item.on.kind = "event"
BY DEF FirstStage, PostEventStep, HasCompletion

LEMMA FirstRegion == 1 \in Regions
BY NumRegionsAssumption DEF Regions

(* What starts a dispatch sets its variables to values of their types.      *)
LEMMA DispatchFirstTypes ==
    ASSUME NEW w, NEW on, DispatchFirst(w, on)
    PROVE  /\ what' = w
           /\ region' \in Regions
           /\ stage' \in {"rows", "unexpected", "unexpected_any", "any"}
           /\ accepted' \in BOOLEAN /\ fired' \in Nat
           /\ pc' = "lookup"
           /\ unexpected_ran' \in BOOLEAN /\ before' = current_state_
BY StageTypes, FirstRegion DEF DispatchFirst

LEMMA ProcessAndPostTypes ==
    ASSUME NEW c, NEW x, ProcessAndPost(c, x)
    PROVE  /\ caller' = c /\ item' = x /\ what' = "event"
           /\ todo' \in Seq(Operations)
           /\ handled' \in BOOLEAN /\ deferring' \in BOOLEAN
           /\ started' = started \cup {x.id}
           /\ region' \in Regions
           /\ stage' \in {"rows", "unexpected", "unexpected_any", "any"}
           /\ accepted' \in BOOLEAN /\ fired' \in Nat
           /\ pc' = "lookup"
           /\ unexpected_ran' \in BOOLEAN /\ before' = current_state_
<1>1. DispatchFirst("event", x.on)
  BY DEF ProcessAndPost
<1>2. QED
  BY <1>1, DispatchFirstTypes, EmptySeq DEF ProcessAndPost

(* Moving on to the next region keeps the dispatch well typed.             *)
LEMMA NextRegionTypes ==
    ASSUME MemberTypes, DispatchTypes, NextRegion
    PROVE  /\ region' \in Regions
           /\ stage' \in {"rows", "unexpected", "unexpected_any", "any"}
           /\ pc' \in {"lookup", "dispatched"}
BY NumRegionsAssumption, StageTypes DEF MemberTypes, DispatchTypes, NextRegion, Regions

(* A sequence without its element k.                                       *)
Removed(q, k) == SubSeq(q, 1, k - 1) \o SubSeq(q, k + 1, Len(q))

(* Removing one element from a sequence leaves the others in their order.   *)
LEMMA RemoveOne ==
    ASSUME NEW S, NEW q \in Seq(S), NEW k \in 1..Len(q)
    PROVE  /\ Removed(q, k) \in Seq(S)
           /\ Len(Removed(q, k)) = Len(q) - 1
           /\ \A i \in 1..(Len(q) - 1) : Removed(q, k)[i] = q[IF i < k THEN i ELSE i + 1]
<1> DEFINE a == SubSeq(q, 1, k - 1)
           b == SubSeq(q, k + 1, Len(q))
<1>1. /\ Len(q) \in Nat /\ k \in Nat /\ k >= 1 /\ k <= Len(q)
      /\ \A i \in 1..Len(q) : q[i] \in S
  BY LenProperties, ElementOfSeq
<1>2. a \in Seq(S) /\ Len(a) = k - 1 /\ \A i \in 1..(k - 1) : a[i] = q[i]
  <2>1. \A i \in 1..(k - 1) : q[i] \in S
    BY <1>1
  <2>2. /\ a \in Seq(S)
        /\ Len(a) = IF 1 <= k - 1 THEN k - 1 - 1 + 1 ELSE 0
        /\ \A i \in 1..(k - 1 - 1 + 1) : a[i] = q[1 + i - 1]
    BY <1>1, <2>1, SubSeqProperties
  <2> HIDE DEF a
  <2>3. QED
    BY <1>1, <2>2
<1>3. b \in Seq(S) /\ Len(b) = Len(q) - k /\ \A i \in 1..(Len(q) - k) : b[i] = q[k + i]
  <2>1. \A i \in (k + 1)..Len(q) : q[i] \in S
    BY <1>1
  <2>2. /\ b \in Seq(S)
        /\ Len(b) = IF k + 1 <= Len(q) THEN Len(q) - (k + 1) + 1 ELSE 0
        /\ \A i \in 1..(Len(q) - (k + 1) + 1) : b[i] = q[k + 1 + i - 1]
    BY <1>1, <2>1, SubSeqProperties
  <2> HIDE DEF b
  <2> DEFINE n == Len(q)
  <2>3. n \in Nat /\ k <= n /\ n = Len(q)
    BY <1>1
  <2> HIDE DEF n
  <2>4. Len(b) = n - k
    BY <1>1, <2>2, <2>3
  <2>5. ASSUME NEW i \in 1..(n - k) PROVE b[i] = q[k + i]
    <3>1. i \in 1..(n - (k + 1) + 1) /\ k + 1 + i - 1 = k + i
      BY <1>1, <2>3
    <3>2. QED
      BY <2>2, <2>3, <3>1
  <2>6. QED
    BY <2>2, <2>3, <2>4, <2>5
<1> HIDE DEF a, b
<1>4. /\ a \o b \in Seq(S) /\ Len(a \o b) = Len(a) + Len(b)
      /\ \A i \in 1..(Len(a) + Len(b)) :
            (a \o b)[i] = IF i <= Len(a) THEN a[i] ELSE b[i - Len(a)]
  BY <1>2, <1>3, ConcatProperties
<1> DEFINE n == Len(q)
<1>5. n \in Nat /\ k <= n /\ n = Len(q)
  BY <1>1
<1> HIDE DEF n
<1>6. Len(a) + Len(b) = n - 1
  BY <1>1, <1>2, <1>3, <1>5
<1>7. ASSUME NEW i \in 1..(n - 1)
      PROVE  (a \o b)[i] = q[IF i < k THEN i ELSE i + 1]
  <2>1. CASE i < k
    BY <1>1, <1>2, <1>4, <1>5, <1>6, <2>1
  <2>2. CASE ~(i < k)
    <3>1. /\ i - (k - 1) \in 1..(n - k) /\ k + (i - (k - 1)) = i + 1
          /\ ~(i <= k - 1)
      BY <1>1, <1>5, <2>2
    <3>2. (a \o b)[i] = b[i - (k - 1)]
      BY <1>2, <1>4, <1>6, <3>1
    <3>3. QED
      BY <1>3, <1>5, <2>2, <3>1, <3>2
  <2>3. QED
    BY <2>1, <2>2
<1>8. QED
  BY <1>4, <1>5, <1>6, <1>7 DEF Removed, a, b

-----------------------------------------------------------------------------
(* The initial state and every step are well typed.                        *)
LEMMA TypeInit == Init => EngineTypes
<1> SUFFICES ASSUME Init PROVE EngineTypes
  OBVIOUS
<1>1. table \in TransitionTables /\ table.initial \in [Regions -> States]
  BY TablesAssumption DEF Init, TransitionTables
<1>2. Start \in EventObjects
  BY TriggerTypes DEF Start, EventObjects
<1>3. MemberTypes
  <2>1. /\ defer_ = <<>> /\ process_ = <<>> /\ defer_it_ = 1 /\ current_state_ = table.initial
        /\ defer_processing_ = FALSE /\ defer_again_ = FALSE
    BY DEF Init
  <2>2. defer_processing_ \in BOOLEAN /\ defer_again_ \in BOOLEAN
    BY <2>1, Zenon
  <2>3. QED
    BY <1>1, <2>1, <2>2, EmptySeq DEF MemberTypes
<1>4. DispatchTypes
  BY <1>2, FirstRegion, EmptySeq DEF Init, DispatchTypes
<1>5. LoopTypes
  BY <1>1, FirstRegion DEF Init, LoopTypes
<1>6. HistoryTypes
  <2>1. /\ issued = 0 /\ posted = {} /\ started = {0} /\ done = {} /\ owed = {}
        /\ deferring = FALSE /\ unexpected_ran = FALSE /\ before = table.initial
    BY DEF Init
  <2>2. deferring \in BOOLEAN /\ unexpected_ran \in BOOLEAN
    BY <2>1, Zenon
  <2>3. QED
    BY <1>1, <2>1, <2>2 DEF HistoryTypes
<1>7. QED
  BY <1>3, <1>4, <1>5, <1>6 DEF EngineTypes

(* A call from outside, with any trigger.                                  *)
LEMMA BeginCallTypes ==
    ASSUME EngineTypes, NEW on \in Triggers, BeginCall(on)
    PROVE  EngineTypes'
<1> USE DEF EngineTypes
<1>1. [on |-> on, id |-> issued + 1] \in EventObjects
  BY DEF EventObjects, HistoryTypes
<1>2. MemberTypes'
  BY DEF MemberTypes, memberVars, BeginCall
<1>3. DispatchTypes'
  BY <1>1, ProcessAndPostTypes DEF DispatchTypes, BeginCall
<1>4. LoopTypes'
  BY FirstRegion DEF LoopTypes, MemberTypes, BeginCall
<1>5. HistoryTypes'
  BY <1>1, ProcessAndPostTypes DEF HistoryTypes, MemberTypes, EventObjects, memberVars, BeginCall
<1> QED
  BY <1>2, <1>3, <1>4, <1>5

LEMMA TypeStep == EngineTypes /\ ReferenceStable /\ [Step]_vars => EngineTypes'
<1> SUFFICES ASSUME EngineTypes, ReferenceStable, [Step]_vars
             PROVE  EngineTypes'
  OBVIOUS
<1> USE DEF EngineTypes
<1>1. ASSUME NEW i, RowFires(i) PROVE EngineTypes'
  <2>1. Execution(table, i, current_state_[region]) \in Seq(Operations) /\ i \in Nat
    BY <1>1, ReachedInTable, ExecutionType DEF MemberTypes, RowFires, TransitionTables
  <2>2. QED
    BY <1>1, <2>1
    DEF EngineTypes, MemberTypes, DispatchTypes, LoopTypes, HistoryTypes, memberVars,
        dispatchVars, loopVars, ghostVars, vars, RowFires
<1>2. ASSUME NoRowFires PROVE EngineTypes'
  <2>1. /\ region' \in Regions
        /\ stage' \in {"rows", "unexpected", "unexpected_any", "any"}
        /\ pc' \in {"lookup", "dispatched"}
    BY <1>2, NextRegionTypes DEF NoRowFires, AfterUnexpected, DispatchTypes
  <2>2. QED
    BY <1>2, <2>1
    DEF EngineTypes, MemberTypes, DispatchTypes, LoopTypes, HistoryTypes, memberVars,
        dispatchVars, loopVars, ghostVars, vars, NoRowFires
<1>3. ASSUME GuardThrows PROVE EngineTypes'
  BY <1>3
  DEF EngineTypes, MemberTypes, DispatchTypes, LoopTypes, HistoryTypes, memberVars,
      dispatchVars, loopVars, ghostVars, vars, GuardThrows, Unwind
<1>4. ASSUME UpdateState PROVE EngineTypes'
  <2>1. todo # <<>> /\ Operation \in Operations /\ Tail(todo) \in Seq(Operations)
    BY <1>4, HeadTailProperties DEF UpdateState, Running, Operation, DispatchTypes
  <2>2. Operation.arg \in States
    BY <1>4, <2>1, OperationTypes DEF UpdateState, Running
  <2>3. QED
    BY <1>4, <2>1, <2>2
    DEF EngineTypes, MemberTypes, DispatchTypes, LoopTypes, HistoryTypes, memberVars,
        dispatchVars, loopVars, ghostVars, vars, UpdateState
<1>5. ASSUME PostEvent PROVE EngineTypes'
  <2>1. todo # <<>> /\ Operation \in Operations /\ Tail(todo) \in Seq(Operations)
    BY <1>5, HeadTailProperties DEF PostEvent, Running, Operation, DispatchTypes
  <2>2. [on |-> OnEvent(Operation.arg), id |-> issued + 1] \in EventObjects
    BY <1>5, <2>1, OperationTypes, TriggerTypes
    DEF PostEvent, Running, EventObjects, HistoryTypes
  <2>3. process_' \in Seq(EventObjects)
    BY <1>5, <2>2, AppendProperties DEF PostEvent, Push, MemberTypes
  <2>4. MemberTypes'
    BY <1>5, <2>3
    DEF MemberTypes, memberVars, dispatchVars, loopVars, ghostVars, PostEvent
  <2>5. DispatchTypes'
    BY <1>5, <2>1
    DEF DispatchTypes, memberVars, dispatchVars, loopVars, ghostVars, PostEvent
  <2>6. LoopTypes'
    BY <1>5
    DEF LoopTypes, memberVars, dispatchVars, loopVars, ghostVars, PostEvent
  <2>7. HistoryTypes'
    BY <1>5
    DEF HistoryTypes, memberVars, dispatchVars, loopVars, ghostVars, PostEvent
  <2>8. QED
    BY <2>4, <2>5, <2>6, <2>7
<1>6. ASSUME DeferEvent PROVE EngineTypes'
  <2>1. Tail(todo) \in Seq(Operations)
    BY <1>6, HeadTailProperties DEF DeferEvent, Running, DispatchTypes
  <2>2. [on |-> Trigger, id |-> IF what = "event" THEN item.id ELSE issued + 1]
           \in EventObjects
    BY TriggerType DEF EventObjects, DispatchTypes, HistoryTypes
  <2>3. defer_' \in Seq(EventObjects)
    <3>1. defer_ \in Seq(EventObjects)
      BY DEF MemberTypes
    <3>2. \/ defer_' = defer_
          \/ defer_' = Append(defer_, [on |-> Trigger, id |-> IF what = "event" THEN item.id
                                                             ELSE issued + 1])
      BY <1>6 DEF DeferEvent, Push
    <3>3. QED
      BY <2>2, <3>1, <3>2, AppendProperties
  <2>4. MemberTypes'
    BY <1>6, <2>3
    DEF MemberTypes, memberVars, dispatchVars, loopVars, ghostVars, DeferEvent
  <2>5. DispatchTypes'
    BY <1>6, <2>1
    DEF DispatchTypes, memberVars, dispatchVars, loopVars, ghostVars, DeferEvent
  <2>6. LoopTypes'
    BY <1>6
    DEF LoopTypes, memberVars, dispatchVars, loopVars, ghostVars, DeferEvent
  <2>7. issued' \in Nat /\ owed' \subseteq Nat
    <3>1. issued \in Nat /\ owed \subseteq Nat
      BY DEF HistoryTypes
    <3>2. CASE defer_processing_
      BY <1>6, <3>1, <3>2 DEF DeferEvent
    <3>3. CASE ~defer_processing_
      <4>1. /\ issued' = (IF what = "event" THEN issued ELSE issued + 1)
            /\ owed' = (IF what = "event" THEN owed ELSE owed \cup {issued + 1})
        BY <1>6, <3>3 DEF DeferEvent
      <4>2. QED
        BY <3>1, <4>1
    <3>4. QED
      BY <3>2, <3>3
  <2>8. deferring' \in BOOLEAN
    BY <1>6 DEF DeferEvent
  <2>9. HistoryTypes'
    BY <1>6, <2>7, <2>8 DEF HistoryTypes, DeferEvent
  <2>10. QED
    BY <2>4, <2>5, <2>6, <2>9
<1>7. ASSUME CallReturns PROVE EngineTypes'
  <2>1. Tail(todo) \in Seq(Operations)
    BY <1>7, HeadTailProperties DEF CallReturns, Running, DispatchTypes
  <2>2. QED
    BY <1>7, <2>1
    DEF EngineTypes, MemberTypes, DispatchTypes, LoopTypes, HistoryTypes, memberVars,
        dispatchVars, loopVars, ghostVars, vars, CallReturns
<1>8. ASSUME ActionThrows PROVE EngineTypes'
  BY <1>8
  DEF EngineTypes, MemberTypes, DispatchTypes, LoopTypes, HistoryTypes, memberVars,
      dispatchVars, loopVars, ghostVars, vars, ActionThrows, Unwind
<1>9. ASSUME RowDone PROVE EngineTypes'
  <2>1. /\ region' \in Regions
        /\ stage' \in {"rows", "unexpected", "unexpected_any", "any"}
        /\ pc' \in {"lookup", "dispatched"}
    BY <1>9, NextRegionTypes DEF RowDone, AfterUnexpected, DispatchTypes
  <2>2. MemberTypes'
    BY <1>9
    DEF MemberTypes, memberVars, dispatchVars, loopVars, ghostVars, RowDone
  <2>3. DispatchTypes'
    BY <1>9, <2>1
    DEF DispatchTypes, memberVars, dispatchVars, loopVars, ghostVars, RowDone
  <2>4. LoopTypes'
    BY <1>9
    DEF LoopTypes, memberVars, dispatchVars, loopVars, ghostVars, RowDone
  <2>5. HistoryTypes'
    BY <1>9
    DEF HistoryTypes, memberVars, dispatchVars, loopVars, ghostVars, RowDone
  <2>6. QED
    BY <2>2, <2>3, <2>4, <2>5
<1>10. ASSUME Dispatched PROVE EngineTypes'
  <2>1. handled' \in BOOLEAN
    BY <1>10 DEF Dispatched, DispatchTypes
  <2>2. MemberTypes'
    BY <1>10
    DEF MemberTypes, memberVars, dispatchVars, loopVars, ghostVars, Dispatched
  <2>3. DispatchTypes'
    BY <1>10, <2>1, StageTypes, DispatchFirstTypes
    DEF DispatchTypes, memberVars, dispatchVars, loopVars, ghostVars, Dispatched
  <2>4. LoopTypes'
    BY <1>10
    DEF LoopTypes, memberVars, dispatchVars, loopVars, ghostVars, Dispatched
  <2>5. HistoryTypes'
    BY <1>10, DispatchFirstTypes
    DEF HistoryTypes, MemberTypes, memberVars, dispatchVars, loopVars, ghostVars, Dispatched
  <2>6. QED
    BY <2>2, <2>3, <2>4, <2>5
<1>11. ASSUME EventReturns PROVE EngineTypes'
  <2>1. MemberTypes'
    BY <1>11
    DEF MemberTypes, memberVars, dispatchVars, loopVars, ghostVars, EventReturns, Settle
  <2>2. DispatchTypes'
    BY <1>11
    DEF DispatchTypes, memberVars, dispatchVars, loopVars, ghostVars, EventReturns, Settle
  <2>3. LoopTypes'
    BY <1>11
    DEF LoopTypes, DispatchTypes, memberVars, dispatchVars, loopVars, ghostVars, EventReturns, Settle
  <2>4. HistoryTypes'
    BY <1>11
    DEF HistoryTypes, DispatchTypes, EventObjects, memberVars, dispatchVars, loopVars, ghostVars, EventReturns, Settle
  <2>5. QED
    BY <2>1, <2>2, <2>3, <2>4
<1>12. ASSUME Recheck PROVE EngineTypes'
  <2>1. defer_it_' \in Nat \ {0} /\ defer_again_' \in BOOLEAN /\ defer_processing_' \in BOOLEAN
    <3>1. CASE old # current_state_[1]
      <4>1. defer_processing_' = TRUE /\ defer_again_' = FALSE /\ defer_it_' = 1
        BY <1>12, <3>1 DEF Recheck
      <4>2. defer_processing_' \in BOOLEAN /\ defer_again_' \in BOOLEAN
        BY <4>1, Zenon
      <4>3. QED
        BY <4>1, <4>2
    <3>2. CASE ~(old # current_state_[1])
      BY <1>12, <3>2 DEF Recheck, MemberTypes
    <3>3. QED
      BY <3>1, <3>2
  <2>2. MemberTypes'
    BY <1>12, <2>1
    DEF MemberTypes, memberVars, dispatchVars, loopVars, ghostVars, Recheck
  <2>3. DispatchTypes'
    BY <1>12
    DEF DispatchTypes, memberVars, dispatchVars, loopVars, ghostVars, Recheck
  <2>4. LoopTypes'
    BY <1>12, FirstRegion
    DEF LoopTypes, MemberTypes, memberVars, dispatchVars, loopVars, ghostVars, Recheck
  <2>5. HistoryTypes'
    BY <1>12
    DEF HistoryTypes, memberVars, dispatchVars, loopVars, ghostVars, Recheck
  <2>6. QED
    BY <2>2, <2>3, <2>4, <2>5
<1>13. ASSUME Recall PROVE EngineTypes'
  <2>1. defer_[defer_it_] \in EventObjects
    BY <1>13, ElementOfSeq DEF Recall, MemberTypes
  <2>2. MemberTypes'
    BY <1>13
    DEF MemberTypes, memberVars, dispatchVars, loopVars, ghostVars, Recall
  <2>3. DispatchTypes'
    BY <1>13, <2>1, ProcessAndPostTypes
    DEF DispatchTypes, memberVars, dispatchVars, loopVars, ghostVars, Recall
  <2>4. LoopTypes'
    BY <1>13
    DEF LoopTypes, memberVars, dispatchVars, loopVars, ghostVars, Recall
  <2>5. HistoryTypes'
    BY <1>13, <2>1, ProcessAndPostTypes
    DEF HistoryTypes, MemberTypes, EventObjects, memberVars, dispatchVars, loopVars, ghostVars, Recall
  <2>6. QED
    BY <2>2, <2>3, <2>4, <2>5
<1>14. ASSUME RecallReturns PROVE EngineTypes'
  <2>1. SubSeq(defer_, 1, defer_it_ - 1) \o SubSeq(defer_, defer_it_ + 1, Len(defer_))
           \in Seq(EventObjects)
    BY <1>14, RemoveOne DEF Removed, RecallReturns, MemberTypes, ReferenceStable, Processing
  <2>2. defer_' \in Seq(EventObjects)
    BY <1>14, <2>1 DEF RecallReturns, MemberTypes
  <2>3. defer_it_' \in Nat \ {0}
    BY <1>14 DEF RecallReturns, NextPosition, MemberTypes
  <2>4. MemberTypes'
    BY <1>14, <2>2, <2>3
    DEF MemberTypes, memberVars, dispatchVars, loopVars, ghostVars, RecallReturns, Settle
  <2>5. DispatchTypes'
    BY <1>14
    DEF DispatchTypes, memberVars, dispatchVars, loopVars, ghostVars, RecallReturns, Settle
  <2>6. LoopTypes'
    BY <1>14, FirstRegion
    DEF LoopTypes, MemberTypes, DispatchTypes, memberVars, dispatchVars, loopVars, ghostVars, RecallReturns, Settle
  <2>7. HistoryTypes'
    BY <1>14
    DEF HistoryTypes, DispatchTypes, EventObjects, memberVars, dispatchVars, loopVars, ghostVars, RecallReturns, Settle
  <2>8. QED
    BY <2>4, <2>5, <2>6, <2>7
<1>15. ASSUME RecallDone PROVE EngineTypes'
  <2>1. MemberTypes'
    BY <1>15
    DEF MemberTypes, memberVars, dispatchVars, loopVars, ghostVars, RecallDone
  <2>2. DispatchTypes'
    BY <1>15
    DEF DispatchTypes, memberVars, dispatchVars, loopVars, ghostVars, RecallDone
  <2>3. LoopTypes'
    BY <1>15
    DEF LoopTypes, memberVars, dispatchVars, loopVars, ghostVars, RecallDone
  <2>4. HistoryTypes'
    BY <1>15
    DEF HistoryTypes, memberVars, dispatchVars, loopVars, ghostVars, RecallDone
  <2>5. QED
    BY <2>1, <2>2, <2>3, <2>4
<1>16. ASSUME TakeQueued PROVE EngineTypes'
  <2>1. Head(process_) \in EventObjects
    BY <1>16, HeadTailProperties DEF TakeQueued, MemberTypes
  <2>2. MemberTypes'
    BY <1>16
    DEF MemberTypes, memberVars, dispatchVars, loopVars, ghostVars, TakeQueued
  <2>3. DispatchTypes'
    BY <1>16, <2>1, ProcessAndPostTypes
    DEF DispatchTypes, memberVars, dispatchVars, loopVars, ghostVars, TakeQueued
  <2>4. LoopTypes'
    BY <1>16
    DEF LoopTypes, memberVars, dispatchVars, loopVars, ghostVars, TakeQueued
  <2>5. HistoryTypes'
    BY <1>16, <2>1, ProcessAndPostTypes
    DEF HistoryTypes, MemberTypes, EventObjects, memberVars, dispatchVars, loopVars, ghostVars, TakeQueued
  <2>6. QED
    BY <2>2, <2>3, <2>4, <2>5
<1>17. ASSUME QueuedReturns PROVE EngineTypes'
  <2>1. Tail(process_) \in Seq(EventObjects)
    BY <1>17, HeadTailProperties DEF QueuedReturns, Pop, MemberTypes, ReferenceStable, Processing
  <2>2. MemberTypes'
    BY <1>17, <2>1
    DEF MemberTypes, memberVars, dispatchVars, loopVars, ghostVars, QueuedReturns, Pop, Settle
  <2>3. DispatchTypes'
    BY <1>17
    DEF DispatchTypes, memberVars, dispatchVars, loopVars, ghostVars, QueuedReturns, Settle
  <2>4. LoopTypes'
    BY <1>17
    DEF LoopTypes, DispatchTypes, memberVars, dispatchVars, loopVars, ghostVars, QueuedReturns, Settle
  <2>5. HistoryTypes'
    BY <1>17
    DEF HistoryTypes, DispatchTypes, EventObjects, memberVars, dispatchVars, loopVars, ghostVars, QueuedReturns, Settle
  <2>6. QED
    BY <2>2, <2>3, <2>4, <2>5
<1>18. ASSUME QueueDone PROVE EngineTypes'
  BY <1>18
  DEF EngineTypes, MemberTypes, DispatchTypes, LoopTypes, HistoryTypes, memberVars,
      dispatchVars, loopVars, ghostVars, vars, QueueDone
<1>19. ASSUME NEW e \in Events, Call(e) PROVE EngineTypes'
  BY <1>19, TriggerTypes, BeginCallTypes DEF CallTrigger, Call
<1>20. CASE UNCHANGED vars
  BY <1>20
  DEF EngineTypes, MemberTypes, DispatchTypes, LoopTypes, HistoryTypes, memberVars,
      dispatchVars, loopVars, ghostVars, vars
<1>21. QED
  BY <1>1, <1>2, <1>3, <1>4, <1>5, <1>6, <1>7, <1>8, <1>9, <1>10, <1>11, <1>12, <1>13,
     <1>14, <1>15, <1>16, <1>17, <1>18, <1>19, <1>20
  DEF Step, Engine, Lookup, Execute, Loops

-----------------------------------------------------------------------------
(* References into the queues.                                             *)

(* The scan of the defer queue runs in the mode in which nothing is        *)
(* appended to it.                                                         *)
ScanMode == pc = "recall" => defer_processing_

RefInv == ReferenceStable /\ ScanMode

refVars == <<defer_, process_, defer_processing_, defer_it_, caller, item>>

(* A step inside the processing of an event that touches no queue.         *)
LEMMA RefFrame ==
    ASSUME RefInv, UNCHANGED refVars, Processing, Processing'
    PROVE  RefInv'
BY DEF RefInv, ReferenceStable, ScanMode, refVars, Processing

(* A step after which no event is processed and no scan is under way.      *)
LEMMA RefOutside ==
    ASSUME ~Processing', pc' # "recall"
    PROVE  RefInv'
BY DEF RefInv, ReferenceStable, ScanMode, Processing

(* A call begins with an event object of its own.                          *)
LEMMA BeginCallRef ==
    ASSUME NEW on, BeginCall(on)
    PROVE  RefInv'
BY ProcessAndPostTypes DEF BeginCall, RefInv, ReferenceStable, ScanMode, Processing

LEMMA RefInit == Init => RefInv
BY DEF Init, RefInv, ReferenceStable, ScanMode

LEMMA RefStep == EngineTypes /\ RefInv /\ [Step]_vars => RefInv'
<1> SUFFICES ASSUME EngineTypes, RefInv, [Step]_vars
             PROVE  RefInv'
  OBVIOUS
<1>1. ASSUME NEW i, RowFires(i) PROVE RefInv'
  BY <1>1, RefFrame DEF RowFires, refVars, memberVars, Processing
<1>2. ASSUME NoRowFires PROVE RefInv'
  BY <1>2, RefFrame
  DEF NoRowFires, NextRegion, AfterUnexpected, refVars, memberVars, Processing
<1>3. ASSUME GuardThrows PROVE RefInv'
  BY <1>3, RefOutside DEF GuardThrows, Unwind, Processing
<1>4. ASSUME UpdateState PROVE RefInv'
  BY <1>4, RefFrame DEF UpdateState, Running, refVars, Processing
<1>5. ASSUME PostEvent PROVE RefInv'
  <2> DEFINE x == [on |-> OnEvent(Operation.arg), id |-> issued + 1]
  <2>1. process_' = Append(process_, x) /\ process_ \in Seq(EventObjects)
    BY <1>5 DEF PostEvent, Push, EngineTypes, MemberTypes
  <2>2. todo # <<>> /\ Operation \in Operations
    BY <1>5, HeadTailProperties
    DEF PostEvent, Running, Operation, EngineTypes, DispatchTypes
  <2>3. x \in EventObjects
    BY <1>5, <2>2, OperationTypes, TriggerTypes
    DEF PostEvent, Running, EventObjects, EngineTypes, HistoryTypes
  <2>4. process_ # <<>> => process_' # <<>> /\ Head(process_') = Head(process_)
    BY <2>1, <2>3, AppendProperties
  <2>5. QED
    BY <1>5, <2>4
    DEF PostEvent, Running, RefInv, ReferenceStable, ScanMode, Processing
<1>6. ASSUME DeferEvent PROVE RefInv'
  <2>1. caller = "process_defer_events" => defer_' = defer_
    BY <1>6 DEF DeferEvent, Running, RefInv, ReferenceStable, Processing
  <2>2. QED
    BY <1>6, <2>1
    DEF DeferEvent, Running, RefInv, ReferenceStable, ScanMode, Processing
<1>7. ASSUME CallReturns PROVE RefInv'
  BY <1>7, RefFrame DEF CallReturns, Running, refVars, memberVars, Processing
<1>8. ASSUME ActionThrows PROVE RefInv'
  BY <1>8, RefOutside DEF ActionThrows, Unwind, Processing
<1>9. ASSUME RowDone PROVE RefInv'
  BY <1>9, RefFrame
  DEF RowDone, NextRegion, AfterUnexpected, refVars, memberVars, Processing
<1>10. ASSUME Dispatched PROVE RefInv'
  BY <1>10, RefFrame, StageTypes, DispatchFirstTypes
  DEF Dispatched, refVars, memberVars, Processing
<1>11. ASSUME EventReturns PROVE RefInv'
  BY <1>11, RefOutside DEF EventReturns, Processing
<1>12. ASSUME Recheck PROVE RefInv'
  BY <1>12 DEF Recheck, RefInv, ReferenceStable, ScanMode, Processing
<1>13. ASSUME Recall PROVE RefInv'
  BY <1>13, ProcessAndPostTypes
  DEF Recall, memberVars, RefInv, ReferenceStable, ScanMode, Processing
<1>14. ASSUME RecallReturns PROVE RefInv'
  BY <1>14 DEF RecallReturns, RefInv, ReferenceStable, ScanMode, Processing
<1>15. ASSUME RecallDone PROVE RefInv'
  BY <1>15, RefOutside DEF RecallDone, Processing
<1>16. ASSUME TakeQueued PROVE RefInv'
  BY <1>16, ProcessAndPostTypes
  DEF TakeQueued, memberVars, RefInv, ReferenceStable, ScanMode, Processing
<1>17. ASSUME QueuedReturns PROVE RefInv'
  BY <1>17, RefOutside DEF QueuedReturns, Processing
<1>18. ASSUME QueueDone PROVE RefInv'
  BY <1>18, RefOutside DEF QueueDone, Processing
<1>19. ASSUME NEW e \in Events, Call(e) PROVE RefInv'
  BY <1>19, BeginCallRef DEF Call
<1>20. CASE UNCHANGED vars
  BY <1>20
  DEF RefInv, ReferenceStable, ScanMode, Processing, vars, memberVars, dispatchVars
<1>21. QED
  BY <1>1, <1>2, <1>3, <1>4, <1>5, <1>6, <1>7, <1>8, <1>9, <1>10, <1>11, <1>12, <1>13,
     <1>14, <1>15, <1>16, <1>17, <1>18, <1>19, <1>20
  DEF Step, Engine, Lookup, Execute, Loops

(* Who calls process_event_and_post_events.                                *)
LEMMA CallerStep == CallerType /\ [Step]_vars => CallerType'
<1> SUFFICES ASSUME CallerType, [Step]_vars PROVE CallerType'
  OBVIOUS
<1>1. CASE Recall \/ TakeQueued \/ \E e \in Events : Call(e)
  BY <1>1, ProcessAndPostTypes DEF Recall, TakeQueued, Call, BeginCall, CallerType
<1>2. CASE UNCHANGED caller
  BY <1>2 DEF CallerType
<1>3. (Engine /\ ~Recall /\ ~TakeQueued) \/ UNCHANGED vars => UNCHANGED caller
  BY DEF Engine, Lookup, Execute, Loops, RowFires, NoRowFires, GuardThrows, UpdateState,
         PostEvent, DeferEvent, CallReturns, ActionThrows, RowDone, Dispatched, EventReturns,
         Recheck, RecallReturns, RecallDone, QueuedReturns, QueueDone, Unwind, vars,
         dispatchVars
<1> QED
  BY <1>1, <1>2, <1>3 DEF Step

(* The bound on the number of calls plays no part in the proofs.           *)
LEMMA EngineUsed == Spec => EngineSpec
<1>1. [Next]_vars => [Step]_vars
  BY DEF Next, Step, ProcessEvent, Idle
<1>2. QED
  BY <1>1, PTL DEF Spec, EngineSpec

(* Both together are inductive: the removal of the recalled event stays a   *)
(* sequence of events only because defer_it_ still points at it.           *)
THEOREM TypesAndReferences == EngineSpec => [](EngineTypes /\ CallerType /\ RefInv)
<1>1. Init => EngineTypes /\ CallerType /\ RefInv
  BY TypeInit, RefInit DEF Init, CallerType
<1>2. EngineTypes /\ CallerType /\ RefInv /\ [Step]_vars
        => (EngineTypes /\ CallerType /\ RefInv)'
  BY TypeStep, CallerStep, RefStep DEF RefInv
<1>3. QED
  BY <1>1, <1>2, PTL DEF EngineSpec

(* Type correctness of the engine, for every table and number of regions.  *)
THEOREM TypeCorrect == Spec => []TypeOK
<1>1. EngineTypes /\ CallerType => TypeOK
  BY DEF TypeOK
<1> QED
  BY <1>1, EngineUsed, TypesAndReferences, PTL

(* The event object that guards and actions refer to is still in its queue, *)
(* where process_queued_events and process_event_no_defer expect it, when   *)
(* they have run (sml.hpp process_event_no_defer, process_queued_events).  *)
THEOREM ReferencesStable == Spec => []ReferenceStable
<1>1. RefInv => ReferenceStable
  BY DEF RefInv
<1>2. QED
  BY <1>1, EngineUsed, TypesAndReferences, PTL

-----------------------------------------------------------------------------
(* The ids that wait in a queue.                                           *)
LEMMA IdsAppend ==
    ASSUME NEW q \in Seq(EventObjects), NEW x \in EventObjects
    PROVE  Ids(Append(q, x)) = Ids(q) \cup {x.id}
<1>1. /\ Len(Append(q, x)) = Len(q) + 1 /\ Len(q) \in Nat
      /\ DOMAIN q = 1..Len(q) /\ DOMAIN Append(q, x) = 1..(Len(q) + 1)
      /\ \A i \in 1..Len(q) : Append(q, x)[i] = q[i]
      /\ Append(q, x)[Len(q) + 1] = x
  BY AppendProperties, LenProperties
<1>2. \A i \in 1..(Len(q) + 1) : i \in 1..Len(q) \/ i = Len(q) + 1
  BY <1>1
<1>3. QED
  BY <1>1, <1>2 DEF Ids

LEMMA IdsTail ==
    ASSUME NEW q \in Seq(EventObjects), q # <<>>
    PROVE  /\ Ids(q) = Ids(Tail(q)) \cup {Head(q).id}
           /\ \A x \in Ids(Tail(q)) : \E i \in DOMAIN q : i > 1 /\ x = q[i].id
<1>1. /\ Len(q) \in Nat \ {0} /\ Head(q) = q[1] /\ Tail(q) \in Seq(EventObjects)
      /\ Len(Tail(q)) = Len(q) - 1
      /\ \A i \in 1..(Len(q) - 1) : Tail(q)[i] = q[i + 1]
  BY HeadTailProperties, EmptySeq, LenProperties
<1>2. DOMAIN q = 1..Len(q) /\ DOMAIN Tail(q) = 1..(Len(q) - 1)
  BY <1>1, LenProperties
<1>3. ASSUME NEW i \in DOMAIN Tail(q)
      PROVE  i + 1 \in DOMAIN q /\ i + 1 > 1 /\ Tail(q)[i].id = q[i + 1].id
  BY <1>1, <1>2
<1>4. ASSUME NEW i \in DOMAIN q, i # 1
      PROVE  i - 1 \in DOMAIN Tail(q) /\ Tail(q)[i - 1].id = q[i].id
  <2> DEFINE j == i - 1
  <2>1. j \in 1..(Len(q) - 1) /\ j + 1 = i
    BY <1>1, <1>2, <1>4
  <2> HIDE DEF j
  <2>2. Tail(q)[j] = q[j + 1]
    BY <1>1, <2>1
  <2>3. QED
    BY <1>2, <2>1, <2>2 DEF j
<1>5. 1 \in DOMAIN q
  BY <1>1, <1>2
<1>6. Ids(q) \subseteq Ids(Tail(q)) \cup {Head(q).id}
  <2>1. ASSUME NEW i \in DOMAIN q PROVE q[i].id \in Ids(Tail(q)) \cup {Head(q).id}
    BY <1>1, <1>4 DEF Ids
  <2>2. QED
    BY <2>1 DEF Ids
<1>7. Ids(Tail(q)) \cup {Head(q).id} \subseteq Ids(q)
  <2>1. Head(q).id \in Ids(q)
    BY <1>1, <1>5 DEF Ids
  <2>2. ASSUME NEW i \in DOMAIN Tail(q) PROVE Tail(q)[i].id \in Ids(q)
    BY <1>3 DEF Ids
  <2>3. QED
    BY <2>1, <2>2 DEF Ids
<1>8. \A x \in Ids(Tail(q)) : \E i \in DOMAIN q : i > 1 /\ x = q[i].id
  <2>1. SUFFICES ASSUME NEW i \in DOMAIN Tail(q)
                 PROVE  \E j \in DOMAIN q : j > 1 /\ Tail(q)[i].id = q[j].id
    BY DEF Ids
  <2>2. QED
    BY <1>3
<1>9. QED
  BY <1>6, <1>7, <1>8

LEMMA IdsRemove ==
    ASSUME NEW q \in Seq(EventObjects), NEW k \in 1..Len(q)
    PROVE  Ids(Removed(q, k)) \subseteq Ids(q) /\ Ids(q) \ {q[k].id} \subseteq Ids(Removed(q, k))
<1> DEFINE r == Removed(q, k)
           n == Len(q)
<1>1. /\ r \in Seq(EventObjects) /\ Len(r) = n - 1
      /\ \A i \in 1..(n - 1) : r[i] = q[IF i < k THEN i ELSE i + 1]
  BY RemoveOne
<1>2. n \in Nat /\ DOMAIN q = 1..n /\ DOMAIN r = 1..(n - 1)
  BY <1>1, LenProperties
<1>3. k \in 1..n
  OBVIOUS
<1> HIDE DEF r, n
<1>4. ASSUME NEW i \in DOMAIN r PROVE \E j \in DOMAIN q : r[i] = q[j]
  <2>1. (IF i < k THEN i ELSE i + 1) \in 1..n
    BY <1>2, <1>3
  <2>2. QED
    BY <1>1, <1>2, <2>1
<1>5. ASSUME NEW j \in DOMAIN q, j # k PROVE \E i \in DOMAIN r : r[i] = q[j]
  <2>1. CASE j < k
    BY <1>1, <1>2, <1>3, <2>1
  <2>2. CASE ~(j < k)
    <3> DEFINE i == j - 1
    <3>1. i \in 1..(n - 1) /\ ~(i < k) /\ i + 1 = j
      BY <1>2, <1>3, <1>5, <2>2
    <3> HIDE DEF i
    <3>2. r[i] = q[j]
      BY <1>1, <3>1
    <3>3. QED
      BY <1>2, <3>1, <3>2
  <2>3. QED
    BY <2>1, <2>2
<1>6. Ids(r) \subseteq Ids(q)
  BY <1>4 DEF Ids
<1>7. Ids(q) \ {q[k].id} \subseteq Ids(r)
  <2> SUFFICES ASSUME NEW j \in DOMAIN q, q[j].id # q[k].id PROVE q[j].id \in Ids(r)
    BY DEF Ids
  <2>1. PICK i \in DOMAIN r : r[i] = q[j]
    BY <1>5
  <2>2. QED
    BY <2>1 DEF Ids
<1>8. QED
  BY <1>6, <1>7 DEF r

(* The waiting ids are numbers.                                            *)
LEMMA IdsNat ==
    ASSUME NEW q \in Seq(EventObjects)
    PROVE  Ids(q) \subseteq Nat
<1>1. \A i \in DOMAIN q : q[i] \in EventObjects
  BY ElementOfSeq, LenProperties
<1>2. QED
  BY <1>1 DEF Ids, EventObjects

-----------------------------------------------------------------------------
(* Posted events.                                                          *)
postVars == <<defer_, process_, item, issued, posted, started, done, owed>>

(* A step that leaves the queues and their history alone.                  *)
LEMMA PostsFrame ==
    ASSUME PostsInv, UNCHANGED postVars
    PROVE  PostsInv'
BY DEF PostsInv, PostedAccounted, IdsBounded, QueueSorted, StartedFirst, KnownStarted,
       postVars, Ids

LEMMA PostsInit == Init => PostsInv
<1> SUFFICES ASSUME Init PROVE PostsInv
  OBVIOUS
<1>1. /\ process_ = <<>> /\ defer_ = <<>> /\ item.id = 0 /\ issued = 0
      /\ posted = {} /\ started = {0}
  BY DEF Init, Start
<1>2. Ids(<<>>) = {}
  BY DEF Ids
<1>3. QED
  BY <1>1, <1>2
  DEF PostsInv, PostedAccounted, IdsBounded, QueueSorted, StartedFirst, KnownStarted

(* The end of an event's processing, with the event still in no queue that  *)
(* shrinks: it is accounted for by done or by owed.                        *)
LEMMA SettleAccounts ==
    ASSUME Settle
    PROVE  done' \cup owed' = done \cup owed \cup {item.id}
BY DEF Settle

(* The step that posts: the new event has the largest id so far.           *)
LEMMA PostEventPosts ==
    ASSUME EngineTypes, PostsInv, PostEvent
    PROVE  PostsInv'
<1> DEFINE x == [on |-> OnEvent(Operation.arg), id |-> issued + 1]
<1>1. /\ process_ \in Seq(EventObjects) /\ issued \in Nat /\ item.id \in Nat
      /\ process_' = Append(process_, x) /\ issued' = issued + 1
      /\ posted' = posted \cup {issued + 1}
      /\ UNCHANGED <<defer_, item, started, done, owed>>
  BY DEF PostEvent, Push, EngineTypes, MemberTypes, DispatchTypes, HistoryTypes, EventObjects
<1>2. x \in EventObjects
  <2>1. Operation \in Operations
    BY HeadTailProperties DEF PostEvent, Running, Operation, EngineTypes, DispatchTypes
  <2>2. QED
    BY <1>1, <2>1, OperationTypes, TriggerTypes DEF PostEvent, Running, EventObjects
<1>3. Ids(process_') = Ids(process_) \cup {issued + 1} /\ Ids(defer_') = Ids(defer_)
  BY <1>1, <1>2, IdsAppend
<1>4. /\ Ids(process_) \subseteq Nat /\ Ids(defer_) \subseteq Nat
      /\ posted \subseteq Nat /\ started \subseteq Nat
  BY <1>1, IdsNat DEF EngineTypes, MemberTypes, HistoryTypes
<1>5. PostedAccounted'
  BY <1>1, <1>3 DEF PostsInv, PostedAccounted
<1>6. IdsBounded'
  BY <1>1, <1>3, <1>4 DEF PostsInv, IdsBounded
<1>7. QueueSorted'
  <2>1. /\ Len(process_) \in Nat /\ DOMAIN process_ = 1..Len(process_)
        /\ DOMAIN process_' = 1..(Len(process_) + 1)
        /\ \A i \in 1..Len(process_) : process_'[i] = process_[i]
        /\ process_'[Len(process_) + 1] = x
    BY <1>1, <1>2, AppendProperties, LenProperties
  <2>2. \A i \in 1..Len(process_) : process_[i].id \in Ids(process_)
    BY <2>1 DEF Ids
  <2>3. \A i \in 1..Len(process_) : process_'[i].id < issued + 1
    BY <1>1, <1>4, <2>1, <2>2 DEF PostsInv, IdsBounded
  <2>4. SUFFICES ASSUME NEW i \in 1..(Len(process_) + 1), NEW j \in 1..(Len(process_) + 1),
                        i < j
                 PROVE  process_'[i].id < process_'[j].id
    BY <2>1 DEF QueueSorted
  <2>5. CASE j \in 1..Len(process_)
    BY <2>1, <2>4, <2>5 DEF PostsInv, QueueSorted
  <2>6. CASE j = Len(process_) + 1
    BY <2>1, <2>3, <2>4, <2>6
  <2>7. QED
    BY <2>1, <2>5, <2>6
<1>8. StartedFirst'
  BY <1>1, <1>3, <1>4 DEF PostsInv, StartedFirst, IdsBounded
<1>9. KnownStarted'
  BY <1>1, <1>3, <1>4 DEF PostsInv, KnownStarted, IdsBounded
<1>10. QED
  BY <1>5, <1>6, <1>7, <1>8, <1>9 DEF PostsInv

(* The step that defers: the event has begun, or its copy is a new object.  *)
LEMMA DeferEventPosts ==
    ASSUME EngineTypes, PostsInv, DeferEvent
    PROVE  PostsInv'
<1>1. /\ defer_ \in Seq(EventObjects) /\ issued \in Nat /\ item \in EventObjects
      /\ posted \subseteq Nat /\ started \subseteq Nat
      /\ Ids(process_) \subseteq Nat /\ Ids(defer_) \subseteq Nat
      /\ UNCHANGED <<process_, item, posted, started, done>>
  BY IdsNat DEF DeferEvent, EngineTypes, MemberTypes, DispatchTypes, HistoryTypes
<1>2. Ids(process_') = Ids(process_)
  BY <1>1
<1>3. CASE defer_processing_
  BY <1>3, PostsFrame DEF DeferEvent, postVars
<1>4. CASE ~defer_processing_ /\ what = "event"
  <2>1. defer_' = Append(defer_, [on |-> Trigger, id |-> item.id]) /\ UNCHANGED <<issued, owed>>
    BY <1>4 DEF DeferEvent, Push
  <2>2. [on |-> Trigger, id |-> item.id] \in EventObjects
    BY <1>1, TriggerType DEF EngineTypes, EventObjects
  <2>3. Ids(defer_') = Ids(defer_) \cup {item.id}
    BY <1>1, <2>1, <2>2, IdsAppend
  <2>4. PostedAccounted' /\ QueueSorted' /\ StartedFirst'
    BY <1>1, <1>2, <2>1 DEF PostsInv, PostedAccounted, QueueSorted, StartedFirst
  <2>5. IdsBounded' /\ KnownStarted'
    BY <1>1, <1>2, <2>1, <2>3 DEF PostsInv, IdsBounded, KnownStarted
  <2>6. QED
    BY <2>4, <2>5 DEF PostsInv
<1>5. CASE ~defer_processing_ /\ what # "event"
  <2>1. /\ defer_' = Append(defer_, [on |-> Trigger, id |-> issued + 1])
        /\ issued' = issued + 1 /\ owed' = owed \cup {issued + 1}
    BY <1>5 DEF DeferEvent, Push
  <2>2. [on |-> Trigger, id |-> issued + 1] \in EventObjects
    BY <1>1, TriggerType DEF EngineTypes, EventObjects
  <2>3. Ids(defer_') = Ids(defer_) \cup {issued + 1}
    BY <1>1, <2>1, <2>2, IdsAppend
  <2>4. PostedAccounted' /\ QueueSorted' /\ StartedFirst'
    BY <1>1, <1>2, <2>1 DEF PostsInv, PostedAccounted, QueueSorted, StartedFirst
  <2>5. IdsBounded'
    <3>1. item.id \in Nat
      BY <1>1 DEF EventObjects
    <3>2. QED
      BY <1>1, <1>2, <2>1, <2>3, <3>1 DEF PostsInv, IdsBounded
  <2>6. KnownStarted'
    BY <1>1, <2>3 DEF PostsInv, IdsBounded, KnownStarted
  <2>7. QED
    BY <2>4, <2>5, <2>6 DEF PostsInv
<1>6. QED
  BY <1>3, <1>4, <1>5

(* The next queued event begins: it is the one with the smallest id.       *)
LEMMA TakeQueuedPosts ==
    ASSUME EngineTypes, PostsInv, TakeQueued
    PROVE  PostsInv'
<1>1. /\ process_ \in Seq(EventObjects) /\ process_ # <<>>
      /\ item' = Head(process_) /\ started' = started \cup {item'.id}
      /\ UNCHANGED <<process_, defer_, issued, posted, done, owed>>
  BY ProcessAndPostTypes DEF TakeQueued, memberVars, EngineTypes, MemberTypes
<1>2. /\ Ids(process_') = Ids(process_) /\ Ids(defer_') = Ids(defer_)
      /\ item'.id \in Ids(process_)
  BY <1>1, IdsTail
<1>3. \A x \in Ids(process_) : item'.id <= x
  <2>1. Ids(process_) \subseteq Nat
    BY <1>1, IdsNat
  <2>2. SUFFICES ASSUME NEW x \in Ids(Tail(process_)) PROVE item'.id <= x
    BY <1>1, <1>2, <2>1, IdsTail
  <2>3. PICK i \in DOMAIN process_ : i > 1 /\ x = process_[i].id
    BY <1>1, IdsTail
  <2>4. 1 \in DOMAIN process_ /\ Head(process_) = process_[1]
    BY <1>1, <2>3, LenProperties
  <2>5. process_[1].id < process_[i].id
    BY <2>3, <2>4 DEF PostsInv, QueueSorted
  <2>6. x \in Nat /\ item'.id \in Nat
    BY <1>1, <1>2, <2>1, IdsTail
  <2>7. QED
    BY <1>1, <2>3, <2>4, <2>5, <2>6
<1>4. PostedAccounted' /\ QueueSorted' /\ KnownStarted'
  BY <1>1, <1>2 DEF PostsInv, PostedAccounted, QueueSorted, KnownStarted
<1>5. IdsBounded'
  BY <1>1, <1>2 DEF PostsInv, IdsBounded
<1>6. StartedFirst'
  BY <1>1, <1>2, <1>3 DEF PostsInv, StartedFirst
<1>7. QED
  BY <1>4, <1>5, <1>6 DEF PostsInv

(* A deferred event begins again: if it was posted, it had begun before.   *)
LEMMA RecallPosts ==
    ASSUME EngineTypes, PostsInv, Recall
    PROVE  PostsInv'
<1>1. /\ item' = defer_[defer_it_] /\ started' = started \cup {item'.id}
      /\ defer_it_ \in DOMAIN defer_
      /\ UNCHANGED <<process_, defer_, issued, posted, done, owed>>
  BY ProcessAndPostTypes, LenProperties DEF Recall, memberVars, EngineTypes, MemberTypes
<1>2. /\ Ids(process_') = Ids(process_) /\ Ids(defer_') = Ids(defer_)
      /\ item'.id \in Ids(defer_)
  BY <1>1 DEF Ids
<1>3. PostedAccounted' /\ QueueSorted' /\ KnownStarted'
  BY <1>1, <1>2 DEF PostsInv, PostedAccounted, QueueSorted, KnownStarted
<1>4. IdsBounded'
  BY <1>1, <1>2 DEF PostsInv, IdsBounded
<1>5. StartedFirst'
  BY <1>1, <1>2 DEF PostsInv, StartedFirst, KnownStarted
<1>6. QED
  BY <1>3, <1>4, <1>5 DEF PostsInv

(* The event of the call has ended.                                        *)
LEMMA EventReturnsPosts ==
    ASSUME PostsInv, EventReturns
    PROVE  PostsInv'
<1>1. UNCHANGED <<process_, defer_, item, issued, posted, started>> /\ Settle
  BY DEF EventReturns, memberVars, dispatchVars, Settle
<1>2. Ids(process_') = Ids(process_) /\ Ids(defer_') = Ids(defer_)
  BY <1>1
<1>3. PostedAccounted'
  BY <1>1, <1>2, SettleAccounts DEF PostsInv, PostedAccounted
<1>4. IdsBounded' /\ QueueSorted' /\ StartedFirst' /\ KnownStarted'
  BY <1>1, <1>2 DEF PostsInv, IdsBounded, QueueSorted, StartedFirst, KnownStarted
<1>5. QED
  BY <1>3, <1>4 DEF PostsInv

(* A recalled event has ended: it is erased or stays where it is.          *)
LEMMA RecallReturnsPosts ==
    ASSUME EngineTypes, RefInv, PostsInv, RecallReturns
    PROVE  PostsInv'
<1>1. UNCHANGED <<process_, item, issued, posted, started>> /\ Settle
  BY DEF RecallReturns, dispatchVars, Settle
<1>2. Ids(process_') = Ids(process_)
  BY <1>1
<1>3. Ids(defer_') \subseteq Ids(defer_)
  <2>1. defer_ \in Seq(EventObjects) /\ defer_it_ \in 1..Len(defer_)
    BY LenProperties
    DEF RecallReturns, EngineTypes, MemberTypes, RefInv, ReferenceStable, Processing
  <2>2. \/ defer_' = defer_
        \/ defer_' = Removed(defer_, defer_it_)
    BY DEF RecallReturns, Removed
  <2>3. QED
    BY <2>1, <2>2, IdsRemove
<1>4. PostedAccounted'
  BY <1>1, <1>2, SettleAccounts DEF PostsInv, PostedAccounted
<1>5. IdsBounded' /\ QueueSorted' /\ StartedFirst' /\ KnownStarted'
  BY <1>1, <1>2, <1>3 DEF PostsInv, IdsBounded, QueueSorted, StartedFirst, KnownStarted
<1>6. QED
  BY <1>4, <1>5 DEF PostsInv

(* A queued event has ended: the pop removes that event and no other.      *)
LEMMA QueuedReturnsPosts ==
    ASSUME EngineTypes, RefInv, PostsInv, QueuedReturns
    PROVE  PostsInv'
<1>1. /\ UNCHANGED <<defer_, item, issued, posted, started>> /\ Settle
      /\ process_' = Tail(process_)
  BY DEF QueuedReturns, Pop, dispatchVars, Settle
<1>2. process_ \in Seq(EventObjects) /\ process_ # <<>> /\ Head(process_) = item
  BY DEF QueuedReturns, EngineTypes, MemberTypes, RefInv, ReferenceStable, Processing
<1>3. Ids(process_) = Ids(process_') \cup {item.id} /\ Ids(defer_') = Ids(defer_)
  BY <1>1, <1>2, IdsTail
<1>4. PostedAccounted'
  BY <1>1, <1>3, SettleAccounts DEF PostsInv, PostedAccounted
<1>5. IdsBounded' /\ StartedFirst' /\ KnownStarted'
  BY <1>1, <1>3 DEF PostsInv, IdsBounded, StartedFirst, KnownStarted
<1>6. QueueSorted'
  <2>1. /\ Len(process_) \in Nat /\ DOMAIN process_ = 1..Len(process_)
        /\ DOMAIN process_' = 1..(Len(process_) - 1)
        /\ \A i \in 1..(Len(process_) - 1) : process_'[i] = process_[i + 1]
    BY <1>1, <1>2, HeadTailProperties, LenProperties
  <2>2. SUFFICES ASSUME NEW i \in 1..(Len(process_) - 1), NEW j \in 1..(Len(process_) - 1),
                        i < j
                 PROVE  process_'[i].id < process_'[j].id
    BY <2>1 DEF QueueSorted
  <2>3. i + 1 \in DOMAIN process_ /\ j + 1 \in DOMAIN process_ /\ i + 1 < j + 1
    BY <2>1, <2>2
  <2>4. process_[i + 1].id < process_[j + 1].id
    BY <2>3 DEF PostsInv, QueueSorted
  <2>5. QED
    BY <2>1, <2>4
<1>7. QED
  BY <1>4, <1>5, <1>6 DEF PostsInv

(* A call begins with an event of its own.                                 *)
LEMMA CallPosts ==
    ASSUME EngineTypes, PostsInv, NEW e \in Events, Call(e)
    PROVE  PostsInv'
<1>1. /\ item' = [on |-> CallTrigger(e), id |-> issued + 1] /\ issued' = issued + 1
      /\ started' = started \cup {item'.id}
      /\ UNCHANGED <<process_, defer_, posted, done, owed>>
  BY ProcessAndPostTypes DEF Call, BeginCall, memberVars
<1>2. /\ Ids(process_') = Ids(process_) /\ Ids(defer_') = Ids(defer_)
      /\ item'.id = issued + 1 /\ issued \in Nat
      /\ Ids(process_) \subseteq Nat /\ Ids(defer_) \subseteq Nat
      /\ posted \subseteq Nat /\ started \subseteq Nat
  BY <1>1, IdsNat DEF EngineTypes, MemberTypes, HistoryTypes
<1>3. PostedAccounted' /\ QueueSorted'
  BY <1>1, <1>2 DEF PostsInv, PostedAccounted, QueueSorted
<1>4. IdsBounded'
  BY <1>1, <1>2 DEF PostsInv, IdsBounded
<1>5. StartedFirst'
  BY <1>1, <1>2 DEF PostsInv, IdsBounded, StartedFirst
<1>6. KnownStarted'
  BY <1>1, <1>2 DEF PostsInv, KnownStarted
<1>7. QED
  BY <1>3, <1>4, <1>5, <1>6 DEF PostsInv

LEMMA PostsStep == EngineTypes /\ RefInv /\ PostsInv /\ [Step]_vars => PostsInv'
<1> SUFFICES ASSUME EngineTypes, RefInv, PostsInv, [Step]_vars
             PROVE  PostsInv'
  OBVIOUS
<1>1. ASSUME \/ \E i \in Candidates : RowFires(i)
             \/ NoRowFires \/ UpdateState \/ CallReturns \/ RowDone
      PROVE  PostsInv'
  BY <1>1, PostsFrame
  DEF RowFires, NoRowFires, UpdateState, CallReturns, RowDone,
      postVars, memberVars, ghostVars
<1>2. ASSUME GuardThrows \/ ActionThrows PROVE PostsInv'
  BY <1>2, PostsFrame
  DEF GuardThrows, ActionThrows, Unwind, postVars, memberVars, dispatchVars, ghostVars
<1>3. ASSUME Dispatched \/ Recheck \/ RecallDone \/ QueueDone PROVE PostsInv'
  BY <1>3, PostsFrame
  DEF Dispatched, Recheck, RecallDone, QueueDone, postVars, memberVars, dispatchVars,
      ghostVars
<1>4. CASE UNCHANGED vars
  BY <1>4, PostsFrame DEF vars, postVars, memberVars, dispatchVars, ghostVars
<1>5. QED
  BY <1>1, <1>2, <1>3, <1>4, PostEventPosts, DeferEventPosts, TakeQueuedPosts, RecallPosts,
     EventReturnsPosts, RecallReturnsPosts, QueuedReturnsPosts, CallPosts
  DEF Step, Engine, Lookup, Execute, Loops

(* The inductive invariant of the posted events.                           *)
THEOREM PostsInvariant == EngineSpec => []PostsInv
<1>1. EngineTypes /\ RefInv /\ [Step]_vars => (EngineTypes /\ RefInv)'
  BY TypeStep, RefStep DEF RefInv
<1>2. QED
  BY <1>1, TypesAndReferences, PostsInit, PostsStep, PTL DEF EngineSpec

(* front::actions::process: no posted event is lost, whatever the table     *)
(* does and wherever exceptions leave process_event.                       *)
THEOREM PostsAccounted == Spec => []PostsInv
BY EngineUsed, PostsInvariant, PTL

(* process_queued_events: posted events begin in the order of their posting, *)
(* one after the other.                                                    *)
THEOREM PostsOrdered == Spec => []PostsInOrder
<1>1. EngineTypes /\ PostsInv => PostsInOrder
  <2> SUFFICES ASSUME EngineTypes, PostsInv, NEW p \in posted, NEW q \in posted,
                      p < q, q \in started, p \in Ids(process_)
               PROVE  FALSE
    BY DEF PostsInOrder, PostsInv, PostedAccounted
  <2>1. p \in Nat /\ q \in Nat
    BY DEF EngineTypes, HistoryTypes
  <2>2. q <= p
    BY DEF PostsInv, StartedFirst
  <2>3. QED
    BY <2>1, <2>2
<1>2. QED
  BY <1>1, EngineUsed, TypesAndReferences, PostsInvariant, PTL
=============================================================================
