-------------------------------- MODULE SmImpl --------------------------------
(***************************************************************************)
(* The run-to-completion engine of boost::sml: one back::sm_impl           *)
(* (src/include/boost/sml.hpp) with its process queue and its defer queue, *)
(* without sub state machines and without exception<> rows, so that an     *)
(* exception thrown by a guard or an action leaves process_event.          *)
(*                                                                         *)
(* The engine is synchronous code on the caller's stack.  Its control is   *)
(* the variable pc, its loops are walked one step at a time, and the       *)
(* locals of the C++ functions are variables that mean something only      *)
(* while the function is active.                                           *)
(***************************************************************************)
EXTENDS TransitionTable, FiniteSets

CONSTANTS
    Tables,     \* the transition tables the machine may be built from
    MaxIssued   \* no new call once this many event objects were created

(* Entry and exit rows have no guard and no target, only the reactions to   *)
(* an event, its completion or nothing defer, and what is posted is known.  *)
ASSUME TablesAssumption ==
    \A t \in Tables :
        /\ t \in TransitionTables
        /\ \A i \in DOMAIN t.rows :
              LET row == t.rows[i]
                  ops == {row.action[n] : n \in DOMAIN row.action}
              IN  /\ row.on.kind \in {"on_entry", "on_exit"} =>
                        row.guard = {"true"} /\ row.to = Internal
                  /\ Defer \in ops =>
                        row.on.kind \in {"event", "completion", "anonymous"}
                  /\ \A e \in Events : Process(e) \in ops => Known(t, e)
ASSUME MaxIssuedAssumption == MaxIssued \in Nat

VARIABLES
    table,              \* transitions_, fixed at construction
    current_state_,     \* region -> state
    defer_,             \* deferred event objects, oldest first
    process_,           \* posted event objects, oldest first
    defer_processing_, defer_again_,
    defer_it_           \* position in defer_; defer_end_ is always Len + 1

VARIABLES
    pc,                 \* where control is
    caller,             \* who called process_event_and_post_events
    item,               \* the event object that call was made with
    what,               \* "event" itself, its "completion", or "anonymous"
    region, stage,      \* the dispatch over the regions
    fired,              \* the row that fired last in this dispatch, or 0
    todo,               \* operations of the firing row still to run
    accepted,           \* handled, in process_event_impl
    handled             \* handled, in process_event_and_post_events

VARIABLES
    event_handled, queued_handled, old,          \* process_event
    defer_old, processed_events, wasnt_empty,    \* the two queue loops
    result                                       \* how the last call ended, or is going on

VARIABLES               \* history, read by no action
    issued,             \* number of event objects created so far
    posted,             \* ids of the events posted with process
    started,            \* ids of the event objects whose processing began
    done,               \* ids whose processing ended without deferral
    owed,               \* ids whose processing ended with a deferral
    deferring,          \* the event in processing ran a defer action
    unexpected_ran,     \* an unexpected_event row fired in this dispatch
    before              \* current_state_ when this dispatch began

memberVars   == <<table, current_state_, defer_, process_,
                  defer_processing_, defer_again_, defer_it_>>
dispatchVars == <<caller, item, what, region, stage, fired, todo, accepted, handled>>
loopVars     == <<event_handled, queued_handled, old,
                  defer_old, processed_events, wasnt_empty>>
ghostVars    == <<issued, posted, started, done, owed, deferring, unexpected_ran, before>>
vars == <<memberVars, pc, dispatchVars, loopVars, result, ghostVars>>

EventObjects == [on : Triggers, id : Nat]
Start == [on |-> OnEntry, id |-> 0]     \* on_entry<_, initial>

-----------------------------------------------------------------------------
(* process_internal_events on the current item or on one of its post       *)
(* events: the dispatch of a trigger over all regions.                     *)

Trigger ==
    IF what = "event" THEN item.on
    ELSE IF what = "completion" THEN OnCompletion(item.on.ev)
    ELSE OnAnonymous

(* A region whose state has no row for a user event goes through the       *)
(* unexpected_event rows first, if the table has any (transitions<true>).  *)
FirstStage(t, on, s) ==
    IF on.kind = "event" /\ HasUnexpected(t) /\ StateRows(t, on, s) = {}
    THEN "unexpected" ELSE "rows"

StageTrigger ==
    IF stage = "unexpected" THEN OnUnexpected(item.on.ev)
    ELSE IF stage = "unexpected_any" THEN OnUnexpectedAny
    ELSE Trigger

Candidates ==
    AnyRows(table, StageTrigger)
      \cup (IF stage = "any" THEN {}
            ELSE StateRows(table, StageTrigger, current_state_[region]))

(* Start the dispatch of trigger "on" (the trigger of w) in region 1.      *)
DispatchFirst(w, on) ==
    /\ what' = w
    /\ region' = 1
    /\ stage' = FirstStage(table, on, current_state_[1])
    /\ accepted' = FALSE
    /\ fired' = 0
    /\ unexpected_ran' = FALSE
    /\ before' = current_state_
    /\ pc' = "lookup"

(* process_event_and_post_events(x), called by c.                          *)
ProcessAndPost(c, x) ==
    /\ caller' = c
    /\ item' = x
    /\ todo' = <<>>
    /\ handled' = FALSE
    /\ deferring' = FALSE
    /\ started' = started \cup {x.id}
    /\ DispatchFirst("event", x.on)

(* After a region: the next one, with the state it has now.                *)
NextRegion ==
    IF region < NumRegions
    THEN /\ region' = region + 1
         /\ stage' = FirstStage(table, Trigger, current_state_[region + 1])
         /\ pc' = "lookup"
    ELSE /\ pc' = "dispatched"
         /\ UNCHANGED <<region, stage>>

(* After an unexpected_event row the rows of state<_> are still tried.     *)
AfterUnexpected == stage' = "any" /\ pc' = "lookup" /\ UNCHANGED region

(* transition::execute of row i: its guard says yes.                       *)
RowFires(i) ==
    /\ pc = "lookup"
    /\ Reached(table, Candidates, i)
    /\ "true" \in table.rows[i].guard
    /\ todo' = Execution(table, i, current_state_[region])
    /\ fired' = i
    /\ unexpected_ran' = (unexpected_ran \/ stage \in {"unexpected", "unexpected_any"})
    /\ pc' = "run"
    /\ UNCHANGED <<memberVars, caller, item, what, region, stage, accepted, handled,
                   loopVars, result, issued, posted, started, done, owed, deferring, before>>

(* No row of the stage fires.                                              *)
NoRowFires ==
    /\ pc = "lookup"
    /\ \A i \in Candidates : "false" \in table.rows[i].guard
    /\ \/ stage = "unexpected" /\ stage' = "unexpected_any" /\ UNCHANGED <<pc, region>>
       \/ stage = "unexpected_any" /\ AfterUnexpected
       \/ stage \in {"rows", "any"} /\ NextRegion
    /\ UNCHANGED <<memberVars, caller, item, what, fired, todo, accepted, handled,
                   loopVars, result, ghostVars>>

-----------------------------------------------------------------------------
(* The operations of the firing row, in order.                             *)

Operation == Head(todo)
Running(op) == pc = "run" /\ todo # <<>> /\ Operation.op = op

(* Mistakes in the code below, for the mutants of PROJECT.json.            *)
PushFront(q, x) == <<x>> \o q

(* The queues: std::queue::push and pop, std::deque::push_back.            *)
Push(q, x) == Append(q, x)
Pop(q)     == Tail(q)

(* update_current_state *)
UpdateState ==
    /\ Running("update")
    /\ current_state_' = [current_state_ EXCEPT ![region] = Operation.arg]
    /\ todo' = Tail(todo)
    /\ UNCHANGED <<table, defer_, process_, defer_processing_, defer_again_, defer_it_,
                   pc, caller, item, what, region, stage, fired, accepted, handled,
                   loopVars, result, ghostVars>>

(* front::actions::process: a copy of the event goes to the process queue. *)
PostEvent ==
    /\ Running("process")
    /\ process_' = Push(process_, [on |-> OnEvent(Operation.arg), id |-> issued + 1])
    /\ issued' = issued + 1
    /\ posted' = posted \cup {issued + 1}
    /\ todo' = Tail(todo)
    /\ UNCHANGED <<table, current_state_, defer_, defer_processing_, defer_again_,
                   defer_it_, pc, caller, item, what, region, stage, fired, accepted,
                   handled, loopVars, result, started, done, owed, deferring,
                   unexpected_ran, before>>

(* front::actions::defer: while the defer queue is being processed only a   *)
(* flag is set, otherwise a copy of the event being dispatched is stored.   *)
(* The copy of an anonymous or completion event is an object of its own.    *)
DeferEvent ==
    /\ Running("defer")
    /\ IF defer_processing_
       THEN /\ defer_again_' = TRUE
            /\ UNCHANGED <<defer_, issued, owed>>
       ELSE /\ defer_' = Push(defer_, [on |-> Trigger,
                                       id |-> IF what = "event" THEN item.id
                                              ELSE issued + 1])
            /\ issued' = (IF what = "event" THEN issued ELSE issued + 1)
            /\ owed' = (IF what = "event" THEN owed ELSE owed \cup {issued + 1})
            /\ UNCHANGED defer_again_
    /\ deferring' = (deferring \/ what = "event")
    /\ todo' = Tail(todo)
    /\ UNCHANGED <<table, current_state_, process_, defer_processing_, defer_it_, pc,
                   caller, item, what, region, stage, fired, accepted, handled,
                   loopVars, result, posted, started, done, unexpected_ran, before>>

(* User code that could throw and does not.                                *)
CallReturns ==
    /\ Running("call")
    /\ todo' = Tail(todo)
    /\ UNCHANGED <<memberVars, pc, caller, item, what, region, stage, fired, accepted,
                   handled, loopVars, result, ghostVars>>

(* The row is executed; an unexpected_event row does not count as handled. *)
RowDone ==
    /\ pc = "run"
    /\ todo = <<>>
    /\ IF stage \in {"unexpected", "unexpected_any"}
       THEN AfterUnexpected /\ UNCHANGED accepted
       ELSE NextRegion /\ accepted' = TRUE
    /\ UNCHANGED <<memberVars, caller, item, what, fired, todo, handled,
                   loopVars, result, ghostVars>>

(* An exception leaves process_event.  The locals are gone, the members     *)
(* stay as they are; a constructor that throws leaves no object behind.     *)
Unwind(by) ==
    /\ pc' = (IF result = "constructing" THEN "destroyed" ELSE "ready")
    /\ result' = by
    /\ UNCHANGED <<memberVars, dispatchVars, loopVars, ghostVars>>

GuardThrows ==
    /\ pc = "lookup"
    /\ \E i \in Candidates : Reached(table, Candidates, i)
                               /\ "throws" \in table.rows[i].guard
    /\ Unwind("guard_threw")

ActionThrows ==
    /\ Running("call")
    /\ Unwind("action_threw")

-----------------------------------------------------------------------------
(* process_event_and_post_events after a dispatch: the event's own result   *)
(* is kept, then completion<E> and, failing that, anonymous are dispatched  *)
(* for as long as one of them is handled.                                   *)

HasCompletion ==
    item.on.kind = "event" /\ Mentions(table, OnCompletion(item.on.ev))

PostEventStep ==
    IF (what = "event" \/ accepted) /\ HasCompletion THEN "completion"
    ELSE IF what = "anonymous" /\ ~accepted THEN "none"
    ELSE IF Mentions(table, OnAnonymous) THEN "anonymous"
    ELSE "none"

Dispatched ==
    /\ pc = "dispatched"
    /\ handled' = (IF what = "event" THEN accepted ELSE handled)
    /\ \/ /\ PostEventStep = "completion"
          /\ DispatchFirst("completion", OnCompletion(item.on.ev))
       \/ /\ PostEventStep = "anonymous"
          /\ DispatchFirst("anonymous", OnAnonymous)
       \/ /\ PostEventStep = "none"
          /\ pc' = "returned"
          /\ UNCHANGED <<what, region, stage, accepted, fired, unexpected_ran, before>>
    /\ UNCHANGED <<memberVars, caller, item, todo, loopVars, result,
                   issued, posted, started, done, owed, deferring>>

(* History: the processing of item has ended.                              *)
Settle ==
    /\ done' = (IF deferring THEN done ELSE done \cup {item.id})
    /\ owed' = (IF deferring THEN owed \cup {item.id} ELSE owed \ {item.id})
    /\ UNCHANGED <<issued, posted, started, deferring, unexpected_ran, before>>

(* Back in process_event.                                                  *)
EventReturns ==
    /\ pc = "returned"
    /\ caller = "process_event"
    /\ event_handled' = handled
    /\ pc' = "recheck"
    /\ Settle
    /\ UNCHANGED <<memberVars, dispatchVars, queued_handled, old,
                   defer_old, processed_events, wasnt_empty, result>>

(* process_event: changed = (old != current_state_[0]), the state of the    *)
(* first region only, then process_defer_events(changed).                   *)
Recheck ==
    /\ pc = "recheck"
    /\ old' = current_state_[1]
    /\ IF old # current_state_[1]
       THEN /\ defer_processing_' = TRUE
            /\ defer_again_' = FALSE
            /\ defer_it_' = 1
            /\ defer_old' = current_state_[1]
            /\ processed_events' = FALSE
            /\ pc' = "recall"
            /\ UNCHANGED wasnt_empty
       ELSE /\ wasnt_empty' = (process_ # <<>>)
            /\ pc' = "queue"
            /\ UNCHANGED <<defer_processing_, defer_again_, defer_it_,
                           defer_old, processed_events>>
    /\ UNCHANGED <<table, current_state_, defer_, process_, dispatchVars,
                   event_handled, queued_handled, result, ghostVars>>

(* process_defer_events: the event at defer_it_ is processed in place.     *)
Recall ==
    /\ pc = "recall"
    /\ defer_it_ <= Len(defer_)
    /\ ProcessAndPost("process_defer_events", defer_[defer_it_])
    /\ UNCHANGED <<memberVars, loopVars, result, issued, posted, done, owed>>

(* Mistakes in the code below, for the mutants of PROJECT.json.            *)
KeptNever   == FALSE
KeptHandled == handled
NeverMoved  == FALSE
FromTheStart == 1

(* process_event_no_defer: an event deferred again stays in its place,      *)
(* any other is erased ...                                                 *)
Kept == handled /\ defer_again_

(* ... and a changed state restarts the scan.                              *)
Moved == defer_old # current_state_[1]

NextPosition ==
    IF Moved THEN 1
    ELSE IF Kept THEN defer_it_ + 1 ELSE defer_it_

RecallReturns ==
    /\ pc = "returned"
    /\ caller = "process_defer_events"
    /\ defer_' = (IF Kept THEN defer_
                  ELSE SubSeq(defer_, 1, defer_it_ - 1)
                         \o SubSeq(defer_, defer_it_ + 1, Len(defer_)))
    /\ defer_it_' = NextPosition
    /\ processed_events' = (processed_events \/ handled)
    /\ defer_again_' = FALSE
    /\ defer_old' = current_state_[1]
    /\ pc' = "recall"
    /\ Settle
    /\ UNCHANGED <<table, current_state_, process_, defer_processing_, dispatchVars,
                   event_handled, queued_handled, old, wasnt_empty, result>>

RecallDone ==
    /\ pc = "recall"
    /\ defer_it_ > Len(defer_)
    /\ defer_processing_' = FALSE
    /\ IF processed_events
       THEN pc' = "recheck" /\ UNCHANGED wasnt_empty
       ELSE pc' = "queue" /\ wasnt_empty' = (process_ # <<>>)
    /\ UNCHANGED <<table, current_state_, defer_, process_, defer_again_, defer_it_,
                   dispatchVars, event_handled, queued_handled, old, defer_old,
                   processed_events, result, ghostVars>>

(* process_queued_events: the front is processed where it is ...           *)
TakeQueued ==
    /\ pc = "queue"
    /\ process_ # <<>>
    /\ ProcessAndPost("process_queued_events", Head(process_))
    /\ UNCHANGED <<memberVars, loopVars, result, issued, posted, done, owed>>

(* ... and popped afterwards.                                              *)
QueuedReturns ==
    /\ pc = "returned"
    /\ caller = "process_queued_events"
    /\ queued_handled' = (queued_handled /\ handled)
    /\ process_' = Pop(process_)
    /\ pc' = "queue"
    /\ Settle
    /\ UNCHANGED <<table, current_state_, defer_, defer_processing_, defer_again_,
                   defer_it_, dispatchVars, event_handled, old, defer_old,
                   processed_events, wasnt_empty, result>>

(* A mistake in the code below, for the mutants of PROJECT.json: "if" where *)
(* the code has "while".                                                   *)
QueueDoneOnce ==
    /\ pc = "queue"
    /\ pc' = "ready"
    /\ result' = (IF event_handled /\ queued_handled THEN "true" ELSE "false")
    /\ UNCHANGED <<memberVars, dispatchVars, loopVars, ghostVars>>

(* The queue is empty: look at the deferred events again if it was not,     *)
(* otherwise process_event returns.                                         *)
QueueDone ==
    /\ pc = "queue"
    /\ process_ = <<>>
    /\ IF wasnt_empty
       THEN pc' = "recheck" /\ UNCHANGED result
       ELSE /\ pc' = "ready"
            /\ result' = (IF event_handled /\ queued_handled THEN "true" ELSE "false")
    /\ UNCHANGED <<memberVars, dispatchVars, loopVars, ghostVars>>

-----------------------------------------------------------------------------
(* The constructor initializes the regions and calls start, which is        *)
(* process_event(on_entry<_, initial>).                                     *)
Init ==
    /\ table \in Tables
    /\ current_state_ = table.initial
    /\ defer_ = <<>> /\ process_ = <<>>
    /\ defer_processing_ = FALSE /\ defer_again_ = FALSE /\ defer_it_ = 1
    /\ pc = "lookup"
    /\ caller = "process_event" /\ item = Start /\ what = "event"
    /\ region = 1 /\ stage = "rows" /\ fired = 0 /\ todo = <<>>
    /\ accepted = FALSE /\ handled = FALSE
    /\ event_handled = FALSE /\ queued_handled = TRUE /\ old = current_state_[1]
    /\ defer_old = current_state_[1] /\ processed_events = FALSE
    /\ wasnt_empty = FALSE
    /\ result = "constructing"
    /\ issued = 0 /\ posted = {} /\ started = {0} /\ done = {} /\ owed = {}
    /\ deferring = FALSE /\ unexpected_ran = FALSE /\ before = current_state_

(* sm::process_event; an event that no row names is wrapped into            *)
(* unexpected_event<_>.  The machine is not thread safe here and not        *)
(* re-entered: the call is made while none is active.                      *)
CallTrigger(e) == IF Known(table, e) THEN OnEvent(e) ELSE OnUnexpectedAny

BeginCall(on) ==
    /\ old' = current_state_[1]
    /\ queued_handled' = TRUE
    /\ result' = "pending"
    /\ issued' = issued + 1
    /\ ProcessAndPost("process_event", [on |-> on, id |-> issued + 1])
    /\ UNCHANGED <<memberVars, event_handled, defer_old, processed_events,
                   wasnt_empty, posted, done, owed>>

Call(e) == pc = "ready" /\ BeginCall(CallTrigger(e))

(* The same with the bound on the number of calls.                         *)
ProcessEvent(e) == issued < MaxIssued /\ Call(e)

(* The user makes no further call, or no object was constructed.           *)
Idle ==
    /\ \/ pc = "destroyed"
       \/ pc = "ready" /\ issued >= MaxIssued
    /\ UNCHANGED vars

Lookup == (\E i \in Candidates : RowFires(i)) \/ NoRowFires \/ GuardThrows

Execute == UpdateState \/ PostEvent \/ DeferEvent \/ CallReturns
             \/ ActionThrows \/ RowDone

Loops == Dispatched \/ EventReturns \/ Recheck \/ Recall \/ RecallReturns
           \/ RecallDone \/ TakeQueued \/ QueuedReturns \/ QueueDone

Engine == Lookup \/ Execute \/ Loops

Next == Engine \/ (\E e \in Events : ProcessEvent(e)) \/ Idle

Spec == Init /\ [][Next]_vars

(* The machine without the bound, for the proofs.                          *)
Step == Engine \/ \E e \in Events : Call(e)

EngineSpec == Init /\ [][Step]_vars

(* The engine runs on the thread of its caller, which nothing but user code *)
(* that does not return could stop; whether a call is made is the user's    *)
(* choice.                                                                  *)
FairSpec == Spec /\ WF_vars(Engine)
-----------------------------------------------------------------------------
(* Every variable has the shape the code gives it.                         *)
MemberTypes ==
    /\ table \in TransitionTables
    /\ current_state_ \in [Regions -> States]
    /\ defer_ \in Seq(EventObjects) /\ process_ \in Seq(EventObjects)
    /\ defer_processing_ \in BOOLEAN /\ defer_again_ \in BOOLEAN
    /\ defer_it_ \in Nat \ {0}

DispatchTypes ==
    /\ pc \in {"lookup", "run", "dispatched", "returned", "recheck", "recall",
               "queue", "ready", "destroyed"}
    /\ item \in EventObjects
    /\ what \in {"event", "completion", "anonymous"}
    /\ what = "completion" => item.on.kind = "event"
    /\ region \in Regions
    /\ stage \in {"rows", "unexpected", "unexpected_any", "any"}
    /\ fired \in Nat
    /\ todo \in Seq(Operations)
    /\ accepted \in BOOLEAN /\ handled \in BOOLEAN

LoopTypes ==
    /\ event_handled \in BOOLEAN /\ queued_handled \in BOOLEAN
    /\ old \in States /\ defer_old \in States
    /\ processed_events \in BOOLEAN /\ wasnt_empty \in BOOLEAN
    /\ result \in {"constructing", "pending", "true", "false",
                   "guard_threw", "action_threw"}

HistoryTypes ==
    /\ issued \in Nat
    /\ posted \subseteq Nat /\ started \subseteq Nat
    /\ done \subseteq Nat /\ owed \subseteq Nat
    /\ deferring \in BOOLEAN /\ unexpected_ran \in BOOLEAN
    /\ before \in [Regions -> States]

(* A sub machine has a caller more.                                        *)
CallerType ==
    caller \in {"process_event", "process_defer_events", "process_queued_events"}

EngineTypes == MemberTypes /\ DispatchTypes /\ LoopTypes /\ HistoryTypes

TypeOK == EngineTypes /\ CallerType

Ids(q) == {q[i].id : i \in DOMAIN q}

(* Guards and actions get a reference to the event object in its queue, and *)
(* process_event_no_defer uses defer_it_ after they have run: as long as    *)
(* the event is processed, the object is the front of the process queue, or *)
(* the one at defer_it_, whatever they post or defer meanwhile.             *)
Processing == pc \in {"lookup", "run", "dispatched", "returned"}

ReferenceStable ==
    /\ Processing /\ caller = "process_queued_events" =>
          process_ # <<>> /\ Head(process_) = item
    /\ Processing /\ caller = "process_defer_events" =>
          /\ defer_processing_
          /\ defer_it_ <= Len(defer_)
          /\ defer_[defer_it_] = item

(* An event posted with process is never lost: until its processing has     *)
(* ended it is in the process queue, even when exceptions leave the engine  *)
(* in the middle of the queue.                                              *)
PostedAccounted == \A p \in posted : p \in done \cup owed \cup Ids(process_)

(* Posted events are processed in the order they were posted: none begins   *)
(* before every earlier one has ended, whatever reaction posted it and      *)
(* whichever calls were cut short by an exception.                          *)
PostsInOrder ==
    \A p, q \in posted : p < q /\ q \in started => p \in done \cup owed

(* The strengthening that makes PostedAccounted and PostsInOrder inductive. *)

(* Event objects are numbered in the order of their creation ...           *)
IdsBounded ==
    /\ item.id <= issued
    /\ \A x \in posted \cup started \cup Ids(process_) \cup Ids(defer_) : x <= issued

(* ... and wait in that order.                                             *)
QueueSorted ==
    \A i, j \in DOMAIN process_ : i < j => process_[i].id < process_[j].id

(* No waiting event was posted before one that has begun.                  *)
StartedFirst ==
    \A q \in posted \cap started : \A x \in Ids(process_) : q <= x

(* An event is processed, and may be deferred, only once it has begun.     *)
KnownStarted ==
    /\ item.id \in started
    /\ \A x \in Ids(defer_) \cap posted : x \in started

PostsInv ==
    PostedAccounted /\ IdsBounded /\ QueueSorted
      /\ StartedFirst /\ KnownStarted

(* A call that returns normally has emptied the process queue, even when an  *)
(* exception left the calls before it in the middle of the queue ...       *)
Drained == result \in {"true", "false"} => process_ = <<>>

(* ... and leaves nothing half done: the engine is not in its deferred       *)
(* events mode, which only an exception can leave switched on.             *)
NeverThrows ==
    \A i \in DOMAIN table.rows :
       /\ "throws" \notin table.rows[i].guard
       /\ \A n \in DOMAIN table.rows[i].action : table.rows[i].action[n] # UserCall

Quiescent ==
    /\ Drained
    /\ result \in {"true", "false"} /\ NeverThrows => ~defer_processing_

(* An event that was deferred stays in the defer queue until a later        *)
(* processing of it ends without deferring it again.                        *)
DeferredKept == owed \subseteq Ids(defer_)

(* An event whose processing has ended without a deferral is not processed  *)
(* a second time: neither the restarts of the scan of the defer queue nor   *)
(* the loops over both queues deliver it again.  Where several regions       *)
(* react an exception breaks this: it leaves a posted event, which one      *)
(* region has deferred already, at the front of the process queue as well.  *)
(* It is about rows that defer once: each defer stores an event of its own.  *)
OneRegionReacts ==
    \A r \in Regions \ {1} : \A i \in DOMAIN table.rows :
       table.rows[i].src \notin {AnyState, table.initial[r]}

AtMostOnce ==
    pc = "lookup" /\ what = "event" /\ (NeverThrows \/ OneRegionReacts) =>
       item.id \notin done

(* Deferred events keep their order of arrival.                            *)
DeferInOrder ==
    \A i, j \in DOMAIN defer_ : i < j => defer_[i].id < defer_[j].id

(* When a call returns, every event still deferred is one that the current  *)
(* state defers: nothing waits that the state it waits in would process.    *)
RecallComplete ==
    result \in {"true", "false"} =>
       \A i \in DOMAIN defer_ : \E r \in Regions :
          LET C == StateRows(table, defer_[i].on, current_state_[r])
                     \cup AnyRows(table, defer_[i].on)
          IN  \E k \in C : Reached(table, C, k)
                              /\ Defer \in {table.rows[k].action[n] :
                                            n \in DOMAIN table.rows[k].action}

(* doc/overview.md, Exception Safety: after a guard threw the machine is in *)
(* the state it was in.                                                    *)
GuardThrowKeepsState == result = "guard_threw" => current_state_ = before

(* doc/tutorial.md, Handle errors: unexpected_event is fired when the       *)
(* machine cannot handle the event.                                         *)
UnexpectedOnlyIfUnhandled ==
    pc = "dispatched" /\ unexpected_ran => ~accepted

(* Every call ends: the loops over post events, deferred events and posted  *)
(* events terminate.                                                        *)
Returns == [](pc # "ready" => <>(pc = "ready"))
=============================================================================
