------------------------------ MODULE Composite ------------------------------
(***************************************************************************)
(* A state machine one of whose states is a state machine: the sub machine *)
(* is the engine of SmImpl with its own defer queue, the outer machine has *)
(* one region and calls it from the rows of the state Sub                  *)
(* (transitions_sub and update_composite_states, src/include/boost/sml.hpp).*)
(*                                                                         *)
(* The outer machine runs on the same stack: while the sub machine is      *)
(* active the outer one waits in one of the calls below.  The tables of    *)
(* the sub machine post nothing (process pushes to the outermost queue)    *)
(* and throw nothing; the rows of the outer machine have guards but their  *)
(* actions do nothing to either machine.                                   *)
(***************************************************************************)
EXTENDS SmImpl

CONSTANTS
    Outers,      \* [initial, rows] of the outer machines
    OuterStates, \* their states, Sub and Terminate among them
    Sub,         \* the composite state
    Terminate,   \* terminate_state, X, of both machines
    Histories,   \* sets of regions of the sub machine declared with (H)
    MaxCalls     \* bound: calls of process_event on the outer machine

ASSUME OuterStatesAssumption ==
    {Sub, Terminate} \subseteq OuterStates /\ Sub # Terminate /\ Internal \notin OuterStates
ASSUME OutersAssumption ==
    \A o \in Outers :
        /\ o.initial \in OuterStates \ {Terminate}
        /\ o.rows \in Seq([src : OuterStates, on : Triggers,
                           guard : {{"true"}, {"true", "false"}}, action : {<<>>},
                           to : OuterStates \cup {Internal}])
        /\ \A i \in DOMAIN o.rows : o.rows[i].on.kind \in {"event", "anonymous"}
ASSUME SubTablesAssumption ==
    \A t \in Tables : \A i \in DOMAIN t.rows :
        /\ t.rows[i].on.kind \in {"event", "anonymous", "on_entry", "on_exit"}
        /\ "throws" \notin t.rows[i].guard
        /\ \A n \in DOMAIN t.rows[i].action : t.rows[i].action[n] = Defer
        /\ t.rows[i].action # <<>> => t.rows[i].on.kind = "event"
ASSUME HistoriesAssumption == Histories \subseteq SUBSET Regions
ASSUME MaxCallsAssumption == MaxCalls \in Nat

VARIABLES
    outer_table, history,   \* fixed at construction
    outer,                  \* current_state_[0] of the outer machine
    at,                     \* where the outer machine is
    cause,                  \* what it dispatches: an event or anonymous
    chosen,                 \* the row of it that fires
    sub_handled,            \* the sub machine's answer
    answer,                 \* handled, in the outer process_internal_events
    calls

VARIABLES                   \* history, read by no action
    left,                   \* the sub machine's states when Sub was left
    visit                   \* issued, when Sub was last entered

outerVars == <<outer_table, history, outer, at, cause, chosen, sub_handled,
               answer, calls, left, visit>>
subVars == vars
allVars == <<vars, outerVars>>

-----------------------------------------------------------------------------
(* Calls into the sub machine.                                             *)

(* sub.process_event(on)                                                   *)
SubProcessEvent(on) == BeginCall(on)

(* sub.process_internal_events(anonymous{}): one dispatch, without the      *)
(* deferred events that process_event would look at afterwards.            *)
SubAnonymous ==
    /\ caller' = "process_internal_events"
    /\ DispatchFirst("anonymous", OnAnonymous)
    /\ UNCHANGED <<memberVars, item, todo, handled, loopVars, result, issued, posted,
                   started, done, owed, deferring>>

SubIdle == pc = "ready"

SubDispatched == caller = "process_internal_events" /\ pc = "dispatched"

SubRuns == ~SubDispatched /\ Engine /\ UNCHANGED outerVars

SubAnonymousReturns ==
    /\ SubDispatched
    /\ pc' = "ready"
    /\ result' = (IF accepted THEN "true" ELSE "false")
    /\ UNCHANGED <<memberVars, dispatchVars, loopVars, ghostVars, outerVars>>

-----------------------------------------------------------------------------
OuterRows == {i \in DOMAIN outer_table.rows :
                 outer_table.rows[i].src = outer /\ outer_table.rows[i].on = cause}

(* sub_internal_events_t: the internal events of the outer machine include  *)
(* those of the sub machine.                                               *)
EitherMentions(on) == Mentions(table, on) \/ Mentions(outer_table, on)

IsTerminated == \A r \in Regions : current_state_[r] = Terminate

(* has_terminate_parent_transition                                         *)
HasTerminateRow == \E i \in OuterRows : outer_table.rows[i].to = Terminate

(* transitions_sub::execute: in the state Sub the sub machine comes first,  *)
(* for anonymous only as long as it has not terminated.                    *)
DispatchOuter ==
    /\ at = "dispatch"
    /\ sub_handled' = FALSE
    /\ \/ /\ outer = Sub /\ cause # OnAnonymous
          /\ SubProcessEvent(cause)
          /\ at' = "in_sub"
       \/ /\ outer = Sub /\ cause = OnAnonymous
          /\ IF OuterRows # {} /\ IsTerminated
             THEN at' = "rows" /\ UNCHANGED subVars
             ELSE at' = "in_sub" /\ SubAnonymous
       \/ /\ outer # Sub
          /\ at' = "rows"
          /\ UNCHANGED subVars
    /\ UNCHANGED <<outer_table, history, outer, cause, chosen, answer, calls, left, visit>>

(* A mistake in the code below, for the mutants of PROJECT.json: the rows of *)
(* Sub are tried whatever the sub machine says.                            *)
PropagatesAlways == TRUE

(* The rows of Sub get an event that the sub machine did not handle, or one *)
(* that terminated it if they lead to X.                                   *)
Propagates ==
    /\ cause.kind = "event"
    /\ result = "false" \/ (IsTerminated /\ HasTerminateRow)

SubReturns ==
    /\ at = "in_sub" /\ SubIdle
    /\ sub_handled' = (result = "true")
    /\ answer' = (result = "true")
    /\ at' = (IF Propagates THEN "rows" ELSE "dispatched")
    /\ UNCHANGED <<subVars, outer_table, history, outer, cause, chosen, calls, left, visit>>

(* transition::execute of row i.  An external one first lets the sub        *)
(* machine process on_exit, if the table of either machine mentions it.    *)
OuterRowFires(i) ==
    /\ at = "rows"
    /\ Reached(outer_table, OuterRows, i)
    /\ chosen' = i
    /\ answer' = TRUE
    /\ IF outer_table.rows[i].to = Internal
       THEN at' = "dispatched" /\ UNCHANGED subVars
       ELSE /\ at' = "leaving"
            /\ IF outer = Sub /\ EitherMentions(OnExit)
               THEN SubProcessEvent(OnExit) ELSE UNCHANGED subVars
    /\ UNCHANGED <<outer_table, history, outer, cause, sub_handled, calls, left, visit>>

NoOuterRowFires ==
    /\ at = "rows"
    /\ \A i \in OuterRows : "false" \in outer_table.rows[i].guard
    /\ at' = "dispatched"
    /\ answer' = sub_handled
    /\ UNCHANGED <<subVars, outer_table, history, outer, cause, chosen, sub_handled,
                   calls, left, visit>>

(* More mistakes, for the mutants of PROJECT.json.                         *)
KeepDeferred == UNCHANGED <<defer_, defer_processing_, defer_again_, defer_it_>>
EnterInitial == table.initial
EnterOuter   == [r \in Regions |-> outer_table.initial]
OnceMore     == cause # OnAnonymous
OverAndOver  == TRUE

(* clear_sub_sm_defer_state, when Sub is left                              *)
ClearDeferred ==
    /\ defer_' = <<>>
    /\ defer_processing_' = FALSE /\ defer_again_' = FALSE
    /\ defer_it_' = 1

(* update_composite_states, when Sub is entered: the regions without (H)    *)
(* start anew.                                                             *)
EnterStates ==
    [r \in Regions |-> IF r \in history THEN current_state_[r] ELSE table.initial[r]]

(* update_current_state                                                    *)
OuterUpdate ==
    /\ at = "leaving" /\ SubIdle
    /\ LET to == outer_table.rows[chosen].to
       IN  /\ outer' = to
           /\ IF outer = Sub
              THEN ClearDeferred /\ left' = current_state_
              ELSE UNCHANGED <<defer_, defer_processing_, defer_again_, defer_it_, left>>
           /\ IF to = Sub
              THEN current_state_' = EnterStates /\ visit' = issued
              ELSE UNCHANGED <<current_state_, visit>>
    /\ at' = "updated"
    /\ UNCHANGED <<table, process_, pc, dispatchVars, loopVars, result, ghostVars,
                   outer_table, history, cause, chosen, sub_handled, answer, calls>>

(* The entry action: the sub machine processes on_entry.                   *)
OuterEnter ==
    /\ at = "updated"
    /\ at' = "entering"
    /\ IF outer = Sub /\ EitherMentions(OnEntry)
       THEN SubProcessEvent(OnEntry) ELSE UNCHANGED subVars
    /\ UNCHANGED <<outer_table, history, outer, cause, chosen, sub_handled, answer,
                   calls, left, visit>>

OuterEntered ==
    /\ at = "entering" /\ SubIdle
    /\ at' = "dispatched"
    /\ UNCHANGED <<subVars, outer_table, history, outer, cause, chosen, sub_handled,
                   answer, calls, left, visit>>

(* process_post_events of the outer machine: until nothing reacts.         *)
PostAgain == cause = OnAnonymous => answer

OuterDispatched ==
    /\ at = "dispatched"
    /\ IF EitherMentions(OnAnonymous) /\ PostAgain
       THEN at' = "dispatch" /\ cause' = OnAnonymous /\ answer' = FALSE
       ELSE at' = "ready" /\ UNCHANGED <<cause, answer>>
    /\ UNCHANGED <<subVars, outer_table, history, outer, chosen, sub_handled,
                   calls, left, visit>>

OuterProcessEvent(e) ==
    /\ at = "ready"
    /\ EitherMentions(OnEvent(e))
    /\ calls < MaxCalls
    /\ calls' = calls + 1
    /\ cause' = OnEvent(e)
    /\ answer' = FALSE
    /\ at' = "dispatch"
    /\ UNCHANGED <<subVars, outer_table, history, outer, chosen, sub_handled, left, visit>>

OuterIdle == at = "ready" /\ calls >= MaxCalls /\ UNCHANGED allVars

-----------------------------------------------------------------------------
(* The constructor initializes the regions of both machines; start is the   *)
(* outer machine's, and reaches the sub machine if Sub is the initial state.*)
SubInit ==
    /\ table \in Tables
    /\ current_state_ = table.initial
    /\ defer_ = <<>> /\ process_ = <<>>
    /\ defer_processing_ = FALSE /\ defer_again_ = FALSE /\ defer_it_ = 1
    /\ pc = "ready"
    /\ caller = "process_event" /\ item = Start /\ what = "event"
    /\ region = 1 /\ stage = "rows" /\ fired = 0 /\ todo = <<>>
    /\ accepted = FALSE /\ handled = FALSE
    /\ event_handled = FALSE /\ queued_handled = TRUE /\ old = current_state_[1]
    /\ defer_old = current_state_[1] /\ processed_events = FALSE
    /\ wasnt_empty = FALSE
    /\ result = "pending"
    /\ issued = 0 /\ posted = {} /\ started = {} /\ done = {} /\ owed = {}
    /\ deferring = FALSE /\ unexpected_ran = FALSE /\ before = current_state_

OuterInit ==
    /\ SubInit
    /\ outer_table \in Outers /\ history \in Histories
    /\ outer = outer_table.initial
    /\ at = "dispatch" /\ cause = OnEntry
    /\ chosen = 0 /\ sub_handled = FALSE /\ answer = FALSE /\ calls = 0
    /\ left = current_state_ /\ visit = 0

OuterEngine ==
    \/ SubRuns \/ SubAnonymousReturns
    \/ DispatchOuter \/ SubReturns
    \/ (\E i \in OuterRows : OuterRowFires(i)) \/ NoOuterRowFires
    \/ OuterUpdate \/ OuterEnter \/ OuterEntered \/ OuterDispatched

OuterNext == OuterEngine \/ (\E e \in Events : OuterProcessEvent(e)) \/ OuterIdle

OuterSpec == OuterInit /\ [][OuterNext]_allVars

(* Both machines run on the caller's thread.                               *)
FairOuterSpec == OuterSpec /\ WF_allVars(OuterEngine)
-----------------------------------------------------------------------------
OuterTypeOK ==
    /\ MemberTypes /\ HistoryTypes
    /\ caller \in {"process_event", "process_defer_events", "process_internal_events"}
    /\ outer_table \in Outers /\ history \in Histories
    /\ outer \in OuterStates
    /\ at \in {"ready", "dispatch", "in_sub", "rows", "leaving", "updated", "entering",
               "dispatched"}
    /\ cause \in Triggers
    /\ chosen \in Nat
    /\ sub_handled \in BOOLEAN /\ answer \in BOOLEAN
    /\ calls \in 0..MaxCalls
    /\ left \in [Regions -> States] /\ visit \in Nat

(* While the outer machine is in another state the sub machine is asleep:    *)
(* it is not called, nothing waits in it, and it is in the states it was    *)
(* left in.  When Sub is entered again, a region with (H) is reactivated in *)
(* its last active state, any other one in its initial state               *)
(* (doc/tutorial.md, history).                                             *)
HistoryKept ==
    /\ outer # Sub => SubIdle /\ defer_ = <<>> /\ ~defer_processing_ /\ current_state_ = left
    /\ at = "updated" /\ outer = Sub =>
          \A r \in Regions :
             current_state_[r] = IF r \in history THEN left[r] ELSE table.initial[r]

(* What was deferred in one visit of Sub is not processed in the next.      *)
VisitForgotten ==
    outer = Sub =>
       /\ \A i \in DOMAIN defer_ : defer_[i].id > visit
       /\ ~SubIdle /\ caller = "process_defer_events" => item.id > visit

(* When the outer call returns, a sub machine that has terminated has been   *)
(* left if the outer machine has an unconditional anonymous row for that,   *)
(* whatever terminated it: an event, a deferred event, an anonymous row, or *)
(* its entry.                                                              *)
CompletionTaken ==
    at = "ready" /\ outer = Sub /\ IsTerminated =>
       \A i \in DOMAIN outer_table.rows :
          outer_table.rows[i].src = Sub /\ outer_table.rows[i].on = OnAnonymous
             => "false" \in outer_table.rows[i].guard

(* The innermost machine has the event first: a row of Sub reacts to an      *)
(* event only if the sub machine did not, or was terminated by it; in that  *)
(* case a row that leads to X, the only one for the event, is taken.       *)
InnermostFirst ==
    /\ at = "leaving" /\ outer = Sub /\ cause.kind = "event" => ~sub_handled \/ IsTerminated
    /\ at = "dispatched" /\ outer = Sub /\ cause.kind = "event" /\ sub_handled
         /\ IsTerminated =>
          ~\E i \in OuterRows : /\ outer_table.rows[i].to = Terminate
                               /\ outer_table.rows[i].guard = {"true"}
                               /\ OuterRows = {i}

(* Every call of the outer process_event ends.                             *)
OuterReturns == [](at # "ready" => <>(at = "ready"))
=============================================================================
