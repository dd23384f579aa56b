---------------------------- MODULE ExceptionRows ----------------------------
(***************************************************************************)
(* Exceptions as events: a back::sm_impl (src/include/boost/sml.hpp) whose *)
(* transition table has exception<> rows.  Every process_internal_events   *)
(* and process_internal_event is then a try block whose catch dispatches   *)
(* the exception to the table, so that reactions nest: an action throws,   *)
(* its handler throws, the exit action of the handler's transition throws. *)
(*                                                                         *)
(* The stack of those calls is the variable frames.  The machine modelled  *)
(* here has no process queue and no defer queue (the default policies), so *)
(* a call of process_event is one event and its post events.               *)
(***************************************************************************)
EXTENDS TransitionTable, FiniteSets, SequencesExt

CONSTANTS
    Exceptions,   \* the types that user code throws or that rows catch
    Catches,      \* clause -> types it catches: its own and derived ones
    Tables,       \* the transition tables the machine may be built from
    MaxCalls,     \* bound: calls of process_event
    MaxThrows     \* bound: exceptions thrown

ASSUME CatchesAssumption ==
    /\ Catches \in [Exceptions -> SUBSET Exceptions]
    /\ \A c \in Exceptions : c \in Catches[c]
ASSUME BoundsAssumption == MaxCalls \in Nat /\ MaxThrows \in Nat

-----------------------------------------------------------------------------
(* exception<E> and exception<_> as triggers, user code that may throw x,  *)
(* and the exit and entry actions, which are calls of process_internal_event.*)
OnException(x) == [kind |-> "exception", ev |-> x]
OnExceptionAny == [kind |-> "exception_any", ev |-> None]
Call(x) == [op |-> "call", arg |-> x]
Leave == [op |-> "leave", arg |-> None]
Enter == [op |-> "enter", arg |-> None]

RowTriggers == Triggers \cup [kind : {"exception"}, ev : Exceptions] \cup {OnExceptionAny}
Calls == [op : {"call"}, arg : Exceptions]
Steps == Calls \cup [op : {"update"}, arg : States] \cup {Leave, Enter}

ExceptionTables ==
    [initial : [Regions -> States],
     rows : Seq([src : States \cup {AnyState}, on : RowTriggers,
                 guard : (SUBSET ({"true", "false"} \cup Exceptions)) \ {{}},
                 action : Seq(Calls), to : States \cup {Internal}])]

(* Entry, exit and unexpected_event<_> rows are internal reactions here;    *)
(* has_exceptions: the table mentions some exception.                      *)
ASSUME TablesAssumption ==
    \A t \in Tables :
        /\ t \in ExceptionTables
        /\ \E i \in DOMAIN t.rows : t.rows[i].on.kind \in {"exception", "exception_any"}
        /\ \A i \in DOMAIN t.rows :
              t.rows[i].on.kind \in {"on_entry", "on_exit"} => t.rows[i].to = Internal

-----------------------------------------------------------------------------
(* aux::unique.  A list is read in batches of 64, 32, 16 or 8 types while   *)
(* that many are left, then type by type.  The types a batch adds are       *)
(* collected by inheritance and extracted from the outside in, so they come *)
(* out in reverse and in front of the earlier ones.                         *)
Batch(left) == CASE left >= 64 -> 64 [] left >= 32 -> 32 [] left >= 16 -> 16
                 [] left >= 8 -> 8 [] OTHER -> 1

Unique(list) ==
    LET Read(acc, i) ==
          LET size == IF acc.left = 0 THEN Batch(Len(list) - i + 1) ELSE acc.size
              left == IF acc.left = 0 THEN size - 1 ELSE acc.left - 1
              new  == IF Contains(acc.types \o acc.new, list[i]) THEN acc.new
                      ELSE <<list[i]>> \o acc.new
          IN  [size |-> size, left |-> left,
               new |-> IF left = 0 THEN <<>> ELSE new,
               types |-> IF left > 0 THEN acc.types
                         ELSE IF size = 1 THEN acc.types \o new
                         ELSE new \o acc.types]
    IN  FoldLeft(Read, [size |-> 1, left |-> 0, new |-> <<>>, types |-> <<>>],
                 [i \in DOMAIN list |-> i]).types

(* events_t: the internal events of the rows, taken once for the source and *)
(* once for the target of each row, then the user events.  The event of an   *)
(* unexpected_event row is one of them, _ too, which is OnEvent(None) here.  *)
EventTypes(t) ==
    LET ons  == [i \in DOMAIN t.rows |-> t.rows[i].on]
        internal == SelectSeq(ons, LAMBDA on : on.kind # "event")
        user == SelectSeq(ons, LAMBDA on : on.kind \in {"event", "unexpected", "unexpected_any"})
    IN  Unique(Unique(internal \o internal)
                 \o [i \in DOMAIN user |-> OnEvent(user[i].ev)])

(* exceptions: the catch clauses of process_exception, in their order.     *)
CatchClauses(t) ==
    LET clauses == SelectSeq(EventTypes(t), LAMBDA on : on.kind = "exception")
    IN  Unique([i \in DOMAIN clauses |-> clauses[i].ev])

VARIABLES
    table, exceptions,   \* fixed when the machine type is defined
    current_state_,
    pc,                  \* "ready", "dispatching" or "dispatched"
    item, what,          \* the event, and itself, its completion or anonymous
    frames,              \* the active dispatches, innermost last
    accepted, handled,
    result,              \* what the last call returned
    calls, thrown        \* counters for the two bounds

VARIABLES                \* history, read by no action
    last,                \* the type of the last exception, None if none was thrown
    atThrow,             \* current_state_ at the last throw
    ran                  \* regions that reacted to the last exception

ghostVars == <<last, atThrow, ran>>
vars == <<table, exceptions, current_state_, pc, item, what, frames,
          accepted, handled, result, calls, thrown, ghostVars>>

-----------------------------------------------------------------------------
(* A region whose state has no row for a user event asks its                *)
(* unexpected_event rows first.                                            *)
FirstStage(t, on, s) ==
    IF on.kind = "event" /\ HasUnexpected(t) /\ StateRows(t, on, s) = {}
    THEN "ask" ELSE "rows"

(* A dispatch of trigger on that starts at region r and visits the rest of  *)
(* the regions if it is whole.  over: regions moved by a handler since the  *)
(* row that runs now fired (history).                                      *)
Frame(on, whole, r, states) ==
    [on |-> on, whole |-> whole, region |-> r,
     stage |-> FirstStage(table, on, states[r]),
     todo |-> <<>>, handled |-> FALSE, over |-> {}]

Top == Last(frames)
Replace(f) == frames' = Append(Front(frames), f)
Push(f) == frames' = Append(frames, f)

(* What the dispatch below does with the answer of the one that returned:   *)
(* go on with its transition, or with the next kind of unexpected row.     *)
Resume(f, answer) ==
    CASE f.stage = "running" -> [f EXCEPT !.todo = Tail(f.todo)]
      [] f.stage = "unexpected" -> [f EXCEPT !.stage = IF answer THEN "any" ELSE "ask_any"]
      [] f.stage = "unexpected_any" -> [f EXCEPT !.stage = "any"]

Return(answer) ==
    IF Len(frames) = 1
    THEN /\ frames' = <<>>
         /\ pc' = "dispatched"
         /\ accepted' = answer
    ELSE /\ frames' = Append(Front(Front(frames)), Resume(Last(Front(frames)), answer))
         /\ UNCHANGED <<pc, accepted>>

(* A mistake in the code below, for the mutants of PROJECT.json: || for |=. *)
RegionDoneShort(answer) ==
    LET f == Top
    IN  IF f.whole /\ f.region < NumRegions /\ ~answer
        THEN /\ Replace(Frame(f.on, TRUE, f.region + 1, current_state_))
             /\ UNCHANGED <<pc, accepted>>
        ELSE Return(f.handled \/ answer)

(* handled |= ...; the next region is visited with the state it has now.    *)
RegionDone(answer) ==
    LET f == Top
    IN  IF f.whole /\ f.region < NumRegions
        THEN /\ Replace([Frame(f.on, TRUE, f.region + 1, current_state_) EXCEPT
                            !.handled = f.handled \/ answer])
             /\ UNCHANGED <<pc, accepted>>
        ELSE Return(f.handled \/ answer)

(* process_exception: the first clause that matches, else exception<_>; a   *)
(* clause that matches is final even if no state has a row for it.          *)
HandlerOf(x) ==
    LET matching == {i \in DOMAIN exceptions : x \in Catches[exceptions[i]]}
    IN  IF matching = {} THEN OnExceptionAny
        ELSE OnException(exceptions[CHOOSE i \in matching : \A j \in matching : i <= j])

(* A mistake in the code below, for the mutants of PROJECT.json: the handler *)
(* is called where the exception is thrown, and the reaction goes on.      *)
ThrowResumes(x) ==
    /\ thrown < MaxThrows
    /\ thrown' = thrown + 1
    /\ last' = x
    /\ atThrow' = current_state_
    /\ ran' = {}
    /\ Push(Frame(HandlerOf(x), TRUE, 1, current_state_))
    /\ UNCHANGED <<table, exceptions, current_state_, pc, item, what, accepted,
                   handled, result, calls>>

(* An exception leaves the innermost try block: its catch dispatches the    *)
(* handler over all regions in its place, or returns false if the table     *)
(* has no row for it.                                                      *)
Throw(x) ==
    /\ thrown < MaxThrows
    /\ thrown' = thrown + 1
    /\ last' = x
    /\ atThrow' = current_state_
    /\ ran' = {}
    /\ IF Mentions(table, HandlerOf(x))
       THEN /\ Replace(Frame(HandlerOf(x), TRUE, 1, current_state_))
            /\ UNCHANGED <<pc, accepted>>
       ELSE Return(FALSE)
    /\ UNCHANGED <<table, exceptions, current_state_, item, what, handled, result, calls>>

-----------------------------------------------------------------------------
Candidates ==
    AnyRows(table, Top.on)
      \cup (IF Top.stage = "any" THEN {}
            ELSE StateRows(table, Top.on, current_state_[Top.region]))

LookingUp == pc = "dispatching" /\ Top.stage \in {"rows", "any"}
Running(op) ==
    /\ pc = "dispatching" /\ Top.stage = "running"
    /\ Top.todo # <<>> /\ Head(Top.todo).op = op

(* A mistake in the code below, for the mutants of PROJECT.json: the state  *)
(* is updated last, when its entry action has run.                         *)
ExecutionUpdateLast(i) ==
    LET row == table.rows[i]
    IN  IF row.to = Internal THEN row.action
        ELSE <<Leave>> \o row.action \o <<Enter, Update(row.to)>>

ExecutionAlwaysExternal(i) ==
    <<Leave, Update(table.rows[i].to)>> \o table.rows[i].action \o <<Enter>>

(* transition::execute                                                     *)
RowExecution(i) ==
    LET row == table.rows[i]
    IN  IF row.to = Internal THEN row.action
        ELSE <<Leave, Update(row.to)>> \o row.action \o <<Enter>>

IsHandler(f) == f.on.kind \in {"exception", "exception_any"}

RowFires(i) ==
    /\ LookingUp
    /\ Reached(table, Candidates, i)
    /\ "true" \in table.rows[i].guard
    /\ Replace([Top EXCEPT !.stage = "running", !.todo = RowExecution(i), !.over = {}])
    /\ ran' = IF last # None /\ Top.on = HandlerOf(last) THEN ran \cup {Top.region} ELSE ran
    /\ UNCHANGED <<table, exceptions, current_state_, pc, item, what, accepted,
                   handled, result, calls, thrown, last, atThrow>>

NoRowFires ==
    /\ LookingUp
    /\ \A i \in Candidates : "false" \in table.rows[i].guard
    /\ RegionDone(FALSE)
    /\ UNCHANGED <<table, exceptions, current_state_, item, what, handled, result,
                   calls, thrown, ghostVars>>

GuardThrows ==
    /\ LookingUp
    /\ \E i \in Candidates :
          /\ Reached(table, Candidates, i)
          /\ \E x \in Exceptions \cap table.rows[i].guard : Throw(x)

(* unexpected_event<E>, then unexpected_event<_>, for one region.           *)
AskUnexpected ==
    /\ pc = "dispatching" /\ Top.stage \in {"ask", "ask_any"}
    /\ LET first == Top.stage = "ask"
           on == IF first THEN OnUnexpected(Top.on.ev) ELSE OnUnexpectedAny
       IN  frames' = Append(Append(Front(frames),
                                   [Top EXCEPT !.stage = IF first THEN "unexpected"
                                                         ELSE "unexpected_any"]),
                            Frame(on, FALSE, Top.region, current_state_))
    /\ UNCHANGED <<table, exceptions, current_state_, pc, item, what, accepted,
                   handled, result, calls, thrown, ghostVars>>

(* The exit or entry action of the region's state, in a try of its own.    *)
RunStateAction ==
    /\ Running("leave") \/ Running("enter")
    /\ LET on == IF Head(Top.todo) = Leave THEN OnExit ELSE OnEntry
       IN  Push(Frame(on, FALSE, Top.region, current_state_))
    /\ UNCHANGED <<table, exceptions, current_state_, pc, item, what, accepted,
                   handled, result, calls, thrown, ghostVars>>

(* update_current_state; a handler's is noted in the reactions below it.    *)
UpdateState ==
    /\ Running("update")
    /\ current_state_' = [current_state_ EXCEPT ![Top.region] = Head(Top.todo).arg]
    /\ frames' = [k \in DOMAIN frames |->
                    IF k = Len(frames) THEN [Top EXCEPT !.todo = Tail(@)]
                    ELSE IF IsHandler(Top)
                    THEN [frames[k] EXCEPT !.over = @ \cup {Top.region}]
                    ELSE frames[k]]
    /\ UNCHANGED <<table, exceptions, pc, item, what, accepted, handled, result,
                   calls, thrown, ghostVars>>

CallReturns ==
    /\ Running("call")
    /\ Replace([Top EXCEPT !.todo = Tail(@)])
    /\ UNCHANGED <<table, exceptions, current_state_, pc, item, what, accepted,
                   handled, result, calls, thrown, ghostVars>>

CallThrows == Running("call") /\ Throw(Head(Top.todo).arg)

RowDone ==
    /\ pc = "dispatching" /\ Top.stage = "running" /\ Top.todo = <<>>
    /\ RegionDone(TRUE)
    /\ UNCHANGED <<table, exceptions, current_state_, item, what, handled, result,
                   calls, thrown, ghostVars>>

-----------------------------------------------------------------------------
Dispatch(w, on) ==
    /\ what' = w
    /\ frames' = <<Frame(on, TRUE, 1, current_state_)>>
    /\ pc' = "dispatching"
    /\ accepted' = FALSE

(* A mistake in the code below, for the mutants of PROJECT.json: the answer  *)
(* of the anonymous step is not looked at.                                 *)
AgainAlways == TRUE

Again == what = "event" \/ accepted

(* process_post_events: completion and anonymous transitions until none     *)
(* reacts; then process_event returns.                                     *)
HasCompletion == item.kind = "event" /\ Mentions(table, OnCompletion(item.ev))

Dispatched ==
    /\ pc = "dispatched"
    /\ handled' = (IF what = "event" THEN accepted ELSE handled)
    /\ IF Again /\ HasCompletion
       THEN Dispatch("completion", OnCompletion(item.ev)) /\ UNCHANGED result
       ELSE IF (Again \/ what = "completion") /\ Mentions(table, OnAnonymous)
       THEN Dispatch("anonymous", OnAnonymous) /\ UNCHANGED result
       ELSE /\ pc' = "ready"
            /\ result' = (IF handled' THEN "true" ELSE "false")
            /\ UNCHANGED <<what, frames, accepted>>
    /\ UNCHANGED <<table, exceptions, current_state_, item, calls, thrown, ghostVars>>

ProcessEvent(e) ==
    /\ pc = "ready"
    /\ calls < MaxCalls
    /\ calls' = calls + 1
    /\ item' = (IF Known(table, e) THEN OnEvent(e) ELSE OnUnexpectedAny)
    /\ Dispatch("event", item')
    /\ result' = "pending"
    /\ last' = None /\ atThrow' = current_state_ /\ ran' = {}
    /\ UNCHANGED <<table, exceptions, current_state_, handled, thrown>>

(* The constructor: initialize, then start.                                *)
Init ==
    /\ table \in Tables
    /\ exceptions = CatchClauses(table)
    /\ current_state_ = table.initial
    /\ pc = "dispatching" /\ item = OnEntry /\ what = "event"
    /\ frames = <<Frame(OnEntry, TRUE, 1, current_state_)>>
    /\ accepted = FALSE /\ handled = FALSE
    /\ result = "pending" /\ calls = 0 /\ thrown = 0
    /\ last = None /\ atThrow = current_state_ /\ ran = {}

(* The user makes no further call.                                         *)
Idle == pc = "ready" /\ calls >= MaxCalls /\ UNCHANGED vars

Lookup == (\E i \in Candidates : RowFires(i)) \/ NoRowFires \/ GuardThrows \/ AskUnexpected
Execute == RunStateAction \/ UpdateState \/ CallReturns \/ CallThrows \/ RowDone
Engine == (pc = "dispatching" /\ Lookup) \/ Execute \/ Dispatched

Next == Engine \/ (\E e \in Events : ProcessEvent(e)) \/ Idle

Spec == Init /\ [][Next]_vars

(* The machine runs on its caller's thread.                                *)
FairSpec == Spec /\ WF_vars(Engine)
-----------------------------------------------------------------------------
Frames ==
    [on : RowTriggers, whole : BOOLEAN, region : Regions,
     stage : {"rows", "ask", "unexpected", "ask_any", "unexpected_any", "any", "running"},
     todo : Seq(Steps), handled : BOOLEAN, over : SUBSET Regions]

StateTypes ==
    /\ table \in ExceptionTables
    /\ current_state_ \in [Regions -> States]
    /\ pc \in {"ready", "dispatching", "dispatched"}
    /\ item \in RowTriggers /\ what \in {"event", "completion", "anonymous"}
    /\ frames \in Seq(Frames)
    /\ pc = "dispatching" <=> frames # <<>>
    /\ accepted \in BOOLEAN /\ handled \in BOOLEAN
    /\ result \in {"pending", "true", "false"}
    /\ calls \in Nat /\ thrown \in Nat
    /\ last \in Exceptions \cup {None}
    /\ atThrow \in [Regions -> States] /\ ran \in SUBSET Regions

TypeOK == StateTypes /\ exceptions \in Seq(Exceptions)

(* Nothing is lost between nested dispatches: a dispatch of one region       *)
(* answers the transition, or the search for a row, that waits for it in the *)
(* same region; a dispatch of all regions inside another is a handler.      *)
Waits(f) ==
    IF f.stage = "running" THEN f.todo # <<>> /\ Head(f.todo) \in {Leave, Enter}
    ELSE f.stage \in {"unexpected", "unexpected_any"}

WellNested ==
    \A k \in DOMAIN frames :
       /\ k < Len(frames) => Waits(frames[k])
       /\ k = Len(frames) => frames[k].stage \notin {"unexpected", "unexpected_any"}
       /\ k = 1 => frames[k].whole
       /\ k > 1 => IF frames[k].whole THEN IsHandler(frames[k])
                   ELSE frames[k].region = frames[k - 1].region

(* Every orthogonal region hears of the last exception: one whose state at   *)
(* the throw has an unconditional row for the handler has run a row of it,  *)
(* wherever the exception came from: a guard, an action, an entry or exit   *)
(* action, a completion, or another handler.                                *)
HandledEverywhere ==
    pc = "dispatched" /\ last # None =>
       \A r \in Regions :
          (\E i \in StateRows(table, HandlerOf(last), atThrow[r])
                      \cup AnyRows(table, HandlerOf(last)) :
              table.rows[i].guard = {"true"})
          => r \in ran

(* A handler has the last word on a region: when it has moved the region     *)
(* whose transition threw, that transition does not go on to move it again. *)
(* The exit action is the exception, it runs before the state is updated    *)
(* and its handler returns into the transition.                            *)
ExitMayThrow ==
    \E i \in DOMAIN table.rows :
       /\ table.rows[i].on = OnExit
       /\ table.rows[i].action # <<>> \/ table.rows[i].guard \cap Exceptions # {}

HandlerHasLastWord ==
    ~ExitMayThrow =>
       \A k \in DOMAIN frames :
          \A n \in DOMAIN frames[k].todo :
             frames[k].todo[n].op = "update" => frames[k].region \notin frames[k].over

(* doc/tutorial.md, Handle errors: exception handlers are processed in the   *)
(* order they were defined.                                                *)
HandlersInOrder ==
    last # None =>
       \A i \in DOMAIN table.rows :
          table.rows[i].on.kind = "exception" /\ last \in Catches[table.rows[i].on.ev]
          => \E j \in 1..i : table.rows[j].on = HandlerOf(last)

(* Every call of process_event ends, whatever its reactions throw, as long   *)
(* as they do not throw forever.                                           *)
CallsReturn == [](pc # "ready" => <>(pc = "ready"))
=============================================================================
