--------------------------- MODULE TransitionTable ---------------------------
(***************************************************************************)
(* The transition table of a boost::sml state machine and the lookup that  *)
(* its dispatch performs (src/include/boost/sml.hpp).                      *)
(*                                                                         *)
(* In the library a table is a compile time list of transition<...> types  *)
(* and the lookup is done by overload resolution on mappings; here a table *)
(* is a record and the lookup is a set of row numbers with a priority      *)
(* order.  User code appears only through what it can do to the engine:    *)
(* a guard has a set of verdicts it may return, an action is a sequence of *)
(* operations on the state machine.                                        *)
(***************************************************************************)
EXTENDS Integers, Sequences

CONSTANTS
    States,      \* the states of the machine, X among them if it is used
    Events,      \* the user's event types
    NumRegions,  \* size of initial_states_t: the orthogonal regions
    AnyState,    \* state<_>, the wildcard source state
    Internal,    \* the target of an internal transition (no "= state")
    None         \* the absent argument of an operation or a trigger

ASSUME NumRegionsAssumption == NumRegions \in Nat \ {0}
ASSUME WildcardAssumption == AnyState \notin States /\ Internal \notin States

Regions == 1..NumRegions

-----------------------------------------------------------------------------
(* What can trigger a row: an event, completion<E>, anonymous, on_entry<_>, *)
(* on_exit<_>, unexpected_event<E> or unexpected_event<_>.                  *)
OnEvent(e)      == [kind |-> "event", ev |-> e]
OnCompletion(e) == [kind |-> "completion", ev |-> e]
OnUnexpected(e) == [kind |-> "unexpected", ev |-> e]
OnUnexpectedAny == [kind |-> "unexpected_any", ev |-> None]
OnAnonymous     == [kind |-> "anonymous", ev |-> None]
OnEntry         == [kind |-> "on_entry", ev |-> None]
OnExit          == [kind |-> "on_exit", ev |-> None]

Triggers ==
    [kind : {"event", "completion", "unexpected"}, ev : Events]
      \cup [kind : {"anonymous", "on_entry", "on_exit", "unexpected_any"},
            ev : {None}]

(* What a row can do: defer the event, post an event with process(e), call *)
(* user code that may throw; "update" is the engine's own assignment of    *)
(* the current state, placed between the exit action and the row's action. *)
Defer      == [op |-> "defer", arg |-> None]
UserCall   == [op |-> "call", arg |-> None]
Process(e) == [op |-> "process", arg |-> e]
Update(s)  == [op |-> "update", arg |-> s]

UserOperations == [op : {"defer", "call"}, arg : {None}]
                    \cup [op : {"process"}, arg : Events]
Operations == UserOperations \cup [op : {"update"}, arg : States]

Verdicts == {"true", "false", "throws"}

Rows == [src : States \cup {AnyState}, on : Triggers,
         guard : (SUBSET Verdicts) \ {{}},
         action : Seq(UserOperations), to : States \cup {Internal}]

TransitionTables == [initial : [Regions -> States], rows : Seq(Rows)]

-----------------------------------------------------------------------------
(* events_ids_t: the table mentions the trigger at all.                    *)
Mentions(t, on) == \E i \in DOMAIN t.rows : t.rows[i].on = on

(* events: the user events the machine has rows or unexpected rows for.    *)
Known(t, e) == Mentions(t, OnEvent(e)) \/ Mentions(t, OnUnexpected(e))

(* has_unexpected_events *)
HasUnexpected(t) ==
    \E i \in DOMAIN t.rows : t.rows[i].on.kind \in {"unexpected", "unexpected_any"}

(* The rows of the event's mapping for a state, and for state<_>.          *)
StateRows(t, on, s) ==
    {i \in DOMAIN t.rows : t.rows[i].on = on /\ t.rows[i].src = s}
AnyRows(t, on) == StateRows(t, on, AnyState)

(* Rows of the state come before rows of state<_>; within each group the   *)
(* order is the order of the table.                                        *)
Before(t, i, j) ==
    IF t.rows[i].src = AnyState /\ t.rows[j].src # AnyState THEN FALSE
    ELSE IF t.rows[i].src # AnyState /\ t.rows[j].src = AnyState THEN TRUE
    ELSE i < j

(* Row i is the first of C whose guard does not say no.                    *)
Reached(t, C, i) ==
    /\ i \in C
    /\ \A j \in C : Before(t, j, i) => "false" \in t.rows[j].guard

(* The row of C that comes first, as a set of at most one row.             *)
First(t, C) == {i \in C : \A j \in C \ {i} : Before(t, i, j)}

(* The exit and entry actions of a state: the first row on that trigger.   *)
(* States without one contribute nothing.                                  *)
StateAction(t, on, s) ==
    LET C == First(t, StateRows(t, on, s) \cup AnyRows(t, on))
    IN  IF C = {} THEN <<>> ELSE t.rows[CHOOSE i \in C : TRUE].action

(* A mistake in the code below, for the mutants of PROJECT.json.           *)
ExecutionExternal(t, i, s) ==
    StateAction(t, OnExit, s) \o <<Update(t.rows[i].to)>>
      \o t.rows[i].action \o StateAction(t, OnEntry, t.rows[i].to)

(* transition::execute after the guard: exit action, state update, action, *)
(* entry action.  An internal transition runs its action only.             *)
Execution(t, i, s) ==
    LET row == t.rows[i]
    IN  IF row.to = Internal THEN row.action
        ELSE StateAction(t, OnExit, s) \o <<Update(row.to)>>
               \o row.action \o StateAction(t, OnEntry, row.to)
=============================================================================
