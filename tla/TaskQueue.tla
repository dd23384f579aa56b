------------------------------ MODULE TaskQueue ------------------------------
(***************************************************************************)
(* What a scheduler of co_sm promises: strict_ordering_scheduler_contract   *)
(* in src/include/boost/sml/utility/co_sm.hpp asks for guarantees_fifo,     *)
(* single_consumer and run_to_completion.  Tasks are numbered in the order  *)
(* in which they are accepted.                                             *)
(***************************************************************************)
EXTENDS Integers, Sequences

VARIABLES
    accepted,   \* number of tasks accepted so far
    waiting,    \* tasks that have not begun, in the order they will begin
    executing,  \* the task that is running, 0 if none is
    stopped     \* the scheduler was destroyed or the program has ended

taskVars == <<accepted, waiting, executing, stopped>>

Init == accepted = 0 /\ waiting = <<>> /\ executing = 0 /\ stopped = FALSE

(* guarantees_fifo: a task waits behind all that were accepted before it.   *)
Accept ==
    /\ ~stopped
    /\ accepted' = accepted + 1
    /\ waiting' = Append(waiting, accepted + 1)
    /\ UNCHANGED <<executing, stopped>>

(* single_consumer, run_to_completion: one task runs at a time, and nothing *)
(* begins before it has ended.                                             *)
RunAtOnce ==
    /\ ~stopped
    /\ executing = 0 /\ waiting = <<>>
    /\ accepted' = accepted + 1
    /\ executing' = accepted + 1
    /\ UNCHANGED <<waiting, stopped>>

Begin ==
    /\ ~stopped
    /\ executing = 0 /\ waiting # <<>>
    /\ executing' = Head(waiting)
    /\ waiting' = Tail(waiting)
    /\ UNCHANGED <<accepted, stopped>>

End ==
    /\ ~stopped
    /\ executing # 0
    /\ executing' = 0
    /\ UNCHANGED <<accepted, waiting, stopped>>

(* Tasks that wait are dropped with the scheduler, never before.           *)
Stop ==
    /\ ~stopped
    /\ stopped' = TRUE
    /\ waiting' \in {waiting, <<>>}
    /\ UNCHANGED <<accepted, executing>>

Next == Accept \/ RunAtOnce \/ Begin \/ End \/ Stop

Spec == Init /\ [][Next]_taskVars
=============================================================================
