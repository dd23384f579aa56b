------------------------------- MODULE MCSmImpl -------------------------------
(* Instances of SmImpl for TLC: families of transition tables.             *)
EXTENDS SmImpl

CONSTANTS s1, s2, s3, e1, e2, e3

Always == {"true"}
Maybe  == {"true", "false"}

Row(src, on, guard, action, to) ==
    [src |-> src, on |-> on, guard |-> guard, action |-> action, to |-> to]

Table(initial, rows) == [initial |-> initial, rows |-> rows]

-----------------------------------------------------------------------------
(* Every machine with one region, two states, two events, where a state     *)
(* ignores an event, defers it, changes state on it, or does both, and may  *)
(* have an anonymous transition.                                            *)
Other(s) == IF s = s1 THEN s2 ELSE s1

Cells(s, e) ==
    { <<>>,
      << Row(s, OnEvent(e), Always, <<Defer>>, Internal) >>,
      << Row(s, OnEvent(e), Always, <<>>, Other(s)) >>,
      << Row(s, OnEvent(e), Always, <<Defer>>, Other(s)) >>,
      << Row(s, OnEvent(e), Always, <<>>, s) >> }

(* A table compiles only if the events it posts are events of the table.    *)
Compiles(t) ==
    \A i \in DOMAIN t.rows : \A n \in DOMAIN t.rows[i].action :
       t.rows[i].action[n].op = "process" => Known(t, t.rows[i].action[n].arg)

Anonymous(s) == { <<>>, << Row(s, OnAnonymous, Always, <<>>, Other(s)) >> }

DeferTables ==
    { t \in { Table([r \in Regions |-> s1], c11 \o c12 \o c21 \o c22 \o a1 \o a2) :
              c11 \in Cells(s1, e1), c12 \in Cells(s1, e2),
              c21 \in Cells(s2, e1), c22 \in Cells(s2, e2),
              a1 \in Anonymous(s1), a2 \in Anonymous(s2) } :
        \E e \in Events : Mentions(t, OnEvent(e)) }

(* The members of DeferTables whose calls end: anonymous transitions do not *)
(* form a cycle and a deferral changes no state.                           *)
TerminatingTables ==
    { t \in DeferTables :
        /\ \E s \in States : StateRows(t, OnAnonymous, s) = {}
        /\ \A i \in DOMAIN t.rows :
              t.rows[i].action # <<>> => t.rows[i].to = Internal }

(* In these tables the loops over post events, deferred events and posted    *)
(* events terminate: the restarts of the scan of the defer queue come to     *)
(* an end and every call of process_event returns.                          *)
TerminatingReturn == table \in TerminatingTables => Returns

-----------------------------------------------------------------------------
(* Two regions: s1 and s2 alternate in the first, s3 stays in the second.   *)
(* Reactions to e1 post e2 and e3, reactions to e2 post e3, so that posted  *)
(* events meet deferrals, deferred events, completion, entry and            *)
(* unexpected_event rows, and reactions of both regions.                    *)
Twice == [r \in Regions |-> IF r = 1 THEN s1 ELSE s3]

Optional(row) == { <<>>, <<row>> }

Cells2(s) ==
    Optional(Row(s, OnEvent(e2), Always, <<Defer>>, Internal))
      \cup { << Row(s, OnEvent(e2), Maybe, <<Process(e3)>>, Internal) >>,
             << Row(s, OnEvent(e2), Always, <<Process(e3)>>, Other(s)) >> }

Cells3(s) ==
    Optional(Row(s, OnEvent(e3), Always, <<Defer>>, Internal))
      \cup { << Row(s, OnEvent(e3), Always, <<>>, Other(s)) >> }

FirstReactions ==
    { << Row(s1, OnEvent(e1), Always, <<Process(e2), Process(e3)>>, Internal) >>,
      << Row(s1, OnEvent(e1), Always, <<Process(e2)>>, s2),
         Row(s2, OnEvent(e1), Always, <<Process(e3)>>, s1) >> }

SecondRegion ==
    { << Row(s3, OnEvent(e1), Always, <<Process(e3)>>, s3),
         Row(s3, OnEvent(e2), Maybe, <<>>, Internal) >>,
      << Row(s3, OnUnexpected(e3), Always, <<>>, s3) >>,
      << Row(s3, OnUnexpectedAny, Maybe, <<>>, Internal),
         Row(AnyState, OnEvent(e3), Maybe, <<>>, Internal) >> }

PostEvents ==
    { << Row(s2, OnCompletion(e1), Always, <<>>, s1) >>,
      << Row(s2, OnEntry, Always, <<Process(e3)>>, Internal) >>,
      << Row(s1, OnAnonymous, Maybe, <<>>, s2) >> }

PostTables ==
    { t \in { Table(Twice, f \o c1 \o d1 \o c2 \o d2 \o more) :
              f \in FirstReactions,
              c1 \in Cells2(s1), d1 \in Cells3(s1),
              c2 \in { c \in Cells2(s2) : \A i \in DOMAIN c : c[i].guard = Always },
              d2 \in Optional(Row(s2, OnEvent(e3), Always, <<>>, s1)),
              more \in {<<>>} \cup SecondRegion \cup PostEvents } : Compiles(t) }

-----------------------------------------------------------------------------
(* User code that throws: guards and actions of either region, in reactions *)
(* to called, posted and deferred events.                                  *)
MayThrow == {"true", "throws"}

Throws1(s) ==
    { << Row(s, OnEvent(e1), Always, <<Process(e2), Process(e3)>>, Internal) >>,
      << Row(s, OnEvent(e1), Always, <<Process(e2), UserCall>>, Other(s)) >>,
      << Row(s, OnEvent(e1), Always, <<Defer>>, Internal) >> }

Throws2(s) ==
    { << Row(s, OnEvent(e2), MayThrow, <<>>, Other(s)) >>,
      << Row(s, OnEvent(e2), Always, <<UserCall, Process(e3)>>, Internal) >>,
      << Row(s, OnEvent(e2), Always, <<Defer>>, Internal) >> }

ThrowSecond ==
    IF NumRegions = 1 THEN { <<>> }
    ELSE { <<>>,
           << Row(s3, OnEvent(e2), Always, <<UserCall>>, s3) >>,
           << Row(s3, OnEvent(e3), MayThrow, <<>>, Internal),
              Row(s3, OnEntry, Always, <<UserCall>>, Internal) >> }

ThrowTables ==
    { t \in { Table(Twice, f1 \o f2 \o g1 \o g2 \o h1 \o h2 \o r) :
              f1 \in Throws1(s1), f2 \in Throws1(s2),
              g1 \in Throws2(s1), g2 \in Throws2(s2),
              h1 \in Optional(Row(s1, OnEvent(e3), Always, <<Defer>>, Internal)),
              h2 \in Optional(Row(s2, OnEvent(e3), Always, <<>>, s1)),
              r \in ThrowSecond } : Compiles(t) }

EngineTables == PostTables \cup ThrowTables

-----------------------------------------------------------------------------
(* The tables of the counterexamples.                                      *)

(* Region 1 moves on e1, then the guard of region 2 throws.                *)
GuardThrowsTables ==
    { Table(Twice, << Row(s1, OnEvent(e1), Always, <<>>, s2),
                      Row(s3, OnEvent(e1), MayThrow, <<>>, Internal) >>) }

(* The error handling region of doc/tutorial.md, section 8.                *)
ErrorRegionTables ==
    { Table(Twice, << Row(s1, OnEvent(e1), Always, <<>>, s2),
                      Row(s2, OnEvent(e2), Always, <<>>, s1),
                      Row(s3, OnUnexpected(e1), Always, <<>>, Internal) >>) }

(* test/ft/actions_defer.cpp, defer_minimal, with an action that may throw  *)
(* while the deferred event is processed, and a second event to defer.      *)
DeferThrowsTables ==
    { Table(Twice, << Row(s1, OnEvent(e1), Always, <<Defer>>, Internal),
                      Row(s1, OnEvent(e2), Always, <<>>, s2),
                      Row(s2, OnEvent(e1), Always, <<UserCall>>, Internal),
                      Row(s2, OnEvent(e3), Always, <<Defer>>, Internal) >>) }
=============================================================================
