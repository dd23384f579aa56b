----------------------------- MODULE MCComposite -----------------------------
(* Instances of Composite for TLC.  The sub machine has the states s1, s2   *)
(* and X in its first region, s3 and X in its second.                      *)
EXTENDS Composite

CONSTANTS s1, s2, s3, out, e1, e2

Always == {"true"}
Maybe  == {"true", "false"}

Row(src, on, guard, action, to) ==
    [src |-> src, on |-> on, guard |-> guard, action |-> action, to |-> to]

Move(src, e, to) == Row(src, OnEvent(e), Always, <<>>, to)
Hold(src, e) == Row(src, OnEvent(e), Always, <<Defer>>, Internal)

FirstRegion ==
    { << Hold(s1, e1), Move(s1, e2, s2), Move(s2, e1, s1), Move(s2, e2, Terminate) >>,
      << Move(s1, e1, s2), Hold(s2, e1), Move(s2, e2, s1) >>,
      << Move(s1, e1, Terminate), Hold(s1, e2),
         Row(s2, OnEvent(e1), Maybe, <<>>, s1) >> }

SecondRegion ==
    { <<>>, << Move(s3, e1, Terminate) >>, << Move(s3, e2, Terminate) >> }

StateActions ==
    << Row(s1, OnEntry, Always, <<>>, Internal), Row(s2, OnExit, Always, <<>>, Internal) >>

InternalRows ==
    { <<>>, StateActions, << Row(s2, OnAnonymous, Maybe, <<>>, s1) >>,
      << Row(s1, OnAnonymous, Maybe, <<>>, Terminate) >> \o StateActions }

SubFamily ==
    { [initial |-> [r \in Regions |-> IF r = 1 THEN s1 ELSE s3], rows |-> f \o g \o a] :
        f \in FirstRegion, g \in SecondRegion, a \in InternalRows }

OuterReactions ==
    { << Move(Sub, e1, out) >>, << Move(Sub, e2, Terminate) >>,
      << Row(Sub, OnEvent(e2), Maybe, <<>>, Sub) >>,
      << Row(Sub, OnEvent(e1), Maybe, <<>>, Internal), Move(Sub, e1, Terminate) >> }

OuterAnonymousRows ==
    { <<>>, << Row(Sub, OnAnonymous, Always, <<>>, out) >> }

Outer(initial, rows) ==
    [initial |-> initial, rows |-> rows \o << Move(out, e1, Sub) >>]

OuterFamily ==
    { Outer(Sub, r \o a) : r \in OuterReactions, a \in OuterAnonymousRows }
      \cup { Outer(out, << Row(Sub, OnAnonymous, Maybe, <<>>, Terminate) >>) }

HistoryFamily == { {}, {1} }
=============================================================================
