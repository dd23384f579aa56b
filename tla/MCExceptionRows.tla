--------------------------- MODULE MCExceptionRows ---------------------------
(* Instances of ExceptionRows for TLC: two orthogonal regions, one with the *)
(* states s1, s2 and X, one with s3 and s4.                                *)
EXTENDS ExceptionRows

CONSTANTS s1, s2, s3, s4, X, e1, e2, Base, Derived, Other

(* Derived is derived from Base.                                           *)
ByBase == [c \in {Base, Derived, Other} |-> IF c = Base THEN {Base, Derived} ELSE {c}]

Always == {"true"}
Maybe  == {"true", "false"}

Row(src, on, guard, action, to) ==
    [src |-> src, on |-> on, guard |-> guard, action |-> action, to |-> to]
Machine(rows) == [initial |-> [r \in Regions |-> IF r = 1 THEN s1 ELSE s3], rows |-> rows]

(* What throws in the first region: the action of an external transition,   *)
(* or the guard and the action of an internal one.                         *)
Reactions ==
    { << Row(s1, OnEvent(e1), Always, <<Call(Derived)>>, s2) >>,
      << Row(s1, OnEvent(e1), {"true", "false", Derived}, <<Call(Other)>>, Internal) >> }

StateActions ==
    { <<>>,
      << Row(s2, OnEntry, Always, <<Call(Other)>>, Internal),
         Row(X, OnEntry, Always, <<Call(Other)>>, Internal) >>,
      << Row(s1, OnExit, Maybe, <<Call(Base)>>, Internal) >> }

SecondRegion ==
    { <<>>,
      << Row(s3, OnEvent(e1), {"true", "false", Other}, <<Call(Base)>>, s4) >>,
      << Row(s3, OnUnexpected(e1), Always, <<Call(Derived)>>, s4),
         Row(AnyState, OnUnexpectedAny, Maybe, <<Call(Other)>>, Internal) >> }

FirstHandlers ==
    { <<>>,
      << Row(s1, OnException(Base), Always, <<>>, X) >>,
      << Row(s2, OnException(Base), Always, <<Call(Other)>>, s1),
         Row(s1, OnException(Derived), Always, <<>>, Internal) >>,
      << Row(AnyState, OnException(Other), Maybe, <<>>, s2) >> }

SecondHandlers ==
    { << Row(s3, OnException(Base), Always, <<>>, s4) >>,
      << Row(s3, OnException(Other), Always, <<Call(Derived)>>, s4) >>,
      << Row(s3, OnExceptionAny, Always, <<>>, Internal),
         Row(s4, OnExceptionAny, Always, <<Call(Other)>>, s3) >> }

PostEvents ==
    { << Row(s2, OnCompletion(e1), Always, <<Call(Derived)>>, s1),
         Row(s4, OnAnonymous, {"true", "false", Other}, <<>>, s3) >> }

ExceptionFamily ==
    { Machine(r \o a \o q \o f \o h) :
        r \in Reactions, a \in StateActions \cup PostEvents, q \in SecondRegion,
        f \in FirstHandlers, h \in SecondHandlers }

(* Base and derived class handlers, in this order, and enough other rows for *)
(* aux::unique to work in batches.                                         *)
OrderFamily ==
    { Machine(<< Row(s1, OnEvent(e1), Always, <<Call(Derived)>>, s2),
                 Row(s2, OnException(Base), Always, <<>>, X),
                 Row(s2, OnException(Derived), Always, <<>>, s1) >> \o rest) :
        rest \in { << Row(s2, OnEvent(e1), Always, <<>>, s1) >>,
                   << Row(s3, OnException(Other), Always, <<>>, s4),
                      Row(s4, OnExceptionAny, Always, <<>>, s3) >> } }
=============================================================================
