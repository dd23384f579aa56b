------------------------------ MODULE MCThreadSafe ------------------------------
(* Instances of ThreadSafe for TLC: test/ft/policies_thread_safe.cpp and    *)
(* variations in which states change, defer, post and throw.               *)
EXTENDS ThreadSafe

CONSTANTS s1, s2, e1, e2, t1, t2

Row(src, on, guard, action, to) ==
    [src |-> src, on |-> on, guard |-> guard, action |-> action, to |-> to]

Optional(row) == { <<>>, <<row>> }

FirstRows(s, other) ==
    { << Row(s, OnEvent(e1), {"true"}, <<Process(e2)>>, Internal) >>,
      << Row(s, OnEvent(e1), {"true"}, <<Process(e2), UserCall>>, other) >>,
      << Row(s, OnEvent(e1), {"true"}, <<Defer>>, Internal) >> }

SecondRows(s, other) ==
    Optional(Row(s, OnEvent(e2), {"true", "throws"}, <<>>, other))
      \cup { << Row(s, OnEvent(e2), {"true"}, <<Process(e2)>>, other) >>,
             << Row(s, OnEvent(e2), {"true"}, <<Defer>>, Internal) >> }

(* Posting e2 from reactions to e2 in both states would never end.         *)
SharedTables ==
    { t \in { [initial |-> [r \in Regions |-> s1], rows |-> f1 \o f2 \o g1 \o g2] :
              f1 \in FirstRows(s1, s2), f2 \in FirstRows(s2, s1),
              g1 \in SecondRows(s1, s2), g2 \in SecondRows(s2, s1) } :
        /\ Known(t, e2)
        /\ \E s \in States : \A i \in StateRows(t, OnEvent(e2), s) :
              Process(e2) \notin {t.rows[i].action[n] : n \in DOMAIN t.rows[i].action} }
=============================================================================
