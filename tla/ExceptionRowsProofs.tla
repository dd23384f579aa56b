------------------------- MODULE ExceptionRowsProofs -------------------------
(***************************************************************************)
(* Theorems about ExceptionRows, for all tables, hierarchies of exceptions,  *)
(* regions, calls and exceptions thrown: the nested dispatches stay well     *)
(* nested, every region hears of the last exception, and a handler has the  *)
(* last word on the region it moves.                                       *)
(***************************************************************************)
EXTENDS ExceptionRows, SequenceTheorems, TLAPS

-----------------------------------------------------------------------------
(* The stack of dispatches.                                                *)
LEMMA TopOf ==
    ASSUME NEW S, NEW q \in Seq(S), q # <<>>
    PROVE  /\ Len(q) \in Nat \ {0} /\ DOMAIN q = 1..Len(q)
           /\ Last(q) = q[Len(q)] /\ Last(q) \in S
           /\ Front(q) \in Seq(S) /\ Len(Front(q)) = Len(q) - 1
           /\ \A k \in 1..(Len(q) - 1) : Front(q)[k] = q[k]
<1> DEFINE n == Len(q)
<1>1. n \in Nat \ {0} /\ DOMAIN q = 1..n
  BY EmptySeq, LenProperties
<1>2. \A k \in 1..n : q[k] \in S
  BY ElementOfSeq
<1>3. Last(q) = q[n] /\ Last(q) \in S
  BY <1>1, <1>2 DEF Last
<1>4. Front(q) = SubSeq(q, 1, n - 1)
  BY DEF Front
<1> HIDE DEF n
<1>5. \A k \in 1..(n - 1) : q[k] \in S
  BY <1>1, <1>2
<1>6. /\ SubSeq(q, 1, n - 1) \in Seq(S)
      /\ Len(SubSeq(q, 1, n - 1)) = IF 1 <= n - 1 THEN (n - 1) - 1 + 1 ELSE 0
      /\ \A k \in 1..((n - 1) - 1 + 1) : SubSeq(q, 1, n - 1)[k] = q[1 + k - 1]
  <2>1. 1 \in Int /\ n - 1 \in Int
    BY <1>1
  <2> QED
    BY <1>5, <2>1, SubSeqProperties
<1>7. /\ Front(q) \in Seq(S) /\ Len(Front(q)) = n - 1
      /\ \A k \in 1..(n - 1) : Front(q)[k] = q[k]
  BY <1>1, <1>4, <1>6
<1> QED
  BY <1>1, <1>3, <1>7 DEF n

LEMMA ReplaceTop ==
    ASSUME NEW S, NEW q \in Seq(S), q # <<>>, NEW f \in S
    PROVE  LET r == Append(Front(q), f)
           IN  /\ r \in Seq(S) /\ r # <<>> /\ Len(r) = Len(q)
               /\ \A k \in 1..(Len(q) - 1) : r[k] = q[k]
               /\ r[Len(q)] = f
<1>1. /\ Len(q) \in Nat \ {0} /\ Front(q) \in Seq(S) /\ Len(Front(q)) = Len(q) - 1
      /\ \A k \in 1..(Len(q) - 1) : Front(q)[k] = q[k]
  BY TopOf
<1> HIDE DEF Front
<1> QED
  BY <1>1, AppendProperties

LEMMA PushTop ==
    ASSUME NEW S, NEW q \in Seq(S), NEW f \in S
    PROVE  LET r == Append(q, f)
           IN  /\ r \in Seq(S) /\ r # <<>> /\ Len(r) = Len(q) + 1 /\ Len(q) \in Nat
               /\ \A k \in 1..Len(q) : r[k] = q[k]
               /\ r[Len(q) + 1] = f
BY AppendProperties, LenProperties

LEMMA ReturnTop ==
    ASSUME NEW S, NEW q \in Seq(S), q # <<>>, Len(q) # 1, NEW f \in S
    PROVE  LET r == Append(Front(Front(q)), f)
           IN  /\ r \in Seq(S) /\ r # <<>> /\ Len(r) = Len(q) - 1
               /\ Len(q) \in Nat /\ Len(q) > 1
               /\ \A k \in 1..(Len(q) - 2) : r[k] = q[k]
               /\ r[Len(q) - 1] = f
<1>1. /\ Len(q) \in Nat \ {0} /\ Front(q) \in Seq(S) /\ Len(Front(q)) = Len(q) - 1
      /\ \A k \in 1..(Len(q) - 1) : Front(q)[k] = q[k]
  BY TopOf
<1>2. Front(q) # <<>>
  BY <1>1, EmptySeq
<1> DEFINE p == Front(q)
<1>3. p \in Seq(S) /\ p # <<>>
  BY <1>1, <1>2
<1> HIDE DEF p
<1>4. LET r == Append(Front(p), f)
      IN  /\ r \in Seq(S) /\ r # <<>> /\ Len(r) = Len(p)
          /\ \A k \in 1..(Len(p) - 1) : r[k] = p[k]
          /\ r[Len(p)] = f
  BY <1>3, ReplaceTop
<1> QED
  BY <1>1, <1>4 DEF p

LEMMA MapType ==
    ASSUME NEW S, NEW n \in Nat, NEW q, q = [k \in 1..n |-> q[k]],
           \A k \in 1..n : q[k] \in S
    PROVE  q \in Seq(S) /\ Len(q) = n /\ DOMAIN q = 1..n
<1>1. q \in [1..n -> S]
  OBVIOUS
<1>2. q \in Seq(S)
  BY <1>1
<1>3. DOMAIN q = 1..n
  BY <1>1
<1> QED
  BY <1>2, <1>3, LenProperties

LEMMA FrontLast ==
    ASSUME NEW S, NEW q \in Seq(S), q # <<>>, Len(q) # 1
    PROVE  Last(Front(q)) = q[Len(q) - 1] /\ Last(Front(q)) \in S
<1>1. /\ Len(q) \in Nat \ {0} /\ Front(q) \in Seq(S) /\ Len(Front(q)) = Len(q) - 1
      /\ \A k \in 1..(Len(q) - 1) : Front(q)[k] = q[k]
  BY TopOf
<1>2. Front(q) # <<>>
  BY <1>1, EmptySeq
<1>3. Last(Front(q)) = Front(q)[Len(Front(q))] /\ Last(Front(q)) \in S
  BY <1>1, <1>2, TopOf
<1> QED
  BY <1>1, <1>3

-----------------------------------------------------------------------------
(* The stack q is the lowest n dispatches of p and f above them.            *)
IsOn(q, p, n, f) ==
    /\ q \in Seq(Frames) /\ q # <<>>
    /\ Len(q) = n + 1 /\ DOMAIN q = 1..(n + 1)
    /\ \A k \in 1..n : q[k] = p[k]
    /\ q[n + 1] = f

LEMMA ReplaceIsOn ==
    ASSUME NEW q \in Seq(Frames), q # <<>>, NEW f \in Frames
    PROVE  IsOn(Append(Front(q), f), q, Len(q) - 1, f)
<1> DEFINE r == Append(Front(q), f)
<1>1. /\ r \in Seq(Frames) /\ r # <<>> /\ Len(r) = Len(q)
      /\ \A k \in 1..(Len(q) - 1) : r[k] = q[k]
      /\ r[Len(q)] = f
  BY ReplaceTop
<1>2. Len(q) \in Nat \ {0}
  BY TopOf
<1>3. DOMAIN r = 1..Len(r)
  BY <1>1, LenProperties
<1> HIDE DEF r
<1>4. IsOn(r, q, Len(q) - 1, f)
  <2>1. Len(q) - 1 + 1 = Len(q)
    BY <1>2
  <2> QED
    BY <1>1, <1>3, <2>1 DEF IsOn
<1> QED
  BY <1>4 DEF r

LEMMA PushIsOn ==
    ASSUME NEW q \in Seq(Frames), NEW f \in Frames
    PROVE  IsOn(Append(q, f), q, Len(q), f)
<1> DEFINE r == Append(q, f)
<1>1. /\ r \in Seq(Frames) /\ r # <<>> /\ Len(r) = Len(q) + 1
      /\ \A k \in 1..Len(q) : r[k] = q[k]
      /\ r[Len(q) + 1] = f
  BY PushTop
<1>2. DOMAIN r = 1..Len(r)
  BY <1>1, LenProperties
<1> HIDE DEF r
<1>3. IsOn(r, q, Len(q), f)
  BY <1>1, <1>2 DEF IsOn
<1> QED
  BY <1>3 DEF r

LEMMA ReturnIsOn ==
    ASSUME NEW q \in Seq(Frames), q # <<>>, Len(q) # 1, NEW f \in Frames
    PROVE  IsOn(Append(Front(Front(q)), f), q, Len(q) - 2, f)
<1> DEFINE r == Append(Front(Front(q)), f)
<1>1. /\ r \in Seq(Frames) /\ r # <<>> /\ Len(r) = Len(q) - 1
      /\ Len(q) \in Nat /\ Len(q) > 1
      /\ \A k \in 1..(Len(q) - 2) : r[k] = q[k]
      /\ r[Len(q) - 1] = f
  BY ReturnTop
<1>2. DOMAIN r = 1..Len(r)
  BY <1>1, LenProperties
<1> HIDE DEF r
<1>3. IsOn(r, q, Len(q) - 2, f)
  <2>1. Len(q) - 2 + 1 = Len(q) - 1
    BY <1>1
  <2> QED
    BY <1>1, <1>2, <2>1 DEF IsOn
<1> QED
  BY <1>3 DEF r

LEMMA OneIsOn ==
    ASSUME NEW q, NEW f \in Frames
    PROVE  IsOn(<<f>>, q, 0, f)
<1>1. <<f>> \in Seq(Frames) /\ <<f>> # <<>> /\ Len(<<f>>) = 1 /\ DOMAIN <<f>> = 1..1
  OBVIOUS
<1>2. <<f>>[1] = f
  OBVIOUS
<1> QED
  BY <1>1, <1>2 DEF IsOn

(* The dispatches that steps start.                                        *)
LEMMA FirstStages ==
    ASSUME NEW t, NEW on, NEW s
    PROVE  /\ FirstStage(t, on, s) \in {"ask", "rows"}
           /\ on.kind # "event" => FirstStage(t, on, s) = "rows"
BY DEF FirstStage

LEMMA FrameType ==
    ASSUME NEW on \in RowTriggers, NEW whole \in BOOLEAN, NEW r \in Regions, NEW states
    PROVE  Frame(on, whole, r, states) \in Frames
<1> DEFINE stage == FirstStage(table, on, states[r])
           f == Frame(on, whole, r, states)
<1>1. /\ stage \in {"ask", "rows"}
      /\ on.kind # "event" => stage = "rows"
  BY FirstStages
<1> HIDE DEF stage
<1>2. f = [on |-> on, whole |-> whole, region |-> r, stage |-> stage,
           todo |-> <<>>, handled |-> FALSE, over |-> {}]
  BY DEF Frame, stage
<1> HIDE DEF f
<1>3. <<>> \in Seq(Steps) /\ {} \in SUBSET Regions
  BY EmptySeq
<1>4. f \in Frames
  BY <1>1, <1>2, <1>3 DEF Frames
<1> QED
  BY <1>4 DEF f

(* A dispatch of all regions, and of one.                                  *)
StartWhole(on, r, states) == Frame(on, TRUE, r, states)
StartPart(on, r, states) == Frame(on, FALSE, r, states)

LEMMA WholeFrame ==
    ASSUME NEW on \in RowTriggers, NEW r \in Regions, NEW states,
           NEW f, f = StartWhole(on, r, states)
    PROVE  /\ f \in Frames /\ f.on = on /\ f.whole /\ f.region = r
           /\ f.stage \in {"ask", "rows"}
           /\ on.kind # "event" => f.stage = "rows"
           /\ f.todo = <<>> /\ f.over = {}
<1>1. f.whole
  BY Zenon DEF Frame, StartWhole, StartPart
<1>2. TRUE \in BOOLEAN
  OBVIOUS
<1>3. f \in Frames
  BY <1>2, FrameType DEF StartWhole, StartPart
<1>4. f.stage \in {"ask", "rows"} /\ (on.kind # "event" => f.stage = "rows")
  BY FirstStages DEF Frame, StartWhole, StartPart
<1>5. f.on = on /\ f.region = r /\ f.todo = <<>> /\ f.over = {}
  BY DEF Frame, StartWhole, StartPart
<1> QED
  BY <1>1, <1>3, <1>4, <1>5

LEMMA PartFrame ==
    ASSUME NEW on \in RowTriggers, NEW r \in Regions, NEW states,
           NEW f, f = StartPart(on, r, states)
    PROVE  /\ f \in Frames /\ f.on = on /\ ~f.whole /\ f.region = r
           /\ f.stage \in {"ask", "rows"}
           /\ on.kind # "event" => f.stage = "rows"
           /\ f.todo = <<>> /\ f.over = {}
<1>1. ~f.whole
  BY Zenon DEF Frame, StartWhole, StartPart
<1>2. FALSE \in BOOLEAN
  OBVIOUS
<1>3. f \in Frames
  BY <1>2, FrameType DEF StartWhole, StartPart
<1>4. f.stage \in {"ask", "rows"} /\ (on.kind # "event" => f.stage = "rows")
  BY FirstStages DEF Frame, StartWhole, StartPart
<1>5. f.on = on /\ f.region = r /\ f.todo = <<>> /\ f.over = {}
  BY DEF Frame, StartWhole, StartPart
<1> QED
  BY <1>1, <1>3, <1>4, <1>5

LEMMA FirstRegion == 1 \in Regions
BY NumRegionsAssumption DEF Regions

LEMMA HandlerKind ==
    ASSUME NEW x
    PROVE  HandlerOf(x).kind \in {"exception", "exception_any"}
BY DEF HandlerOf, OnException, OnExceptionAny

(* A row of the table and the steps of its transition.                     *)
LEMMA RowType ==
    ASSUME table \in ExceptionTables, NEW i \in DOMAIN table.rows
    PROVE  /\ table.rows[i].on \in RowTriggers
           /\ table.rows[i].guard \in SUBSET ({"true", "false"} \cup Exceptions)
           /\ table.rows[i].action \in Seq(Calls)
           /\ table.rows[i].to \in States \cup {Internal}
<1> DEFINE R == [src : States \cup {AnyState}, on : RowTriggers,
                 guard : (SUBSET ({"true", "false"} \cup Exceptions)) \ {{}},
                 action : Seq(Calls), to : States \cup {Internal}]
<1>1. table.rows \in Seq(R)
  BY DEF ExceptionTables
<1>2. table.rows[i] \in R
  <2> HIDE DEF R
  <2> QED
    BY <1>1, ElementOfSeq, LenProperties
<1> HIDE DEF RowTriggers
<1> QED
  BY <1>2

LEMMA MentionedTrigger ==
    ASSUME table \in ExceptionTables, NEW on, Mentions(table, on)
    PROVE  on \in RowTriggers
BY RowType DEF Mentions

LEMMA StepTypes ==
    /\ Leave \in Steps /\ Enter \in Steps
    /\ Calls \subseteq Steps
    /\ \A s \in States : Update(s) \in Steps
    /\ \A x \in Steps : /\ x.op \in {"call", "update", "leave", "enter"}
                        /\ x.op = "update" => x.arg \in States
                        /\ x.op = "call" => x.arg \in Exceptions
BY DEF Steps, Calls, Leave, Enter, Update

LEMMA ExecutionType ==
    ASSUME table \in ExceptionTables, NEW i \in DOMAIN table.rows
    PROVE  RowExecution(i) \in Seq(Steps)
<1> DEFINE act == table.rows[i].action
           to == table.rows[i].to
<1>1. act \in Seq(Calls) /\ to \in States \cup {Internal}
  BY RowType
<1> HIDE DEF act, to
<1>2. act \in Seq(Steps)
  BY <1>1, StepTypes
<1>3. CASE to = Internal
  BY <1>2, <1>3 DEF RowExecution, act, to
<1>4. CASE to # Internal
  <2>1. <<Leave, Update(to)>> \in Seq(Steps) /\ <<Enter>> \in Seq(Steps)
    BY <1>1, <1>4, StepTypes
  <2>2. <<Leave, Update(to)>> \o act \o <<Enter>> \in Seq(Steps)
    BY <1>2, <2>1, ConcatProperties
  <2> QED
    BY <1>4, <2>2 DEF RowExecution, act, to
<1> QED
  BY <1>3, <1>4

-----------------------------------------------------------------------------
(* Types and nesting are one invariant: what the innermost dispatch returns  *)
(* to is known to wait for it only because the stack is well nested, and a   *)
(* region asks the unexpected_event rows only about a user event.           *)
AskingEvent ==
    \A k \in DOMAIN frames : frames[k].stage = "ask" => frames[k].on.kind = "event"

TypeNest == StateTypes /\ WellNested /\ AskingEvent

LEMMA TopType ==
    ASSUME StateTypes, pc = "dispatching"
    PROVE  /\ frames \in Seq(Frames) /\ frames # <<>>
           /\ Len(frames) \in Nat \ {0} /\ DOMAIN frames = 1..Len(frames)
           /\ Top = frames[Len(frames)] /\ Top \in Frames
           /\ \A k \in 1..Len(frames) : frames[k] \in Frames
<1>1. frames \in Seq(Frames) /\ frames # <<>>
  BY DEF StateTypes
<1> HIDE DEF Frames
<1>2. \A k \in 1..Len(frames) : frames[k] \in Frames
  BY <1>1, ElementOfSeq
<1> QED
  BY <1>1, <1>2, TopOf DEF Top

LEMMA ResumeType ==
    ASSUME NEW f \in Frames, Waits(f), NEW answer \in BOOLEAN
    PROVE  LET g == Resume(f, answer)
           IN  /\ g \in Frames
               /\ g.on = f.on /\ g.whole = f.whole /\ g.region = f.region
               /\ g.over = f.over
               /\ f.stage = "running" =>
                     g.stage = "running" /\ g.todo = Tail(f.todo) /\ f.todo # <<>>
               /\ f.stage # "running" =>
                     g.stage \in {"any", "ask_any"} /\ g.todo = f.todo
<1> DEFINE g == Resume(f, answer)
<1>1. CASE f.stage = "running"
  <2>1. f.todo \in Seq(Steps) /\ f.todo # <<>>
    BY <1>1 DEF Waits, Frames
  <2>2. Tail(f.todo) \in Seq(Steps)
    BY <2>1, HeadTailProperties
  <2>3. g = [f EXCEPT !.todo = Tail(f.todo)]
    BY <1>1 DEF Resume
  <2> HIDE DEF g
  <2>4. g \in Frames /\ g.todo = Tail(f.todo) /\ g.stage = f.stage
    BY <2>2, <2>3 DEF Frames
  <2>5. g.on = f.on /\ g.region = f.region /\ g.over = f.over
    BY <2>3 DEF Frames
  <2>6. g.whole = f.whole
    BY <2>3 DEF Frames
  <2> QED
    BY <1>1, <2>1, <2>4, <2>5, <2>6 DEF g
<1>2. CASE f.stage # "running"
  <2>1. f.stage \in {"unexpected", "unexpected_any"}
    BY <1>2 DEF Waits
  <2>2. PICK stage \in {"any", "ask_any"} : g = [f EXCEPT !.stage = stage]
    <3>1. CASE f.stage = "unexpected"
      BY <3>1 DEF Resume
    <3>2. CASE f.stage = "unexpected_any"
      BY <3>2 DEF Resume
    <3> QED
      BY <2>1, <3>1, <3>2
  <2> HIDE DEF g
  <2>4. g \in Frames /\ g.todo = f.todo /\ g.stage = stage
    BY <2>2 DEF Frames
  <2>5. g.on = f.on /\ g.region = f.region /\ g.over = f.over
    BY <2>2 DEF Frames
  <2>6. g.whole = f.whole
    BY <2>2 DEF Frames
  <2> QED
    BY <1>2, <2>4, <2>5, <2>6 DEF g
<1> QED
  BY <1>1, <1>2

(* The innermost dispatch returns: to the user, or to the one below.        *)
Returned(answer) ==
    \/ Len(frames) = 1 /\ frames' = <<>> /\ pc' = "dispatched" /\ accepted' = answer
    \/ /\ Len(frames) > 1
       /\ Waits(frames[Len(frames) - 1])
       /\ Resume(frames[Len(frames) - 1], answer) \in Frames
       /\ IsOn(frames', frames, Len(frames) - 2, Resume(frames[Len(frames) - 1], answer))
       /\ UNCHANGED <<pc, accepted>>

LEMMA ReturnMoves ==
    ASSUME TypeNest, pc = "dispatching", NEW answer \in BOOLEAN, Return(answer)
    PROVE  Returned(answer)
<1>1. CASE Len(frames) = 1
  BY <1>1 DEF Return, Returned
<1>2. CASE Len(frames) # 1
  <2> DEFINE n == Len(frames)
             g == Resume(frames[n - 1], answer)
  <2>1. /\ frames \in Seq(Frames) /\ frames # <<>>
        /\ n \in Nat \ {0} /\ DOMAIN frames = 1..n
        /\ \A k \in 1..n : frames[k] \in Frames
    BY TopType DEF TypeNest
  <2>2. n > 1 /\ n - 1 \in 1..n
    BY <1>2, <2>1
  <2>3. Waits(frames[n - 1])
    BY <2>1, <2>2 DEF TypeNest, WellNested
  <2>4. g \in Frames
    BY <2>1, <2>2, <2>3, ResumeType
  <2>5. Last(Front(frames)) = frames[n - 1]
    BY <1>2, <2>1, FrontLast
  <2>6. /\ frames' = Append(Front(Front(frames)), g)
        /\ UNCHANGED <<pc, accepted>>
    BY <1>2, <2>5 DEF Return
  <2> HIDE DEF g
  <2>7. IsOn(frames', frames, n - 2, g)
    BY <1>2, <2>1, <2>4, <2>6, ReturnIsOn
  <2> QED
    BY <2>2, <2>3, <2>4, <2>6, <2>7 DEF Returned, g
<1> QED
  BY <1>1, <1>2

(* A region is done: the next one is visited, or the dispatch returns.      *)
LEMMA RegionDoneMoves ==
    ASSUME TypeNest, pc = "dispatching", NEW answer \in BOOLEAN, RegionDone(answer)
    PROVE  \/ /\ Top.whole /\ Top.region < NumRegions
              /\ \E f \in Frames :
                    /\ f.on = Top.on /\ f.whole /\ f.region = Top.region + 1
                    /\ f.stage \in {"ask", "rows"}
                    /\ Top.on.kind # "event" => f.stage = "rows"
                    /\ f.todo = <<>> /\ f.over = {}
                    /\ IsOn(frames', frames, Len(frames) - 1, f)
              /\ UNCHANGED <<pc, accepted>>
           \/ /\ ~(Top.whole /\ Top.region < NumRegions)
              /\ \E b \in BOOLEAN : Returned(b)
<1>1. /\ frames \in Seq(Frames) /\ frames # <<>> /\ Top \in Frames
  BY TopType DEF TypeNest
<1>2. Top.on \in RowTriggers /\ Top.region \in Regions /\ Top.handled \in BOOLEAN
  BY <1>1 DEF Frames
<1>3. CASE Top.whole /\ Top.region < NumRegions
  <2> DEFINE h == Top.handled \/ answer
             g == Frame(Top.on, TRUE, Top.region + 1, current_state_)
             f == [g EXCEPT !.handled = h]
  <2>1. Top.region + 1 \in Regions
    BY <1>2, <1>3, NumRegionsAssumption DEF Regions
  <2>2. h \in BOOLEAN
    BY <1>2
  <2>3. /\ g \in Frames /\ g.on = Top.on /\ g.whole /\ g.region = Top.region + 1
        /\ g.stage \in {"ask", "rows"}
        /\ Top.on.kind # "event" => g.stage = "rows"
        /\ g.todo = <<>> /\ g.over = {}
    <3>1. g = StartWhole(Top.on, Top.region + 1, current_state_)
      BY DEF StartWhole
    <3> HIDE DEF g
    <3> QED
      BY <1>2, <2>1, <3>1, WholeFrame
  <2>4. /\ frames' = Append(Front(frames), f)
        /\ UNCHANGED <<pc, accepted>>
    BY <1>3 DEF RegionDone, Replace
  <2> HIDE DEF h, g
  <2>5. f \in Frames /\ f.on = g.on /\ f.region = g.region /\ f.stage = g.stage
        /\ f.todo = g.todo /\ f.over = g.over
    BY <2>2, <2>3 DEF Frames
  <2>6. f.whole = g.whole
    BY <2>3 DEF Frames
  <2> HIDE DEF f
  <2>7. IsOn(frames', frames, Len(frames) - 1, f)
    BY <1>1, <2>4, <2>5, ReplaceIsOn
  <2> QED
    BY <1>3, <2>3, <2>4, <2>5, <2>6, <2>7
<1>4. CASE ~(Top.whole /\ Top.region < NumRegions)
  <2> DEFINE b == Top.handled \/ answer
  <2>1. b \in BOOLEAN
    BY <1>2
  <2>2. Return(b)
    BY <1>4 DEF RegionDone
  <2> HIDE DEF b
  <2>3. Returned(b)
    BY <2>1, <2>2, ReturnMoves
  <2> QED
    BY <1>4, <2>1, <2>3
<1> QED
  BY <1>3, <1>4

(* An exception: the handler in place of the innermost dispatch, or none.    *)
LEMMA ThrowMoves ==
    ASSUME TypeNest, pc = "dispatching", NEW x \in Exceptions, Throw(x)
    PROVE  /\ last' = x /\ atThrow' = current_state_ /\ ran' = {}
           /\ thrown' = thrown + 1
           /\ UNCHANGED <<table, exceptions, current_state_, item, what, handled,
                          result, calls>>
           /\ \/ /\ Mentions(table, HandlerOf(x))
                 /\ \E f \in Frames :
                       /\ f.on = HandlerOf(x) /\ f.whole /\ f.region = 1
                       /\ f.stage = "rows" /\ f.todo = <<>> /\ f.over = {}
                       /\ IsOn(frames', frames, Len(frames) - 1, f)
                 /\ UNCHANGED <<pc, accepted>>
              \/ ~Mentions(table, HandlerOf(x)) /\ Returned(FALSE)
<1>1. frames \in Seq(Frames) /\ frames # <<>>
  BY TopType DEF TypeNest
<1>2. /\ last' = x /\ atThrow' = current_state_ /\ ran' = {}
      /\ thrown' = thrown + 1
      /\ UNCHANGED <<table, exceptions, current_state_, item, what, handled,
                          result, calls>>
  BY DEF Throw
<1>3. CASE Mentions(table, HandlerOf(x))
  <2> DEFINE h == HandlerOf(x)
             f == Frame(h, TRUE, 1, current_state_)
  <2>1. h \in RowTriggers
    BY <1>3, MentionedTrigger DEF TypeNest, StateTypes
  <2>2. h.kind # "event"
    BY HandlerKind
  <2>3. frames' = Append(Front(frames), f) /\ UNCHANGED <<pc, accepted>>
    BY <1>3 DEF Throw, Replace
  <2> HIDE DEF h
  <2>4. /\ f \in Frames /\ f.on = h /\ f.whole /\ f.region = 1
        /\ f.stage = "rows" /\ f.todo = <<>> /\ f.over = {}
    <3>1. f = StartWhole(h, 1, current_state_)
      BY DEF StartWhole
    <3> HIDE DEF f
    <3> QED
      BY <2>1, <2>2, <3>1, FirstRegion, WholeFrame
  <2> HIDE DEF f
  <2>5. IsOn(frames', frames, Len(frames) - 1, f)
    BY <1>1, <2>3, <2>4, ReplaceIsOn
  <2> QED
    BY <1>2, <1>3, <2>3, <2>4, <2>5 DEF h
<1>4. CASE ~Mentions(table, HandlerOf(x))
  <2>1. Return(FALSE)
    BY <1>4 DEF Throw
  <2>2. Returned(FALSE)
    BY <2>1, ReturnMoves, Zenon
  <2> QED
    BY <1>2, <1>4, <2>2
<1> QED
  BY <1>3, <1>4

-----------------------------------------------------------------------------
(* The invariant holds of a stack that is built on the lower part of one     *)
(* for which it holds.                                                     *)
LEMMA NestOn ==
    ASSUME TypeNest, pc = "dispatching", NEW f \in Frames, NEW n \in Nat,
           n <= Len(frames), IsOn(frames', frames, n, f),
           f.stage \notin {"unexpected", "unexpected_any"},
           f.stage = "ask" => f.on.kind = "event",
           n = 0 => f.whole,
           n > 0 => /\ Waits(frames[n])
                    /\ IF f.whole THEN IsHandler(f) ELSE f.region = frames[n].region
    PROVE  WellNested' /\ AskingEvent'
<1>1. /\ frames' \in Seq(Frames) /\ frames' # <<>>
      /\ Len(frames') = n + 1 /\ DOMAIN frames' = 1..(n + 1)
      /\ \A k \in 1..n : frames'[k] = frames[k]
      /\ frames'[n + 1] = f
  BY DEF IsOn
<1>2. /\ Len(frames) \in Nat \ {0} /\ DOMAIN frames = 1..Len(frames)
  BY TopType DEF TypeNest
<1>3. SUFFICES ASSUME NEW k \in 1..(n + 1)
               PROVE  /\ frames'[k].stage = "ask" => frames'[k].on.kind = "event"
                      /\ k < n + 1 => Waits(frames'[k])
                      /\ k = n + 1 => frames'[k].stage \notin {"unexpected", "unexpected_any"}
                      /\ k = 1 => frames'[k].whole
                      /\ k > 1 => IF frames'[k].whole THEN IsHandler(frames'[k])
                                  ELSE frames'[k].region = frames'[k - 1].region
  BY <1>1 DEF WellNested, AskingEvent, Waits, IsHandler
<1>4. CASE k <= n
  <2>1. k \in 1..n /\ k \in 1..Len(frames) /\ (k > 1 => k - 1 \in 1..n)
    BY <1>2, <1>4
  <2>2. frames'[k] = frames[k] /\ (k > 1 => frames'[k - 1] = frames[k - 1])
    BY <1>1, <2>1
  <2>3. /\ frames[k].stage = "ask" => frames[k].on.kind = "event"
        /\ k < Len(frames) => Waits(frames[k])
        /\ k = 1 => frames[k].whole
        /\ k > 1 => IF frames[k].whole THEN IsHandler(frames[k])
                    ELSE frames[k].region = frames[k - 1].region
    BY <1>2, <2>1 DEF TypeNest, WellNested, AskingEvent
  <2>4. Waits(frames[k])
    BY <1>2, <2>1, <2>3
  <2> QED
    BY <1>4, <2>1, <2>2, <2>3, <2>4
<1>5. CASE k = n + 1
  <2>1. n > 0 => n \in 1..n /\ frames'[n] = frames[n]
    BY <1>1
  <2> QED
    BY <1>1, <1>5, <2>1
<1> QED
  BY <1>4, <1>5

LEMMA OnStep ==
    ASSUME TypeNest, pc = "dispatching", NEW f \in Frames, NEW n \in Nat,
           n <= Len(frames), IsOn(frames', frames, n, f),
           f.stage \notin {"unexpected", "unexpected_any"},
           f.stage = "ask" => f.on.kind = "event",
           n = 0 => f.whole,
           n > 0 => /\ Waits(frames[n])
                    /\ IF f.whole THEN IsHandler(f) ELSE f.region = frames[n].region,
           UNCHANGED <<table, current_state_, pc, item, what, handled, result, calls>>,
           UNCHANGED accepted, thrown' \in Nat, last' \in Exceptions \cup {None},
           atThrow' \in [Regions -> States], ran' \in SUBSET Regions
    PROVE  TypeNest'
<1>1. WellNested' /\ AskingEvent'
  BY NestOn
<1>2. frames' \in Seq(Frames) /\ frames' # <<>>
  BY DEF IsOn
<1>3. accepted' \in BOOLEAN /\ handled' \in BOOLEAN
  BY Zenon DEF TypeNest, StateTypes
<1>4. StateTypes'
  <2> HIDE DEF Frames, ExceptionTables, RowTriggers
  <2> QED
    BY <1>2, <1>3 DEF TypeNest, StateTypes
<1> QED
  BY <1>1, <1>4 DEF TypeNest

(* What the innermost dispatch owes to the one below it, for its successor. *)
LEMMA TopNest ==
    ASSUME TypeNest, pc = "dispatching"
    PROVE  LET n == Len(frames) - 1
           IN  /\ n \in Nat /\ n <= Len(frames)
               /\ Top.stage \notin {"unexpected", "unexpected_any"}
               /\ n = 0 => Top.whole
               /\ n > 0 => /\ Waits(frames[n])
                           /\ IF Top.whole THEN IsHandler(Top)
                              ELSE Top.region = frames[n].region
<1> DEFINE m == Len(frames)
<1>1. /\ m \in Nat \ {0} /\ DOMAIN frames = 1..m /\ Top = frames[m]
  BY TopType DEF TypeNest
<1> HIDE DEF m
<1>2. \A k \in 1..m :
         /\ k < m => Waits(frames[k])
         /\ k = m => frames[k].stage \notin {"unexpected", "unexpected_any"}
         /\ k = 1 => frames[k].whole
         /\ k > 1 => IF frames[k].whole THEN IsHandler(frames[k])
                     ELSE frames[k].region = frames[k - 1].region
  BY <1>1 DEF TypeNest, WellNested, m
<1>3. m - 1 \in Nat /\ m - 1 <= m /\ m \in 1..m
  BY <1>1
<1>4. CASE m = 1
  BY <1>1, <1>2, <1>3, <1>4 DEF m
<1>5. CASE m > 1
  <2>1. m - 1 \in 1..m /\ m - 1 < m /\ m - 1 # 0
    BY <1>1, <1>5
  <2>2. Waits(frames[m - 1])
    BY <1>2, <2>1
  <2>3. /\ frames[m].stage \notin {"unexpected", "unexpected_any"}
        /\ IF frames[m].whole THEN IsHandler(frames[m])
           ELSE frames[m].region = frames[m - 1].region
    BY <1>2, <1>3, <1>5
  <2> QED
    BY <1>1, <1>3, <2>1, <2>2, <2>3 DEF m
<1> QED
  BY <1>1, <1>4, <1>5

LEMMA EmptyStep ==
    ASSUME TypeNest, frames' = <<>>, pc' = "dispatched", accepted' \in BOOLEAN,
           UNCHANGED <<table, current_state_, item, what, handled, result, calls>>,
           thrown' \in Nat, last' \in Exceptions \cup {None},
           atThrow' \in [Regions -> States], ran' \in SUBSET Regions
    PROVE  TypeNest'
<1>1. WellNested' /\ AskingEvent'
  BY DEF WellNested, AskingEvent
<1>2. handled' \in BOOLEAN
  BY Zenon DEF TypeNest, StateTypes
<1>3. frames' \in Seq(Frames)
  BY EmptySeq
<1>4. StateTypes'
  <2> HIDE DEF Frames, ExceptionTables, RowTriggers
  <2> QED
    BY <1>2, <1>3 DEF TypeNest, StateTypes
<1> QED
  BY <1>1, <1>4 DEF TypeNest

LEMMA ReturnedStep ==
    ASSUME TypeNest, pc = "dispatching", NEW answer \in BOOLEAN, Returned(answer),
           UNCHANGED <<table, current_state_, item, what, handled, result, calls>>,
           thrown' \in Nat, last' \in Exceptions \cup {None},
           atThrow' \in [Regions -> States], ran' \in SUBSET Regions
    PROVE  TypeNest'
<1> DEFINE n == Len(frames)
<1>1. CASE n = 1 /\ frames' = <<>> /\ pc' = "dispatched" /\ accepted' = answer
  BY <1>1, EmptyStep
<1>2. CASE ~(n = 1 /\ frames' = <<>> /\ pc' = "dispatched" /\ accepted' = answer)
  <2> DEFINE g == frames[n - 1]
             f == Resume(g, answer)
  <2>1. /\ n > 1 /\ Waits(g) /\ f \in Frames /\ IsOn(frames', frames, n - 2, f)
        /\ UNCHANGED pc /\ UNCHANGED accepted
    BY <1>2 DEF Returned
  <2>2. /\ n \in Nat \ {0} /\ DOMAIN frames = 1..n /\ \A k \in 1..n : frames[k] \in Frames
    BY TopType DEF TypeNest
  <2>3. n - 1 \in 1..n /\ n - 1 < n /\ n - 2 \in Nat /\ n - 2 <= n
    BY <2>1, <2>2
  <2>4. /\ f.on = g.on /\ f.whole = g.whole /\ f.region = g.region
        /\ f.stage \notin {"unexpected", "unexpected_any", "ask"}
    <3>1. g \in Frames
      BY <2>2, <2>3
    <3> HIDE DEF g
    <3> QED
      BY <2>1, <3>1, ResumeType
  <2> HIDE DEF f
  <2>5. /\ n - 1 = 1 => g.whole
        /\ n - 1 > 1 => IF g.whole THEN IsHandler(g)
                        ELSE g.region = frames[n - 1 - 1].region
    BY <2>2, <2>3 DEF TypeNest, WellNested
  <2>6. n - 2 > 0 => Waits(frames[n - 2])
    BY <2>2, <2>3 DEF TypeNest, WellNested
  <2>7. n - 1 - 1 = n - 2 /\ (n - 2 = 0 <=> n - 1 = 1) /\ (n - 2 > 0 <=> n - 1 > 1)
    BY <2>2
  <2> HIDE DEF g, n
  <2>8. n - 2 = 0 => f.whole
    BY <2>4, <2>5, <2>7
  <2>9. n - 2 > 0 => /\ Waits(frames[n - 2])
                     /\ IF f.whole THEN IsHandler(f) ELSE f.region = frames[n - 2].region
    BY <2>4, <2>5, <2>6, <2>7 DEF IsHandler
  <2>10. n - 2 <= Len(frames)
    BY <2>3 DEF n
  <2> QED
    BY <2>1, <2>3, <2>4, <2>8, <2>9, <2>10, OnStep
<1> QED
  BY <1>1, <1>2

(* The last exception and its history change only when one is thrown.       *)
LEMMA ThrowStep ==
    ASSUME TypeNest, pc = "dispatching", NEW x \in Exceptions, Throw(x)
    PROVE  TypeNest'
<1>1. /\ last' = x /\ atThrow' = current_state_ /\ ran' = {} /\ thrown' = thrown + 1
      /\ UNCHANGED <<table, current_state_, item, what, handled, result, calls>>
  BY ThrowMoves
<1>2. /\ thrown' \in Nat /\ last' \in Exceptions \cup {None}
      /\ atThrow' \in [Regions -> States] /\ ran' \in SUBSET Regions
  BY <1>1 DEF TypeNest, StateTypes
<1>3. CASE Mentions(table, HandlerOf(x))
  <2>1. PICK f \in Frames :
           /\ f.on = HandlerOf(x) /\ f.whole /\ f.stage = "rows"
           /\ IsOn(frames', frames, Len(frames) - 1, f)
    BY <1>3, ThrowMoves
  <2>2. UNCHANGED pc /\ UNCHANGED accepted
    BY <1>3, ThrowMoves
  <2>3. IsHandler(f)
    BY <2>1, HandlerKind DEF IsHandler
  <2> QED
    BY <1>1, <1>2, <2>1, <2>2, <2>3, TopNest, OnStep
<1>4. CASE ~Mentions(table, HandlerOf(x))
  <2>1. Returned(FALSE)
    BY <1>4, ThrowMoves
  <2> QED
    BY <1>1, <1>2, <2>1, ReturnedStep
<1> QED
  BY <1>3, <1>4

LEMMA RegionDoneStep ==
    ASSUME TypeNest, pc = "dispatching", NEW answer \in BOOLEAN, RegionDone(answer),
           UNCHANGED <<table, current_state_, item, what, handled, result, calls>>,
           UNCHANGED <<thrown, last, atThrow, ran>>
    PROVE  TypeNest'
<1>1. /\ thrown' \in Nat /\ last' \in Exceptions \cup {None}
      /\ atThrow' \in [Regions -> States] /\ ran' \in SUBSET Regions
  BY DEF TypeNest, StateTypes
<1>2. CASE Top.whole /\ Top.region < NumRegions
  <2>1. PICK f \in Frames :
           /\ f.on = Top.on /\ f.whole /\ f.stage \in {"ask", "rows"}
           /\ Top.on.kind # "event" => f.stage = "rows"
           /\ IsOn(frames', frames, Len(frames) - 1, f)
    BY <1>2, RegionDoneMoves
  <2>2. UNCHANGED pc /\ UNCHANGED accepted
    BY <1>2, RegionDoneMoves
  <2>3. /\ f.stage \notin {"unexpected", "unexpected_any"}
        /\ f.stage = "ask" => f.on.kind = "event"
    BY <2>1
  <2>4. IsHandler(Top) => IsHandler(f)
    BY <2>1 DEF IsHandler
  <2> QED
    BY <1>1, <1>2, <2>1, <2>2, <2>3, <2>4, TopNest, OnStep
<1>3. CASE ~(Top.whole /\ Top.region < NumRegions)
  <2>1. PICK b \in BOOLEAN : Returned(b)
    BY <1>3, RegionDoneMoves
  <2> QED
    BY <1>1, <2>1, ReturnedStep
<1> QED
  BY <1>2, <1>3

(* A step that replaces the innermost dispatch by a stage of its own.       *)
LEMMA StageStep ==
    ASSUME TypeNest, pc = "dispatching", NEW f \in Frames, Replace(f),
           f.on = Top.on, f.whole = Top.whole, f.region = Top.region,
           f.stage \notin {"unexpected", "unexpected_any", "ask"},
           UNCHANGED <<table, current_state_, pc, item, what, handled, result, calls>>,
           UNCHANGED <<accepted, thrown, last, atThrow>>, ran' \in SUBSET Regions
    PROVE  TypeNest' /\ IsOn(frames', frames, Len(frames) - 1, f)
<1>1. frames \in Seq(Frames) /\ frames # <<>>
  BY TopType DEF TypeNest
<1>2. IsOn(frames', frames, Len(frames) - 1, f)
  BY <1>1, ReplaceIsOn DEF Replace
<1>3. /\ thrown' \in Nat /\ last' \in Exceptions \cup {None}
      /\ atThrow' \in [Regions -> States]
  BY DEF TypeNest, StateTypes
<1>4. IsHandler(Top) => IsHandler(f)
  BY DEF IsHandler
<1> QED
  BY <1>2, <1>3, <1>4, TopNest, OnStep

(* The stage of the innermost dispatch when a row fires, and after a call.  *)
LEMMA FiredFrame ==
    ASSUME NEW f \in Frames, NEW steps \in Seq(Steps)
    PROVE  LET g == [f EXCEPT !.stage = "running", !.todo = steps, !.over = {}]
           IN  /\ g \in Frames /\ g.on = f.on /\ g.whole = f.whole
               /\ g.region = f.region /\ g.stage = "running" /\ g.todo = steps
               /\ g.over = {}
<1> DEFINE g == [f EXCEPT !.stage = "running", !.todo = steps, !.over = {}]
<1>1. g \in Frames
  BY DEF Frames
<1>2. /\ g.on = f.on /\ g.region = f.region /\ g.stage = "running"
      /\ g.todo = steps /\ g.over = {}
  BY DEF Frames
<1>3. g.whole = f.whole
  BY DEF Frames
<1> QED
  BY <1>1, <1>2, <1>3

LEMMA NextFrame ==
    ASSUME NEW f \in Frames, f.todo # <<>>
    PROVE  LET g == [f EXCEPT !.todo = Tail(@)]
           IN  /\ g \in Frames /\ g.on = f.on /\ g.whole = f.whole
               /\ g.region = f.region /\ g.stage = f.stage /\ g.todo = Tail(f.todo)
               /\ g.over = f.over
<1> DEFINE g == [f EXCEPT !.todo = Tail(@)]
<1>1. f.todo \in Seq(Steps)
  BY DEF Frames
<1>2. Tail(f.todo) \in Seq(Steps)
  BY <1>1, HeadTailProperties
<1>3. g \in Frames
  BY <1>2 DEF Frames
<1>4. /\ g.on = f.on /\ g.region = f.region /\ g.stage = f.stage
      /\ g.todo = Tail(f.todo) /\ g.over = f.over
  BY DEF Frames
<1>5. g.whole = f.whole
  BY DEF Frames
<1> QED
  BY <1>3, <1>4, <1>5

LEMMA AskFrame ==
    ASSUME NEW f \in Frames, NEW stage \in {"unexpected", "unexpected_any"},
           NEW g, g = [f EXCEPT !.stage = stage]
    PROVE  /\ g \in Frames /\ g.on = f.on /\ g.whole = f.whole
           /\ g.region = f.region /\ g.stage = stage /\ g.todo = f.todo
           /\ g.over = f.over
<1>3. g \in Frames
  BY DEF Frames
<1>4. /\ g.on = f.on /\ g.region = f.region /\ g.stage = stage
      /\ g.todo = f.todo /\ g.over = f.over
  BY DEF Frames
<1>5. g.whole = f.whole
  BY DEF Frames
<1> QED
  BY <1>3, <1>4, <1>5

(* What the innermost dispatch of a step that runs is about to do.          *)
LEMMA RunningType ==
    ASSUME TypeNest, NEW op, Running(op)
    PROVE  /\ pc = "dispatching" /\ Top.stage = "running"
           /\ Top.todo \in Seq(Steps) /\ Top.todo # <<>>
           /\ Head(Top.todo) \in Steps /\ Head(Top.todo).op = op
<1>1. pc = "dispatching" /\ Top.stage = "running" /\ Top.todo # <<>> /\ Head(Top.todo).op = op
  BY DEF Running
<1>2. Top.todo \in Seq(Steps)
  BY <1>1, TopType DEF TypeNest, Frames
<1> QED
  BY <1>1, <1>2, HeadTailProperties

LEMMA CandidateType ==
    ASSUME NEW i \in Candidates
    PROVE  i \in DOMAIN table.rows /\ table.rows[i].on = Top.on
BY DEF Candidates, AnyRows, StateRows

LEMMA RowFiresStep ==
    ASSUME TypeNest, NEW i \in Candidates, RowFires(i)
    PROVE  /\ TypeNest'
           /\ \E f \in Frames :
                 /\ f.on = Top.on /\ f.whole = Top.whole /\ f.region = Top.region
                 /\ f.stage = "running" /\ f.todo = RowExecution(i) /\ f.over = {}
                 /\ IsOn(frames', frames, Len(frames) - 1, f)
<1>1. pc = "dispatching"
  BY DEF RowFires, LookingUp
<1>2. RowExecution(i) \in Seq(Steps)
  BY CandidateType, ExecutionType DEF TypeNest, StateTypes
<1> DEFINE steps == RowExecution(i)
           f == [Top EXCEPT !.stage = "running", !.todo = steps, !.over = {}]
<1>3. Top \in Frames
  BY <1>1, TopType DEF TypeNest
<1>4. /\ f \in Frames /\ f.on = Top.on /\ f.whole = Top.whole
      /\ f.region = Top.region /\ f.stage = "running" /\ f.todo = steps /\ f.over = {}
  BY <1>2, <1>3, FiredFrame
<1>5. Replace(f) /\ UNCHANGED <<table, current_state_, pc, item, what, handled, result, calls>>
      /\ UNCHANGED <<accepted, thrown, last, atThrow>>
  BY DEF RowFires
<1>6. ran' \in SUBSET Regions
  <2>1. Top.region \in Regions /\ ran \in SUBSET Regions
    BY <1>3 DEF Frames, TypeNest, StateTypes
  <2> QED
    BY <2>1 DEF RowFires
<1> HIDE DEF f
<1>7. TypeNest' /\ IsOn(frames', frames, Len(frames) - 1, f)
  BY <1>1, <1>4, <1>5, <1>6, StageStep
<1> QED
  BY <1>4, <1>7

LEMMA CallReturnsStep ==
    ASSUME TypeNest, CallReturns
    PROVE  /\ TypeNest'
           /\ \E f \in Frames :
                 /\ f.on = Top.on /\ f.whole = Top.whole /\ f.region = Top.region
                 /\ f.stage = "running" /\ f.todo = Tail(Top.todo) /\ f.over = Top.over
                 /\ IsOn(frames', frames, Len(frames) - 1, f)
<1>1. /\ pc = "dispatching" /\ Top.stage = "running" /\ Top.todo # <<>>
  BY RunningType DEF CallReturns
<1>2. Top \in Frames
  BY <1>1, TopType DEF TypeNest
<1> DEFINE f == [Top EXCEPT !.todo = Tail(@)]
<1>3. /\ f \in Frames /\ f.on = Top.on /\ f.whole = Top.whole
      /\ f.region = Top.region /\ f.stage = "running" /\ f.todo = Tail(Top.todo)
      /\ f.over = Top.over
  BY <1>1, <1>2, NextFrame
<1>4. Replace(f) /\ UNCHANGED <<table, current_state_, pc, item, what, handled, result, calls>>
      /\ UNCHANGED <<accepted, thrown, last, atThrow>>
  BY DEF CallReturns, ghostVars
<1>5. ran' \in SUBSET Regions
  BY DEF CallReturns, ghostVars, TypeNest, StateTypes
<1> HIDE DEF f
<1>6. TypeNest' /\ IsOn(frames', frames, Len(frames) - 1, f)
  BY <1>1, <1>3, <1>4, <1>5, StageStep
<1> QED
  BY <1>3, <1>6

LEMMA StateActionStep ==
    ASSUME TypeNest, RunStateAction
    PROVE  /\ TypeNest'
           /\ Head(Top.todo) \in {Leave, Enter}
           /\ \E f \in Frames :
                 /\ f.on = IF Head(Top.todo) = Leave THEN OnExit ELSE OnEntry
                 /\ ~f.whole /\ f.region = Top.region
                 /\ f.stage = "rows" /\ f.todo = <<>> /\ f.over = {}
                 /\ IsOn(frames', frames, Len(frames), f)
<1> DEFINE on == IF Head(Top.todo) = Leave THEN OnExit ELSE OnEntry
           f == Frame(on, FALSE, Top.region, current_state_)
<1>1. /\ pc = "dispatching" /\ Top.stage = "running" /\ Top.todo # <<>>
      /\ Head(Top.todo) \in {Leave, Enter}
  <2>1. CASE Running("leave")
    <3>1. Head(Top.todo) \in Steps /\ Head(Top.todo).op = "leave"
      BY <2>1, RunningType
    <3>2. Head(Top.todo) = Leave
      BY <3>1 DEF Steps, Calls, Leave, Enter
    <3> QED
      BY <2>1, <3>2, RunningType
  <2>2. CASE Running("enter")
    <3>1. Head(Top.todo) \in Steps /\ Head(Top.todo).op = "enter"
      BY <2>2, RunningType
    <3>2. Head(Top.todo) = Enter
      BY <3>1 DEF Steps, Calls, Leave, Enter
    <3> QED
      BY <2>2, <3>2, RunningType
  <2> QED
    BY <2>1, <2>2 DEF RunStateAction
<1>2. Top \in Frames /\ frames \in Seq(Frames) /\ Len(frames) \in Nat \ {0}
      /\ Top = frames[Len(frames)]
  BY <1>1, TopType DEF TypeNest
<1>3. Top.region \in Regions
  BY <1>2 DEF Frames
<1>4. on \in RowTriggers /\ on.kind # "event"
  BY DEF RowTriggers, Triggers, OnExit, OnEntry
<1>5. /\ Push(f)
      /\ UNCHANGED <<table, current_state_, pc, item, what, handled, result, calls>>
      /\ UNCHANGED <<accepted, thrown, last, atThrow, ran>>
  BY DEF RunStateAction, ghostVars
<1> HIDE DEF on
<1>6. f = StartPart(on, Top.region, current_state_)
  BY DEF StartPart
<1> HIDE DEF f
<1>7. /\ f \in Frames /\ f.on = on /\ ~f.whole /\ f.region = Top.region
      /\ f.stage = "rows" /\ f.todo = <<>> /\ f.over = {}
  BY <1>3, <1>4, <1>6, PartFrame
<1>8. IsOn(frames', frames, Len(frames), f)
  BY <1>2, <1>5, <1>7, PushIsOn DEF Push
<1>9. TypeNest'
  <2>1. /\ thrown' \in Nat /\ last' \in Exceptions \cup {None}
        /\ atThrow' \in [Regions -> States] /\ ran' \in SUBSET Regions
    BY <1>5 DEF TypeNest, StateTypes
  <2>2. Waits(frames[Len(frames)])
    BY <1>1, <1>2 DEF Waits
  <2> QED
    BY <1>1, <1>2, <1>5, <1>7, <1>8, <2>1, <2>2, OnStep
<1> QED
  BY <1>1, <1>7, <1>8, <1>9 DEF on

LEMMA AskStep ==
    ASSUME TypeNest, AskUnexpected
    PROVE  /\ TypeNest'
           /\ Len(frames') = Len(frames) + 1
           /\ \A k \in 1..(Len(frames) - 1) : frames'[k] = frames[k]
           /\ LET g == frames'[Len(frames)]
                  f == frames'[Len(frames) + 1]
              IN  /\ g.on = Top.on /\ g.whole = Top.whole /\ g.region = Top.region
                  /\ g.stage \in {"unexpected", "unexpected_any"}
                  /\ g.todo = Top.todo /\ g.over = Top.over
                  /\ f.on.kind \in {"unexpected", "unexpected_any"}
                  /\ ~f.whole /\ f.region = Top.region
                  /\ f.stage = "rows" /\ f.todo = <<>> /\ f.over = {}
<1> DEFINE n == Len(frames)
           first == Top.stage = "ask"
           on == IF first THEN OnUnexpected(Top.on.ev) ELSE OnUnexpectedAny
           stage == IF first THEN "unexpected" ELSE "unexpected_any"
           g == [Top EXCEPT !.stage = stage]
           f == Frame(on, FALSE, Top.region, current_state_)
           m == Append(Front(frames), g)
<1>1. /\ pc = "dispatching" /\ Top.stage \in {"ask", "ask_any"}
      /\ frames' = Append(m, f)
      /\ UNCHANGED <<table, current_state_, pc, item, what, handled, result, calls>>
      /\ UNCHANGED <<accepted, thrown, last, atThrow, ran>>
  BY DEF AskUnexpected, ghostVars
<1>2. /\ Top \in Frames /\ frames \in Seq(Frames) /\ frames # <<>>
      /\ n \in Nat \ {0} /\ DOMAIN frames = 1..n /\ Top = frames[n]
  BY <1>1, TopType DEF TypeNest
<1>3. Top.region \in Regions /\ Top.on \in RowTriggers
  BY <1>2 DEF Frames
<1>4. first => Top.on.kind = "event"
  <2>1. n \in DOMAIN frames
    BY <1>2
  <2> QED
    BY <1>2, <2>1 DEF TypeNest, AskingEvent
<1>5. /\ on \in RowTriggers /\ on.kind # "event"
      /\ on.kind \in {"unexpected", "unexpected_any"}
  <2>1. Top.on.kind = "event" => Top.on.ev \in Events
    BY <1>3 DEF RowTriggers, Triggers, OnExceptionAny
  <2>2. CASE first
    <3>1. OnUnexpected(Top.on.ev) \in RowTriggers
      BY <1>4, <2>1, <2>2 DEF RowTriggers, Triggers, OnUnexpected
    <3> QED
      BY <2>2, <3>1 DEF OnUnexpected
  <2>3. CASE ~first
    BY <2>3 DEF RowTriggers, Triggers, OnUnexpectedAny
  <2> QED
    BY <2>2, <2>3
<1>6. stage \in {"unexpected", "unexpected_any"}
  OBVIOUS
<1> HIDE DEF first, on, stage
<1>7. /\ g \in Frames /\ g.on = Top.on /\ g.whole = Top.whole /\ g.region = Top.region
      /\ g.stage = stage /\ g.todo = Top.todo /\ g.over = Top.over
  <2>1. g = [Top EXCEPT !.stage = stage]
    OBVIOUS
  <2> HIDE DEF g
  <2> QED
    BY <1>2, <1>6, <2>1, AskFrame
<1>8. f = StartPart(on, Top.region, current_state_)
  BY DEF StartPart
<1> HIDE DEF f, g
<1>9. /\ f \in Frames /\ f.on = on /\ ~f.whole /\ f.region = Top.region
      /\ f.stage = "rows" /\ f.todo = <<>> /\ f.over = {}
  BY <1>3, <1>5, <1>8, PartFrame
<1>10. IsOn(m, frames, n - 1, g)
  BY <1>2, <1>7, ReplaceIsOn
<1> HIDE DEF m
<1>11. m \in Seq(Frames) /\ Len(m) = n
  BY <1>2, <1>10 DEF IsOn
<1>12. IsOn(frames', m, n, f)
  BY <1>1, <1>9, <1>11, PushIsOn
<1>13. /\ frames' \in Seq(Frames) /\ frames' # <<>>
       /\ Len(frames') = n + 1 /\ DOMAIN frames' = 1..(n + 1)
       /\ frames'[n + 1] = f /\ frames'[n] = g
       /\ \A k \in 1..(n - 1) : frames'[k] = frames[k]
  <2>1. n - 1 + 1 = n /\ n \in 1..n /\ \A k \in 1..(n - 1) : k \in 1..n
    BY <1>2
  <2> HIDE DEF n
  <2>2. m[n] = g /\ \A k \in 1..(n - 1) : m[k] = frames[k]
    BY <1>10, <2>1 DEF IsOn
  <2>3. \A k \in 1..n : frames'[k] = m[k]
    BY <1>12 DEF IsOn
  <2>4. /\ frames' \in Seq(Frames) /\ frames' # <<>> /\ Len(frames') = n + 1
        /\ DOMAIN frames' = 1..(n + 1) /\ frames'[n + 1] = f
    BY <1>12 DEF IsOn
  <2> QED
    BY <2>1, <2>2, <2>3, <2>4
<1>14. WellNested' /\ AskingEvent'
  <2> SUFFICES ASSUME NEW k \in 1..(n + 1)
               PROVE  /\ k < n + 1 => Waits(frames'[k])
                      /\ k = n + 1 => frames'[k].stage \notin {"unexpected", "unexpected_any"}
                      /\ k = 1 => frames'[k].whole
                      /\ k > 1 => IF frames'[k].whole THEN IsHandler(frames'[k])
                                  ELSE frames'[k].region = frames'[k - 1].region
                      /\ frames'[k].stage = "ask" => frames'[k].on.kind = "event"
    BY <1>13 DEF WellNested, AskingEvent, Waits, IsHandler
  <2>1. \A j \in 1..n :
           /\ j < n => Waits(frames[j])
           /\ j = 1 => frames[j].whole
           /\ j > 1 => IF frames[j].whole THEN IsHandler(frames[j])
                       ELSE frames[j].region = frames[j - 1].region
           /\ frames[j].stage = "ask" => frames[j].on.kind = "event"
    BY <1>2 DEF TypeNest, WellNested, AskingEvent
  <2> HIDE DEF n
  <2>2. CASE k \in 1..(n - 1)
    <3>1. k \in 1..n /\ k < n /\ (k > 1 => k - 1 \in 1..(n - 1)) /\ k < n + 1 /\ k # n + 1
      BY <1>2, <2>2
    <3>2. frames'[k] = frames[k] /\ (k > 1 => frames'[k - 1] = frames[k - 1])
      BY <1>13, <2>2, <3>1
    <3> QED
      BY <2>1, <3>1, <3>2
  <2>3. CASE k = n
    <3>1. n \in 1..n /\ n < n + 1 /\ n # n + 1 /\ (n > 1 => n - 1 \in 1..(n - 1))
      BY <1>2
    <3>2. Waits(g)
      BY <1>6, <1>7 DEF Waits
    <3>3. /\ n = 1 => g.whole
          /\ n > 1 => IF g.whole THEN IsHandler(g) ELSE g.region = frames[n - 1].region
      BY <1>2, <1>7, <2>1, <3>1 DEF IsHandler
    <3>4. g.stage # "ask"
      BY <1>6, <1>7
    <3>5. n > 1 => frames'[n - 1] = frames[n - 1]
      BY <1>13, <3>1
    <3> QED
      BY <1>13, <2>3, <3>1, <3>2, <3>3, <3>4, <3>5
  <2>4. CASE k = n + 1
    <3>1. k - 1 = n /\ k # 1
      BY <1>2, <2>4
    <3>2. f.region = g.region
      BY <1>7, <1>9
    <3> QED
      BY <1>9, <1>13, <2>4, <3>1, <3>2
  <2> QED
    BY <1>2, <2>2, <2>3, <2>4
<1>15. StateTypes'
  <2>1. accepted' \in BOOLEAN /\ handled' \in BOOLEAN
    BY <1>1, Zenon DEF TypeNest, StateTypes
  <2> HIDE DEF Frames, ExceptionTables, RowTriggers
  <2> QED
    BY <1>1, <1>13, <2>1 DEF TypeNest, StateTypes
<1>16. TypeNest'
  BY <1>14, <1>15 DEF TypeNest
<1> HIDE DEF n
<1>17. /\ g.stage \in {"unexpected", "unexpected_any"}
       /\ f.on.kind \in {"unexpected", "unexpected_any"}
  BY <1>5, <1>6, <1>7, <1>9
<1>18. LET h == frames'[n]
       IN  /\ h.on = Top.on /\ h.whole = Top.whole /\ h.region = Top.region
           /\ h.stage \in {"unexpected", "unexpected_any"}
           /\ h.todo = Top.todo /\ h.over = Top.over
  BY <1>7, <1>13, <1>17
<1>19. LET h == frames'[n + 1]
       IN  /\ h.on.kind \in {"unexpected", "unexpected_any"}
           /\ ~h.whole /\ h.region = Top.region
           /\ h.stage = "rows" /\ h.todo = <<>> /\ h.over = {}
  BY <1>9, <1>13, <1>17
<1> QED
  BY <1>13, <1>16, <1>18, <1>19 DEF n

LEMMA UpdateStep ==
    ASSUME TypeNest, UpdateState
    PROVE  /\ TypeNest'
           /\ Len(frames') = Len(frames) /\ DOMAIN frames' = 1..Len(frames)
           /\ \A k \in 1..Len(frames) :
                 /\ frames'[k].on = frames[k].on /\ frames'[k].whole = frames[k].whole
                 /\ frames'[k].region = frames[k].region
                 /\ frames'[k].stage = frames[k].stage
                 /\ frames'[k].todo = IF k = Len(frames) THEN Tail(frames[k].todo)
                                      ELSE frames[k].todo
                 /\ frames'[k].over = IF k < Len(frames) /\ IsHandler(Top)
                                      THEN frames[k].over \cup {Top.region}
                                      ELSE frames[k].over
<1> DEFINE n == Len(frames)
           h == [Top EXCEPT !.todo = Tail(@)]
<1>1. /\ pc = "dispatching" /\ Top.todo # <<>> /\ Top.stage = "running"
      /\ Head(Top.todo) \in Steps /\ Head(Top.todo).op = "update"
  BY RunningType DEF UpdateState
<1>2. /\ Top \in Frames /\ frames \in Seq(Frames) /\ frames # <<>>
      /\ n \in Nat \ {0} /\ DOMAIN frames = 1..n /\ Top = frames[n]
      /\ \A k \in 1..n : frames[k] \in Frames
  BY <1>1, TopType DEF TypeNest
<1>3. /\ h \in Frames /\ h.on = Top.on /\ h.whole = Top.whole /\ h.region = Top.region
      /\ h.stage = Top.stage /\ h.todo = Tail(Top.todo) /\ h.over = Top.over
  BY <1>1, <1>2, NextFrame
<1> HIDE DEF n, h
<1>4. frames' = [k \in 1..n |->
                   IF k = n THEN h
                   ELSE IF IsHandler(Top)
                   THEN [frames[k] EXCEPT !.over = @ \cup {Top.region}]
                   ELSE frames[k]]
  BY <1>2 DEF UpdateState, n, h
<1>5. Top.region \in Regions
  BY <1>2 DEF Frames
<1>6. ASSUME NEW k \in 1..n
      PROVE  /\ frames'[k] \in Frames
             /\ frames'[k].on = frames[k].on /\ frames'[k].whole = frames[k].whole
             /\ frames'[k].region = frames[k].region
             /\ frames'[k].stage = frames[k].stage
             /\ frames'[k].todo = IF k = n THEN Tail(frames[k].todo) ELSE frames[k].todo
             /\ frames'[k].over = IF k < n /\ IsHandler(Top)
                                  THEN frames[k].over \cup {Top.region}
                                  ELSE frames[k].over
  <2>1. CASE k = n
    <3>1. frames'[k] = h /\ frames[k] = Top /\ ~(k < n)
      BY <1>2, <1>4, <2>1
    <3> QED
      BY <1>3, <2>1, <3>1
  <2>2. CASE k # n /\ IsHandler(Top)
    <3> DEFINE f == frames[k]
               g == [f EXCEPT !.over = @ \cup {Top.region}]
    <3>1. frames'[k] = g /\ k < n /\ f \in Frames
      BY <1>2, <1>4, <2>2
    <3> HIDE DEF f
    <3>2. g \in Frames
      BY <1>5, <3>1 DEF Frames
    <3>3. /\ g.on = f.on /\ g.region = f.region /\ g.stage = f.stage /\ g.todo = f.todo
          /\ g.over = f.over \cup {Top.region}
      BY <3>1 DEF Frames
    <3>4. g.whole = f.whole
      BY <3>1 DEF Frames
    <3> HIDE DEF g
    <3> QED
      BY <2>2, <3>1, <3>2, <3>3, <3>4 DEF f
  <2>3. CASE k # n /\ ~IsHandler(Top)
    <3>1. frames'[k] = frames[k]
      BY <1>4, <2>3
    <3> QED
      BY <1>2, <2>3, <3>1
  <2> QED
    BY <2>1, <2>2, <2>3
<1>7. frames' \in Seq(Frames) /\ Len(frames') = n /\ DOMAIN frames' = 1..n /\ frames' # <<>>
  <2>1. frames' = [k \in 1..n |-> frames'[k]]
    BY <1>4
  <2>2. frames' \in Seq(Frames) /\ Len(frames') = n /\ DOMAIN frames' = 1..n
    BY <1>2, <1>6, <2>1, MapType
  <2> QED
    BY <1>2, <2>2
<1>8. WellNested' /\ AskingEvent'
  <2>1. \A k \in 1..n :
           /\ frames[k].stage = "ask" => frames[k].on.kind = "event"
           /\ k < n => Waits(frames[k])
           /\ k = n => frames[k].stage \notin {"unexpected", "unexpected_any"}
           /\ k = 1 => frames[k].whole
           /\ k > 1 => IF frames[k].whole THEN IsHandler(frames[k])
                       ELSE frames[k].region = frames[k - 1].region
    BY <1>2 DEF TypeNest, WellNested, AskingEvent, n
  <2>2. SUFFICES ASSUME NEW k \in 1..n
                 PROVE  /\ frames'[k].stage = "ask" => frames'[k].on.kind = "event"
                        /\ k < n => Waits(frames'[k])
                        /\ k = n => frames'[k].stage \notin {"unexpected", "unexpected_any"}
                        /\ k = 1 => frames'[k].whole
                        /\ k > 1 => IF frames'[k].whole THEN IsHandler(frames'[k])
                                    ELSE frames'[k].region = frames'[k - 1].region
    BY <1>7 DEF WellNested, AskingEvent, Waits, IsHandler
  <2>3. k > 1 => frames'[k - 1].region = frames[k - 1].region
    <3>1. k > 1 => k - 1 \in 1..n
      BY <1>2
    <3> QED
      BY <1>6, <3>1
  <2>4. /\ frames'[k].on = frames[k].on /\ frames'[k].whole = frames[k].whole
        /\ frames'[k].region = frames[k].region /\ frames'[k].stage = frames[k].stage
        /\ k < n => frames'[k].todo = frames[k].todo
    <3>1. k < n => k # n
      BY <1>2
    <3> QED
      BY <1>6, <3>1
  <2>5. /\ k < n => (Waits(frames'[k]) <=> Waits(frames[k]))
        /\ IsHandler(frames'[k]) <=> IsHandler(frames[k])
    BY <2>4 DEF Waits, IsHandler
  <2> QED
    BY <2>1, <2>3, <2>4, <2>5
<1>9. StateTypes'
  <2>1. current_state_' = [current_state_ EXCEPT ![Top.region] = Head(Top.todo).arg]
    BY DEF UpdateState
  <2>2. Head(Top.todo).arg \in States
    BY <1>1, StepTypes
  <2>3. current_state_' \in [Regions -> States]
    BY <2>1, <2>2 DEF TypeNest, StateTypes
  <2>4. /\ UNCHANGED <<table, pc, item, what, result, calls, thrown>>
        /\ UNCHANGED <<last, atThrow, ran>>
    BY DEF UpdateState, ghostVars
  <2>5. accepted' \in BOOLEAN /\ handled' \in BOOLEAN
    BY Zenon DEF UpdateState, TypeNest, StateTypes
  <2> HIDE DEF Frames, ExceptionTables, RowTriggers
  <2> QED
    BY <1>1, <1>7, <2>3, <2>4, <2>5 DEF TypeNest, StateTypes
<1>10. TypeNest'
  BY <1>8, <1>9 DEF TypeNest
<1> QED
  BY <1>6, <1>7, <1>10 DEF n

(* A dispatch from outside: the only one on the stack.                      *)
LEMMA StartNest ==
    ASSUME NEW on \in RowTriggers, frames' = <<Frame(on, TRUE, 1, current_state_)>>
    PROVE  /\ frames' \in Seq(Frames) /\ frames' # <<>> /\ WellNested' /\ AskingEvent'
           /\ Len(frames') = 1 /\ DOMAIN frames' = 1..1
           /\ frames'[1].todo = <<>> /\ frames'[1].over = {}
           /\ frames'[1].stage \in {"ask", "rows"} /\ frames'[1].on = on
           /\ frames'[1].whole
<1> DEFINE f == Frame(on, TRUE, 1, current_state_)
<1>1. f = StartWhole(on, 1, current_state_)
  BY DEF StartWhole
<1>2. frames' = <<f>>
  OBVIOUS
<1> HIDE DEF f
<1>3. /\ f \in Frames /\ f.on = on /\ f.whole /\ f.stage \in {"ask", "rows"}
      /\ f.stage = "ask" => f.on.kind = "event"
      /\ f.todo = <<>> /\ f.over = {}
  BY <1>1, FirstRegion, WholeFrame
<1>4. IsOn(frames', frames, 0, f)
  BY <1>2, <1>3, OneIsOn
<1>5. /\ frames' \in Seq(Frames) /\ frames' # <<>> /\ Len(frames') = 1
      /\ DOMAIN frames' = 1..1 /\ frames'[1] = f
  BY <1>4 DEF IsOn
<1>6. \A k \in DOMAIN frames' : k = 1 /\ frames'[k] = f /\ ~(k < Len(frames')) /\ ~(k > 1)
  <2>1. \A k \in 1..1 : k = 1 /\ ~(k < 1) /\ ~(k > 1)
    OBVIOUS
  <2>2. DOMAIN frames' = 1..1 /\ Len(frames') = 1 /\ frames'[1] = f
    BY <1>5
  <2> QED
    BY <2>1, <2>2
<1>7. WellNested'
  BY <1>3, <1>6 DEF WellNested
<1>8. AskingEvent'
  BY <1>3, <1>6 DEF AskingEvent
<1> QED
  BY <1>3, <1>5, <1>7, <1>8

LEMMA DispatchStep ==
    ASSUME TypeNest, NEW w \in {"event", "completion", "anonymous"},
           NEW on \in RowTriggers, Dispatch(w, on),
           UNCHANGED <<table, current_state_, thrown>>,
           item' \in RowTriggers, handled' \in BOOLEAN,
           result' \in {"pending", "true", "false"}, calls' \in Nat,
           last' \in Exceptions \cup {None},
           atThrow' \in [Regions -> States], ran' \in SUBSET Regions
    PROVE  TypeNest'
<1>1. what' = w /\ pc' = "dispatching" /\ frames' = <<Frame(on, TRUE, 1, current_state_)>>
  BY DEF Dispatch
<1>2. frames' \in Seq(Frames) /\ frames' # <<>> /\ WellNested' /\ AskingEvent'
  BY <1>1, StartNest
<1>3. accepted' \in BOOLEAN
  BY Zenon DEF Dispatch
<1>4. StateTypes'
  <2> HIDE DEF Frames, ExceptionTables, RowTriggers
  <2> QED
    BY <1>1, <1>2, <1>3 DEF TypeNest, StateTypes
<1> QED
  BY <1>2, <1>4 DEF TypeNest

LEMMA DispatchedStep ==
    ASSUME TypeNest, Dispatched
    PROVE  TypeNest'
<1>1. handled' \in BOOLEAN
  BY Zenon DEF Dispatched, TypeNest, StateTypes
<1>2. /\ UNCHANGED <<table, current_state_, item, calls, thrown, last, atThrow, ran>>
      /\ pc = "dispatched"
  BY DEF Dispatched, ghostVars
<1>3. /\ item' \in RowTriggers /\ calls' \in Nat /\ last' \in Exceptions \cup {None}
      /\ atThrow' \in [Regions -> States] /\ ran' \in SUBSET Regions
  BY <1>2 DEF TypeNest, StateTypes
<1>4. CASE Dispatch("completion", OnCompletion(item.ev)) /\ HasCompletion /\ UNCHANGED result
  <2>1. item.ev \in Events
    BY <1>4 DEF HasCompletion, TypeNest, StateTypes, RowTriggers, Triggers, OnExceptionAny
  <2>2. OnCompletion(item.ev) \in RowTriggers
    BY <2>1 DEF RowTriggers, Triggers, OnCompletion
  <2>3. result' \in {"pending", "true", "false"}
    BY <1>4 DEF TypeNest, StateTypes
  <2> QED
    BY <1>1, <1>2, <1>3, <1>4, <2>2, <2>3, DispatchStep
<1>5. CASE Dispatch("anonymous", OnAnonymous) /\ UNCHANGED result
  <2>1. OnAnonymous \in RowTriggers
    BY DEF RowTriggers, Triggers, OnAnonymous
  <2>2. result' \in {"pending", "true", "false"}
    BY <1>5 DEF TypeNest, StateTypes
  <2> QED
    BY <1>1, <1>2, <1>3, <1>5, <2>1, <2>2, DispatchStep
<1>6. CASE /\ pc' = "ready" /\ result' = (IF handled' THEN "true" ELSE "false")
           /\ UNCHANGED <<what, frames, accepted>>
  <2>1. frames' = frames /\ frames = <<>> /\ what' = what
    BY <1>2, <1>6 DEF TypeNest, StateTypes
  <2>2. WellNested' /\ AskingEvent'
    BY <2>1 DEF WellNested, AskingEvent
  <2>3. accepted' \in BOOLEAN
    BY <1>6, Zenon DEF TypeNest, StateTypes
  <2>4. result' \in {"pending", "true", "false"}
    BY <1>6
  <2>5. StateTypes'
    <3> HIDE DEF Frames, ExceptionTables, RowTriggers
    <3> QED
      BY <1>1, <1>2, <1>3, <1>6, <2>1, <2>3, <2>4 DEF TypeNest, StateTypes
  <2> QED
    BY <2>2, <2>5 DEF TypeNest
<1> QED
  BY <1>4, <1>5, <1>6 DEF Dispatched

LEMMA ProcessEventStep ==
    ASSUME TypeNest, NEW e \in Events, ProcessEvent(e)
    PROVE  TypeNest'
<1>1. /\ UNCHANGED <<table, current_state_, thrown>> /\ Dispatch("event", item')
      /\ last' = None /\ atThrow' = current_state_ /\ ran' = {}
      /\ result' = "pending" /\ calls' = calls + 1
      /\ item' = IF Known(table, e) THEN OnEvent(e) ELSE OnUnexpectedAny
  BY DEF ProcessEvent
<1>2. handled' \in BOOLEAN
  BY Zenon DEF ProcessEvent, TypeNest, StateTypes
<1>3. item' \in RowTriggers
  BY <1>1 DEF RowTriggers, Triggers, OnEvent, OnUnexpectedAny
<1>4. /\ calls' \in Nat /\ atThrow' \in [Regions -> States] /\ ran' \in SUBSET Regions
      /\ last' \in Exceptions \cup {None} /\ result' \in {"pending", "true", "false"}
  BY <1>1 DEF TypeNest, StateTypes
<1> QED
  BY <1>1, <1>2, <1>3, <1>4, DispatchStep

LEMMA TypeNestInit == Init => TypeNest
<1> SUFFICES ASSUME Init PROVE TypeNest
  OBVIOUS
<1>1. table \in ExceptionTables
  BY TablesAssumption DEF Init
<1>2. current_state_ \in [Regions -> States]
  BY <1>1 DEF Init, ExceptionTables
<1>3. OnEntry \in RowTriggers /\ OnEntry.kind # "event"
  BY DEF RowTriggers, Triggers, OnEntry
<1> DEFINE f == Frame(OnEntry, TRUE, 1, current_state_)
<1>4. frames = <<f>>
  BY DEF Init
<1>5. f = StartWhole(OnEntry, 1, current_state_)
  BY DEF StartWhole
<1> HIDE DEF f
<1>6. f \in Frames /\ f.whole /\ f.stage = "rows"
  BY <1>3, <1>5, FirstRegion, WholeFrame
<1>7. IsOn(frames, <<>>, 0, f)
  BY <1>4, <1>6, OneIsOn
<1>8. frames \in Seq(Frames) /\ frames # <<>>
  BY <1>7 DEF IsOn
<1>9. \A k \in DOMAIN frames : k = 1 /\ frames[k] = f /\ ~(k < Len(frames)) /\ ~(k > 1)
  <2>1. \A k \in 1..1 : k = 1 /\ ~(k < 1) /\ ~(k > 1)
    OBVIOUS
  <2>2. DOMAIN frames = 1..1 /\ Len(frames) = 1 /\ frames[1] = f
    BY <1>7 DEF IsOn
  <2> QED
    BY <2>1, <2>2
<1>10. WellNested /\ AskingEvent
  BY <1>6, <1>9 DEF WellNested, AskingEvent
<1>11. accepted \in BOOLEAN /\ handled \in BOOLEAN
  BY Zenon DEF Init
<1>12. StateTypes
  <2> HIDE DEF Frames, ExceptionTables, RowTriggers
  <2> QED
    BY <1>1, <1>2, <1>3, <1>8, <1>11 DEF Init, StateTypes
<1> QED
  BY <1>10, <1>12 DEF TypeNest

LEMMA TypeNestStutter ==
    ASSUME TypeNest, UNCHANGED vars
    PROVE  TypeNest'
<1>1. /\ UNCHANGED <<table, current_state_, pc, item, what, frames, result, calls, thrown>>
      /\ UNCHANGED <<last, atThrow, ran>>
  BY DEF vars, ghostVars
<1>2. UNCHANGED accepted /\ UNCHANGED handled
  BY DEF vars
<1>3. accepted' \in BOOLEAN /\ handled' \in BOOLEAN
  BY <1>2, Zenon DEF TypeNest, StateTypes
<1>4. WellNested' /\ AskingEvent'
  BY <1>1 DEF TypeNest, WellNested, AskingEvent, Waits, IsHandler
<1>5. StateTypes'
  <2> HIDE DEF Frames, ExceptionTables, RowTriggers
  <2> QED
    BY <1>1, <1>3 DEF TypeNest, StateTypes
<1> QED
  BY <1>4, <1>5 DEF TypeNest

LEMMA TypeNestStep ==
    ASSUME TypeNest, [Next]_vars
    PROVE  TypeNest'
<1>1. ASSUME NEW i \in Candidates, RowFires(i) PROVE TypeNest'
  BY <1>1, RowFiresStep
<1>2. CASE NoRowFires
  <2>1. /\ pc = "dispatching" /\ RegionDone(FALSE)
        /\ UNCHANGED <<table, current_state_, item, what, handled, result, calls>>
        /\ UNCHANGED <<thrown, last, atThrow, ran>>
    BY <1>2 DEF NoRowFires, LookingUp, ghostVars
  <2> QED
    BY <2>1, RegionDoneStep
<1>3. CASE GuardThrows
  <2>1. PICK x \in Exceptions : pc = "dispatching" /\ Throw(x)
    BY <1>3 DEF GuardThrows, LookingUp
  <2> QED
    BY <2>1, ThrowStep
<1>4. CASE AskUnexpected
  BY <1>4, AskStep
<1>5. CASE RunStateAction
  BY <1>5, StateActionStep
<1>6. CASE UpdateState
  BY <1>6, UpdateStep
<1>7. CASE CallReturns
  BY <1>7, CallReturnsStep
<1>8. CASE CallThrows
  <2>1. Running("call") /\ Throw(Head(Top.todo).arg)
    BY <1>8 DEF CallThrows
  <2>2. pc = "dispatching" /\ Head(Top.todo).arg \in Exceptions
    BY <2>1, RunningType, StepTypes
  <2> QED
    BY <2>1, <2>2, ThrowStep
<1>9. CASE RowDone
  <2>1. /\ pc = "dispatching" /\ RegionDone(TRUE)
        /\ UNCHANGED <<table, current_state_, item, what, handled, result, calls>>
        /\ UNCHANGED <<thrown, last, atThrow, ran>>
    BY <1>9 DEF RowDone, ghostVars
  <2> QED
    BY <2>1, RegionDoneStep
<1>10. CASE Dispatched
  BY <1>10, DispatchedStep
<1>11. ASSUME NEW e \in Events, ProcessEvent(e) PROVE TypeNest'
  BY <1>11, ProcessEventStep
<1>12. CASE UNCHANGED vars
  BY <1>12, TypeNestStutter
<1> QED
  BY <1>1, <1>2, <1>3, <1>4, <1>5, <1>6, <1>7, <1>8, <1>9, <1>10, <1>11, <1>12
     DEF Next, Engine, Lookup, Execute, Idle

(* The types of the state, the nesting of the dispatches and where they ask  *)
(* the unexpected_event rows.                                              *)
THEOREM TypeNestInvariant == Spec => []TypeNest
BY TypeNestInit, TypeNestStep, PTL DEF Spec

(* The clauses of process_exception are computed from the table by folds     *)
(* over its rows: that they are exceptions is the hypothesis of the theorem *)
(* about TypeOK.                                                           *)
LEMMA TableFixed ==
    ASSUME [Next]_vars
    PROVE  UNCHANGED <<table, exceptions>>
<1>1. CASE Engine
  <2>1. \A x : Throw(x) => UNCHANGED <<table, exceptions>>
    BY DEF Throw
  <2>2. CASE GuardThrows
    BY <2>1, <2>2 DEF GuardThrows
  <2>3. CASE CallThrows
    BY <2>1, <2>3 DEF CallThrows
  <2>4. CASE \E i \in Candidates : RowFires(i)
    BY <2>4 DEF RowFires
  <2> QED
    BY <1>1, <2>2, <2>3, <2>4
       DEF Engine, Lookup, Execute, NoRowFires, AskUnexpected, RunStateAction,
           UpdateState, CallReturns, RowDone, Dispatched
<1>2. CASE \E e \in Events : ProcessEvent(e)
  BY <1>2 DEF ProcessEvent
<1>3. CASE UNCHANGED vars
  BY <1>3 DEF vars
<1> QED
  BY <1>1, <1>2, <1>3 DEF Next, Idle

THEOREM TypeCorrect ==
    ASSUME \A t \in Tables : CatchClauses(t) \in Seq(Exceptions)
    PROVE  Spec => []TypeOK
<1>1. Init => exceptions \in Seq(Exceptions)
  BY DEF Init
<1>2. exceptions \in Seq(Exceptions) /\ [Next]_vars => (exceptions \in Seq(Exceptions))'
  BY TableFixed
<1>3. Spec => [](exceptions \in Seq(Exceptions))
  BY <1>1, <1>2, PTL DEF Spec
<1>4. TypeNest /\ exceptions \in Seq(Exceptions) => TypeOK
  BY DEF TypeNest, TypeOK
<1> QED
  BY <1>3, <1>4, TypeNestInvariant, PTL

(* Nothing is lost between nested dispatches.                              *)
THEOREM AlwaysWellNested == Spec => []WellNested
<1>1. TypeNest => WellNested
  BY DEF TypeNest
<1> QED
  BY <1>1, TypeNestInvariant, PTL

-----------------------------------------------------------------------------
(* Who has heard of the last exception.  A region that must react to it has, *)
(* or the dispatch of its handler is on the stack: it has seen the regions   *)
(* below its own, what runs above it is a reaction of its own region, and    *)
(* the regions that it has not reached are in the states of the throw.      *)
Obliged(r) ==
    \E i \in StateRows(table, HandlerOf(last), atThrow[r])
               \cup AnyRows(table, HandlerOf(last)) : table.rows[i].guard = {"true"}

AllHeard == \A r \in Regions : Obliged(r) => r \in ran

Handling(k) ==
    /\ frames[k].on = HandlerOf(last) /\ frames[k].whole
    /\ \A j \in DOMAIN frames :
          j > k => ~frames[j].whole /\ frames[j].region = frames[k].region
    /\ \A r \in Regions : r < frames[k].region /\ Obliged(r) => r \in ran
    /\ \/ /\ frames[k].stage = "rows" /\ k = Len(frames)
          /\ \A r \in Regions : r >= frames[k].region => current_state_[r] = atThrow[r]
       \/ /\ frames[k].stage = "running" /\ frames[k].region \in ran
          /\ \A r \in Regions : r > frames[k].region => current_state_[r] = atThrow[r]

HeardInv == last # None => AllHeard \/ \E k \in DOMAIN frames : Handling(k)

(* What the exception asks for stays the same while reactions are added.    *)
SameException == UNCHANGED <<table, exceptions, last, atThrow>> /\ ran \subseteq ran'

LEMMA SameObliged ==
    ASSUME SameException
    PROVE  /\ HandlerOf(last)' = HandlerOf(last)
           /\ \A r : Obliged(r)' <=> Obliged(r)
           /\ AllHeard => AllHeard'
<1>1. HandlerOf(last)' = HandlerOf(last)
  BY DEF SameException, HandlerOf
<1>2. \A r : Obliged(r)' <=> Obliged(r)
  BY <1>1 DEF SameException, Obliged, StateRows, AnyRows
<1> QED
  BY <1>1, <1>2 DEF AllHeard, SameException

(* A transition of the handler runs on: the steps above it are its own.     *)
LEMMA RunningKept ==
    ASSUME SameException, NEW k \in DOMAIN frames, Handling(k),
           frames[k].stage = "running", k \in DOMAIN frames',
           frames'[k].on = frames[k].on, frames'[k].whole = frames[k].whole,
           frames'[k].region = frames[k].region, frames'[k].stage = "running",
           \A j \in DOMAIN frames' :
              j > k => ~frames'[j].whole /\ frames'[j].region = frames[k].region,
           \A r \in Regions :
              r > frames[k].region => current_state_'[r] = current_state_[r]
    PROVE  HeardInv'
<1>1. /\ frames'[k].on = HandlerOf(last)' /\ frames'[k].whole
  BY SameObliged DEF Handling
<1>2. \A r \in Regions : r < frames'[k].region /\ Obliged(r)' => r \in ran'
  BY SameObliged DEF Handling, SameException
<1>3. frames'[k].region \in ran'
  BY DEF Handling, SameException
<1>4. \A r \in Regions : r > frames'[k].region => current_state_'[r] = atThrow'[r]
  BY DEF Handling, SameException
<1>5. Handling(k)'
  BY <1>1, <1>2, <1>3, <1>4 DEF Handling
<1> QED
  BY <1>5 DEF HeardInv

(* The innermost dispatch returns and was not the handler's.                *)
LEMMA HeardReturned ==
    ASSUME TypeNest, pc = "dispatching", NEW answer \in BOOLEAN, Returned(answer),
           SameException, UNCHANGED current_state_,
           AllHeard \/ \E k \in DOMAIN frames : k < Len(frames) /\ Handling(k)
    PROVE  HeardInv'
<1>1. CASE AllHeard
  BY <1>1, SameObliged DEF HeardInv
<1>2. ASSUME NEW k \in DOMAIN frames, k < Len(frames), Handling(k)
      PROVE  HeardInv'
  <2> DEFINE n == Len(frames)
             g == frames[n - 1]
             f == Resume(g, answer)
  <2>1. /\ n \in Nat \ {0} /\ DOMAIN frames = 1..n /\ \A j \in 1..n : frames[j] \in Frames
    BY TopType DEF TypeNest
  <2>2. n > 1 /\ n - 1 \in 1..n /\ k \in 1..(n - 1) /\ n - 2 + 1 = n - 1 /\ n # 1
    BY <1>2, <2>1
  <2>3. Waits(g) /\ IsOn(frames', frames, n - 2, f)
    BY <2>2 DEF Returned
  <2>4. g \in Frames
    BY <2>1, <2>2
  <2>5. frames[k].stage = "running"
    BY <1>2 DEF Handling
  <2> HIDE DEF g
  <2>6. /\ f.on = g.on /\ f.whole = g.whole /\ f.region = g.region
        /\ g.stage = "running" => f.stage = "running"
    BY <2>3, <2>4, ResumeType
  <2> HIDE DEF f, n
  <2>7. /\ DOMAIN frames' = 1..(n - 1)
        /\ \A j \in 1..(n - 2) : frames'[j] = frames[j]
        /\ frames'[n - 1] = f
    BY <2>2, <2>3 DEF IsOn
  <2>8. \A j \in 1..(n - 1) : /\ frames'[j].whole = frames[j].whole
                              /\ frames'[j].on = frames[j].on
                              /\ frames'[j].region = frames[j].region
                              /\ frames[j].stage = "running" => frames'[j].stage = "running"
    <3> SUFFICES ASSUME NEW j \in 1..(n - 1)
                 PROVE  /\ frames'[j].whole = frames[j].whole
                        /\ frames'[j].on = frames[j].on
                        /\ frames'[j].region = frames[j].region
                        /\ frames[j].stage = "running" => frames'[j].stage = "running"
      OBVIOUS
    <3>1. CASE j = n - 1
      BY <2>6, <2>7, <3>1 DEF g
    <3>2. CASE j # n - 1
      <4>1. j \in 1..(n - 2)
        BY <2>1, <3>2
      <4>2. frames'[j] = frames[j]
        BY <2>7, <4>1
      <4> QED
        BY <4>2
    <3> QED
      BY <3>1, <3>2
  <2>9. \A j \in 1..n : j > k => ~frames[j].whole /\ frames[j].region = frames[k].region
    BY <1>2, <2>1 DEF Handling
  <2>10. \A j \in DOMAIN frames' :
            j > k => ~frames'[j].whole /\ frames'[j].region = frames[k].region
    <3>1. \A j \in 1..(n - 1) : j \in 1..n
      BY <2>1
    <3> QED
      BY <2>7, <2>8, <2>9, <3>1
  <2> QED
    BY <1>2, <2>2, <2>5, <2>7, <2>8, <2>10, RunningKept
<1> QED
  BY <1>1, <1>2

(* The handler is the innermost dispatch and looks for a row of its region. *)
LEMMA HandlingTop ==
    ASSUME NEW m \in Nat \ {0}, Len(frames') = m, DOMAIN frames' = 1..m,
           frames'[m].on = HandlerOf(last)', frames'[m].whole, frames'[m].stage = "rows",
           \A r \in Regions : r < frames'[m].region /\ Obliged(r)' => r \in ran',
           \A r \in Regions : r >= frames'[m].region => current_state_'[r] = atThrow'[r]
    PROVE  HeardInv'
<1>1. m \in DOMAIN frames' /\ \A j \in DOMAIN frames' : ~(j > m)
  OBVIOUS
<1>2. Handling(m)'
  BY <1>1 DEF Handling
<1> QED
  BY <1>1, <1>2 DEF HeardInv

LEMMA HeardRegionDone ==
    ASSUME TypeNest, pc = "dispatching", NEW answer \in BOOLEAN, RegionDone(answer),
           SameException, UNCHANGED current_state_, HeardInv, last # None,
           Handling(Len(frames)) =>
              /\ Obliged(Top.region) => Top.region \in ran
              /\ \A r \in Regions : r > Top.region => current_state_[r] = atThrow[r]
    PROVE  HeardInv'
<1> DEFINE n == Len(frames)
<1>1. /\ n \in Nat \ {0} /\ DOMAIN frames = 1..n /\ Top = frames[n] /\ Top \in Frames
      /\ n \in 1..n
  BY TopType DEF TypeNest
<1>2. Top.region \in Regions
  BY <1>1 DEF Frames
<1>3. CASE AllHeard
  BY <1>3, SameObliged DEF HeardInv
<1>4. ASSUME NEW k \in DOMAIN frames, k < n, Handling(k)
      PROVE  HeardInv'
  <2>1. ~Top.whole
    BY <1>1, <1>4 DEF Handling
  <2>2. PICK b \in BOOLEAN : Returned(b)
    BY <2>1, RegionDoneMoves
  <2> QED
    BY <1>4, <2>2, HeardReturned
<1>5. CASE Handling(n)
  <2>1. /\ Top.on = HandlerOf(last) /\ Top.whole
        /\ \A r \in Regions : r < Top.region /\ Obliged(r) => r \in ran
    BY <1>1, <1>5 DEF Handling
  <2>2. /\ Obliged(Top.region) => Top.region \in ran
        /\ \A r \in Regions : r > Top.region => current_state_[r] = atThrow[r]
    BY <1>5
  <2>3. CASE Top.region < NumRegions
    <3>1. PICK f \in Frames :
             /\ f.on = Top.on /\ f.whole /\ f.region = Top.region + 1
             /\ Top.on.kind # "event" => f.stage = "rows"
             /\ IsOn(frames', frames, n - 1, f)
      BY <2>1, <2>3, RegionDoneMoves
    <3>2. f.stage = "rows"
      BY <2>1, <3>1, HandlerKind
    <3>3. n - 1 + 1 = n
      BY <1>1
    <3> HIDE DEF n
    <3>4. Len(frames') = n /\ DOMAIN frames' = 1..n /\ frames'[n] = f
      BY <3>1, <3>3 DEF IsOn
    <3>5. frames'[n].on = HandlerOf(last)' /\ frames'[n].whole
      BY <2>1, <3>1, <3>4, SameObliged
    <3>7. frames'[n].region = Top.region + 1
      BY <3>1, <3>4
    <3>8. \A r \in Regions : r < frames'[n].region /\ Obliged(r)' => r \in ran'
      <4> SUFFICES ASSUME NEW r \in Regions, r < Top.region + 1, Obliged(r)
                   PROVE  r \in ran
        BY <3>7, SameObliged DEF SameException
      <4>1. r < Top.region \/ r = Top.region
        BY <1>2 DEF Regions
      <4> QED
        BY <2>1, <2>2, <4>1
    <3>9. \A r \in Regions : r >= frames'[n].region => current_state_'[r] = atThrow'[r]
      <4> SUFFICES ASSUME NEW r \in Regions, r >= Top.region + 1
                   PROVE  current_state_[r] = atThrow[r]
        BY <3>7 DEF SameException
      <4>1. r > Top.region
        BY <1>2 DEF Regions
      <4> QED
        BY <2>2, <4>1
    <3>10. frames'[n].stage = "rows"
      BY <3>2, <3>4
    <3> QED
      BY <1>1, <3>4, <3>5, <3>8, <3>9, <3>10, HandlingTop
  <2>4. CASE ~(Top.region < NumRegions)
    <3>1. PICK b \in BOOLEAN : Returned(b)
      BY <2>4, RegionDoneMoves
    <3>2. ASSUME NEW r \in Regions, Obliged(r) PROVE r \in ran
      <4>1. r < Top.region \/ r = Top.region
        BY <1>2, <2>4, NumRegionsAssumption DEF Regions
      <4> QED
        BY <2>1, <2>2, <3>2, <4>1
    <3>3. AllHeard
      BY <3>2 DEF AllHeard
    <3> QED
      BY <3>1, <3>3, HeardReturned
  <2> QED
    BY <2>3, <2>4
<1>6. \A k \in DOMAIN frames : k < n \/ k = n
  BY <1>1
<1> QED
  BY <1>3, <1>4, <1>5, <1>6 DEF HeardInv

LEMMA HeardThrow ==
    ASSUME TypeNest, pc = "dispatching", NEW x \in Exceptions, Throw(x)
    PROVE  HeardInv'
<1>1. /\ last' = x /\ atThrow' = current_state_ /\ ran' = {}
      /\ UNCHANGED <<table, exceptions, current_state_>>
  BY ThrowMoves
<1>2. HandlerOf(last)' = HandlerOf(x)
  BY <1>1 DEF HandlerOf
<1> DEFINE n == Len(frames)
<1>3. /\ n \in Nat \ {0} /\ n - 1 + 1 = n
  BY TopType DEF TypeNest
<1>4. CASE Mentions(table, HandlerOf(x))
  <2>1. PICK f \in Frames :
           /\ f.on = HandlerOf(x) /\ f.whole /\ f.region = 1 /\ f.stage = "rows"
           /\ IsOn(frames', frames, n - 1, f)
    BY <1>4, ThrowMoves
  <2> HIDE DEF n
  <2>2. Len(frames') = n /\ DOMAIN frames' = 1..n /\ frames'[n] = f
    BY <1>3, <2>1 DEF IsOn
  <2>3. frames'[n].on = HandlerOf(last)' /\ frames'[n].whole /\ frames'[n].stage = "rows"
    BY <1>2, <2>1, <2>2
  <2>4. \A r \in Regions : ~(r < frames'[n].region)
    BY <2>1, <2>2 DEF Regions
  <2> QED
    BY <1>1, <1>3, <2>2, <2>3, <2>4, HandlingTop
<1>5. CASE ~Mentions(table, HandlerOf(x))
  <2>1. \A r : ~Obliged(r)'
    BY <1>1, <1>2, <1>5 DEF Obliged, StateRows, AnyRows, Mentions
  <2>2. AllHeard'
    BY <2>1 DEF AllHeard
  <2> QED
    BY <2>2 DEF HeardInv
<1> QED
  BY <1>4, <1>5

(* A step of a reaction that keeps the stack below it.                      *)
LEMMA HeardAbove ==
    ASSUME TypeNest, pc = "dispatching", SameException, HeardInv, last # None,
           Len(frames') \in Nat, Len(frames') >= Len(frames),
           DOMAIN frames' = 1..Len(frames'),
           \A k \in 1..Len(frames) :
              /\ frames'[k].on = frames[k].on /\ frames'[k].whole = frames[k].whole
              /\ frames'[k].region = frames[k].region
              /\ frames[k].stage = "running" => frames'[k].stage = "running",
           \A j \in 1..Len(frames') :
              j > Len(frames) => ~frames'[j].whole /\ frames'[j].region = Top.region,
           \A r \in Regions : r # Top.region => current_state_'[r] = current_state_[r],
           Top.stage = "running" \/ ~Handling(Len(frames))
    PROVE  HeardInv'
<1> DEFINE n == Len(frames)
<1>1. /\ n \in Nat \ {0} /\ DOMAIN frames = 1..n /\ Top = frames[n] /\ n \in 1..n
      /\ Top.region \in Regions
  BY TopType DEF TypeNest, Frames
<1>2. CASE AllHeard
  BY <1>2, SameObliged DEF HeardInv
<1>3. ASSUME NEW k \in DOMAIN frames, Handling(k) PROVE HeardInv'
  <2>1. k \in 1..n /\ k \in 1..Len(frames')
    BY <1>1
  <2>2. frames[k].stage = "running"
    BY <1>1, <1>3 DEF Handling
  <2>3. \A j \in 1..n : j > k => ~frames[j].whole /\ frames[j].region = frames[k].region
    BY <1>1, <1>3 DEF Handling
  <2>4. frames[n].region = frames[k].region
    <3>1. k = n \/ n > k
      BY <1>1, <2>1
    <3> QED
      BY <1>1, <2>3, <3>1
  <2> HIDE DEF n
  <2>5. ASSUME NEW j \in DOMAIN frames', j > k
        PROVE  ~frames'[j].whole /\ frames'[j].region = frames[k].region
    <3>1. CASE j \in 1..n
      BY <2>3, <2>5, <3>1 DEF n
    <3>2. CASE j \notin 1..n
      <4>1. j > n /\ j \in 1..Len(frames')
        BY <1>1, <3>2
      <4> QED
        BY <1>1, <2>4, <4>1 DEF n
    <3> QED
      BY <3>1, <3>2
  <2>6. \A r \in Regions : r > frames[k].region => current_state_'[r] = current_state_[r]
    <3>1. \A r \in Regions : r > frames[n].region => r # Top.region
      BY <1>1 DEF Regions
    <3> QED
      BY <2>4, <3>1
  <2>7. /\ frames'[k].on = frames[k].on /\ frames'[k].whole = frames[k].whole
        /\ frames'[k].region = frames[k].region /\ frames'[k].stage = "running"
    BY <2>1, <2>2 DEF n
  <2> QED
    BY <1>3, <2>1, <2>2, <2>5, <2>6, <2>7, RunningKept
<1> QED
  BY <1>2, <1>3 DEF HeardInv

LEMMA SameGhosts ==
    ASSUME UNCHANGED <<table, exceptions, ghostVars>>
    PROVE  SameException /\ last' = last
BY DEF SameException, ghostVars

(* A row fires: the region of the innermost dispatch has heard, if that is  *)
(* the handler's.                                                          *)
LEMMA HeardRowFires ==
    ASSUME TypeNest, HeardInv, NEW i \in Candidates, RowFires(i)
    PROVE  HeardInv'
<1> DEFINE n == Len(frames)
<1>1. /\ pc = "dispatching" /\ UNCHANGED <<table, exceptions, current_state_, last, atThrow>>
      /\ ran' = IF last # None /\ Top.on = HandlerOf(last) THEN ran \cup {Top.region} ELSE ran
  BY DEF RowFires, LookingUp
<1>2. SameException
  BY <1>1 DEF SameException
<1>3. /\ n \in Nat \ {0} /\ DOMAIN frames = 1..n /\ Top = frames[n] /\ n \in 1..n
      /\ n - 1 + 1 = n /\ Top.region \in Regions
  BY <1>1, TopType DEF TypeNest, Frames
<1>4. PICK f \in Frames :
         /\ f.on = Top.on /\ f.whole = Top.whole /\ f.region = Top.region
         /\ f.stage = "running"
         /\ IsOn(frames', frames, n - 1, f)
  BY RowFiresStep
<1>5. /\ Len(frames') = n /\ DOMAIN frames' = 1..n /\ frames'[n] = f
      /\ \A k \in 1..(n - 1) : frames'[k] = frames[k]
  <2> HIDE DEF n
  <2> QED
    BY <1>3, <1>4 DEF IsOn
<1> SUFFICES ASSUME last # None PROVE HeardInv'
  BY <1>1 DEF HeardInv
<1>6. ASSUME NEW k \in 1..n
      PROVE  /\ frames'[k].on = frames[k].on /\ frames'[k].whole = frames[k].whole
             /\ frames'[k].region = frames[k].region
             /\ frames[k].stage = "running" => frames'[k].stage = "running"
  <2>1. CASE k = n
    BY <1>3, <1>4, <1>5, <2>1
  <2>2. CASE k # n
    <3>1. k \in 1..(n - 1)
      <4>1. n \in Nat /\ k \in 1..n /\ k # n
        BY <1>3, <2>2
      <4> HIDE DEF n
      <4> QED
        BY <4>1
    <3>2. frames'[k] = frames[k]
      BY <1>5, <3>1
    <3> QED
      BY <3>2
  <2> QED
    BY <2>1, <2>2
<1>7. CASE ~Handling(n)
  <2>1. \A j \in 1..Len(frames') : ~(j > n)
    BY <1>3, <1>5
  <2>2. Len(frames') \in Nat /\ Len(frames') >= n /\ DOMAIN frames' = 1..Len(frames')
    BY <1>3, <1>5
  <2>3. \A r \in Regions : current_state_'[r] = current_state_[r]
    BY <1>1
  <2> QED
    BY <1>1, <1>2, <1>6, <1>7, <2>1, <2>2, <2>3, HeardAbove
<1>8. CASE Handling(n)
  <2>1. /\ Top.on = HandlerOf(last) /\ Top.whole
        /\ \A r \in Regions : r < Top.region /\ Obliged(r) => r \in ran
        /\ \A r \in Regions : r > Top.region => current_state_[r] = atThrow[r]
    <3>1. \A r \in Regions : r > Top.region => r >= Top.region
      BY <1>3 DEF Regions
    <3>2. /\ frames[n].on = HandlerOf(last) /\ frames[n].whole
          /\ \A r \in Regions : r < frames[n].region /\ Obliged(r) => r \in ran
          /\ \/ \A r \in Regions : r >= frames[n].region => current_state_[r] = atThrow[r]
             \/ \A r \in Regions : r > frames[n].region => current_state_[r] = atThrow[r]
      BY <1>8 DEF Handling
    <3> HIDE DEF n
    <3> QED
      BY <1>3, <3>1, <3>2
  <2>2. Top.region \in ran'
    BY <1>1, <2>1
  <2> HIDE DEF n
  <2>3. PICK m \in Nat \ {0} : m = n
    BY <1>3
  <2>4. frames'[m].on = HandlerOf(last)' /\ frames'[m].whole
        /\ frames'[m].region = Top.region /\ frames'[m].stage = "running"
    BY <1>2, <1>4, <1>5, <2>1, <2>3, SameObliged
  <2>5. m \in DOMAIN frames' /\ \A j \in DOMAIN frames' : ~(j > m)
    BY <1>5, <2>3
  <2>6. \A r \in Regions : r < frames'[m].region /\ Obliged(r)' => r \in ran'
    BY <1>2, <2>1, <2>4, SameObliged DEF SameException
  <2>7. \A r \in Regions : r > frames'[m].region => current_state_'[r] = atThrow'[r]
    BY <1>1, <2>1, <2>4
  <2>8. Handling(m)'
    BY <2>2, <2>4, <2>5, <2>6, <2>7 DEF Handling
  <2> QED
    BY <2>5, <2>8 DEF HeardInv
<1> QED
  BY <1>7, <1>8

(* No row of the region fires: it is not obliged to react, if the dispatch  *)
(* is the handler's, because it is in the state of the throw.               *)
LEMMA HeardNoRow ==
    ASSUME TypeNest, HeardInv, NoRowFires
    PROVE  HeardInv'
<1>1. /\ pc = "dispatching" /\ RegionDone(FALSE) /\ UNCHANGED current_state_
      /\ UNCHANGED <<table, exceptions, ghostVars>>
      /\ Top.stage \in {"rows", "any"}
      /\ \A i \in Candidates : "false" \in table.rows[i].guard
  BY DEF NoRowFires, LookingUp
<1>2. SameException /\ last' = last
  BY <1>1, SameGhosts
<1>3. /\ Top = frames[Len(frames)] /\ Top.region \in Regions
  BY <1>1, TopType DEF TypeNest, Frames
<1>4. ASSUME Handling(Len(frames))
      PROVE  /\ Obliged(Top.region) => Top.region \in ran
             /\ \A r \in Regions : r > Top.region => current_state_[r] = atThrow[r]
  <2>1. /\ Top.on = HandlerOf(last) /\ Top.stage = "rows"
        /\ \A r \in Regions : r >= Top.region => current_state_[r] = atThrow[r]
    BY <1>1, <1>3, <1>4 DEF Handling
  <2>2. current_state_[Top.region] = atThrow[Top.region]
    BY <1>3, <2>1 DEF Regions
  <2>3. \A r \in Regions : r > Top.region => r >= Top.region
    BY <1>3 DEF Regions
  <2>4. Candidates = StateRows(table, HandlerOf(last), atThrow[Top.region])
                        \cup AnyRows(table, HandlerOf(last))
    BY <2>1, <2>2 DEF Candidates
  <2>5. ~Obliged(Top.region)
    BY <1>1, <2>4 DEF Obliged
  <2> QED
    BY <2>1, <2>3, <2>5
<1>5. CASE last # None
  BY <1>1, <1>2, <1>4, <1>5, HeardRegionDone
<1> QED
  BY <1>2, <1>5 DEF HeardInv

LEMMA HeardRowDone ==
    ASSUME TypeNest, HeardInv, RowDone
    PROVE  HeardInv'
<1>1. /\ pc = "dispatching" /\ RegionDone(TRUE) /\ UNCHANGED current_state_
      /\ UNCHANGED <<table, exceptions, ghostVars>>
      /\ Top.stage = "running"
  BY DEF RowDone
<1>2. SameException /\ last' = last
  BY <1>1, SameGhosts
<1>3. Top = frames[Len(frames)]
  BY <1>1, TopType DEF TypeNest
<1>4. ASSUME Handling(Len(frames))
      PROVE  /\ Obliged(Top.region) => Top.region \in ran
             /\ \A r \in Regions : r > Top.region => current_state_[r] = atThrow[r]
  BY <1>1, <1>3, <1>4 DEF Handling
<1>5. CASE last # None
  BY <1>1, <1>2, <1>4, <1>5, HeardRegionDone
<1> QED
  BY <1>2, <1>5 DEF HeardInv

(* The steps of a reaction.                                                *)
LEMMA HeardReaction ==
    ASSUME TypeNest, HeardInv,
           AskUnexpected \/ RunStateAction \/ UpdateState \/ CallReturns
    PROVE  HeardInv'
<1> DEFINE n == Len(frames)
<1>1. /\ pc = "dispatching" /\ UNCHANGED <<table, exceptions, ghostVars>>
      /\ AskUnexpected => Top.stage \in {"ask", "ask_any"} /\ UNCHANGED current_state_
      /\ RunStateAction => Top.stage = "running" /\ UNCHANGED current_state_
      /\ CallReturns => Top.stage = "running" /\ UNCHANGED current_state_
      /\ UpdateState => Top.stage = "running"
  BY DEF AskUnexpected, RunStateAction, UpdateState, CallReturns, Running
<1>2. SameException /\ last' = last
  BY <1>1, SameGhosts
<1>3. /\ n \in Nat \ {0} /\ DOMAIN frames = 1..n /\ Top = frames[n] /\ n \in 1..n
      /\ Top.region \in Regions /\ frames' \in Seq(Frames)
  <2>1. TypeNest'
    BY AskStep, StateActionStep, UpdateStep, CallReturnsStep
  <2> QED
    BY <1>1, <2>1, TopType DEF TypeNest, StateTypes, Frames
<1>4. Len(frames') \in Nat /\ DOMAIN frames' = 1..Len(frames')
  <2> HIDE DEF Frames
  <2> QED
    BY <1>3, LenProperties
<1>5. Top.stage = "running" \/ ~Handling(n)
  BY <1>1, <1>3 DEF Handling
<1> SUFFICES ASSUME last # None PROVE HeardInv'
  BY <1>2 DEF HeardInv
<1>6. CASE AskUnexpected
  <2>1. /\ Len(frames') = n + 1
        /\ \A k \in 1..(n - 1) : frames'[k] = frames[k]
        /\ frames'[n].on = Top.on /\ frames'[n].whole = Top.whole
        /\ frames'[n].region = Top.region
        /\ ~frames'[n + 1].whole /\ frames'[n + 1].region = Top.region
    BY <1>6, AskStep
  <2>2. Top.stage # "running"
    BY <1>1, <1>6
  <2>3. \A r \in Regions : r # Top.region => current_state_'[r] = current_state_[r]
    BY <1>1, <1>6
  <2> HIDE DEF n
  <2>4. \A k \in 1..n : /\ frames'[k].on = frames[k].on /\ frames'[k].whole = frames[k].whole
                        /\ frames'[k].region = frames[k].region
                        /\ frames[k].stage = "running" => frames'[k].stage = "running"
    <3> SUFFICES ASSUME NEW k \in 1..n
                 PROVE  /\ frames'[k].on = frames[k].on /\ frames'[k].whole = frames[k].whole
                        /\ frames'[k].region = frames[k].region
                        /\ frames[k].stage = "running" => frames'[k].stage = "running"
      OBVIOUS
    <3>1. CASE k = n
      BY <1>3, <2>1, <2>2, <3>1
    <3>2. CASE k # n
      <4>1. k \in 1..(n - 1)
        BY <1>3, <3>2
      <4>2. frames'[k] = frames[k]
        BY <2>1, <4>1
      <4> QED
        BY <4>2
    <3> QED
      BY <3>1, <3>2
  <2>5. \A j \in 1..Len(frames') :
           j > n => ~frames'[j].whole /\ frames'[j].region = Top.region
    <3>1. \A j \in 1..(n + 1) : j > n => j = n + 1
      BY <1>3
    <3> QED
      BY <2>1, <3>1
  <2>6. Len(frames') >= n
    BY <1>3, <2>1
  <2> QED
    BY <1>1, <1>2, <1>4, <1>5, <2>3, <2>4, <2>5, <2>6, HeardAbove DEF n
<1>7. CASE RunStateAction
  <2>1. PICK f \in Frames : /\ ~f.whole /\ f.region = Top.region
                            /\ IsOn(frames', frames, n, f)
    BY <1>7, StateActionStep
  <2>2. /\ Len(frames') = n + 1
        /\ \A k \in 1..n : frames'[k] = frames[k]
        /\ frames'[n + 1] = f
    BY <2>1 DEF IsOn
  <2>3. \A r \in Regions : r # Top.region => current_state_'[r] = current_state_[r]
    BY <1>1, <1>7
  <2> HIDE DEF n
  <2>4. \A k \in 1..n : /\ frames'[k].on = frames[k].on /\ frames'[k].whole = frames[k].whole
                        /\ frames'[k].region = frames[k].region
                        /\ frames[k].stage = "running" => frames'[k].stage = "running"
    BY <2>2
  <2>5. \A j \in 1..Len(frames') :
           j > n => ~frames'[j].whole /\ frames'[j].region = Top.region
    <3>1. \A j \in 1..(n + 1) : j > n => j = n + 1
      BY <1>3
    <3> QED
      BY <2>1, <2>2, <3>1
  <2>6. Len(frames') >= n
    BY <1>3, <2>2
  <2> QED
    BY <1>1, <1>2, <1>4, <1>5, <2>3, <2>4, <2>5, <2>6, HeardAbove DEF n
<1>8. CASE UpdateState
  <2>1. /\ Len(frames') = n
        /\ \A k \in 1..n : /\ frames'[k].on = frames[k].on
                           /\ frames'[k].whole = frames[k].whole
                           /\ frames'[k].region = frames[k].region
                           /\ frames'[k].stage = frames[k].stage
    BY <1>8, UpdateStep
  <2>2. current_state_' = [current_state_ EXCEPT ![Top.region] = Head(Top.todo).arg]
    BY <1>8 DEF UpdateState
  <2>3. \A r \in Regions : r # Top.region => current_state_'[r] = current_state_[r]
    BY <2>2 DEF TypeNest, StateTypes
  <2> HIDE DEF n
  <2>4. \A k \in 1..n : /\ frames'[k].on = frames[k].on /\ frames'[k].whole = frames[k].whole
                        /\ frames'[k].region = frames[k].region
                        /\ frames[k].stage = "running" => frames'[k].stage = "running"
    BY <2>1
  <2>5. \A j \in 1..Len(frames') : ~(j > n)
    BY <1>3, <2>1
  <2>6. Len(frames') >= n
    BY <1>3, <2>1
  <2> QED
    BY <1>1, <1>2, <1>4, <1>5, <2>3, <2>4, <2>5, <2>6, HeardAbove DEF n
<1>9. CASE CallReturns
  <2>1. PICK f \in Frames : /\ f.on = Top.on /\ f.whole = Top.whole
                            /\ f.region = Top.region /\ f.stage = "running"
                            /\ IsOn(frames', frames, n - 1, f)
    BY <1>9, CallReturnsStep
  <2>2. n - 1 + 1 = n
    BY <1>3
  <2> HIDE DEF n
  <2>3. /\ Len(frames') = n
        /\ \A k \in 1..(n - 1) : frames'[k] = frames[k]
        /\ frames'[n] = f
    BY <2>1, <2>2 DEF IsOn
  <2>4. \A k \in 1..n : /\ frames'[k].on = frames[k].on /\ frames'[k].whole = frames[k].whole
                        /\ frames'[k].region = frames[k].region
                        /\ frames[k].stage = "running" => frames'[k].stage = "running"
    <3> SUFFICES ASSUME NEW k \in 1..n
                 PROVE  /\ frames'[k].on = frames[k].on /\ frames'[k].whole = frames[k].whole
                        /\ frames'[k].region = frames[k].region
                        /\ frames[k].stage = "running" => frames'[k].stage = "running"
      OBVIOUS
    <3>1. CASE k = n
      BY <1>3, <2>1, <2>3, <3>1
    <3>2. CASE k # n
      <4>1. k \in 1..(n - 1)
        BY <1>3, <3>2
      <4>2. frames'[k] = frames[k]
        BY <2>3, <4>1
      <4> QED
        BY <4>2
    <3> QED
      BY <3>1, <3>2
  <2>5. \A j \in 1..Len(frames') : ~(j > n)
    BY <1>3, <2>3
  <2>6. Len(frames') >= n
    BY <1>3, <2>3
  <2>7. \A r \in Regions : current_state_'[r] = current_state_[r]
    BY <1>1, <1>9
  <2> QED
    BY <1>1, <1>2, <1>4, <1>5, <2>4, <2>5, <2>6, <2>7, HeardAbove DEF n
<1> QED
  BY <1>6, <1>7, <1>8, <1>9

LEMMA HeardStep ==
    ASSUME TypeNest, HeardInv, [Next]_vars
    PROVE  HeardInv'
<1>1. ASSUME NEW i \in Candidates, RowFires(i) PROVE HeardInv'
  BY <1>1, HeardRowFires
<1>2. CASE NoRowFires
  BY <1>2, HeardNoRow
<1>3. CASE GuardThrows
  <2>1. PICK x \in Exceptions : pc = "dispatching" /\ Throw(x)
    BY <1>3 DEF GuardThrows, LookingUp
  <2> QED
    BY <2>1, HeardThrow
<1>4. CASE AskUnexpected \/ RunStateAction \/ UpdateState \/ CallReturns
  BY <1>4, HeardReaction
<1>5. CASE CallThrows
  <2>1. Running("call") /\ Throw(Head(Top.todo).arg)
    BY <1>5 DEF CallThrows
  <2>2. pc = "dispatching" /\ Head(Top.todo).arg \in Exceptions
    BY <2>1, RunningType, StepTypes
  <2> QED
    BY <2>1, <2>2, HeardThrow
<1>6. CASE RowDone
  BY <1>6, HeardRowDone
<1>7. CASE Dispatched
  <2>1. frames = <<>> /\ UNCHANGED <<table, exceptions, ghostVars>>
    BY <1>7 DEF Dispatched, TypeNest, StateTypes
  <2>2. SameException /\ last' = last
    BY <2>1, SameGhosts
  <2>3. \A k \in DOMAIN frames : FALSE
    BY <2>1
  <2> QED
    BY <2>2, <2>3, SameObliged DEF HeardInv
<1>8. ASSUME NEW e \in Events, ProcessEvent(e) PROVE HeardInv'
  BY <1>8 DEF ProcessEvent, HeardInv
<1>9. CASE UNCHANGED vars
  <2>1. UNCHANGED <<table, exceptions, current_state_, frames, last, atThrow, ran>>
    BY <1>9 DEF vars, ghostVars
  <2>2. SameException
    BY <2>1 DEF SameException
  <2>3. \A k \in DOMAIN frames : Handling(k) => Handling(k)'
    BY <2>1, <2>2, SameObliged DEF Handling
  <2> QED
    BY <2>1, <2>2, <2>3, SameObliged DEF HeardInv
<1> QED
  BY <1>1, <1>2, <1>3, <1>4, <1>5, <1>6, <1>7, <1>8, <1>9
     DEF Next, Engine, Lookup, Execute, Idle

(* Whatever throws, wherever it throws, once the dispatch has returned every *)
(* region that has an unconditional row for the handler of the last         *)
(* exception has run one.                                                  *)
THEOREM HandlerHeardEverywhere == Spec => []HandledEverywhere
<1>1. Init => HeardInv
  BY DEF Init, HeardInv
<1>2. Spec => []HeardInv
  BY <1>1, HeardStep, TypeNestInvariant, PTL DEF Spec
<1>3. TypeNest /\ HeardInv => HandledEverywhere
  <2> SUFFICES ASSUME TypeNest, HeardInv, pc = "dispatched", last # None
               PROVE  AllHeard
    BY DEF HandledEverywhere, AllHeard, Obliged
  <2>1. frames = <<>>
    BY DEF TypeNest, StateTypes
  <2>2. \A k \in DOMAIN frames : FALSE
    BY <2>1
  <2> QED
    BY <2>2 DEF HeardInv
<1> QED
  BY <1>2, <1>3, TypeNestInvariant, PTL

-----------------------------------------------------------------------------
(* Who may still move a region.  A transition has its update in front, or    *)
(* behind its exit action; while that runs, above it or not, no handler has *)
(* moved the region, because only the exit action is above it and it does   *)
(* not throw.                                                              *)
Updates(f) == \E m \in DOMAIN f.todo : f.todo[m].op = "update"

Exiting(f) ==
    f.on = OnExit /\ ~f.whole /\ f.todo = <<>> /\ f.stage \in {"rows", "running"}

UpdateFirst(f) ==
    /\ f.stage # "running" => f.todo = <<>>
    /\ \A m \in DOMAIN f.todo :
          f.todo[m].op = "update" => m = 1 \/ (m = 2 /\ f.todo[1] = Leave)

OwnUpdate ==
    \A k \in DOMAIN frames :
       Updates(frames[k]) =>
          /\ frames[k].over = {}
          /\ k < Len(frames) => k + 1 = Len(frames) /\ Exiting(frames[k + 1])

LastWordInv ==
    /\ table \in Tables
    /\ \A k \in DOMAIN frames : UpdateFirst(frames[k])
    /\ ~ExitMayThrow => OwnUpdate

LEMMA NoSteps ==
    ASSUME NEW f, f.todo = <<>>
    PROVE  UpdateFirst(f) /\ ~Updates(f)
<1>1. \A m \in DOMAIN f.todo : FALSE
  OBVIOUS
<1> QED
  BY <1>1 DEF UpdateFirst, Updates

LEMMA TailSteps ==
    ASSUME NEW f \in Frames, UpdateFirst(f), f.todo # <<>>,
           NEW g, g.todo = Tail(f.todo), g.stage = "running"
    PROVE  UpdateFirst(g) /\ (Updates(g) => Updates(f))
<1>1. f.todo \in Seq(Steps)
  BY DEF Frames
<1> DEFINE q == f.todo
<1>2. /\ Len(q) \in Nat \ {0} /\ DOMAIN q = 1..Len(q)
      /\ Tail(q) \in Seq(Steps) /\ Len(Tail(q)) = Len(q) - 1
      /\ \A m \in 1..Len(Tail(q)) : Tail(q)[m] = q[m + 1]
  BY <1>1, EmptySeq, HeadTailProperties, LenProperties
<1>3. DOMAIN Tail(q) = 1..(Len(q) - 1)
  BY <1>2, LenProperties
<1>4. \A m \in DOMAIN q : q[m].op = "update" => m = 1 \/ m = 2
  BY DEF UpdateFirst
<1> HIDE DEF q
<1>5. \A m \in DOMAIN Tail(q) : m + 1 \in DOMAIN q /\ Tail(q)[m] = q[m + 1]
  BY <1>2, <1>3
<1>6. \A m \in DOMAIN Tail(q) : Tail(q)[m].op = "update" => m = 1
  <2> SUFFICES ASSUME NEW m \in DOMAIN Tail(q), Tail(q)[m].op = "update"
               PROVE  m = 1
    OBVIOUS
  <2>1. q[m + 1].op = "update" /\ m + 1 \in DOMAIN q
    BY <1>5
  <2>2. m + 1 = 1 \/ m + 1 = 2
    BY <1>4, <2>1
  <2> QED
    BY <1>2, <1>3, <2>2
<1>7. UpdateFirst(g)
  BY <1>6 DEF UpdateFirst, q
<1>8. Updates(g) => Updates(f)
  BY <1>5 DEF Updates, q
<1> QED
  BY <1>7, <1>8

(* transition::execute updates the state after the exit action.             *)
LEMMA ExecutionSteps ==
    ASSUME table \in ExceptionTables, NEW i \in DOMAIN table.rows,
           NEW g, g.todo = RowExecution(i), g.stage = "running"
    PROVE  UpdateFirst(g)
<1> DEFINE act == table.rows[i].action
           to == table.rows[i].to
<1>1. act \in Seq(Calls) /\ to \in States \cup {Internal}
  BY RowType
<1>2. /\ Len(act) \in Nat /\ DOMAIN act = 1..Len(act)
      /\ \A m \in 1..Len(act) : act[m] \in Calls
  BY <1>1, ElementOfSeq, LenProperties
<1>3. \A m \in 1..Len(act) : act[m].op # "update"
  BY <1>2 DEF Calls
<1>4. CASE to = Internal
  <2>1. g.todo = act
    BY <1>4 DEF RowExecution
  <2> HIDE DEF act, to
  <2> QED
    BY <1>2, <1>3, <2>1 DEF UpdateFirst
<1>5. CASE to # Internal
  <2> DEFINE p == <<Leave, Update(to)>>
             q == p \o act
             all == q \o <<Enter>>
  <2>1. g.todo = all
    BY <1>5 DEF RowExecution
  <2> HIDE DEF act, to
  <2>2. act \in Seq(Steps)
    BY <1>1, StepTypes
  <2>3. p \in Seq(Steps) /\ Len(p) = 2 /\ p[1] = Leave /\ p[2] = Update(to)
    BY <1>1, <1>5, StepTypes
  <2> HIDE DEF p
  <2>4. /\ q \in Seq(Steps) /\ Len(q) = 2 + Len(act)
        /\ q[1] = Leave
        /\ \A m \in 1..Len(act) : q[2 + m] = act[m]
    <3>1. /\ q \in Seq(Steps) /\ Len(q) = Len(p) + Len(act)
          /\ \A m \in 1..(Len(p) + Len(act)) :
                q[m] = IF m <= Len(p) THEN p[m] ELSE act[m - Len(p)]
      BY <2>2, <2>3, ConcatProperties
    <3> HIDE DEF q
    <3>2. q[1] = Leave
      BY <1>2, <2>3, <3>1
    <3>3. ASSUME NEW m \in 1..Len(act) PROVE q[2 + m] = act[m]
      <4>1. 2 + m \in 1..(2 + Len(act)) /\ ~(2 + m <= 2) /\ 2 + m - 2 = m
        BY <1>2
      <4> QED
        BY <2>3, <3>1, <4>1
    <3> QED
      BY <2>3, <3>1, <3>2, <3>3
  <2> HIDE DEF q
  <2>5. /\ all \in Seq(Steps) /\ Len(all) = Len(q) + 1
        /\ \A m \in 1..Len(q) : all[m] = q[m]
        /\ all[Len(q) + 1] = Enter
    <3>1. <<Enter>> \in Seq(Steps) /\ Len(<<Enter>>) = 1 /\ <<Enter>>[1] = Enter
      BY StepTypes
    <3>2. /\ all \in Seq(Steps) /\ Len(all) = Len(q) + 1
          /\ \A m \in 1..(Len(q) + 1) :
                all[m] = IF m <= Len(q) THEN q[m] ELSE <<Enter>>[m - Len(q)]
      BY <2>4, <3>1, ConcatProperties
    <3>3. Len(q) \in Nat
      BY <1>2, <2>4
    <3>4. /\ Len(q) + 1 \in 1..(Len(q) + 1) /\ ~(Len(q) + 1 <= Len(q))
          /\ Len(q) + 1 - Len(q) = 1
          /\ \A m \in 1..Len(q) : m \in 1..(Len(q) + 1) /\ m <= Len(q)
      BY <3>3
    <3> HIDE DEF all
    <3>5. all[Len(q) + 1] = <<Enter>>[Len(q) + 1 - Len(q)]
      BY <3>2, <3>4
    <3> QED
      BY <3>1, <3>2, <3>4, <3>5
  <2> HIDE DEF all
  <2>6. DOMAIN all = 1..(3 + Len(act))
    <3>1. Len(all) = 3 + Len(act)
      BY <1>2, <2>4, <2>5
    <3> QED
      BY <2>5, <3>1, LenProperties
  <2>7. all[1] = Leave
    BY <1>2, <2>4, <2>5
  <2>8. ASSUME NEW m \in DOMAIN all, all[m].op = "update"
        PROVE  m = 1 \/ m = 2
    <3>1. CASE m \in 3..(2 + Len(act))
      <4>1. m - 2 \in 1..Len(act) /\ 2 + (m - 2) = m /\ m \in 1..Len(q)
        BY <1>2, <2>4, <3>1
      <4>2. all[m] = act[m - 2]
        BY <2>4, <2>5, <4>1
      <4> QED
        BY <1>3, <2>8, <4>1, <4>2
    <3>2. CASE m = 3 + Len(act)
      <4>1. m = Len(q) + 1
        BY <1>2, <2>4, <3>2
      <4>2. all[m].op = "enter"
        BY <2>5, <4>1 DEF Enter
      <4> QED
        BY <2>8, <4>2
    <3> QED
      BY <1>2, <2>6, <3>1, <3>2
  <2>9. \A m \in DOMAIN all : all[m].op = "update" => m = 1 \/ (m = 2 /\ all[1] = Leave)
    BY <2>7, <2>8
  <2> QED
    BY <2>1, <2>9 DEF UpdateFirst
<1> QED
  BY <1>4, <1>5

LEMMA SameExits == ASSUME UNCHANGED table PROVE ExitMayThrow' <=> ExitMayThrow
BY DEF ExitMayThrow

(* The invariant for a stack built on the lower part of one that has it.    *)
LEMMA WordOn ==
    ASSUME TypeNest, pc = "dispatching", LastWordInv, UNCHANGED table,
           NEW f \in Frames, NEW n \in Nat, n <= Len(frames), IsOn(frames', frames, n, f),
           UpdateFirst(f),
           ~ExitMayThrow => /\ Updates(f) => f.over = {}
                            /\ \A k \in 1..n : Updates(frames[k]) => k = n /\ Exiting(f)
    PROVE  LastWordInv'
<1>1. /\ Len(frames) \in Nat \ {0} /\ DOMAIN frames = 1..Len(frames)
  BY TopType DEF TypeNest
<1>2. /\ Len(frames') = n + 1 /\ DOMAIN frames' = 1..(n + 1)
      /\ \A k \in 1..n : frames'[k] = frames[k]
      /\ frames'[n + 1] = f
  BY DEF IsOn
<1>3. \A k \in 1..n : k \in DOMAIN frames /\ k < n + 1
  BY <1>1
<1>4. \A k \in 1..(n + 1) : k \in 1..n \/ k = n + 1
  OBVIOUS
<1>5. \A k \in DOMAIN frames' : UpdateFirst(frames'[k])
  <2>1. \A k \in 1..n : UpdateFirst(frames[k])
    BY <1>3 DEF LastWordInv
  <2> QED
    BY <1>2, <1>4, <2>1
<1>6. ASSUME ~ExitMayThrow', NEW k \in DOMAIN frames', Updates(frames'[k])
      PROVE  /\ frames'[k].over = {}
             /\ k < Len(frames') => k + 1 = Len(frames') /\ Exiting(frames'[k + 1])
  <2>1. ~ExitMayThrow
    BY <1>6, SameExits
  <2>2. CASE k \in 1..n
    <3>1. frames'[k] = frames[k]
      BY <1>2, <2>2
    <3>2. Updates(frames[k])
      BY <1>6, <3>1
    <3>3. k = n /\ Exiting(f)
      BY <2>1, <2>2, <3>2
    <3>4. frames[k].over = {}
      BY <1>3, <2>1, <2>2, <3>2 DEF LastWordInv, OwnUpdate
    <3> QED
      BY <1>2, <3>1, <3>3, <3>4
  <2>3. CASE k = n + 1
    <3>1. frames'[k] = f
      BY <1>2, <2>3
    <3>2. Updates(f)
      BY <1>6, <3>1
    <3>3. f.over = {}
      BY <2>1, <3>2
    <3>4. ~(k < Len(frames'))
      BY <1>2, <2>3
    <3> QED
      BY <3>1, <3>3, <3>4
  <2> QED
    BY <1>2, <1>4, <2>2, <2>3
<1>7. OwnUpdate' \/ ExitMayThrow'
  BY <1>6 DEF OwnUpdate, Updates, Exiting
<1>8. table' \in Tables
  BY DEF LastWordInv
<1> QED
  BY <1>5, <1>7, <1>8 DEF LastWordInv, UpdateFirst

(* Which transitions below the innermost dispatch still have their update:   *)
(* the next one, while its exit action runs.                               *)
LEMMA UpdateBelow ==
    ASSUME TypeNest, pc = "dispatching", LastWordInv, ~ExitMayThrow,
           NEW k \in 1..(Len(frames) - 1), Updates(frames[k])
    PROVE  k = Len(frames) - 1 /\ Exiting(Top)
<1>1. /\ Len(frames) \in Nat \ {0} /\ DOMAIN frames = 1..Len(frames)
      /\ Top = frames[Len(frames)]
  BY TopType DEF TypeNest
<1>2. k \in DOMAIN frames /\ k < Len(frames)
  BY <1>1
<1>3. k + 1 = Len(frames) /\ Exiting(frames[k + 1])
  BY <1>2 DEF LastWordInv, OwnUpdate
<1> DEFINE m == Len(frames)
<1>4. m \in Nat \ {0} /\ k \in 1..(m - 1) /\ k + 1 = m
  BY <1>1, <1>3
<1> HIDE DEF m
<1>5. k = m - 1
  BY <1>4
<1> QED
  BY <1>1, <1>3, <1>5 DEF m

LEMMA WordReturned ==
    ASSUME TypeNest, pc = "dispatching", LastWordInv, UNCHANGED table,
           NEW answer \in BOOLEAN, Returned(answer)
    PROVE  LastWordInv'
<1> DEFINE n == Len(frames)
           g == frames[n - 1]
           f == Resume(g, answer)
<1>1. CASE frames' = <<>>
  <2>1. \A k \in DOMAIN frames' : FALSE
    BY <1>1
  <2>2. table' \in Tables
    BY DEF LastWordInv
  <2> QED
    BY <2>1, <2>2 DEF LastWordInv, OwnUpdate
<1>2. CASE ~(frames' = <<>>)
  <2>1. /\ n \in Nat \ {0} /\ DOMAIN frames = 1..n /\ \A j \in 1..n : frames[j] \in Frames
    BY TopType DEF TypeNest
  <2>2. n > 1 /\ Waits(g) /\ f \in Frames /\ IsOn(frames', frames, n - 2, f)
    BY <1>2 DEF Returned
  <2>3. /\ n - 1 \in 1..n /\ n - 2 \in Nat /\ n - 2 <= n /\ n - 1 \in DOMAIN frames
    BY <2>1, <2>2
  <2>4. g \in Frames /\ UpdateFirst(g)
    BY <2>1, <2>3 DEF LastWordInv
  <2>5. ~ExitMayThrow => (Updates(g) => g.over = {})
    BY <2>3 DEF LastWordInv, OwnUpdate
  <2> HIDE DEF g
  <2>6. /\ f.over = g.over
        /\ g.stage = "running" =>
              f.stage = "running" /\ f.todo = Tail(g.todo) /\ g.todo # <<>>
        /\ g.stage # "running" => f.todo = g.todo
    BY <2>2, <2>4, ResumeType
  <2> HIDE DEF f
  <2>7. UpdateFirst(f) /\ (Updates(f) => Updates(g))
    <3>1. CASE g.stage = "running"
      BY <2>4, <2>6, <3>1, TailSteps
    <3>2. CASE g.stage # "running"
      <4>1. f.todo = <<>>
        BY <2>4, <2>6, <3>2 DEF UpdateFirst
      <4> QED
        BY <4>1, NoSteps
    <3> QED
      BY <3>1, <3>2
  <2>8. ~ExitMayThrow => (Updates(f) => f.over = {})
    BY <2>5, <2>6, <2>7
  <2>9. ASSUME ~ExitMayThrow, NEW k \in 1..(n - 2) PROVE ~Updates(frames[k])
    <3>1. k \in 1..(n - 1) /\ k # n - 1
      <4>1. n \in Nat \ {0} /\ k \in 1..(n - 2)
        BY <2>1
      <4> HIDE DEF n
      <4> QED
        BY <4>1
    <3> QED
      BY <2>9, <3>1, UpdateBelow
  <2> QED
    BY <2>2, <2>3, <2>7, <2>8, <2>9, WordOn
<1> QED
  BY <1>1, <1>2

(* An exit action that does not throw.                                     *)
LEMMA ExitQuiet ==
    ASSUME LastWordInv, ~ExitMayThrow, Top.on = OnExit, NEW i \in Candidates
    PROVE  RowExecution(i) = <<>> /\ table.rows[i].guard \cap Exceptions = {}
<1>1. i \in DOMAIN table.rows /\ table.rows[i].on = OnExit
  BY CandidateType
<1>2. table.rows[i].to = Internal
  BY <1>1, TablesAssumption DEF LastWordInv, OnExit
<1>3. table.rows[i].action = <<>> /\ table.rows[i].guard \cap Exceptions = {}
  BY <1>1 DEF ExitMayThrow
<1> QED
  BY <1>2, <1>3 DEF RowExecution

LEMMA WordThrow ==
    ASSUME TypeNest, pc = "dispatching", LastWordInv, NEW x \in Exceptions, Throw(x),
           ~ExitMayThrow => ~Exiting(Top)
    PROVE  LastWordInv'
<1>1. UNCHANGED table
  BY ThrowMoves
<1>2. CASE Mentions(table, HandlerOf(x))
  <2>1. PICK f \in Frames : f.todo = <<>> /\ IsOn(frames', frames, Len(frames) - 1, f)
    BY <1>2, ThrowMoves
  <2>2. UpdateFirst(f) /\ ~Updates(f)
    BY <2>1, NoSteps
  <2>3. Len(frames) - 1 \in Nat /\ Len(frames) - 1 <= Len(frames)
    BY TopType DEF TypeNest
  <2>4. ~ExitMayThrow => \A k \in 1..(Len(frames) - 1) : ~Updates(frames[k])
    BY UpdateBelow
  <2> QED
    BY <1>1, <2>1, <2>2, <2>3, <2>4, WordOn
<1>3. CASE ~Mentions(table, HandlerOf(x))
  <2>1. Returned(FALSE)
    BY <1>3, ThrowMoves
  <2> QED
    BY <1>1, <2>1, WordReturned
<1> QED
  BY <1>2, <1>3

LEMMA WordRegionDone ==
    ASSUME TypeNest, pc = "dispatching", LastWordInv, UNCHANGED table,
           NEW answer \in BOOLEAN, RegionDone(answer)
    PROVE  LastWordInv'
<1>1. CASE Top.whole /\ Top.region < NumRegions
  <2>1. PICK f \in Frames : f.todo = <<>> /\ IsOn(frames', frames, Len(frames) - 1, f)
    BY <1>1, RegionDoneMoves
  <2>2. UpdateFirst(f) /\ ~Updates(f)
    BY <2>1, NoSteps
  <2>3. Len(frames) - 1 \in Nat /\ Len(frames) - 1 <= Len(frames)
    BY TopType DEF TypeNest
  <2>4. ~ExitMayThrow => \A k \in 1..(Len(frames) - 1) : ~Updates(frames[k])
    BY <1>1, UpdateBelow DEF Exiting
  <2> QED
    BY <2>1, <2>2, <2>3, <2>4, WordOn
<1>2. CASE ~(Top.whole /\ Top.region < NumRegions)
  <2>1. PICK b \in BOOLEAN : Returned(b)
    BY <1>2, RegionDoneMoves
  <2> QED
    BY <2>1, WordReturned
<1> QED
  BY <1>1, <1>2

LEMMA WordRowFires ==
    ASSUME TypeNest, LastWordInv, NEW i \in Candidates, RowFires(i)
    PROVE  LastWordInv'
<1>1. pc = "dispatching" /\ UNCHANGED table
  BY DEF RowFires, LookingUp
<1>2. PICK f \in Frames :
         /\ f.on = Top.on /\ f.whole = Top.whole /\ f.region = Top.region
         /\ f.stage = "running" /\ f.todo = RowExecution(i) /\ f.over = {}
         /\ IsOn(frames', frames, Len(frames) - 1, f)
  BY RowFiresStep
<1>3. UpdateFirst(f)
  BY <1>2, CandidateType, ExecutionSteps DEF TypeNest, StateTypes
<1>4. Len(frames) - 1 \in Nat /\ Len(frames) - 1 <= Len(frames)
  BY <1>1, TopType DEF TypeNest
<1>5. ASSUME ~ExitMayThrow, NEW k \in 1..(Len(frames) - 1), Updates(frames[k])
      PROVE  k = Len(frames) - 1 /\ Exiting(f)
  <2>1. k = Len(frames) - 1 /\ Exiting(Top)
    BY <1>1, <1>5, UpdateBelow
  <2>2. f.todo = <<>>
    BY <1>2, <1>5, <2>1, ExitQuiet DEF Exiting
  <2> QED
    BY <1>2, <2>1, <2>2 DEF Exiting
<1> QED
  BY <1>1, <1>2, <1>3, <1>4, <1>5, WordOn

LEMMA WordAsk ==
    ASSUME TypeNest, LastWordInv, AskUnexpected
    PROVE  LastWordInv'
<1> DEFINE n == Len(frames)
<1>1. /\ pc = "dispatching" /\ UNCHANGED table /\ Top.stage \in {"ask", "ask_any"}
  BY DEF AskUnexpected
<1>2. /\ n \in Nat \ {0} /\ DOMAIN frames = 1..n /\ Top = frames[n]
  BY <1>1, TopType DEF TypeNest
<1>3. /\ Len(frames') = n + 1
      /\ \A k \in 1..(n - 1) : frames'[k] = frames[k]
      /\ frames'[n].todo = Top.todo /\ frames'[n + 1].todo = <<>>
  BY AskStep
<1>4. Top.todo = <<>>
  <2>1. n \in DOMAIN frames
    BY <1>2
  <2> QED
    BY <1>1, <1>2, <2>1 DEF LastWordInv, UpdateFirst
<1>5. \A k \in 1..(n - 1) : UpdateFirst(frames[k]) /\ (~ExitMayThrow => ~Updates(frames[k]))
  <2>1. ~Exiting(Top)
    BY <1>1 DEF Exiting
  <2>2. \A k \in 1..(n - 1) : k \in DOMAIN frames
    BY <1>2
  <2> QED
    BY <1>1, <2>1, <2>2, UpdateBelow DEF LastWordInv
<1>6. DOMAIN frames' = 1..(n + 1)
  <2>1. frames' \in Seq(Frames)
    BY AskStep DEF TypeNest, StateTypes
  <2> HIDE DEF Frames
  <2> QED
    BY <1>3, <2>1, LenProperties
<1> HIDE DEF n
<1>7. \A k \in 1..(n + 1) : k \in 1..(n - 1) \/ k = n \/ k = n + 1
  BY <1>2
<1>8. \A k \in 1..(n + 1) :
         UpdateFirst(frames'[k]) /\ (~ExitMayThrow => ~Updates(frames'[k]))
  <2>1. \A k \in 1..(n - 1) :
           UpdateFirst(frames'[k]) /\ (~ExitMayThrow => ~Updates(frames'[k]))
    BY <1>3, <1>5
  <2>2. frames'[n].todo = <<>>
    BY <1>3, <1>4
  <2>3. UpdateFirst(frames'[n]) /\ ~Updates(frames'[n])
    BY <2>2, NoSteps
  <2>4. UpdateFirst(frames'[n + 1]) /\ ~Updates(frames'[n + 1])
    BY <1>3, NoSteps
  <2> QED
    BY <1>7, <2>1, <2>3, <2>4
<1>9. ~ExitMayThrow' => OwnUpdate'
  BY <1>1, <1>6, <1>8, SameExits DEF OwnUpdate
<1>10. table' \in Tables
  BY <1>1 DEF LastWordInv
<1> QED
  BY <1>6, <1>8, <1>9, <1>10 DEF LastWordInv

(* The exit action starts: only then is a transition with its update still  *)
(* to come below another dispatch.                                         *)
LEMMA WordStateAction ==
    ASSUME TypeNest, LastWordInv, RunStateAction
    PROVE  LastWordInv'
<1> DEFINE n == Len(frames)
<1>1. /\ pc = "dispatching" /\ UNCHANGED table /\ Top.stage = "running" /\ Top.todo # <<>>
  BY DEF RunStateAction, Running
<1>2. /\ n \in Nat \ {0} /\ DOMAIN frames = 1..n /\ Top = frames[n] /\ n \in DOMAIN frames
      /\ Top \in Frames
  BY <1>1, TopType DEF TypeNest
<1>3. Head(Top.todo) \in {Leave, Enter}
  BY StateActionStep
<1>4. PICK f \in Frames :
         /\ f.on = IF Head(Top.todo) = Leave THEN OnExit ELSE OnEntry
         /\ ~f.whole /\ f.stage = "rows" /\ f.todo = <<>>
         /\ IsOn(frames', frames, n, f)
  BY StateActionStep
<1>5. UpdateFirst(f) /\ ~Updates(f)
  BY <1>4, NoSteps
<1>6. Updates(Top) => Exiting(f)
  <2> SUFFICES ASSUME NEW m \in DOMAIN Top.todo, Top.todo[m].op = "update"
               PROVE  Exiting(f)
    BY DEF Updates
  <2>1. m = 1 \/ (m = 2 /\ Top.todo[1] = Leave)
    BY <1>2 DEF LastWordInv, UpdateFirst
  <2>2. Head(Top.todo) = Top.todo[1]
    BY <1>1, <1>2 DEF Frames
  <2>3. Head(Top.todo) = Leave
    BY <1>3, <2>1, <2>2 DEF Leave, Enter
  <2> QED
    BY <1>4, <2>3 DEF Exiting
<1>7. ASSUME ~ExitMayThrow, NEW k \in 1..n, Updates(frames[k])
      PROVE  k = n /\ Exiting(f)
  <2>1. CASE k = n
    BY <1>2, <1>6, <1>7, <2>1
  <2>2. CASE k # n
    <3>1. k \in 1..(n - 1)
      <4>1. n \in Nat /\ k \in 1..n /\ k # n
        BY <1>2, <2>2
      <4> HIDE DEF n
      <4> QED
        BY <4>1
    <3>2. Exiting(Top)
      BY <1>1, <1>7, <3>1, UpdateBelow
    <3> QED
      BY <1>1, <3>2 DEF Exiting
  <2> QED
    BY <2>1, <2>2
<1>8. n \in Nat /\ n <= Len(frames)
  BY <1>2
<1> QED
  BY <1>1, <1>4, <1>5, <1>7, <1>8, WordOn

LEMMA WordCallReturns ==
    ASSUME TypeNest, LastWordInv, CallReturns
    PROVE  LastWordInv'
<1> DEFINE n == Len(frames)
<1>1. /\ pc = "dispatching" /\ UNCHANGED table /\ Top.stage = "running" /\ Top.todo # <<>>
  BY DEF CallReturns, Running
<1>2. /\ n \in Nat \ {0} /\ DOMAIN frames = 1..n /\ Top = frames[n] /\ n \in DOMAIN frames
      /\ Top \in Frames
  BY <1>1, TopType DEF TypeNest
<1>3. PICK f \in Frames : /\ f.stage = "running" /\ f.todo = Tail(Top.todo)
                          /\ f.over = Top.over
                          /\ IsOn(frames', frames, n - 1, f)
  BY CallReturnsStep
<1>4. UpdateFirst(f) /\ (Updates(f) => Updates(Top))
  <2>1. UpdateFirst(Top)
    BY <1>2 DEF LastWordInv
  <2> QED
    BY <1>1, <1>2, <1>3, <2>1, TailSteps
<1>5. ~ExitMayThrow => (Updates(f) => f.over = {})
  BY <1>2, <1>3, <1>4 DEF LastWordInv, OwnUpdate
<1>6. ~ExitMayThrow => \A k \in 1..(n - 1) : ~Updates(frames[k])
  BY <1>1, UpdateBelow DEF Exiting
<1>7. n - 1 \in Nat /\ n - 1 <= Len(frames)
  BY <1>2
<1> QED
  BY <1>1, <1>3, <1>4, <1>5, <1>6, <1>7, WordOn

(* A handler moves a region: no transition below it has its update to come.  *)
LEMMA WordUpdate ==
    ASSUME TypeNest, LastWordInv, UpdateState
    PROVE  LastWordInv'
<1> DEFINE n == Len(frames)
<1>1. /\ pc = "dispatching" /\ UNCHANGED table /\ Top.stage = "running" /\ Top.todo # <<>>
  BY DEF UpdateState, Running
<1>2. /\ n \in Nat \ {0} /\ DOMAIN frames = 1..n /\ Top = frames[n] /\ n \in DOMAIN frames
      /\ Top \in Frames
  BY <1>1, TopType DEF TypeNest
<1>3. /\ Len(frames') = n /\ DOMAIN frames' = 1..n
      /\ \A k \in 1..n : /\ frames'[k].stage = frames[k].stage
                         /\ frames'[k].todo = IF k = n THEN Tail(frames[k].todo)
                                              ELSE frames[k].todo
                         /\ ~(k < n) => frames'[k].over = frames[k].over
  BY UpdateStep
<1>4. \A k \in 1..n : UpdateFirst(frames[k])
  BY <1>2 DEF LastWordInv
<1>5. ~ExitMayThrow => \A k \in 1..(n - 1) : ~Updates(frames[k])
  BY <1>1, UpdateBelow DEF Exiting
<1>6. ~ExitMayThrow => (Updates(Top) => Top.over = {})
  BY <1>2 DEF LastWordInv, OwnUpdate
<1> HIDE DEF n
<1>7. UpdateFirst(frames'[n]) /\ (Updates(frames'[n]) => Updates(Top))
  <2>1. n \in 1..n
    BY <1>2
  <2>2. frames'[n].todo = Tail(Top.todo) /\ frames'[n].stage = "running"
    BY <1>1, <1>2, <1>3, <2>1
  <2>3. UpdateFirst(Top)
    BY <1>2, <1>4, <2>1
  <2> QED
    BY <1>1, <1>2, <2>2, <2>3, TailSteps
<1>8. \A k \in 1..n : k = n \/ k \in 1..(n - 1)
  BY <1>2
<1>9. ASSUME NEW k \in 1..(n - 1)
      PROVE  UpdateFirst(frames'[k]) /\ (Updates(frames'[k]) => Updates(frames[k]))
  <2>1. k \in 1..n /\ k # n
    BY <1>2
  <2>2. frames'[k].todo = frames[k].todo /\ frames'[k].stage = frames[k].stage
    BY <1>3, <2>1
  <2> QED
    BY <1>4, <2>1, <2>2 DEF UpdateFirst, Updates
<1>10. \A k \in DOMAIN frames' : UpdateFirst(frames'[k])
  BY <1>3, <1>7, <1>8, <1>9
<1>11. ASSUME ~ExitMayThrow', NEW k \in DOMAIN frames', Updates(frames'[k])
       PROVE  /\ frames'[k].over = {}
              /\ k < Len(frames') => k + 1 = Len(frames') /\ Exiting(frames'[k + 1])
  <2>1. ~ExitMayThrow
    BY <1>1, <1>11, SameExits
  <2>2. k = n
    BY <1>3, <1>5, <1>8, <1>9, <1>11, <2>1
  <2>3. frames'[k].over = frames[k].over /\ ~(k < Len(frames')) /\ frames[k] = Top
    BY <1>2, <1>3, <2>2
  <2>4. Updates(Top)
    BY <1>7, <1>11, <2>2
  <2> QED
    BY <1>6, <2>1, <2>3, <2>4
<1>12. OwnUpdate' \/ ExitMayThrow'
  BY <1>11 DEF OwnUpdate, Updates, Exiting
<1>13. table' \in Tables
  BY <1>1 DEF LastWordInv
<1> QED
  BY <1>10, <1>12, <1>13 DEF LastWordInv, UpdateFirst

(* A dispatch from outside has nothing to update yet.                      *)
LEMMA WordStart ==
    ASSUME table' \in Tables, NEW on \in RowTriggers,
           frames' = <<Frame(on, TRUE, 1, current_state_)>>
    PROVE  LastWordInv'
<1>1. DOMAIN frames' = 1..1 /\ frames'[1].todo = <<>>
  BY StartNest
<1>2. \A k \in DOMAIN frames' : frames'[k].todo = <<>>
  <2>1. \A k \in 1..1 : k = 1
    OBVIOUS
  <2> QED
    BY <1>1, <2>1
<1>3. \A k \in DOMAIN frames' : UpdateFirst(frames'[k]) /\ ~Updates(frames'[k])
  BY <1>2, NoSteps
<1>4. OwnUpdate'
  BY <1>3 DEF OwnUpdate
<1> QED
  BY <1>3, <1>4 DEF LastWordInv

LEMMA WordDispatched ==
    ASSUME TypeNest, LastWordInv, Dispatched
    PROVE  LastWordInv'
<1>1. table' \in Tables /\ pc = "dispatched"
  BY DEF Dispatched, LastWordInv
<1>2. CASE HasCompletion /\ Dispatch("completion", OnCompletion(item.ev))
  <2>1. item.ev \in Events
    BY <1>2 DEF HasCompletion, TypeNest, StateTypes, RowTriggers, Triggers, OnExceptionAny
  <2>2. OnCompletion(item.ev) \in RowTriggers
    BY <2>1 DEF RowTriggers, Triggers, OnCompletion
  <2> QED
    BY <1>1, <1>2, <2>2, WordStart DEF Dispatch
<1>3. CASE Dispatch("anonymous", OnAnonymous)
  <2>1. OnAnonymous \in RowTriggers
    BY DEF RowTriggers, Triggers, OnAnonymous
  <2> QED
    BY <1>1, <1>3, <2>1, WordStart DEF Dispatch
<1>4. CASE UNCHANGED frames
  <2>1. frames = <<>>
    BY <1>1 DEF TypeNest, StateTypes
  <2>2. \A k \in DOMAIN frames' : FALSE
    BY <1>4, <2>1
  <2>3. OwnUpdate'
    BY <2>2 DEF OwnUpdate
  <2> QED
    BY <1>1, <2>2, <2>3 DEF LastWordInv
<1> QED
  BY <1>2, <1>3, <1>4 DEF Dispatched

LEMMA WordProcessEvent ==
    ASSUME LastWordInv, NEW e \in Events, ProcessEvent(e)
    PROVE  LastWordInv'
<1>1. /\ item' = IF Known(table, e) THEN OnEvent(e) ELSE OnUnexpectedAny
      /\ table' \in Tables /\ frames' = <<Frame(item', TRUE, 1, current_state_)>>
  BY DEF ProcessEvent, Dispatch, LastWordInv
<1>2. item' \in RowTriggers
  BY <1>1 DEF RowTriggers, Triggers, OnEvent, OnUnexpectedAny
<1> DEFINE on == IF Known(table, e) THEN OnEvent(e) ELSE OnUnexpectedAny
<1>3. on \in RowTriggers /\ frames' = <<Frame(on, TRUE, 1, current_state_)>>
  BY <1>1, <1>2
<1> HIDE DEF on
<1> QED
  BY <1>1, <1>3, WordStart

LEMMA WordStep ==
    ASSUME TypeNest, LastWordInv, [Next]_vars
    PROVE  LastWordInv'
<1>1. ASSUME NEW i \in Candidates, RowFires(i) PROVE LastWordInv'
  BY <1>1, WordRowFires
<1>2. CASE NoRowFires
  <2>1. pc = "dispatching" /\ RegionDone(FALSE) /\ UNCHANGED table
    BY <1>2 DEF NoRowFires, LookingUp
  <2> QED
    BY <2>1, WordRegionDone
<1>3. CASE GuardThrows
  <2>1. PICK i \in Candidates, x \in Exceptions :
           pc = "dispatching" /\ Throw(x) /\ x \in table.rows[i].guard
    BY <1>3 DEF GuardThrows, LookingUp
  <2>2. ~ExitMayThrow => ~Exiting(Top)
    BY <2>1, ExitQuiet DEF Exiting
  <2> QED
    BY <2>1, <2>2, WordThrow
<1>4. CASE AskUnexpected
  BY <1>4, WordAsk
<1>5. CASE RunStateAction
  BY <1>5, WordStateAction
<1>6. CASE UpdateState
  BY <1>6, WordUpdate
<1>7. CASE CallReturns
  BY <1>7, WordCallReturns
<1>8. CASE CallThrows
  <2>1. Running("call") /\ Throw(Head(Top.todo).arg)
    BY <1>8 DEF CallThrows
  <2>2. /\ pc = "dispatching" /\ Top.todo # <<>> /\ Head(Top.todo).arg \in Exceptions
    BY <2>1, RunningType, StepTypes
  <2> QED
    BY <2>1, <2>2, WordThrow DEF Exiting
<1>9. CASE RowDone
  <2>1. pc = "dispatching" /\ RegionDone(TRUE) /\ UNCHANGED table
    BY <1>9 DEF RowDone
  <2> QED
    BY <2>1, WordRegionDone
<1>10. CASE Dispatched
  BY <1>10, WordDispatched
<1>11. ASSUME NEW e \in Events, ProcessEvent(e) PROVE LastWordInv'
  BY <1>11, WordProcessEvent
<1>12. CASE UNCHANGED vars
  BY <1>12 DEF vars, LastWordInv, OwnUpdate, Updates, Exiting, UpdateFirst, ExitMayThrow
<1> QED
  BY <1>1, <1>2, <1>3, <1>4, <1>5, <1>6, <1>7, <1>8, <1>9, <1>10, <1>11, <1>12
     DEF Next, Engine, Lookup, Execute, Idle

LEMMA WordInit == Init => LastWordInv
<1> SUFFICES ASSUME Init PROVE LastWordInv
  OBVIOUS
<1>1. OnEntry \in RowTriggers
  BY DEF RowTriggers, Triggers, OnEntry
<1> DEFINE f == Frame(OnEntry, TRUE, 1, current_state_)
<1>2. frames = <<f>> /\ table \in Tables
  BY DEF Init
<1>3. f = StartWhole(OnEntry, 1, current_state_)
  BY DEF StartWhole
<1> HIDE DEF f
<1>4. f.todo = <<>>
  BY <1>1, <1>3, FirstRegion, WholeFrame
<1>5. \A k \in DOMAIN frames : frames[k].todo = <<>>
  BY <1>2, <1>4
<1>6. \A k \in DOMAIN frames : UpdateFirst(frames[k]) /\ ~Updates(frames[k])
  BY <1>5, NoSteps
<1> QED
  BY <1>2, <1>6 DEF LastWordInv, OwnUpdate

(* Where no exit action can throw, a region that a handler has moved is not  *)
(* moved again by the transition that the exception came from.              *)
THEOREM HandlerMovesLast == Spec => []HandlerHasLastWord
<1>1. Spec => []LastWordInv
  BY WordInit, WordStep, TypeNestInvariant, PTL DEF Spec
<1>2. LastWordInv => HandlerHasLastWord
  <2> SUFFICES ASSUME LastWordInv, ~ExitMayThrow, NEW k \in DOMAIN frames,
                      NEW m \in DOMAIN frames[k].todo, frames[k].todo[m].op = "update"
               PROVE  frames[k].region \notin frames[k].over
    BY DEF HandlerHasLastWord
  <2>1. frames[k].over = {}
    BY DEF LastWordInv, OwnUpdate, Updates
  <2> QED
    BY <2>1
<1> QED
  BY <1>1, <1>2, PTL
=============================================================================
