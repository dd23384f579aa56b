--------------------------- MODULE ThreadSafeProofs ---------------------------
(***************************************************************************)
(* Theorems about ThreadSafe: with the lock, several threads use the engine *)
(* as one thread would, so that everything proved of SmImpl holds with      *)
(* threads too.                                                            *)
(***************************************************************************)
EXTENDS ThreadSafe, SmImplCallProofs

(* Every invariant of one machine that the lock relies on.                 *)
Sound == EngineTypes /\ RefInv /\ CallInv

Safe == Sound /\ LockInv /\ LockedWhileRunning /\ FreshPosts

-----------------------------------------------------------------------------
(* The lock is free only while no call is going on.                        *)
LEMMA FreeMeansReady ==
    ASSUME LockInv, LockedWhileRunning, NEW t \in Threads, request[t] # None,
           holder = NoThread
    PROVE  Shared /\ pc = "ready"
BY ThreadsAssumption DEF LockInv, LockedWhileRunning, Outside

(* What a thread does to the machine is a step of a machine used by one.    *)
LEMMA ThreadStep ==
    ASSUME LockInv, LockedWhileRunning, [ThreadNext]_allVars
    PROVE  [Step]_vars
<1>1. CASE Run
  BY <1>1 DEF Run, Step
<1>2. CASE Rest \/ UNCHANGED allVars
  BY <1>2 DEF Rest, allVars
<1>3. ASSUME NEW t \in Threads, Enter(t) \/ Release(t) PROVE UNCHANGED vars
  BY <1>3 DEF Enter, Request, Release
<1>4. ASSUME NEW t \in Threads, Acquire(t) PROVE Step
  <2>1. t \in Threads /\ request[t] # None /\ holder = NoThread
    BY <1>4 DEF Acquire, Waiting, LockFree
  <2>2. request[t] \in Events
    BY <2>1 DEF LockInv
  <2>3. pc = "ready"
    BY <2>1, FreeMeansReady
  <2>4. BeginCall(CallTrigger(request[t]))
    BY <1>4 DEF Acquire
  <2> QED
    BY <2>2, <2>3, <2>4 DEF Step, Call
<1> QED
  BY <1>1, <1>2, <1>3, <1>4 DEF ThreadNext

LEMMA SoundStep ==
    ASSUME Sound, [Step]_vars
    PROVE  Sound'
BY TypeStep, RefStep, CallStateStep, CalmStateStep DEF Sound, RefInv, CallInv

-----------------------------------------------------------------------------
LEMMA SafeInit == ThreadInit => Safe
<1> SUFFICES ASSUME ThreadInit PROVE Safe
  OBVIOUS
<1>1. Init
  BY DEF ThreadInit
<1>2. Sound
  BY <1>1, TypeInit, RefInit, CallInit DEF Sound
<1>3. LockInv /\ LockedWhileRunning /\ FreshPosts
  BY <1>1
  DEF ThreadInit, Init, LockInv, LockedWhileRunning, FreshPosts, Shared, Outside
<1> QED
  BY <1>2, <1>3 DEF Safe

(* The lock: a step of the engine.                                         *)
LEMMA RunLock ==
    ASSUME LockInv, LockedWhileRunning, CallInv, Run
    PROVE  LockInv' /\ LockedWhileRunning'
<1>1. /\ UNCHANGED <<request, holder>> /\ Outside' = Outside
      /\ pc \notin {"ready", "destroyed"}
      /\ \/ pc' \notin {"ready", "destroyed"} /\ result' = result
         \/ /\ result' \in {"true", "false", "guard_threw", "action_threw"}
            /\ pc' = "destroyed" => result = "constructing"
            /\ pc' \in {"ready", "destroyed"}
  BY EngineResult DEF Run, threadVars, Outside
<1>2. LockInv'
  BY <1>1 DEF LockInv, Shared
<1>3. LockedWhileRunning'
  BY <1>1 DEF LockInv, LockedWhileRunning, Shared
<1> QED
  BY <1>2, <1>3

LEMMA AcquireLock ==
    ASSUME LockInv, LockedWhileRunning, NEW t \in Threads, Acquire(t)
    PROVE  LockInv' /\ LockedWhileRunning'
<1>1. /\ holder = NoThread /\ holder' = t /\ request' = request /\ request[t] # None
      /\ result' = "pending" /\ pc' = "lookup"
  BY ProcessAndPostTypes DEF Acquire, Waiting, LockFree, BeginCall
<1> QED
  BY <1>1 DEF LockInv, LockedWhileRunning, Shared

LEMMA RequestLock ==
    ASSUME LockInv, LockedWhileRunning, NEW t \in Threads, Enter(t)
    PROVE  LockInv' /\ LockedWhileRunning'
<1>1. PICK e \in Events : Request(t, e)
  BY DEF Enter
<1>2. /\ Shared /\ request[t] = None /\ UNCHANGED <<holder, pc, result>>
      /\ request' = [request EXCEPT ![t] = e]
  BY <1>1 DEF Request, Outside, vars
<1>3. LockInv'
  BY <1>2 DEF LockInv, Shared
<1>4. \A u \in Threads : request[u] # None => request'[u] # None
  BY <1>2 DEF LockInv
<1>5. Shared' = Shared
  BY <1>2 DEF Shared
<1>6. LockedWhileRunning'
  BY <1>2, <1>4, <1>5 DEF LockInv, LockedWhileRunning
<1> QED
  BY <1>3, <1>6

LEMMA ReleaseLock ==
    ASSUME LockInv, LockedWhileRunning, NEW t \in Threads, Release(t)
    PROVE  LockInv' /\ LockedWhileRunning'
<1>1. /\ holder = t /\ pc = "ready" /\ holder' = NoThread
      /\ request' = [request EXCEPT ![t] = None] /\ UNCHANGED <<pc, result>>
  BY DEF Release, MayRelease, vars
<1>2. Shared
  BY <1>1, ThreadsAssumption DEF LockInv
<1> QED
  BY <1>1, <1>2 DEF LockInv, LockedWhileRunning, Shared

LEMMA LockStep ==
    ASSUME LockInv, LockedWhileRunning, CallInv, [ThreadNext]_allVars
    PROVE  LockInv' /\ LockedWhileRunning'
<1>1. CASE UNCHANGED allVars
  BY <1>1 DEF allVars, vars, threadVars, LockInv, LockedWhileRunning, Shared, Outside
<1> QED
  BY <1>1, RunLock, AcquireLock, RequestLock, ReleaseLock DEF ThreadNext, Rest

-----------------------------------------------------------------------------
(* What the engine does to the process queue.                              *)
LEMMA EngineQueue ==
    ASSUME EngineTypes, RefInv, Engine
    PROVE  /\ table' = table /\ issued' \in Nat /\ issued <= issued'
           /\ \A x \in Ids(process_)' : x \in Ids(process_) \/ x = issued + 1
<1>1. issued \in Nat /\ process_ \in Seq(EventObjects)
  BY DEF EngineTypes, HistoryTypes, MemberTypes
<1>2. ASSUME UNCHANGED <<table, process_>>, issued' \in {issued, issued + 1}
      PROVE  /\ table' = table /\ issued' \in Nat /\ issued <= issued'
             /\ \A x \in Ids(process_)' : x \in Ids(process_) \/ x = issued + 1
  BY <1>1, <1>2
<1>3. ASSUME NEW i, RowFires(i) PROVE UNCHANGED <<table, process_, issued>>
  BY <1>3 DEF RowFires, memberVars
<1>4. ASSUME NoRowFires \/ RowDone \/ GuardThrows \/ ActionThrows \/ Dispatched
      PROVE  UNCHANGED <<table, process_, issued>>
  BY <1>4
  DEF NoRowFires, RowDone, GuardThrows, ActionThrows, Unwind, Dispatched, memberVars, ghostVars
<1>5. ASSUME UpdateState \/ CallReturns PROVE UNCHANGED <<table, process_, issued>>
  BY <1>5 DEF UpdateState, CallReturns, memberVars, ghostVars
<1>6. ASSUME DeferEvent PROVE UNCHANGED <<table, process_>> /\ issued' \in {issued, issued + 1}
  BY <1>6 DEF DeferEvent
<1>7. ASSUME EventReturns \/ Recheck \/ RecallReturns \/ RecallDone \/ QueueDone
      PROVE  UNCHANGED <<table, process_, issued>>
  BY <1>7
  DEF EventReturns, Recheck, RecallReturns, RecallDone, QueueDone, Settle, memberVars, ghostVars
<1>8. ASSUME Recall \/ TakeQueued PROVE UNCHANGED <<table, process_, issued>>
  BY <1>8 DEF Recall, TakeQueued, memberVars
<1>9. ASSUME PostEvent
      PROVE  /\ table' = table /\ issued' \in Nat /\ issued <= issued'
             /\ \A x \in Ids(process_)' : x \in Ids(process_) \/ x = issued + 1
  <2> DEFINE x == [on |-> OnEvent(Operation.arg), id |-> issued + 1]
  <2>1. process_' = Append(process_, x) /\ table' = table /\ issued' = issued + 1
    BY <1>9 DEF PostEvent, Push
  <2>2. todo # <<>> /\ Operation \in Operations
    BY <1>9, HeadTailProperties DEF PostEvent, Running, Operation, EngineTypes, DispatchTypes
  <2>3. x \in EventObjects
    BY <1>1, <1>9, <2>2, OperationTypes, TriggerTypes DEF PostEvent, Running, EventObjects
  <2> HIDE DEF x
  <2>4. Ids(process_)' = Ids(process_) \cup {x.id}
    BY <1>1, <2>1, <2>3, IdsAppend DEF Ids
  <2>5. x.id = issued + 1
    BY DEF x
  <2> QED
    BY <1>1, <2>1, <2>4, <2>5
<1>10. ASSUME QueuedReturns
       PROVE  /\ table' = table /\ issued' \in Nat /\ issued <= issued'
              /\ \A x \in Ids(process_)' : x \in Ids(process_) \/ x = issued + 1
  <2>1. process_ # <<>> /\ process_' = Tail(process_) /\ UNCHANGED <<table, issued>>
    BY <1>10 DEF QueuedReturns, Pop, Settle, RefInv, ReferenceStable, Processing
  <2>2. Ids(process_)' = Ids(Tail(process_))
    BY <2>1 DEF Ids
  <2>3. Ids(process_) = Ids(Tail(process_)) \cup {Head(process_).id}
    BY <1>1, <2>1, IdsTail
  <2> QED
    BY <1>1, <2>1, <2>2, <2>3
<1>11. ASSUME UNCHANGED <<table, process_, issued>>
       PROVE  UNCHANGED <<table, process_>> /\ issued' \in {issued, issued + 1}
  BY <1>11
<1> QED
  BY <1>2, <1>3, <1>4, <1>5, <1>6, <1>7, <1>8, <1>9, <1>10, <1>11
  DEF Engine, Lookup, Execute, Loops

(* What was posted since the lock was taken is what the queue holds.        *)
LEMMA FreshStep ==
    ASSUME Safe, [ThreadNext]_allVars
    PROVE  FreshPosts'
<1> USE DEF Safe, Sound
<1>t. issued \in Nat /\ result \in {"constructing", "pending", "true", "false",
                                   "guard_threw", "action_threw"}
  BY DEF EngineTypes, HistoryTypes, LoopTypes
<1>1. CASE Run
  <2>1. /\ table' = table /\ issued' \in Nat /\ issued <= issued'
        /\ UNCHANGED <<holder, since>>
        /\ \A x \in Ids(process_)' : x \in Ids(process_) \/ x = issued + 1
    BY <1>1, EngineQueue DEF Run, threadVars
  <2>2. NeverThrows' = NeverThrows
    BY <2>1 DEF NeverThrows
  <2>3. NeverThrows => result' \notin {"guard_threw", "action_threw"}
    <3>1. ASSUME GuardThrows \/ ActionThrows PROVE ~NeverThrows
      BY <3>1, ThrowersThrow
    <3>2. ASSUME ~(GuardThrows \/ ActionThrows)
          PROVE  result' = result \/ result' \in {"true", "false"}
      <4>1. ASSUME NEW i, RowFires(i) PROVE result' = result
        BY <4>1 DEF RowFires
      <4>2. ASSUME Lookup /\ ~GuardThrows PROVE result' = result
        BY <4>1, <4>2 DEF Lookup, NoRowFires
      <4>3. ASSUME Execute /\ ~ActionThrows PROVE result' = result
        BY <4>3
        DEF Execute, UpdateState, PostEvent, DeferEvent, CallReturns, RowDone
      <4>4. ASSUME Loops PROVE result' = result \/ result' \in {"true", "false"}
        BY <4>4
        DEF Loops, Dispatched, EventReturns, Recheck, Recall, RecallReturns, RecallDone,
            TakeQueued, QueuedReturns, QueueDone
      <4> QED
        BY <1>1, <3>2, <4>2, <4>3, <4>4 DEF Run, Engine
    <3> QED
      BY <3>1, <3>2 DEF FreshPosts
  <2>4. since \in Nat /\ since <= issued
    BY DEF FreshPosts
  <2>5. since' \in Nat /\ since' <= issued'
    BY <1>t, <2>1, <2>4
  <2>6. ASSUME NeverThrows, holder # NoThread, NEW x \in Ids(process_)'
        PROVE  x > since
    <3>1. CASE x \in Ids(process_)
      BY <2>6, <3>1 DEF FreshPosts
    <3>2. CASE x = issued + 1
      BY <1>t, <2>4, <3>2
    <3> QED
      BY <2>1, <2>6, <3>1, <3>2
  <2> QED
    BY <2>1, <2>2, <2>3, <2>5, <2>6 DEF FreshPosts
<1>2. ASSUME NEW t \in Threads, Acquire(t) PROVE FreshPosts'
  <2>1. /\ holder = NoThread /\ request[t] # None
        /\ UNCHANGED <<table, process_>> /\ result' = "pending"
        /\ issued' = issued + 1 /\ since' = issued
    BY <1>2 DEF Acquire, Waiting, LockFree, BeginCall, memberVars
  <2>2. pc = "ready"
    BY <2>1, FreeMeansReady
  <2>3. NeverThrows => process_ = <<>>
    BY <1>t, <2>2 DEF FreshPosts, CallInv, CallState, Drained
  <2>4. NeverThrows => Ids(process_)' = {}
    BY <2>1, <2>3 DEF Ids
  <2>5. NeverThrows' = NeverThrows
    BY <2>1 DEF NeverThrows
  <2> QED
    BY <1>t, <2>1, <2>4, <2>5 DEF FreshPosts
<1>3. ASSUME NEW t \in Threads, Enter(t) \/ Release(t) PROVE FreshPosts'
  <2>1. UNCHANGED <<table, process_, issued, result, since>>
        /\ (holder' = holder \/ holder' = NoThread)
    BY <1>3 DEF Enter, Request, Release, vars, memberVars, ghostVars
  <2> QED
    BY <2>1 DEF FreshPosts, NeverThrows, Ids
<1>4. CASE UNCHANGED allVars
  BY <1>4 DEF allVars, vars, threadVars, memberVars, ghostVars, FreshPosts, NeverThrows, Ids
<1> QED
  BY <1>1, <1>2, <1>3, <1>4 DEF ThreadNext, Rest

-----------------------------------------------------------------------------
(* In every reachable state the lock, the calls and the queue fit together. *)
THEOREM ThreadsSafe == ThreadSpec => []Safe
<1>1. ThreadInit => Safe
  BY SafeInit
<1>2. Safe /\ [ThreadNext]_allVars => Safe'
  <2> SUFFICES ASSUME Safe, [ThreadNext]_allVars PROVE Safe'
    OBVIOUS
  <2>1. [Step]_vars
    BY ThreadStep DEF Safe
  <2>2. Sound'
    BY <2>1, SoundStep DEF Safe
  <2>3. LockInv' /\ LockedWhileRunning'
    BY LockStep DEF Safe, Sound
  <2> QED
    BY <2>2, <2>3, FreshStep DEF Safe
<1> QED
  BY <1>1, <1>2, PTL DEF ThreadSpec

(* process_event with thread_safe: any number of threads use the engine as  *)
(* one thread would, one call after the other.  What is proved of the       *)
(* engine (types, references into the queues, posted events, what a call    *)
(* leaves behind) is true with threads too.                                *)
THEOREM OneAtATime == ThreadSpec => EngineSpec
<1>1. Safe /\ [ThreadNext]_allVars => [Step]_vars
  BY ThreadStep DEF Safe
<1>2. ThreadInit => Init
  BY DEF ThreadInit
<1> QED
  BY <1>1, <1>2, ThreadsSafe, PTL DEF ThreadSpec, EngineSpec

(* While a call is going on its thread holds the lock.                     *)
THEOREM LockHeld == ThreadSpec => []LockedWhileRunning
<1>1. Safe => LockedWhileRunning
  BY DEF Safe
<1> QED
  BY <1>1, ThreadsSafe, PTL

(* Without exceptions no call processes what another thread's call posted.  *)
THEOREM PostsOwned == ThreadSpec => []OwnPosts
<1>1. Safe => OwnPosts
  <2> SUFFICES ASSUME Safe, NeverThrows, holder # NoThread, Processing,
                      caller = "process_queued_events"
               PROVE  item.id > since
    BY DEF OwnPosts
  <2>1. process_ # <<>> /\ Head(process_) = item /\ process_ \in Seq(EventObjects)
    BY DEF Safe, Sound, RefInv, ReferenceStable, EngineTypes, MemberTypes
  <2>2. item.id \in Ids(process_)
    BY <2>1, IdsTail
  <2> QED
    BY <2>2 DEF Safe, FreshPosts
<1> QED
  BY <1>1, ThreadsSafe, PTL
=============================================================================
