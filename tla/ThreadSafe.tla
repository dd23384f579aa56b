------------------------------ MODULE ThreadSafe ------------------------------
(***************************************************************************)
(* The thread_safe<Lock> policy (src/include/boost/sml.hpp): several       *)
(* threads call process_event on one machine of SmImpl, and the first      *)
(* statement of process_event takes the lock of the policy.  The lock      *)
(* guard is a local, so an exception that leaves the call releases it too. *)
(* What the calls of different threads share is everything the engine      *)
(* keeps between calls: the states and both queues.                        *)
(***************************************************************************)
EXTENDS SmImpl

CONSTANTS Threads, NoThread

ASSUME ThreadsAssumption == NoThread \notin Threads
ASSUME EventsAssumption == None \notin Events

VARIABLES
    request,   \* thread -> its event while it is in process_event, else None
    holder,    \* the thread that holds the lock, or NoThread
    since      \* issued, when the lock was taken (history)

threadVars == <<request, holder, since>>
allVars == <<vars, threadVars>>

(* Threads that are not in process_event, and those that want the lock.     *)
Outside == {t \in Threads : request[t] = None}
Waiting == {t \in Threads : request[t] # None /\ holder # t}

-----------------------------------------------------------------------------
(* The constructor has returned: only then can threads have the machine.   *)
Shared == result # "constructing" /\ pc # "destroyed"

(* A thread calls process_event(e) and arrives at create_lock().           *)
Request(t, e) ==
    /\ Shared
    /\ t \in Outside
    /\ issued + Cardinality(Waiting) < MaxIssued
    /\ request' = [request EXCEPT ![t] = e]
    /\ UNCHANGED <<vars, holder, since>>

(* A mistake in the code below, for the mutants of PROJECT.json: the lock   *)
(* protects each pass of the engine's outer loop, not the whole call.      *)
LockFreeEarly == holder = NoThread \/ pc = "queue"

(* The lock is taken by one thread at a time.                              *)
LockFree == holder = NoThread

(* lock_.lock(); the rest of the call up to the first dispatch.            *)
Acquire(t) ==
    /\ t \in Waiting
    /\ LockFree
    /\ holder' = t
    /\ since' = issued
    /\ BeginCall(CallTrigger(request[t]))
    /\ UNCHANGED request

(* A mistake in the code below, for the mutants of PROJECT.json: the lock   *)
(* is given back before the process queue is empty.                        *)
MayReleaseEarly == pc \in {"ready", "queue"}

(* The destructor of the guard runs when process_event has returned or      *)
(* thrown.                                                                 *)
MayRelease == pc = "ready"

Release(t) ==
    /\ holder = t
    /\ MayRelease
    /\ holder' = NoThread
    /\ request' = [request EXCEPT ![t] = None]
    /\ UNCHANGED <<vars, since>>

(* The engine runs on the thread that holds the lock; the constructor runs  *)
(* before the machine is shared.                                           *)
Run == Engine /\ UNCHANGED threadVars

(* No thread makes another call, or no object was constructed.             *)
Rest ==
    /\ holder = NoThread /\ Outside = Threads
    /\ issued >= MaxIssued \/ pc = "destroyed"
    /\ UNCHANGED allVars

ThreadInit ==
    Init /\ request = [t \in Threads |-> None] /\ holder = NoThread /\ since = 0

Enter(t) == \E e \in Events : Request(t, e)

ThreadNext ==
    \/ Run \/ Rest
    \/ \E t \in Threads : Enter(t) \/ Acquire(t) \/ Release(t)

ThreadSpec == ThreadInit /\ [][ThreadNext]_allVars

(* A thread that can run does, and a lock that stays free is given to a     *)
(* thread that waits for it: std::mutex promises no order, so a thread is   *)
(* sure to get it only when the others, whose calls are bounded, rest.      *)
FairThreadSpec ==
    /\ ThreadSpec
    /\ WF_allVars(Run)
    /\ \A t \in Threads : WF_allVars(Acquire(t)) /\ WF_allVars(Release(t))

-----------------------------------------------------------------------------
(* The members of the machine are in use by the one thread that holds the   *)
(* lock and is inside process_event, until the call has ended, normally or  *)
(* by an exception: the states and the queues that a call leaves between    *)
(* two of its steps are seen by no other call.                             *)
LockedWhileRunning ==
    Shared =>
       /\ pc # "ready" => holder \in Threads /\ request[holder] # None
       /\ pc = "ready" /\ holder # NoThread =>
             request[holder] # None /\ result # "pending"

(* Where no user code throws, a call processes the posted events of its own *)
(* reactions and of no other thread's: what another call posted, that call  *)
(* has processed before it gave the lock away.                             *)
OwnPosts ==
    NeverThrows /\ holder # NoThread /\ Processing
       /\ caller = "process_queued_events" => item.id > since

(* What makes these inductive: a machine that is still being constructed is *)
(* nobody's, and what was posted since the lock was taken is all there is   *)
(* in the process queue.                                                   *)
LockInv ==
    /\ request \in [Threads -> Events \cup {None}]
    /\ holder \in Threads \cup {NoThread}
    /\ ~Shared => Outside = Threads /\ holder = NoThread

FreshPosts ==
    /\ since \in Nat /\ since <= issued
    /\ NeverThrows => result \notin {"guard_threw", "action_threw"}
    /\ NeverThrows /\ holder # NoThread => \A x \in Ids(process_) : x > since

(* Every call of every thread returns or throws, and it gives the lock back *)
(* in both cases, so that no thread waits for ever.                        *)
Answered == \A t \in Threads : request[t] # None ~> request[t] = None
=============================================================================
