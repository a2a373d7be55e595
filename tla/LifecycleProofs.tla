-------------------------- MODULE LifecycleProofs --------------------------
(***************************************************************************)
(* Theorems about Lifecycle, for every set of replicas and tasks.          *)
(*                                                                         *)
(* OneRound follows from RoundHolds: a lock has one holder, and a round    *)
(* holds its lock as long as no session was lost.  PoolOutlivesTasks needs *)
(* what each finished wait of the shutdown has established (Waited) and    *)
(* that only ClosePool closes the pool (ClosedByMain).                     *)
(***************************************************************************)
EXTENDS Lifecycle, TLAPS

USE DEF vars

LEMMA InitHolds == Init => IInv
BY LifecycleAssumption DEF Init, IInv, TypeOK, RoundHolds, LockOnlyInRound, Waited,
     ClosedByMain,
  InRound, Alive

-----------------------------------------------------------------------------
(* One lemma per action: the parts of IInv it can disturb, then the rest. *)

LEMMA StartRoundKeeps ==
  ASSUME IInv, NEW r \in Replica, NEW t \in Task, StartRound(r, t)
  PROVE  IInv'
<1>1. TypeOK'
  BY DEF IInv, TypeOK, StartRound, Cancelled
<1>2. RoundHolds'
  BY LifecycleAssumption DEF IInv, TypeOK, StartRound, RoundHolds, LockOnlyInRound,
     InRound, Alive, Cancelled
<1>3. LockOnlyInRound'
  BY DEF IInv, TypeOK, StartRound, LockOnlyInRound, RoundHolds, InRound, Alive, Cancelled
<1>4. Waited'
  BY DEF IInv, TypeOK, StartRound, Waited, Cancelled
<1>5. ClosedByMain'
  BY DEF IInv, StartRound, ClosedByMain
<1> QED BY <1>1, <1>2, <1>3, <1>4, <1>5 DEF IInv

LEMMA EndRoundKeeps ==
  ASSUME IInv, NEW r \in Replica, NEW t \in Task, EndRound(r, t)
  PROVE  IInv'
<1>1. TypeOK'
  BY DEF IInv, TypeOK, EndRound
<1>2. RoundHolds'
  BY DEF IInv, TypeOK, EndRound, RoundHolds, LockOnlyInRound, InRound, Alive
<1>3. LockOnlyInRound'
  BY DEF IInv, TypeOK, EndRound, LockOnlyInRound, RoundHolds, InRound, Alive
<1>4. Waited'
  BY DEF IInv, TypeOK, EndRound, Waited
<1>5. ClosedByMain'
  BY DEF IInv, EndRound, ClosedByMain
<1> QED BY <1>1, <1>2, <1>3, <1>4, <1>5 DEF IInv

LEMMA UnlockKeeps ==
  ASSUME IInv, NEW r \in Replica, NEW t \in Task, Unlock(r, t)
  PROVE  IInv'
<1>1. TypeOK'
  BY DEF IInv, TypeOK, Unlock
<1>2. RoundHolds'
  BY DEF IInv, TypeOK, Unlock, RoundHolds, LockOnlyInRound, InRound, Alive
<1>3. LockOnlyInRound'
  BY LifecycleAssumption DEF IInv, TypeOK, Unlock, LockOnlyInRound, RoundHolds, InRound,
     Alive
<1>4. Waited'
  BY DEF IInv, TypeOK, Unlock, Waited
<1>5. ClosedByMain'
  BY DEF IInv, Unlock, ClosedByMain
<1> QED BY <1>1, <1>2, <1>3, <1>4, <1>5 DEF IInv

LEMMA StopTaskKeeps ==
  ASSUME IInv, NEW r \in Replica, NEW t \in Task, StopTask(r, t)
  PROVE  IInv'
<1>1. TypeOK'
  BY DEF IInv, TypeOK, StopTask, Cancelled
<1>2. RoundHolds'
  BY DEF IInv, TypeOK, StopTask, RoundHolds, LockOnlyInRound, InRound, Alive, Cancelled
<1>3. LockOnlyInRound'
  BY DEF IInv, TypeOK, StopTask, LockOnlyInRound, RoundHolds, InRound, Alive, Cancelled
<1>4. Waited'
  BY DEF IInv, TypeOK, StopTask, Waited, Cancelled
<1>5. ClosedByMain'
  BY DEF IInv, StopTask, ClosedByMain
<1> QED BY <1>1, <1>2, <1>3, <1>4, <1>5 DEF IInv

LEMMA LoseSessionKeeps ==
  ASSUME IInv, NEW r \in Replica, NEW t \in Task, LoseSession(r, t)
  PROVE  IInv'
<1>1. TypeOK'
  BY LifecycleAssumption DEF IInv, TypeOK, LoseSession
<1>2. RoundHolds'
  BY DEF IInv, TypeOK, LoseSession, RoundHolds, LockOnlyInRound, InRound, Alive
<1>3. LockOnlyInRound'
  BY LifecycleAssumption DEF IInv, TypeOK, LoseSession, LockOnlyInRound, RoundHolds,
     InRound, Alive
<1>4. (Waited /\ ClosedByMain)'
  BY DEF IInv, LoseSession, Waited, ClosedByMain
<1> QED BY <1>1, <1>2, <1>3, <1>4 DEF IInv

LEMMA StartDrainKeeps ==
  ASSUME IInv, NEW r \in Replica, StartDrain(r)
  PROVE  IInv'
<1>1. TypeOK'
  BY DEF IInv, TypeOK, StartDrain, Alive
<1>2. Waited'
  BY DEF IInv, TypeOK, StartDrain, Waited, Alive
<1>3. (RoundHolds /\ LockOnlyInRound /\ ClosedByMain)'
  BY DEF IInv, StartDrain, RoundHolds, InRound, LockOnlyInRound, Alive, ClosedByMain
<1> QED BY <1>1, <1>2, <1>3 DEF IInv

LEMMA EndDrainKeeps ==
  ASSUME IInv, NEW r \in Replica, EndDrain(r)
  PROVE  IInv'
<1>1. TypeOK'
  BY DEF IInv, TypeOK, EndDrain
<1>2. Waited'
  BY DEF IInv, TypeOK, EndDrain, Waited
<1>3. (RoundHolds /\ LockOnlyInRound /\ ClosedByMain)'
  BY DEF IInv, EndDrain, RoundHolds, InRound, LockOnlyInRound, Alive, ClosedByMain
<1> QED BY <1>1, <1>2, <1>3 DEF IInv

LEMMA StopWorkerKeeps ==
  ASSUME IInv, NEW r \in Replica, StopWorker(r)
  PROVE  IInv'
<1>1. TypeOK'
  BY DEF IInv, TypeOK, StopWorker, Cancelled
<1>2. Waited'
  BY DEF IInv, TypeOK, StopWorker, Waited, Cancelled
<1>3. (RoundHolds /\ LockOnlyInRound /\ ClosedByMain)'
  BY DEF IInv, StopWorker, RoundHolds, InRound, LockOnlyInRound, Alive, ClosedByMain
<1> QED BY <1>1, <1>2, <1>3 DEF IInv

LEMMA StartRequestKeeps ==
  ASSUME IInv, NEW r \in Replica, StartRequest(r)
  PROVE  IInv'
<1>1. TypeOK'
  BY LifecycleAssumption DEF IInv, TypeOK, StartRequest
<1>2. (RoundHolds /\ LockOnlyInRound /\ Waited /\ ClosedByMain)'
  BY DEF IInv, StartRequest, RoundHolds, InRound, LockOnlyInRound, Alive, Waited,
     ClosedByMain
<1> QED BY <1>1, <1>2 DEF IInv

LEMMA EndRequestKeeps ==
  ASSUME IInv, NEW r \in Replica, EndRequest(r)
  PROVE  IInv'
<1>1. TypeOK'
  BY LifecycleAssumption DEF IInv, TypeOK, EndRequest
<1>2. (RoundHolds /\ LockOnlyInRound /\ Waited /\ ClosedByMain)'
  BY DEF IInv, EndRequest, RoundHolds, InRound, LockOnlyInRound, Alive, Waited, ClosedByMain
<1> QED BY <1>1, <1>2 DEF IInv

LEMMA SignalKeeps ==
  ASSUME IInv, NEW r \in Replica, Signal(r)
  PROVE  IInv'
<1>1. TypeOK'
  BY DEF IInv, TypeOK, Signal
<1>2. LockOnlyInRound'
  BY DEF IInv, TypeOK, Signal, LockOnlyInRound, RoundHolds, InRound, Alive
<1>3. Waited'
  BY DEF IInv, TypeOK, Signal, Waited
<1>4. ClosedByMain'
  BY DEF IInv, TypeOK, Signal, ClosedByMain
<1>5. RoundHolds'
  BY DEF IInv, Signal, RoundHolds, InRound
<1> QED BY <1>1, <1>2, <1>3, <1>4, <1>5 DEF IInv

LEMMA ExpireKeeps ==
  ASSUME IInv, NEW r \in Replica, Expire(r)
  PROVE  IInv'
<1>1. TypeOK'
  BY DEF IInv, TypeOK, Expire, Cancelled, Alive
<1>2. (RoundHolds /\ LockOnlyInRound /\ Waited /\ ClosedByMain)'
  BY DEF IInv, Expire, RoundHolds, InRound, LockOnlyInRound, Alive, Waited, ClosedByMain
<1> QED BY <1>1, <1>2 DEF IInv

LEMMA StopSchedulerKeeps ==
  ASSUME IInv, NEW r \in Replica, StopScheduler(r)
  PROVE  IInv'
<1>1. TypeOK'
  BY DEF IInv, TypeOK, StopScheduler
<1>2. LockOnlyInRound'
  BY DEF IInv, TypeOK, StopScheduler, LockOnlyInRound, RoundHolds, InRound, Alive
<1>3. Waited'
  BY DEF IInv, TypeOK, StopScheduler, Waited
<1>4. ClosedByMain'
  BY DEF IInv, TypeOK, StopScheduler, ClosedByMain
<1>5. RoundHolds'
  BY DEF IInv, StopScheduler, RoundHolds, InRound
<1> QED BY <1>1, <1>2, <1>3, <1>4, <1>5 DEF IInv

LEMMA WaitWorkerKeeps ==
  ASSUME IInv, NEW r \in Replica, WaitWorker(r)
  PROVE  IInv'
<1>1. TypeOK'
  BY DEF IInv, TypeOK, WaitWorker
<1>2. LockOnlyInRound'
  BY DEF IInv, TypeOK, WaitWorker, LockOnlyInRound, RoundHolds, InRound, Alive
<1>3. Waited'
  BY DEF IInv, TypeOK, WaitWorker, Waited
<1>4. ClosedByMain'
  BY DEF IInv, TypeOK, WaitWorker, ClosedByMain
<1>5. RoundHolds'
  BY DEF IInv, WaitWorker, RoundHolds, InRound
<1> QED BY <1>1, <1>2, <1>3, <1>4, <1>5 DEF IInv

LEMMA ShutdownKeeps ==
  ASSUME IInv, NEW r \in Replica, Shutdown(r)
  PROVE  IInv'
<1>1. TypeOK'
  BY DEF IInv, TypeOK, Shutdown
<1>2. LockOnlyInRound'
  BY DEF IInv, TypeOK, Shutdown, LockOnlyInRound, RoundHolds, InRound, Alive
<1>3. Waited'
  BY DEF IInv, TypeOK, Shutdown, Waited
<1>4. ClosedByMain'
  BY DEF IInv, TypeOK, Shutdown, ClosedByMain
<1>5. RoundHolds'
  BY DEF IInv, Shutdown, RoundHolds, InRound
<1> QED BY <1>1, <1>2, <1>3, <1>4, <1>5 DEF IInv

LEMMA ClosePoolKeeps ==
  ASSUME IInv, NEW r \in Replica, ClosePool(r)
  PROVE  IInv'
<1>1. TypeOK'
  BY DEF IInv, TypeOK, ClosePool
<1>2. LockOnlyInRound'
  BY DEF IInv, TypeOK, ClosePool, LockOnlyInRound, RoundHolds, InRound, Alive
<1>3. Waited'
  BY DEF IInv, TypeOK, ClosePool, Waited
<1>4. ClosedByMain'
  BY DEF IInv, TypeOK, ClosePool, ClosedByMain
<1>5. RoundHolds'
  BY DEF IInv, ClosePool, RoundHolds, InRound
<1> QED BY <1>1, <1>2, <1>3, <1>4, <1>5 DEF IInv

LEMMA ExitKeeps ==
  ASSUME IInv, NEW r \in Replica, Exit(r)
  PROVE  IInv'
<1>1. TypeOK'
  BY LifecycleAssumption DEF IInv, TypeOK, Exit
<1>2. RoundHolds'
  BY DEF IInv, TypeOK, Exit, RoundHolds, LockOnlyInRound, InRound, Alive
<1>3. LockOnlyInRound'
  BY LifecycleAssumption DEF IInv, TypeOK, Exit, LockOnlyInRound, RoundHolds, InRound, Alive
<1>4. Waited'
  BY DEF IInv, TypeOK, Exit, Waited
<1>5. ClosedByMain'
  BY DEF IInv, TypeOK, Exit, ClosedByMain
<1> QED BY <1>1, <1>2, <1>3, <1>4, <1>5 DEF IInv

LEMMA StutterKeeps == IInv /\ UNCHANGED vars => IInv'
BY DEF IInv, TypeOK, RoundHolds, LockOnlyInRound, Waited, ClosedByMain, InRound, Alive

LEMMA NextKeeps == IInv /\ [Next]_vars => IInv'
<1> SUFFICES ASSUME IInv, [Next]_vars PROVE IInv'
  OBVIOUS
<1>1. CASE UNCHANGED vars
  BY <1>1, StutterKeeps
<1>2. ASSUME NEW r \in Replica, NEW t \in Task,
             \/ StartRound(r, t) \/ EndRound(r, t) \/ Unlock(r, t)
             \/ StopTask(r, t) \/ LoseSession(r, t)
      PROVE  IInv'
  BY <1>2, StartRoundKeeps, EndRoundKeeps, UnlockKeeps, StopTaskKeeps, LoseSessionKeeps
<1>3. ASSUME NEW r \in Replica,
             \/ StartDrain(r) \/ EndDrain(r) \/ StopWorker(r)
             \/ StartRequest(r) \/ EndRequest(r) \/ Signal(r) \/ Expire(r)
      PROVE  IInv'
  BY <1>3, StartDrainKeeps, EndDrainKeeps, StopWorkerKeeps, StartRequestKeeps,
     EndRequestKeeps,
     SignalKeeps, ExpireKeeps
<1>4. ASSUME NEW r \in Replica, Main(r)
      PROVE  IInv'
  BY <1>4, StopSchedulerKeeps, WaitWorkerKeeps, ShutdownKeeps, ClosePoolKeeps,
     ExitKeeps DEF Main
<1> QED BY <1>1, <1>2, <1>3, <1>4 DEF Next

-----------------------------------------------------------------------------

(* The inductive invariant holds in every reachable state, whatever deadlines *)
(* pass and sessions are lost.                                                *)
THEOREM InvariantHolds == Spec => []IInv
BY InitHolds, NextKeeps, PTL DEF Spec

(* The state of main, the goroutines, the locks and the pool keeps its type. *)
THEOREM TypeCorrect == Spec => []TypeOK
<1>1. IInv => TypeOK
  BY DEF IInv
<1> QED BY <1>1, InvariantHolds, PTL

(* Among any number of replicas one at most is in a round of a task, unless a *)
(* session that held the task's advisory lock was lost (WithAdvisoryLock).    *)
THEOREM RoundsExclude == Spec => []OneRound
<1>1. IInv => OneRound
  BY LifecycleAssumption DEF IInv, TypeOK, RoundHolds, OneRound
<1> QED BY <1>1, InvariantHolds, PTL

(* No advisory lock outlives the round it was taken for. *)
THEOREM LocksEnd == Spec => []LockOnlyInRound
<1>1. IInv => LockOnlyInRound
  BY DEF IInv
<1> QED BY <1>1, InvariantHolds, PTL

(* shutdown never closes the pool under a scheduled task or the worker. *)
THEOREM PoolIsLast == Spec => []PoolOutlivesTasks
<1>1. IInv => PoolOutlivesTasks
  BY DEF IInv, Waited, ClosedByMain, PoolOutlivesTasks
<1> QED BY <1>1, InvariantHolds, PTL

=============================================================================
