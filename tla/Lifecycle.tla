----------------------------- MODULE Lifecycle -----------------------------
(***************************************************************************)
(* The replicas' periodic work and their shutdown: the scheduler and the   *)
(* advisory locks that keep a task on one replica (internal/scheduler,     *)
(* internal/db/lock.go), and the order in which main stops the scheduler,  *)
(* the notification worker and the HTTP server and closes the database     *)
(* pool (cmd/main.go, internal/app/app.go).                                *)
(*                                                                         *)
(* A deadline may pass at any moment of the wait it bounds.  The deadline  *)
(* of the HTTP shutdown starts before the two other waits.                 *)
(***************************************************************************)
EXTENDS Naturals, FiniteSets

CONSTANTS
  Replica, Task,
  None,          \* not a replica
  MaxRequests,   \* bound: requests in flight on a replica
  MaxLost        \* bound: database sessions lost while they hold a lock

ASSUME LifecycleAssumption == None \notin Replica /\ MaxRequests \in Nat /\ MaxLost \in Nat

VARIABLES
  main,      \* where main() stands
  task,      \* the scheduler's goroutines
  worker,    \* the notification worker
  requests,  \* HTTP requests in flight
  pool,      \* the database pool is open
  expired,   \* shutdownCtx has passed its deadline
  failed,    \* schedErr or workerErr is set
  lock,      \* the replica whose session holds the task's advisory lock
  lost       \* sessions lost per task

vars == <<main, task, worker, requests, pool, expired, failed, lock, lost>>

TypeOK ==
  /\ main \in [Replica -> {"running", "stopScheduler", "waitWorker", "shutdown", "close",
                           "return", "exited"}]
  /\ task \in [Replica -> [Task -> {"wait", "round", "unlock", "done"}]]
  /\ worker \in [Replica -> {"idle", "drain", "done"}]
  /\ requests \in [Replica -> 0..MaxRequests]
  /\ pool \in [Replica -> BOOLEAN]
  /\ expired \in [Replica -> BOOLEAN] /\ failed \in [Replica -> BOOLEAN]
  /\ lock \in [Task -> Replica \cup {None}]
  /\ lost \in [Task -> 0..MaxLost]

\* Run and startWorker have started the goroutines; the worker drains at once.
Init ==
  /\ main = [r \in Replica |-> "running"]
  /\ task = [r \in Replica |-> [t \in Task |-> "wait"]]
  /\ worker = [r \in Replica |-> "drain"]
  /\ requests = [r \in Replica |-> 0]
  /\ pool = [r \in Replica |-> TRUE]
  /\ expired = [r \in Replica |-> FALSE] /\ failed = [r \in Replica |-> FALSE]
  /\ lock = [t \in Task |-> None]
  /\ lost = [t \in Task |-> 0]

\* The signal context, from which the scheduler and the worker derive theirs.
Cancelled(r) == main[r] # "running"
Alive(r) == main[r] # "exited"

-----------------------------------------------------------------------------
(* Scheduled tasks, worker and requests *)

\* Faulty variant: one round at a time is left to each replica's own ticker.
StartRoundUnlocked(r, t) ==
  /\ task[r][t] = "wait" /\ ~Cancelled(r) /\ pool[r]
  /\ lock' = [lock EXCEPT ![t] = r]
  /\ task' = [task EXCEPT ![r][t] = "round"]
  /\ UNCHANGED <<main, worker, requests, pool, expired, failed, lost>>

\* runTask and WithAdvisoryLock: pg_try_advisory_lock.  A busy lock, a cancelled
\* context or a closed pool ends the round before it starts.
StartRound(r, t) ==
  /\ task[r][t] = "wait" /\ ~Cancelled(r) /\ pool[r] /\ lock[t] = None
  /\ lock' = [lock EXCEPT ![t] = r]
  /\ task' = [task EXCEPT ![r][t] = "round"]
  /\ UNCHANGED <<main, worker, requests, pool, expired, failed, lost>>

\* The task body returns: done, failed or cancelled.
EndRound(r, t) ==
  /\ task[r][t] = "round"
  /\ task' = [task EXCEPT ![r][t] = "unlock"]
  /\ UNCHANGED <<main, worker, requests, pool, expired, failed, lock, lost>>

\* Faulty variant: the lock is released on another connection of the pool, which
\* leaves it with the session that took it.
UnlockElsewhere(r, t) ==
  /\ task[r][t] = "unlock"
  /\ task' = [task EXCEPT ![r][t] = "wait"]
  /\ UNCHANGED <<main, worker, requests, pool, expired, failed, lock, lost>>

\* The deferred pg_advisory_unlock, on the connection that took the lock and
\* without the cancellation of ctx.
Unlock(r, t) ==
  /\ task[r][t] = "unlock"
  /\ task' = [task EXCEPT ![r][t] = "wait"]
  /\ lock' = [lock EXCEPT ![t] = IF @ = r THEN None ELSE @]
  /\ UNCHANGED <<main, worker, requests, pool, expired, failed, lost>>

StopTask(r, t) ==
  /\ task[r][t] = "wait" /\ Cancelled(r)
  /\ task' = [task EXCEPT ![r][t] = "done"]
  /\ UNCHANGED <<main, worker, requests, pool, expired, failed, lock, lost>>

\* PostgreSQL ends the session: the lock is free although the round goes on.
LoseSession(r, t) ==
  /\ task[r][t] \in {"round", "unlock"} /\ lock[t] = r /\ lost[t] < MaxLost
  /\ lock' = [lock EXCEPT ![t] = None]
  /\ lost' = [lost EXCEPT ![t] = @ + 1]
  /\ UNCHANGED <<main, task, worker, requests, pool, expired, failed>>

\* Worker.Run: a drain runs to its end before ctx is looked at, and select may
\* choose a pending signal over a cancelled context.
StartDrain(r) ==
  /\ worker[r] = "idle" /\ Alive(r)
  /\ worker' = [worker EXCEPT ![r] = "drain"]
  /\ UNCHANGED <<main, task, requests, pool, expired, failed, lock, lost>>

EndDrain(r) ==
  /\ worker[r] = "drain"
  /\ worker' = [worker EXCEPT ![r] = "idle"]
  /\ UNCHANGED <<main, task, requests, pool, expired, failed, lock, lost>>

StopWorker(r) ==
  /\ worker[r] = "idle" /\ Cancelled(r)
  /\ worker' = [worker EXCEPT ![r] = "done"]
  /\ UNCHANGED <<main, task, requests, pool, expired, failed, lock, lost>>

\* The listener is open until Shutdown is called.
StartRequest(r) ==
  /\ main[r] \in {"running", "stopScheduler", "waitWorker"} /\ requests[r] < MaxRequests
  /\ requests' = [requests EXCEPT ![r] = @ + 1]
  /\ UNCHANGED <<main, task, worker, pool, expired, failed, lock, lost>>

EndRequest(r) ==
  /\ requests[r] > 0
  /\ requests' = [requests EXCEPT ![r] = @ - 1]
  /\ UNCHANGED <<main, task, worker, pool, expired, failed, lock, lost>>

-----------------------------------------------------------------------------
(* main *)

Signal(r) ==
  /\ main[r] = "running"
  /\ main' = [main EXCEPT ![r] = "stopScheduler"]
  /\ UNCHANGED <<task, worker, requests, pool, expired, failed, lock, lost>>

\* shutdownTimeout, counted from the start of shutdown
Expire(r) ==
  /\ Cancelled(r) /\ Alive(r) /\ ~expired[r]
  /\ expired' = [expired EXCEPT ![r] = TRUE]
  /\ UNCHANGED <<main, task, worker, requests, pool, failed, lock, lost>>

\* stopScheduler: all goroutines have returned, or taskStopTimeout has passed.
StopScheduler(r) ==
  /\ main[r] = "stopScheduler"
  /\ \/ (\A t \in Task : task[r][t] = "done") /\ UNCHANGED failed
     \/ failed' = [failed EXCEPT ![r] = TRUE]
  /\ main' = [main EXCEPT ![r] = "waitWorker"]
  /\ UNCHANGED <<task, worker, requests, pool, expired, lock, lost>>

\* waitWorker, with a deadline of its own
WaitWorker(r) ==
  /\ main[r] = "waitWorker"
  /\ \/ worker[r] = "done" /\ UNCHANGED failed
     \/ failed' = [failed EXCEPT ![r] = TRUE]
  /\ main' = [main EXCEPT ![r] = "shutdown"]
  /\ UNCHANGED <<task, worker, requests, pool, expired, lock, lost>>

\* Faulty variant: the server is drained without a deadline.
ShutdownUnbounded(r) ==
  /\ main[r] = "shutdown" /\ requests[r] = 0
  /\ main' = [main EXCEPT ![r] = "close"]
  /\ UNCHANGED <<task, worker, requests, pool, expired, failed, lock, lost>>

\* App.Shutdown: the requests in flight have ended, or the deadline has passed,
\* which is logged and nothing more.
Shutdown(r) ==
  /\ main[r] = "shutdown" /\ (requests[r] = 0 \/ expired[r])
  /\ main' = [main EXCEPT ![r] = "close"]
  /\ UNCHANGED <<task, worker, requests, pool, expired, failed, lock, lost>>

\* Faulty variant: the errors of the two waits are ignored.
CloseAlways(r) ==
  /\ main[r] = "close"
  /\ pool' = [pool EXCEPT ![r] = FALSE]
  /\ main' = [main EXCEPT ![r] = "return"]
  /\ UNCHANGED <<task, worker, requests, expired, failed, lock, lost>>

ClosePool(r) ==
  /\ main[r] = "close"
  /\ pool' = [pool EXCEPT ![r] = failed[r]]
  /\ main' = [main EXCEPT ![r] = "return"]
  /\ UNCHANGED <<task, worker, requests, expired, failed, lock, lost>>

\* main returns: the process ends, and its sessions with it.
Exit(r) ==
  /\ main[r] = "return"
  /\ main' = [main EXCEPT ![r] = "exited"]
  /\ task' = [task EXCEPT ![r] = [t \in Task |-> "done"]]
  /\ worker' = [worker EXCEPT ![r] = "done"]
  /\ requests' = [requests EXCEPT ![r] = 0]
  /\ lock' = [t \in Task |-> IF lock[t] = r THEN None ELSE lock[t]]
  /\ UNCHANGED <<pool, expired, failed, lost>>

-----------------------------------------------------------------------------

Main(r) == StopScheduler(r) \/ WaitWorker(r) \/ Shutdown(r) \/ ClosePool(r) \/ Exit(r)

Next ==
  \E r \in Replica :
    \/ \E t \in Task : \/ StartRound(r, t) \/ EndRound(r, t) \/ Unlock(r, t)
                       \/ StopTask(r, t) \/ LoseSession(r, t)
    \/ StartDrain(r) \/ EndDrain(r) \/ StopWorker(r)
    \/ StartRequest(r) \/ EndRequest(r)
    \/ Signal(r) \/ Expire(r) \/ Main(r)

Spec == Init /\ [][Next]_vars

\* main runs and timers fire; task bodies, drains and requests may hang.
FairSpec == Spec /\ \A r \in Replica : WF_vars(Main(r)) /\ WF_vars(Expire(r))

-----------------------------------------------------------------------------
(* Properties *)

InRound(r, t) == task[r][t] \in {"round", "unlock"}

\* At most one replica is in a task's round, as long as no session that held its
\* lock was lost ("keeps a task single-replica", newScheduler).
OneRound ==
  \A t \in Task : lost[t] = 0 =>
    \A r, s \in Replica : InRound(r, t) /\ InRound(s, t) => r = s

\* No lock outlives the round it was taken for, through cancellation, timeouts and
\* the end of the process: nothing keeps the other replicas from the task.
LockOnlyInRound ==
  \A t \in Task, r \in Replica :
    lock[t] = r => Alive(r) /\ InRound(r, t)

\* The pool outlives the scheduled tasks and the worker whichever of the waits
\* timed out: a round holds a connection of its own and needs it for the unlock.
PoolOutlivesTasks ==
  \A r \in Replica : ~pool[r] =>
    worker[r] = "done" /\ \A t \in Task : task[r][t] = "done"

(* The inductive invariant behind the safety properties *)

\* A round whose session was never lost still holds its lock.
RoundHolds == \A t \in Task, r \in Replica : InRound(r, t) /\ lost[t] = 0 => lock[t] = r

\* What main may rely on once a wait has ended without an error.
Waited ==
  \A r \in Replica : ~failed[r] =>
    /\ main[r] \in {"waitWorker", "shutdown", "close", "return", "exited"}
         => \A t \in Task : task[r][t] = "done"
    /\ main[r] \in {"shutdown", "close", "return", "exited"} => worker[r] = "done"

\* The pool is closed by ClosePool alone, when neither wait has failed.
ClosedByMain == \A r \in Replica : ~pool[r] => main[r] \in {"return", "exited"} /\ ~failed[r]

IInv == TypeOK /\ RoundHolds /\ LockOnlyInRound /\ Waited /\ ClosedByMain

\* A replica told to stop does stop, although tasks, the worker and requests hang.
ShutdownEnds == \A r \in Replica : main[r] = "stopScheduler" ~> main[r] = "exited"

=============================================================================
