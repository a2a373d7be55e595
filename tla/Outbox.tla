------------------------------- MODULE Outbox -------------------------------
(***************************************************************************)
(* The notification outbox: the rows of table notification_outbox and the  *)
(* drains that deliver them (internal/db/notification.go,                  *)
(* internal/db/notification_ops.go, internal/notification/worker.go).      *)
(*                                                                         *)
(* Every pod runs two drains: the worker's own loop ("run"), woken through *)
(* a channel of capacity one, and the scheduler's notify_sweep round       *)
(* ("sweep"), taken under an advisory lock.  A drain recovers stale rows,  *)
(* then claims one row at a time, sends it outside any transaction, and    *)
(* records the outcome in a second transaction that names the row by its   *)
(* id only: nothing re-checks locked_by or locked_at, so the lease is the  *)
(* only thing that keeps two drains apart.                                 *)
(*                                                                         *)
(* Time is kept as ages and delays relative to the present: "age" of a row *)
(* is now - locked_at while it is processing and now - updated_at once it  *)
(* is sent (the code writes the two with the same value), "wait" is        *)
(* next_attempt_at - now, zero when it is NULL or past.                    *)
(***************************************************************************)
EXTENDS Integers, FiniteSets

CONSTANTS
  Pod,            \* replicas of the service
  MaxId,          \* bound: outbox rows ever inserted (serial ids 1..MaxId)
  MaxAttempts,    \* SD_NOTIFICATIONS_MAX_ATTEMPTS
  BackoffDelay,   \* Worker.backoff: attempts -> possible delays before a retry
  Lease,          \* SD_NOTIFICATIONS_LEASE_TIMEOUT
  ClaimDelay,     \* timing assumption: claim's timestamp to the start of the send
  SmtpTimeout,    \* SD_SMTP_TIMEOUT, the deadline of sendGuarded
  UpdateTimeout,  \* worker.go updateTimeout, the deadline of a status write
  MaxSkew,        \* timing assumption: clock difference between two pods
  RetentionAge,   \* worker.go retentionAge
  RetentionBatch, \* worker.go retentionBatch
  MaxFaults,      \* bound: crashes, stops, database errors and lost sessions
  MaxRedrives     \* bound: redrive requests of an administrator

Id == 1..MaxId
Drainer == Pod \X {"run", "sweep"}
Status == {"none", "pending", "processing", "sent", "failed", "deleted"}
Marking == {"markSent", "markFailed", "markRetry", "markTerminal"}
Holding == {"check", "send"} \cup Marking
Control == {"idle", "recover", "recoverTx", "claim", "claimTx", "drained"} \cup Holding

ASSUME BoundsAssumption ==
  /\ MaxId \in Nat /\ MaxAttempts \in Nat \ {0}
  /\ RetentionAge \in Nat /\ RetentionBatch \in Nat \ {0}
  /\ MaxFaults \in Nat /\ MaxRedrives \in Nat

ASSUME BackoffAssumption ==
  \A n \in 0..MaxAttempts : BackoffDelay[n] \subseteq Nat /\ BackoffDelay[n] # {}

\* conf.go checks Lease > SmtpTimeout only; the time for the status write, for
\* starting the send and for clock differences is assumed to fit as well (the
\* defaults are 60s against 30s + 5s).
ASSUME LeaseAssumption ==
  /\ {Lease, ClaimDelay, SmtpTimeout, UpdateTimeout, MaxSkew} \subseteq Nat
  /\ Lease >= ClaimDelay + SmtpTimeout + UpdateTimeout + MaxSkew

VARIABLES
  status, attempts, wait, age,       \* the row's columns
  pc, sel, held, timer, seen,        \* a drain: control, rows its open
                                     \* transaction locks, row being sent, time
                                     \* in this phase, attempts read by MarkFailed
  up, signal, owed, sweeping,        \* a pod: life cycle, wake-up channel, Notify
                                     \* calls due, holders of advisory lock 9002
  accepted, excused,                 \* the relay: mails accepted per row, rows
                                     \* whose acceptance the outbox never learnt
  faults, redrives

rowVars   == <<status, attempts, wait, age>>
drainVars == <<pc, sel, held, timer, seen>>
podVars   == <<up, signal, owed, sweeping>>
mailVars  == <<accepted, excused>>
budget    == <<faults, redrives>>
vars == <<rowVars, drainVars, podVars, mailVars, budget>>

TypeOK ==
  /\ status \in [Id -> Status]
  /\ attempts \in [Id -> Nat]
  /\ wait \in [Id -> Nat]
  /\ age \in [Id -> Nat]
  /\ pc \in [Drainer -> Control]
  /\ sel \in [Drainer -> SUBSET Id]
  /\ held \in [Drainer -> Id \cup {0}]
  /\ timer \in [Drainer -> Nat]
  /\ seen \in [Drainer -> Nat]
  /\ up \in [Pod -> {"up", "stopping", "down"}]
  /\ signal \in [Pod -> BOOLEAN]
  /\ owed \in [Pod -> BOOLEAN]
  /\ sweeping \subseteq Pod
  /\ accepted \in [Id -> 0..2]
  /\ excused \subseteq Id
  /\ faults \in 0..MaxFaults /\ redrives \in 0..MaxRedrives

Init ==
  /\ status = [r \in Id |-> "none"]
  /\ attempts = [r \in Id |-> 0]
  /\ wait = [r \in Id |-> 0]
  /\ age = [r \in Id |-> 0]
  /\ pc = [d \in Drainer |-> IF d[2] = "run" THEN "recover" ELSE "idle"]
  /\ sel = [d \in Drainer |-> {}]
  /\ held = [d \in Drainer |-> 0]
  /\ timer = [d \in Drainer |-> 0]
  /\ seen = [d \in Drainer |-> 0]
  /\ up = [p \in Pod |-> "up"]
  /\ signal = [p \in Pod |-> FALSE]
  /\ owed = [p \in Pod |-> FALSE]
  /\ sweeping = {}
  /\ accepted = [r \in Id |-> 0]
  /\ excused = {}
  /\ faults = 0 /\ redrives = 0

-----------------------------------------------------------------------------
(* Helpers *)

Exists(r) == status[r] \notin {"none", "deleted"}

\* A row another open transaction holds FOR UPDATE.
Locked(r) == \E d \in Drainer : r \in sel[d]

\* Faulty variant: the comparison of the lease is off by one.
StaleTooEarly(r, skew) == status[r] = "processing" /\ age[r] + skew >= Lease

\* WHERE status = 'processing' AND locked_at < now - lease, on a clock that is
\* off by skew.
Stale(r, skew) == status[r] = "processing" /\ age[r] + skew > Lease

\* WHERE status = 'pending' AND (next_attempt_at IS NULL OR next_attempt_at <= now)
Due(r) == status[r] = "pending" /\ wait[r] = 0

\* ORDER BY id ASC LIMIT n
FirstRows(S, n) == {r \in S : Cardinality({q \in S : q < r}) < n}

Phase(d, next) ==
  /\ pc' = [pc EXCEPT ![d] = next]
  /\ timer' = [timer EXCEPT ![d] = 0]

\* Faulty variant: the advisory lock is left to the pooled connection.
ReturnLocked(d) ==
  /\ pc' = [pc EXCEPT ![d] = "idle"]
  /\ sel' = [sel EXCEPT ![d] = {}]
  /\ UNCHANGED sweeping

\* The drain returns; a sweep round then releases its advisory lock.
Return(d) ==
  /\ pc' = [pc EXCEPT ![d] = "idle"]
  /\ sel' = [sel EXCEPT ![d] = {}]
  /\ sweeping' = IF d[2] = "sweep" THEN sweeping \ {d[1]} ELSE sweeping

\* deliver is over: the row is let go and the drain looks for the next one.
NextRow(d) ==
  /\ Phase(d, "claim")
  /\ held' = [held EXCEPT ![d] = 0]
  /\ seen' = [seen EXCEPT ![d] = 0]

Fault == faults < MaxFaults /\ faults' = faults + 1

-----------------------------------------------------------------------------
(* Producers and administrators *)

\* A committed business transaction leaves one new row; the handler still owes
\* the worker a Notify call, made after the commit.
Enqueue(p) ==
  /\ up[p] # "down"
  /\ \E r \in Id :
       /\ status[r] = "none" /\ \A q \in Id : q < r => status[q] # "none"
       /\ status' = [status EXCEPT ![r] = "pending"]
  /\ owed' = [owed EXCEPT ![p] = TRUE]
  /\ UNCHANGED <<attempts, wait, age, drainVars, up, signal, sweeping, mailVars, budget>>

\* Faulty variant: without a buffer the signal reaches only a waiting worker.
NotifyUnbuffered(p) ==
  /\ owed[p]
  /\ owed' = [owed EXCEPT ![p] = FALSE]
  /\ signal' = [signal EXCEPT ![p] = @ \/ pc[<<p, "run">>] = "idle"]
  /\ UNCHANGED <<rowVars, drainVars, up, sweeping, mailVars, budget>>

\* Worker.Notify: a send that never blocks on a channel of capacity one.
Notify(p) ==
  /\ owed[p]
  /\ owed' = [owed EXCEPT ![p] = FALSE]
  /\ signal' = [signal EXCEPT ![p] = TRUE]
  /\ UNCHANGED <<rowVars, drainVars, up, sweeping, mailVars, budget>>

\* Faulty variant: the ids of the request are not restricted to failed rows.
RedriveAny(p, S) ==
  /\ up[p] # "down" /\ redrives < MaxRedrives
  /\ S # {} /\ \A r \in S : Exists(r)
  /\ status' = [r \in Id |-> IF r \in S THEN "pending" ELSE status[r]]
  /\ attempts' = [r \in Id |-> IF r \in S THEN 0 ELSE attempts[r]]
  /\ wait' = [r \in Id |-> IF r \in S THEN 0 ELSE wait[r]]
  /\ owed' = [owed EXCEPT ![p] = TRUE]
  /\ redrives' = redrives + 1
  /\ UNCHANGED <<age, drainVars, up, signal, sweeping, mailVars, faults>>

\* POST /v2/notifications/redrive with some ids, or with none for all of them.
RedriveFailed(p, S) ==
  /\ up[p] # "down" /\ redrives < MaxRedrives
  /\ S # {} /\ \A r \in S : status[r] = "failed"
  /\ status' = [r \in Id |-> IF r \in S THEN "pending" ELSE status[r]]
  /\ attempts' = [r \in Id |-> IF r \in S THEN 0 ELSE attempts[r]]
  /\ wait' = [r \in Id |-> IF r \in S THEN 0 ELSE wait[r]]
  /\ owed' = [owed EXCEPT ![p] = TRUE]
  /\ redrives' = redrives + 1
  /\ UNCHANGED <<age, drainVars, up, signal, sweeping, mailVars, faults>>

\* One batch of the retention task.
DeleteSentBefore ==
  LET old == {r \in Id : status[r] = "sent" /\ age[r] > RetentionAge}
      batch == FirstRows(old, RetentionBatch)
  IN /\ batch # {}
     /\ \A r \in batch : ~Locked(r)
     /\ status' = [r \in Id |-> IF r \in batch THEN "deleted" ELSE status[r]]
     /\ age' = [r \in Id |-> IF r \in batch THEN 0 ELSE age[r]]
     /\ UNCHANGED <<attempts, wait, drainVars, podVars, mailVars, budget>>

-----------------------------------------------------------------------------
(* A drain *)

\* Run takes the signal, then drains.
WakeWorker(p) ==
  /\ pc[<<p, "run">>] = "idle" /\ up[p] # "down" /\ signal[p]
  /\ signal' = [signal EXCEPT ![p] = FALSE]
  /\ pc' = [pc EXCEPT ![<<p, "run">>] = "recover"]
  /\ UNCHANGED <<rowVars, sel, held, timer, seen, up, owed, sweeping, mailVars, budget>>

\* The ticker of notify_sweep fires and pg_try_advisory_lock succeeds.
StartSweep(p) ==
  /\ pc[<<p, "sweep">>] = "idle" /\ up[p] = "up" /\ sweeping = {}
  /\ sweeping' = {p}
  /\ pc' = [pc EXCEPT ![<<p, "sweep">>] = "recover"]
  /\ UNCHANGED <<rowVars, sel, held, timer, seen, up, signal, owed, mailVars, budget>>

\* SELECT ... FOR UPDATE SKIP LOCKED of RecoverStaleProcessing.
RecoverSelect(d) ==
  /\ pc[d] = "recover" /\ up[d[1]] = "up"
  /\ \E skew \in -MaxSkew..MaxSkew :
       sel' = [sel EXCEPT ![d] = {r \in Id : Stale(r, skew) /\ ~Locked(r)}]
  /\ pc' = [pc EXCEPT ![d] = "recoverTx"]
  /\ UNCHANGED <<rowVars, held, timer, seen, podVars, mailVars, budget>>

\* Faulty variant: a stale row is retried without looking at its attempts.
RecoverAlways(d) ==
  /\ pc[d] = "recoverTx"
  /\ status' = [r \in Id |-> IF r \in sel[d] THEN "pending" ELSE status[r]]
  /\ wait' = [r \in Id |-> IF r \in sel[d] THEN 0 ELSE wait[r]]
  /\ age' = [r \in Id |-> IF r \in sel[d] THEN 0 ELSE age[r]]
  /\ sel' = [sel EXCEPT ![d] = {}]
  /\ pc' = [pc EXCEPT ![d] = "claim"]
  /\ UNCHANGED <<attempts, held, timer, seen, podVars, mailVars, budget>>

\* Its UPDATEs and the commit.
RecoverStaleProcessing(d) ==
  /\ pc[d] = "recoverTx"
  /\ status' = [r \in Id |-> IF r \notin sel[d] THEN status[r]
                             ELSE IF attempts[r] >= MaxAttempts THEN "failed" ELSE "pending"]
  /\ wait' = [r \in Id |-> IF r \in sel[d] THEN 0 ELSE wait[r]]
  /\ age' = [r \in Id |-> IF r \in sel[d] THEN 0 ELSE age[r]]
  /\ sel' = [sel EXCEPT ![d] = {}]
  /\ pc' = [pc EXCEPT ![d] = "claim"]
  /\ UNCHANGED <<attempts, held, timer, seen, podVars, mailVars, budget>>

\* Faulty variant: a plain SELECT, without FOR UPDATE SKIP LOCKED.
ClaimUnlocked(d) ==
  LET free == {r \in Id : Due(r)}
  IN /\ pc[d] = "claim" /\ up[d[1]] = "up"
     /\ \/ free = {} /\ pc' = [pc EXCEPT ![d] = "drained"] /\ UNCHANGED sel
        \/ \E r \in free : /\ \A q \in free : r <= q
                           /\ sel' = [sel EXCEPT ![d] = {r}]
                           /\ pc' = [pc EXCEPT ![d] = "claimTx"]
     /\ UNCHANGED <<rowVars, held, timer, seen, podVars, mailVars, budget>>

\* SELECT ... ORDER BY id LIMIT 1 FOR UPDATE SKIP LOCKED of ClaimPending; the
\* drain is over when no row is due.
ClaimSelect(d) ==
  LET free == {r \in Id : Due(r) /\ ~Locked(r)}
  IN /\ pc[d] = "claim" /\ up[d[1]] = "up"
     /\ \/ /\ free = {}
           /\ pc' = [pc EXCEPT ![d] = "drained"]
           /\ UNCHANGED sel
        \/ \E r \in free :
             /\ \A q \in free : r <= q
             /\ sel' = [sel EXCEPT ![d] = {r}]
             /\ pc' = [pc EXCEPT ![d] = "claimTx"]
     /\ UNCHANGED <<rowVars, held, timer, seen, podVars, mailVars, budget>>

\* Drain is back in Run or in WithAdvisoryLock; only now can Run take a signal.
Drained(d) ==
  /\ pc[d] = "drained"
  /\ Return(d)
  /\ UNCHANGED <<rowVars, held, timer, seen, up, signal, owed, mailVars, budget>>

\* Its UPDATE and the commit.
ClaimPending(d) ==
  /\ pc[d] = "claimTx"
  /\ \E r \in sel[d] :
       /\ status' = [status EXCEPT ![r] = "processing"]
       /\ attempts' = [attempts EXCEPT ![r] = @ + 1]
       /\ age' = [age EXCEPT ![r] = 0]
       /\ held' = [held EXCEPT ![d] = r]
  /\ sel' = [sel EXCEPT ![d] = {}]
  /\ Phase(d, "check")
  /\ UNCHANGED <<wait, seen, podVars, mailVars, budget>>

\* deliver starts the send, unless the pod is being stopped: then Drain returns
\* and the row stays processing until its lease runs out.
Deliver(d) ==
  /\ pc[d] = "check"
  /\ \/ /\ up[d[1]] = "up"
        /\ Phase(d, "send")
        /\ UNCHANGED <<sel, held, sweeping>>
     \/ /\ up[d[1]] = "stopping"
        /\ Return(d)
        /\ held' = [held EXCEPT ![d] = 0]
        /\ timer' = [timer EXCEPT ![d] = 0]
  /\ UNCHANGED <<rowVars, seen, up, signal, owed, mailVars, budget>>

\* sendGuarded: the relay accepts the mail or does not, and the worker hears of
\* a success, of a 5xx rejection, or of anything else (timeout, cancelled
\* context, 4xx, render error, panic), which is retried.
SendGuarded(d) ==
  LET r == held[d]
      accept == accepted' = [accepted EXCEPT ![r] = IF @ = 2 THEN 2 ELSE @ + 1]
  IN /\ pc[d] = "send"
     /\ \/ Phase(d, "markSent") /\ accept /\ UNCHANGED excused
        \/ Phase(d, "markFailed") /\ accept /\ excused' = excused \cup {r}
        \/ Phase(d, "markFailed") /\ UNCHANGED mailVars
        \/ Phase(d, "markTerminal") /\ UNCHANGED mailVars
     /\ UNCHANGED <<rowVars, sel, held, seen, podVars, budget>>

\* UPDATE ... WHERE id = r: waits for a row lock, does nothing on a deleted row.
Write(r, s, w) ==
  /\ ~Locked(r)
  /\ IF Exists(r)
     THEN /\ status' = [status EXCEPT ![r] = s]
          /\ wait' = [wait EXCEPT ![r] = w]
          /\ age' = [age EXCEPT ![r] = 0]
     ELSE UNCHANGED <<status, wait, age>>

MarkSent(d) ==
  /\ pc[d] = "markSent"
  /\ Write(held[d], "sent", wait[held[d]])
  /\ NextRow(d)
  /\ UNCHANGED <<attempts, sel, podVars, mailVars, budget>>

\* MarkFailed reads the row without locking it ...
MarkFailedRead(d) ==
  /\ pc[d] = "markFailed"
  /\ \/ /\ Exists(held[d])
        /\ pc' = [pc EXCEPT ![d] = "markRetry"]
        /\ seen' = [seen EXCEPT ![d] = attempts[held[d]]]
        /\ UNCHANGED <<held, timer>>
     \/ /\ ~Exists(held[d])
        /\ NextRow(d)
  /\ UNCHANGED <<rowVars, sel, podVars, mailVars, budget>>

\* ... and then decides from what it read.
MarkFailed(d) ==
  /\ pc[d] = "markRetry"
  /\ \/ /\ seen[d] >= MaxAttempts
        /\ Write(held[d], "failed", 0)
     \/ /\ seen[d] < MaxAttempts
        /\ \E delay \in BackoffDelay[seen[d]] : Write(held[d], "pending", delay)
  /\ NextRow(d)
  /\ UNCHANGED <<attempts, sel, podVars, mailVars, budget>>

MarkFailedTerminal(d) ==
  /\ pc[d] = "markTerminal"
  /\ Write(held[d], "failed", 0)
  /\ NextRow(d)
  /\ UNCHANGED <<attempts, sel, podVars, mailVars, budget>>

-----------------------------------------------------------------------------
(* Failures *)

\* A mark fails (database error, updateTimeout): it is logged and the row stays
\* processing.
MarkError(d) ==
  /\ pc[d] \in Marking /\ Fault
  /\ excused' = IF pc[d] = "markSent" THEN excused \cup {held[d]} ELSE excused
  /\ NextRow(d)
  /\ UNCHANGED <<rowVars, sel, podVars, accepted, redrives>>

\* A recovery or claim transaction fails, or its context is cancelled by a stop:
\* it is rolled back and Drain returns.
DrainError(d) ==
  /\ pc[d] \in {"recover", "recoverTx", "claim", "claimTx"}
  /\ \/ up[d[1]] = "up" /\ Fault
     \/ up[d[1]] = "stopping" /\ UNCHANGED faults
  /\ Return(d)
  /\ UNCHANGED <<rowVars, held, timer, seen, up, signal, owed, mailVars, redrives>>

\* The session that holds the advisory lock dies; the sweep goes on.
LoseSweepLock(p) ==
  /\ p \in sweeping /\ Fault
  /\ sweeping' = sweeping \ {p}
  /\ UNCHANGED <<rowVars, drainVars, up, signal, owed, mailVars, redrives>>

\* SIGTERM: the context of both drains is cancelled.
Stop(p) ==
  /\ up[p] = "up" /\ Fault
  /\ up' = [up EXCEPT ![p] = "stopping"]
  /\ UNCHANGED <<rowVars, drainVars, signal, owed, sweeping, mailVars, redrives>>

\* The process ends, in order (its drains have returned) or by a crash: open
\* transactions roll back, and signals and owed Notify calls are gone.
Exit(p) ==
  LET mine == {<<p, "run">>, <<p, "sweep">>}
      unsaid == {r \in Id : \E d \in mine : pc[d] = "markSent" /\ held[d] = r}
  IN /\ up[p] # "down"
     /\ \/ /\ up[p] = "stopping" /\ \A d \in mine : pc[d] = "idle"
           /\ UNCHANGED faults
        \/ Fault
     /\ up' = [up EXCEPT ![p] = "down"]
     /\ signal' = [signal EXCEPT ![p] = FALSE]
     /\ owed' = [owed EXCEPT ![p] = FALSE]
     /\ sweeping' = sweeping \ {p}
     /\ pc' = [d \in Drainer |-> IF d \in mine THEN "idle" ELSE pc[d]]
     /\ sel' = [d \in Drainer |-> IF d \in mine THEN {} ELSE sel[d]]
     /\ held' = [d \in Drainer |-> IF d \in mine THEN 0 ELSE held[d]]
     /\ timer' = [d \in Drainer |-> IF d \in mine THEN 0 ELSE timer[d]]
     /\ seen' = [d \in Drainer |-> IF d \in mine THEN 0 ELSE seen[d]]
     /\ excused' = excused \cup unsaid
     /\ UNCHANGED <<rowVars, accepted, redrives>>

\* A new process: Run starts with a drain of its own.
Restart(p) ==
  /\ up[p] = "down"
  /\ up' = [up EXCEPT ![p] = "up"]
  /\ pc' = [pc EXCEPT ![<<p, "run">>] = "recover"]
  /\ UNCHANGED <<rowVars, sel, held, timer, seen, signal, owed, sweeping, mailVars, budget>>

-----------------------------------------------------------------------------
(* Time *)

\* Faulty variant: sendGuarded without the SMTP deadline.
LimitNoDeadline(c) == CASE c = "check" -> ClaimDelay
                        [] c = "send" -> Lease + MaxSkew + 1
                        [] OTHER -> UpdateTimeout

\* How long a drain may stay in the phase it is in.
Limit(c) == CASE c = "check" -> ClaimDelay
              [] c = "send" -> SmtpTimeout
              [] OTHER -> UpdateTimeout

\* Ages are only told apart up to the point where the lease, or the retention
\* period, has run out on every clock.
Horizon(s) == IF s = "sent" THEN RetentionAge + 1 ELSE Lease + MaxSkew + 1

Tick ==
  /\ \A d \in Drainer : pc[d] \in Holding => timer[d] < Limit(pc[d])
  /\ timer' = [d \in Drainer |-> IF pc[d] \in Holding THEN timer[d] + 1 ELSE timer[d]]
  /\ wait' = [r \in Id |-> IF wait[r] > 0 THEN wait[r] - 1 ELSE 0]
  /\ age' = [r \in Id |-> IF status[r] \in {"processing", "sent"} /\ age[r] < Horizon(status[r])
                          THEN age[r] + 1 ELSE age[r]]
  /\ UNCHANGED <<status, attempts, pc, sel, held, seen, podVars, mailVars, budget>>

-----------------------------------------------------------------------------

Step(d) ==
  \/ RecoverSelect(d) \/ RecoverStaleProcessing(d)
  \/ ClaimSelect(d) \/ Drained(d) \/ ClaimPending(d) \/ Deliver(d) \/ SendGuarded(d)
  \/ MarkSent(d) \/ MarkFailedRead(d) \/ MarkFailed(d) \/ MarkFailedTerminal(d)

Next ==
  \/ \E d \in Drainer : Step(d) \/ MarkError(d) \/ DrainError(d)
  \/ \E p \in Pod : \/ Enqueue(p) \/ Notify(p) \/ WakeWorker(p) \/ StartSweep(p)
                    \/ LoseSweepLock(p) \/ Stop(p) \/ Exit(p) \/ Restart(p)
                    \/ \E S \in SUBSET Id : RedriveFailed(p, S)
  \/ DeleteSentBefore
  \/ Tick

Spec == Init /\ [][Next]_vars

\* The Go scheduler runs every runnable goroutine, clocks advance, the
\* notify_sweep ticker keeps firing on some pod, and Kubernetes restarts a pod
\* that went down.
Fairness ==
  /\ \A d \in Drainer : WF_vars(Step(d) \/ (up[d[1]] = "stopping" /\ DrainError(d)))
  /\ \A p \in Pod : /\ WF_vars(Notify(p)) /\ WF_vars(WakeWorker(p))
                    /\ WF_vars(Restart(p) \/ (up[p] = "stopping" /\ Exit(p)))
  /\ WF_vars(\E p \in Pod : StartSweep(p))
  /\ WF_vars(Tick)

FairSpec == Spec /\ Fairness

-----------------------------------------------------------------------------
(* Properties *)

Holds(d) == pc[d] \in Holding

\* No two drains work on the same row at the same time, whatever pods they run
\* on: SKIP LOCKED keeps two claims apart, the lease keeps the stale-recovery
\* path away from a row that is still being sent (worker.go claimBatchSize).
ExclusiveLease ==
  \A d, e \in Drainer : Holds(d) /\ Holds(e) /\ held[d] = held[e] => d = e

\* A row that was marked sent never goes back to the queue and never becomes
\* failed: the unguarded UPDATEs by id of MarkFailed, MarkFailedTerminal and of
\* the recovery path never hit a row somebody else has delivered.
SentIsFinal == [][\A r \in Id : status[r] = "sent" => status'[r] \in {"sent", "deleted"}]_vars

\* The relay gets a second copy of a mail only for a row whose first acceptance
\* the outbox could not learn of: the answer was lost, the status write failed or
\* the process ended in between.  Recovery, retries, redrives and concurrent
\* drains alone never send a mail twice.
NoUnexplainedDuplicate == \A r \in Id : accepted[r] > 1 => r \in excused

\* The attempts budget: no row is attempted more than MaxAttempts times between
\* two redrives, and a pending row always has an attempt left, although the
\* counter is incremented by one transaction and judged by others (MarkFailed,
\* RecoverStaleProcessing).
AttemptsBounded ==
  \A r \in Id : /\ attempts[r] <= MaxAttempts
                /\ status[r] = "pending" => attempts[r] < MaxAttempts

\* Wake-ups are not lost: as long as nothing failed, a row that was never
\* attempted is covered by a Notify call still owed, a signal in a channel, or a
\* drain that has yet to look for its last row.
WakeupCovered ==
  (faults = 0 /\ \E r \in Id : status[r] = "pending" /\ attempts[r] = 0)
    => \/ \E p \in Pod : owed[p] \/ signal[p]
       \/ \E d \in Drainer : pc[d] \notin {"idle", "drained"}

(* The inductive invariant behind the safety properties *)

\* Rows an open transaction has locked belong to it alone, and are still in the
\* state its SELECT found them in.
LockIdle == \A d \in Drainer : pc[d] \notin {"recoverTx", "claimTx"} => sel[d] = {}
LockUnique == \A d, e \in Drainer : \A r \in Id : r \in sel[d] /\ r \in sel[e] => d = e
LockClaim ==
  \A d \in Drainer : pc[d] = "claimTx" =>
    \A r \in sel[d] : status[r] = "pending" /\ sel[d] = {r}
LockRecover ==
  \A d \in Drainer : pc[d] = "recoverTx" =>
    \A r \in sel[d] : status[r] = "processing" /\ age[r] + MaxSkew > Lease

\* Time a drain may already have used when it enters a phase.
Spent(c) == CASE c = "check" -> 0
              [] c = "send" -> ClaimDelay
              [] OTHER -> ClaimDelay + SmtpTimeout

\* A row being sent is processing, its lease has not run out on any clock, and
\* what the drain remembers of it is still so.
HoldRow ==
  \A d \in Drainer : Holds(d) => held[d] \in Id /\ status[held[d]] = "processing"
HoldTime ==
  \A d \in Drainer : Holds(d) => /\ timer[d] <= Limit(pc[d])
                                 /\ age[held[d]] <= Spent(pc[d]) + timer[d]
HoldFacts ==
  \A d \in Drainer : /\ pc[d] = "markRetry" => seen[d] = attempts[held[d]]
                     /\ pc[d] = "markSent" => accepted[held[d]] > 0

\* A process that is down runs no drain.
DownInv == \A d \in Drainer : up[d[1]] = "down" => pc[d] = "idle"

\* A row that does not exist yet has used no attempt.
FreshInv == \A r \in Id : status[r] = "none" => attempts[r] = 0

\* An acceptance is recorded, about to be recorded, or excused.
AcceptInv ==
  \A r \in Id : accepted[r] > 0 /\ r \notin excused =>
    \/ status[r] \in {"sent", "deleted"}
    \/ \E d \in Drainer : pc[d] = "markSent" /\ held[d] = r

IInv == /\ TypeOK
        /\ LockIdle /\ LockUnique /\ LockClaim /\ LockRecover
        /\ HoldRow /\ HoldTime /\ HoldFacts
        /\ DownInv /\ FreshInv /\ AcceptInv
        /\ ExclusiveLease /\ AttemptsBounded /\ NoUnexplainedDuplicate

\* and, on top of it, behind WakeupCovered: pods go down by faults only, and a row
\* never attempted is due at once.
WakeInv ==
  /\ WakeupCovered
  /\ faults = 0 => \A p \in Pod : up[p] = "up"
  /\ \A r \in Id : /\ status[r] = "processing" => attempts[r] > 0
                   /\ status[r] \in {"none", "pending"} /\ attempts[r] = 0 => wait[r] = 0

\* Every queued row is eventually sent or given up, whatever pods crash or stop
\* on the way: retries are picked up by a sweep, orphaned rows by the recovery.
Settles ==
  \A r \in Id : status[r] \in {"pending", "processing"} ~> status[r] \in {"sent", "failed", "deleted"}

\* What the outbox promises, with pending and processing both seen as queued.
Promise == INSTANCE OutboxPromise
  WITH state <- [r \in Id |-> IF status[r] \in {"pending", "processing"}
                              THEN "queued" ELSE status[r]],
       mails <- accepted

\* The drains implement the promise: a row leaves the queue only as sent, after
\* the relay has accepted its mail, or as failed; it comes back only by a redrive
\* and disappears only after it was sent; no mail leaves for a row not queued.
ImplementsPromise == Promise!Spec

=============================================================================
