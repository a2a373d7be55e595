# StatusDashboard backend: a TLA+ verification project

The backend (`src/`, Go) serves the API of a status dashboard: components, incidents, maintenances
and info events in PostgreSQL, a background scheduler that moves maintenances through their
life cycle, and an outbox that mails the people concerned. Several replicas (pods) run against one
database. The project models what several actors do to shared state, checks it with TLC on small
instances, and proves the central safety properties for every value of the constants with TLAPS.

## 1. Inventory

| Part (code) | State | Operations | What makes it correct |
|---|---|---|---|
| Notification outbox (`db/notification.go`, `notification_ops.go`) | table `notification_outbox`: status, attempts, `next_attempt_at`, `locked_at`/`locked_by`, `dedup_key` | enqueue, claim, mark sent / failed / terminal, recover stale, redrive, retention | a row is worked on by one drain, attempted at most `MaxAttempts` times, sent without needless copies, and ends sent or failed |
| Notification worker (`notification/worker.go`, `smtp.go`) | wake-up channel of capacity 1, row being sent | `Run`, `Notify`, `Drain`, `deliver`, `sendGuarded` | no wake-up is lost; a send never outlives its lease |
| Publisher, resolver (`publisher.go`, `resolver.go`) | none of their own | recipients, dedup keys, rows inside the business transaction | rows appear exactly with the transition they announce |
| Maintenance events (`api/v2/v2.go`, `db/db.go`) | event row with `version`, status history | create, PATCH under role rules | no lost update; a creator stays inside review |
| Maintenance checker (`checker/maintenance.go`) | none; reads a batch, refetches, writes | computed status, backfill of missed statuses | converges, backfills once, leaves drafts alone |
| Incidents (`api/v2/v2.go`, `db/db.go`, `db/write.go`) | incident rows, component relation | regular and system creation, move, extract, raise, PATCH, reopen | covered components stay covered, one place per component, truthful answers |
| Scheduler and advisory locks (`scheduler/`, `db/lock.go`) | goroutine per task, session locks | round under `pg_try_advisory_lock`, stop | one round at a time, no orphaned lock |
| Process life cycle (`cmd/main.go`, `app/app.go`) | signal, three deadlines, pool | stop scheduler, wait for worker, drain HTTP, close pool | ends, and closes the pool under nobody |
| Info events, info checker (`checker/info.go`, `api/v2/v2.go`) | event row without a guarding version, status history | create, PATCH, computed status, backfill | the status converges; backfill is complete, ordered and single |
| Statements of a request (`db/db.go`, `write.go`, `mappers.go`, `tx.go`) | rows, row locks, open transactions | GET, PATCH, reopen, edit of an update, move, extraction, creation of a component | a reader is never shown a status its history does not explain; a position in the history keeps its meaning; nothing is left half written or locked |
| Event updates and visibility (`api/v2/v2.go`, `db/db.go`, `rss/`) | none | `toAPIEvent`, `mapEventUpdates`, list predicates, feeds | the copies of the visibility rule agree and hide drafts |
| Availability (`api/v2/v2.go`) | none | `calculateAvailability` | equals the hours an outage covers of a month |
| Components (`db/db.go`) | component and attribute rows | `SaveComponent` | whole or absent |
| Static proxy and cache (`static/`) | LRU entries with a byte budget, shared fetches, gin contexts | handle, join, fetch, store, fall back, give up | exact budget, no reader goes back in time, no reply under another key, nobody waits for nothing |
| Authentication, roles, routes (`auth/`, `rbac/`, `middleware.go`, `routes.go`) | none | role of a caller, chain of a route | every role stays in its scope |
| Configuration (`conf/conf.go`) | none | merge, defaults, validate | what is accepted can be run with |
| Generated client (`ent/`) | a mutation per builder | set, add, clear, reset, check, statement, predicates, eager loading | what is generated agrees with the declaration and with the tables |
| Migrations (`db/migrations`) | the schema | scripts up and down | one schema per version, the last one the client's |
| Rendering, metrics, logging, health probe, served API description | none | formatting, wiring | not modelled |

**How the parts interact.** API handlers and the checker change an event and enqueue its outbox rows
in one transaction (`WithTx`, `PublishTx`), then call `Notify`, which wakes the worker of the same
pod. The scheduler runs three periodic tasks (the scan of maintenances and info events, the outbox
sweep, retention) on every pod; an advisory lock per task keeps all but one of them out of a round. The sweep and the
worker drain the same table. `main` ties the goroutines together at shutdown.

**What is hard.** All writers read a copy outside any transaction and write later; only maintenances
have a version in the UPDATE. Outbox status writes name a row by id only. Mails leave between two
transactions. Advisory locks die with their session while the round goes on. Handlers are sequences
of transactions any of which may fail, and a read is several statements. Three shutdown deadlines
race. A fetch shared by callers outlives the request it reads. One rule is written in several places
(visibility in Go, in predicates and in SQL; a table in declarations, generated code and scripts). Each such place is listed
under `hazards` in `PROJECT.json` with the property that would notice it going wrong.

## 2. Modules

| Module | Models |
|---|---|
| `Outbox` | outbox table, worker, sweep, pods that stop, crash and restart |
| `OutboxPromise` | what the outbox promises of a row: queued, relayed, sent / failed / redriven / pruned |
| `OutboxProofs` | theorems about `Outbox` |
| `Maintenance` | one maintenance, users and checkers that write it, its outbox rows |
| `MaintenanceProofs` | theorems about `Maintenance` |
| `InfoEvents` | one info event, users and checkers that write it without a version |
| `InfoEventsProofs` | theorems about `InfoEvents` |
| `Incidents` | incident rows, components, the handlers that create, move, extract and patch |
| `IncidentsProofs` | theorems about `Incidents` |
| `Lifecycle` | scheduler rounds, advisory locks, worker, requests, `main`'s shutdown |
| `LifecycleProofs` | theorems about `Lifecycle` |
| `StaticCache`, `StaticProxy` | the LRU cache as operators; the handlers and shared fetches around it |
| `StaticProxyProofs` | theorems about both |
| `EntSchema` | the five entities of `ent/`: tables, mutations, checks, statements |
| `Ent` | mutations, builders, SQL's three truth values, query ends, eager loading |
| `EntDeclared` | the declarations in `ent/schema`, the remaining generated tables of methods, and the rule that ties them |
| `Migrations` | the scripts of `db/migrations` as steps on a schema |
| `EventViews` | what a caller is shown of an event; list predicates; feeds |
| `Store` | the requests as statements of concurrent database sessions |
| `StoreSteps`, `StoreProofs` | what the proofs say of a step of `Store`, as definitions; theorems about `Store` |
| `Availability`, `Access`, `Config` | the three rule sets, as operators |
| `Rules` | asks those modules, and the client, one question per behaviour |
| `RulesProofs` | theorems about the rules of `Access`, `Config`, `EventViews`, `Availability` and the loads of `Ent` |
| `MCOutbox`, `MCMaintenance`, `MCInfoEvents`, `MCIncidents`, `MCLifecycle`, `MCStaticProxy`, `MCStore`, `MCRules` | constants and symmetries of the TLC instances |

`EntSchema <- Ent <- EventViews <- Store` and `Ent <- Availability`, all with `Access`, `Config`, `Migrations`
and `EntDeclared` below `Rules` (arrows are EXTENDS); `StaticCache <- StaticProxy`.

`PROJECT.json` maps every definition to the lines it stands for. Definitions that start with
"Faulty variant" in their comment are not part of any specification: each is a plausible mistake in the
definition below it, used to confirm that the property named with it can fail.

### Outbox
A pod has two drains, the worker's (`run`) and the scheduler's (`sweep`, under advisory lock 9002).
`pc` follows `Drain`: `recover`, `recoverTx` (rows locked `FOR UPDATE SKIP LOCKED`, in `sel`),
`claim`, `claimTx`, `check` (claimed, send not started), `send`, then one of the marks. The two-step
`MarkFailed` keeps the attempts it read in `seen`. Time is relative: `age` of a row since `locked_at`
(or `updated_at` once sent), `wait` until `next_attempt_at`, `timer` of a drain in its phase; `Tick`
may not let a drain exceed the deadline of its context. `accepted` and `excused` are history: what
the relay accepted, and the rows whose acceptance the outbox could not learn of.
`Enqueue` here inserts one row; how rows come about is the subject of `Maintenance`.

### Maintenance
`ev` is the committed row with its history, `snap`/`want` the copy a writer read and the write it
prepared from it. `PatchIncident` is the handler up to its transaction; the version it will ask for is the
client's, any integer of `ClientVersions`, and nobody compares it with the copy (`v2.go:1147`, `:1173`). A
request is `Ahead` when that version is newer than the copy: the UPDATE (`db.go:408`) accepts it if another write has
committed in between. What then still holds, and what does not, is part of each property. `CheckMaintenance` and
`ProcessMaintenance` are the batch read and the refetch; then both share `ModifyIncident` (UPDATE with
the version; the row lock is held to the end), `RowExists`/`Enqueue` per recipient, and `Commit`.
A unique violation leaves the transaction `poisoned`, as PostgreSQL does. `Prune` is retention.
Several checkers run at once, since the advisory lock is lost with its session.

### InfoEvents
As `Maintenance`, with what differs: the checker computes from the copy of its batch, the UPDATE carries
no version, `end_date` may be missing (`NoEnd`; a nil field of a copy is not written) and nothing orders
the dates. `Panics` is the dereference of a missing `end_date`, reached at the instant
`start_date = now`; the process is restarted. `overlap` records that two rounds ran at once, which
takes a lost session.

### Incidents
`inc` maps ids to rows, `mem[h]` is what a handler remembers between its transactions: the request,
the copies it works from (`view`), components still to do, answers. One action per transaction or
read: `ProcessSystem`, `FindTarget`, `AddComponentToIncident`, `CreateSystem`, `MoveComponent`,
`ExtractSave`, `ExtractTx`, `IncreaseIncidentImpact`, `MarkSystem` for system incidents;
`CreateRegular` and `Relocate` for regular ones and maintenances; `PostExtract`; `PatchIncident`,
`ModifyIncident`, `ReOpenIncident`. `SaveBoth` writes two full rows from stale copies, as
`saveIncidentFull` does. A PATCH writes the successor of the client's version, when it sends one, or of the
copy's; nothing compares either. `overlaps` counts requests accepted while another is in progress, and `Serial` says that
there was none and no failure. `Withdraws` names the two steps that uncover a component as the code is written: a PATCH to
`resolved`, and a move of the system that closes its source because its target has one component (`v2.go:694`).

### Lifecycle
Per replica: `main`'s position, a goroutine per task, the worker, requests in flight, the pool. A
deadline may pass at any point of the wait it bounds; the deadline of the HTTP drain is `expired`
because it starts before the other two waits. `lock[t]` is the session that holds the advisory lock.

### StaticProxy
A context (`ctx`) is a gin context with the request it serves; when its handler has returned it may be
handed to another request, and `c.Request` with it. A shared fetch (`flight`) is the goroutine that
`singleflight` starts: it reads `c.Request` only when it begins (`FetchStart`), tries the origins in
order (`FetchReply`, `FetchFail`), stores (`FetchPut`) and returns to all who joined (`FetchReturn`). A caller
may leave at any time (`GiveUp`). `strayed` records the keys whose fetch began on a context that had been
reused: there the code does fetch another request's path, and the properties say that this is the only
way. `Publish` gives the site a new version; the answers of the origins differ in status, size and
`Cache-Control`.

### Store
One action per SQL statement. A session has the rest of its handler in `todo`, its uncommitted writes in
`w` and the copies it loaded; `View` is READ COMMITTED (committed rows under the session's own writes),
`Holders` who holds a row, `Abort` the deadlock detector, `Fail` a statement that fails, with the
rollback of `execWithTx`. Rows are built by the operators of `Ent`, so that the columns a request does
not name follow the generated client. `PickUpdate` is a client that remembers an update and its position
from an earlier answer. A PATCH carries the client's version or none. `ExtractComponents` is the first half of
`ExtractComponentsToNewIncident`, the transaction that stores the new incident with status SYSTEM and no update; the
second half is the transaction a move has too (`MoveSteps`). `cut` records the events whose reopening failed half way, and those
an extraction took a copy of between the status and the clearing of `end_date`: it will save that end back.

### The generated client
`EntSchema` holds per entity what `mutation.go`, `*_create.go`, `*_update.go` and `migrate/schema.go` know of
it; `Ent` says once what the generated methods do with it. A mutation is `set`, `add`, `cleared`, the ids of
the edges and `clearedEdges`; a builder is a sequence of calls, folded over an empty mutation.
`EntDeclared` transcribes `ent/schema` and the generated setters, predicates, orders and edge queries, and
`AsDeclared` is the rule by which one determines the other. Methods that differ only in the receiver
(`UpdateOne`, bulk and X variants) are represented by one of them.

### Rules
Every behaviour chooses one question and its input from a bounded set; `case` keeps the input and what
the code answers. The migrations are the exception: `MigrateUp` and `MigrateDown` walk the versions. The
reference definitions (hours counted one by one, edges read off the relation, required fields of the
declaration) stand beside the properties.

## 3. Runs

| Run | Checks | Shows |
|---|---|---|
| `outbox` | `ExclusiveLease`, `NoUnexplainedDuplicate`, `AttemptsBounded`, `SentIsFinal`, `ImplementsPromise` | two pods (four drains), one row, one fault, one redrive, clock skew: the lease keeps the drains apart and the outbox implements `OutboxPromise` |
| `outbox_live` | `WakeupCovered`, `Settles` | one pod, two rows, a fault: no wake-up is lost; every queued row ends sent or failed |
| `maintenance` | `NoLostUpdate`, `BackfillOnce`, `CreatorConfined`, `Converges` | operator, creator and two checkers with stale copies, the users with old, current and future versions; windows may be patched to end before they start |
| `maintenance_mail` | `NeverPoisoned`, `RowsMatchTransitions` | the same with recipients, rollbacks and retention |
| `info` | `HistoryOrdered`, `Converges` | two users, two checkers, events with and without an end, a PATCH that moves the end before the start |
| `incidents` | `CoverageKept`, `MaintenanceUntouched` | two handlers overlapping at will, one failure between any two steps |
| `incidents_system` | `OnePlace`, `ResponseTrue`, `CoverageKept` | three components: system incidents of rising impact, moves that close their source and moves that do not, PATCH, resolutions, one request at a time |
| `lifecycle` | `OneRound`, `LockOnlyInRound`, `PoolOutlivesTasks`, `ShutdownEnds` | two replicas, a task, a request, a lost session, all deadlines met or missed |
| `static` | `BudgetKept`, `MonotonicReads`, `FiledUnderItsKey`, `NoOrphan` | two contexts, two keys whose entries evict each other, two origins, two publications, a caller that leaves |
| `store` | `PatchedAsShown`, `HistoryExplainsStatus`, `ReopenedIsOpen`, `ComponentWhole`, `WaitsForTheRunning`, `UpdatesAppended` | two sessions, three requests of nine kinds (an extraction from an incident that may be reopened meanwhile among them), one failing statement; the deadlock check finds no state in which all wait |
| `rules` | `ClientFits`, `LoadersComplete`, `OneAudience`, `AvailabilityTrue`, `ScopesKept`, `ConfigSound` | the rules without state, on every input of the sets in `MCRules` |
| `maintenance_drafts` | `DraftsIgnored` | violated, see section 6 |

**Bounds.** Every bound is a constant with "bound" in its comment and stands in the guard of the
actions it limits. They are the smallest at which the interesting cases occur:
two pods and two drains each, so that a recovery can race a send on another pod and on the same one;
two attempts, so that both the retry and the exhausted branch happen; one fault, since the second
pod's ordinary behaviour supplies the rest, and the theorems cover any number; two rows where
ordering and wake-ups matter; three instants before, inside and after a maintenance window and one
PATCH per user role plus the checkers; two overlapping requests, two components and four incidents,
so that a source can be emptied or not, and a target exists or not; three components with the reports of the system, so that a move
can close a source that keeps others. Versions 2 to 4 are behind, at and ahead of a maintenance that is stored with version 2 and written twice. The cache holds two units, so that an entry of
one key evicts the other's and one reply is larger than the budget. Three requests suffice for a GET, a
write and a PATCH at a remembered position. A builder gets two calls (every pair of its methods, in both
orders), an insert leaves out up to two fields and blanks one; tables of three rows have every relation
and every order; sixteen months of two or three hours let an outage begin, end and be cut at every
hour of the period and beyond it; roles come from up to two names in each claim; settings stand on both
sides of every limit. `CHECK_DEADLOCK FALSE` where the
bounded system stops: requests are used up, replicas have exited, the clock has reached its bound.
The outbox never stops (its clock goes on) and deadlock is checked there. Retention runs from
some pod at any time in the model; its own advisory lock adds nothing to a single DELETE.

**Fairness.** `Outbox!Fairness`: a drain that can step does (Go runs runnable goroutines and every wait
in it has a deadline), clocks advance, the sweep ticker fires on some pod, an orderly stop
completes, and a pod that went down is restarted (the deployment keeps its replicas). Nothing is
assumed of crashes, redrives, retention or enqueues. `Maintenance!FairSpec`: scan rounds keep being
started and transactions proceed; users owe nothing. `InfoEvents!FairSpec` is the same. `Lifecycle!FairSpec`: only `main` runs and timers
fire; task bodies, drains and requests may hang for ever, because that is what the deadlines are for.

**Symmetry** is used for pods, handlers and components in runs without liveness properties.

## 4. Proofs

All theorems hold for every value of the constants that satisfies the named assumptions. A module `XProofs`
holds those about `X`; the inductive invariants are defined at the end of `X`, and TLC has checked each of
them on the runs of `X` before it was proved.

`OutboxProofs`, from `BoundsAssumption`, `BackoffAssumption` and `LeaseAssumption`
(`Lease >= ClaimDelay + SmtpTimeout + UpdateTimeout + MaxSkew`). `conf.go:224-231` checks only that
the lease exceeds the SMTP timeout; the defaults (60 s against 30 s + 5 s) leave 25 s for
starting the send and for clock differences, and the assumption says that this is enough. `ExclusiveLease` is not inductive:
that nobody recovers a row being sent follows only from the time spent on it. `IInv` therefore adds
that a held row is processing and its age is at most the time its holder can have spent (`HoldRow`,
`HoldTime`), that rows selected by an open transaction belong to it alone and still match
its SELECT (`LockIdle`, `LockUnique`, `LockClaim`, `LockRecover`), that what a drain
remembers is still so (`HoldFacts`), and that every acceptance is recorded, about to be, or excused
(`AcceptInv`). Theorems: `InvariantHolds`, `TypeCorrect`, `LeaseIsExclusive`, `AttemptsStayBounded`,
`DuplicatesExplained`, `SentRowsStaySent`. On top of `IInv`, `WakeInv` (a row never attempted is due at once)
gives `WakeupsKept`. `PromiseImplemented` is the refinement: `OutboxPromise`'s specification follows from
`Outbox`'s, action by action, with `IInv` for the two steps that are not evident (a mark finds its row still
queued, a send happens only for a queued row).

`MaintenanceProofs`, from `ProcAssumption`. `IInv` says that a copy is not newer than the row and equals
it when the versions agree (`Copied`), that a checker's write carries the version of its copy and a creator's the
permission the copy gave (`Prepared`), that the row lock admits one transaction whose version is
the row's (`OneTx`, `TxVersion`), and that a key found absent is still absent at the INSERT
(`InsertFresh`). Nothing is assumed of a user's version. A transaction past its UPDATE whose version is not newer than its
copy has the row as its copy, by `Copied` and `TxVersion`; hence `NoUpdateIsLost`, under that condition. `NoTransactionPoisoned`
needs no condition. The action property `CreatorStaysConfined` has a part that holds for every version (a creator's write is
on an event of a creator and leaves it in review or cancelled, since the owner of an event never changes and the status written is the
one the permission was given for) and one under the condition (the event was still in review). `HistoryInv` adds what a checker still owes to the history (`Backfilled`): a write that
passes its version check was prepared from the history it extends; hence `NothingBackfilledTwice`. `RowsInv` adds which
keys an open transaction has found or inserted (`Published`); hence `RowsAreTransitions`, the
exactly-once pairing of outbox rows and committed transitions, an action property: the new status in a row is always the
one committed, the old status is the replaced one unless the writer was ahead of its copy.

`InfoEventsProofs`, from `InfoAssumption`. Nothing orders the writers here, so `IInv` rests on what never changes: a
copy's history is a prefix of the row's (`CopiesOld`), what a writer adds is in order and, as long as
rounds did not overlap, no other checker has added it (`AddsInOrder`, `Alone`). Hence `BackfillsInOrder`.

`IncidentsProofs`, from `IncidentsAssumption`. Requests write whole rows from copies, so each property has its own
account of the copies.
- `WriteInv`: what is about to be written is a copy of an incident. Hence `MaintenancesUntouched`.
- `CoverInv`: without system reports and resolutions the newest incident that ever had a component keeps it, in the table and in
  every copy; a stale copy of an older one cannot uncover it, however requests overlap and fail.
- `CoverageNeverLost` has no hypotheses; the property itself distinguishes the two cases. Where the constants rule out the system's
  reports and resolutions it follows from `CoverInv`. Otherwise it is claimed while requests are served one at a time, and
  follows from `SerialInv`, step by step: whatever a step takes out of a row it has just stored elsewhere, or the step
  is one that `Withdraws` names. (With overlapping system reports it fails: two moves that save stale copies of one target
  whole can drop the component that the other has added.)
- `SerialInv`: while requests are served one at a time and to the end, copies are what is stored, and each
  intermediate step knows the impact, components and answers it has reached. Hence `ResponsesTrue`.
- `PlaceInv`, on top of it: which incidents may share a component at which step of which request. Hence
  `OnePlaceEach`; without PATCH to `reopened` and POST extract, as in the run (both put a component into a second place
  by design).

`LifecycleProofs`, from `LifecycleAssumption`. `IInv` adds that a round whose task never lost a session
still holds the lock (`RoundHolds`), what `main` may rely on after a wait without error (`Waited`), and
who closes the pool (`ClosedByMain`). Theorems: `RoundsExclude`, `LocksEnd`, `PoolIsLast`.

`StaticProxyProofs`, from `MaxBytesAssumption` and the assumptions of `StaticProxy`. `PutHolds` is about the
cache alone: `put`, of any entry into any cache whose list, index and byte count agree, returns such a cache within the
budget; the entry is at its front if it fits at all, every other entry was there before and is unaltered, and none
is evicted while there is room. The byte count is a sum over the entries, a fold; its recurrence is obtained from the definition of the
fold with the least-number principle (`WFMin`), as no induction theorem can be used. `CacheBudget` follows.
`IInv` of the proxy says which goroutines a context and a key may have (`Handlers`, `OneFetch`, `Fetches`), whose content
an entry is (`OwnEntries`) and how the versions of stored, delivered and seen contents are ordered (`SeenOld`, `Upward`,
`Delivered`). Hence `NobodyOrphaned`, `ReadsMonotonic`, `CacheFiledUnderKey`.

`StoreProofs`, from `RequestAssumption`, `StoredAssumption` (rows are numbered), `ComponentsAssumption`
(stored components have their attributes), `NullAssumption` (NULL is no status), `HistoryAssumption` (a stored event has an update
with its status, as the transaction that creates one leaves it: `v2.go:1018`, or the status SYSTEM, as an extraction that
failed leaves it: `db.go:892`) and `ReopenAssumption` (a PATCH names a status, `binding:"required"`
at `v2.go:1117`; an incident that is stored as reopened has no end: the property is about what requests leave from then
on). `Sessions` gives the shape of what remains of every handler: at most one
transaction, enclosing the statements that need one, and uncommitted writes only inside it; it is inductive
(`SessionsSound`). As a session without uncommitted writes holds no lock, `NoLockLeftBehind` follows.
`AppendInv` says why histories grow at their end although ids are taken before the commit: an update not yet committed
has an id above all committed ones of its incident (`Follows`), because its session has written, and so locked, the
incident's row first (`LockedFirst`), and no two sessions have written one row (`LocksExclude`). What the
builder puts into the inserted row (`Build`, a fold over the calls) is unfolded as in `PutHolds`. Theorems:
`AppendsSound` and, as an action property, `HistoryOnlyGrows`.
`WholeInv` follows `SaveComponent` step by step: the session that registers a component has written it with exactly
the attributes of the steps it has done (`PartOf`), under ids that nobody else has (`Counted`), and no committed row
meets them (`Apart`); the commit comes after the third attribute. Theorems: `RegistersSound`, `ComponentsComeWhole`.
`ExplainInv` says where a status other than SYSTEM may be (SYSTEM counts as explained, since an extraction stores it before any
update): of a committed row, in its history (`Recorded`); of an uncommitted row or of a
copy that a step will save, in the history or about to be inserted by the same transaction (`Recording`, `LoadedFirst`);
of a row loaded for the answer, already in the history, which is read next and never shrinks (`Answers`).
It is not enough that committed rows are explained: a stale copy may be saved over a newer row, and its status is still
one the history has. What `Build` puts into the status column follows from the calls the builder gets, by cases.
Theorems: `ExplainsSound`, `StatusesExplained`.
`ShownInv` says at which step an edit is and what it has then: the history it loaded, or the update it was shown, or the
one it found, is what the committed history has at that position. Histories only grow and a row keeps its event and its
status, so a position keeps its update (`Placed`); the list shown to an operator has one entry per row, hence positions in
it are positions in the table. Theorems: `ShownSound`, `PatchesTheShown`.
`ReopenInv` says who clears the end of an incident that is committed as reopened: a session whose next statement does, or
nobody as that statement failed or an extraction has a copy from before it (`cut`). It is not inductive alone; it needs the same of what is not committed yet: a
transaction that has written, or is about to write, the status reopened beside an end has the clearing among its
remaining steps (`Clears`, `Settles`), a move saves a copy only when it is closed or has no end, an extraction, which does not ask
whether the incident is open, any copy but one of a `cut` event that it left so, and a stale copy that
is patched carries the status of its own request. Which columns `Build` sets and clears follows from the calls it gets:
a call that is made reaches its column, and no later call takes it back (`CallsReach`). Theorems: `ReopensSound`,
`ReopenedStaysOpen`.

`RulesProofs`, from the assumptions of `Rules` and `Availability`: the inputs are what the program can be given
(`RequestsAssumption`, `EnvironmentsAssumption`; `HistoriesAssumption`: any status beside any updates, also none, where only a maintenance is
drafted and the status is one that a writer stores for its type; `IdsAssumption`: NULL is no id; `ClockAssumption`: the
clock has a year of calendar behind it; `MonthStartAssumption`: the months of the calendar follow each other). `case`
keeps what was asked and answered (`Asked`), so the theorems are about the operators.
- `ConfigurationSound` for every environment and file (texts of the environment stay, switches it turns on stay on; one that it turns
  off does not, section 6), `RolesKeepScope` for every naming of roles and every nesting of
  claims.
- `EdgesComeComplete`: the two loaders for every content of the tables, every order of the nodes and every
  number of shared neighbours.
- `AudienceIsOne`: three-valued conjunctions of the lists against the handler's conditions; and, of `mapEventUpdates`,
  `eventStatus` and the feeds, folds over a history of any length, a property of every prefix: what was listed so far
  is public, and its last entry has the status reached so far. That the last update an editor sees has the event's status is
  claimed when the last stored update has it: an open incident keeps its status under the SYSTEM updates of a move. As no induction theorem can be used, the values
  of a fold on the prefixes are obtained from its definition (`FoldExists`) and a first prefix that fails by `WFMin`.
- `AvailabilityIsTrue`: months do not overlap and cover the calendar, so an hour has one month; within the period the
  index `calculateAvailability` computes from year and month is the distance to its first month, so one visited month
  counts for one index; the hours it adds there are the length of the part of the outage in that month, which is the
  number of the hours of the month in the outage; sums over outages agree term by term.

**Model-checked only**:
- the liveness properties (`Settles`, `Converges`, `ShutdownEnds`): liveness under fairness and facts about ENABLED are
  outside what TLAPS proves here;
- of `Rules`: `ClientFits` (`SchemaFits` and `BuildersFitTables`) is about the tables and builders of five given entities, without
  constants: TLC's enumeration is the proof.

## 5. What is not modelled, and why

- Rendering, metrics, logging, the health probe, the served API description: formatting and wiring. A render
  error is one of the retried failures of a send.
- The signature check of a token is the verdict of the identity provider; a token is valid or not.
- PostgreSQL, the `migrate` tool, `singleflight` and gin are external: READ COMMITTED, row locks, unique
  indexes, session advisory locks, one running call per key, contexts that are reused.
- The origins of the static proxy are one site: `FetchReply` answers from the current version whichever origin it asks
  (they may differ in status, size and failures). If one origin lags behind another, `MonotonicReads` is not claimed.
- Of the generated client: hooks, interceptors, grouping, debug and bulk variants, which the service does not
  use; the text predicates beyond their existence.
- Pagination orders lists by `start_date` alone, so events that share one may repeat or be missing between
  pages; the order of feed items and their text. No document promises either.
- Data moved by the scripts 2, 4, 7 and 9. After script 4 a row may have a NULL status; the list predicates then
  hide a maintenance that GET of one event shows.
- Names, texts, addresses and dates other than the order of instants; `allowed_domain` filtering is the
  choice of the recipient sets. Availability counts whole hours.

## 6. Disagreements between code and documentation

- **Drafts** (`checker/maintenance.go:101`), run `maintenance_drafts`. The batch filter skips `pending_review`,
  the refetch does not look again: an event an operator puts back into review in between is advanced
  (`docs/events.md:116`: "`pending_review` events are ignored").
- **Versions** (`api/v2/v2.go:1173`). The version of a PATCH is compared with the row by the UPDATE only,
  not with the event the request was validated on. A client that sends the version after the current one gets through when another write commits
  in between, and replaces an update it never saw (`openapi.yaml:33`: "The API uses optimistic locking for maintenance events to prevent
  concurrent update conflicts", `:36`: "If the version doesn't match (event was modified by another user), a 409 Conflict is returned").
- **Closing the wrong incident** (`api/v2/v2.go:694`). Moving a component between system incidents closes
  the source by the number of components of the target (`docs/events.md:79`: "old incident is closed when
  the component was its only one"; `:91`, for system incidents, only "found — the component is moved into it").
- **Extraction in two transactions** (`db/db.go:892`). The new incident is committed with status SYSTEM and no
  update, before the transaction that saves both; when that fails it stays so (`db/db.go:917`: "Use a transaction to save both incidents with
  their statuses and update associations").
- **End saved back** (`db/db.go:932`). An extraction saves every column of a copy; one read between the two
  statements of a reopening brings `end_date` back after the PATCH succeeded (`docs/events.md:139`: "`reopened` clears it").
- **Switches of the environment** (`conf/conf.go:527`). A switch set to false looks unset to the merge and is
  turned on by the `.env` file (`conf/conf.go:446`: "Env variables are preferred.").
- **Resolved incident opened again** (`db/write.go:79`). `saveIncidentFull` writes every column of an old
  copy, `end_date` included, and no version protects incidents (`docs/events.md:135`).
- **Pool under requests** (`cmd/main.go:113`). A missed HTTP deadline is logged and the pool is closed
  (`cmd/main.go:117`: "Never close the pool while in-flight work may still be running.").
- **Positions of updates** (`api/v2/v2.go:1838`, `docs/events.md:202`). A row `description` of the old dashboard is
  left out of the list but counted by the PATCH; `PatchedAsShown` says that nothing else shifts a position.

The code is transcribed with all of these. Only the first has a run of its own; the properties of the passing runs are stated so that they
hold beside the others: each names the exception it needs (a client that is ahead, a step that withdraws, the status SYSTEM, an event that
was cut, a switch turned off), and holds in every state outside it.

Behaviours worth knowing that no run is about:
- A transition repeated by an event that comes back to a status is not mailed again while its first row
  exists (`docs/notifications.md:12-13` says so).
- At the instant `start_date = now` the computed status is `completed`, and for an info event without an
  `end_date` the checker panics there (`checker/info.go:124`, `:164`).
- The answer for a component follows the first of its active events by id (`api/v2/v2.go:527`), so an older
  non-system incident hides a maintenance although the comment there puts maintenances first. Two concurrent
  system requests for a component may each create an incident (`api/v2/v2.go:605`).
- A PATCH of an info event, and the checker's write, put back dates that a concurrent PATCH has changed.
- A reply that may not be stored leaves an older entry that is still fresh in the cache; streamed answers
  bypass the shared fetch.
- An empty setting of the environment is replaced by the one of `.env`; a list of blanks counts as
  a review audience; the lease is only required to exceed the SMTP timeout, which may be zero, while the
  proofs assume `LeaseAssumption`; cache settings are validated only when origins are set.
- The client declares a foreign key from the relation to `incident` that no script creates, and NO ACTION
  where the script cascades from component to attribute.
- `check()` of an outbox update lets the edge to the incident be cleared on its own; only NOT NULL refuses
  it. Upserts run no validators of an update.
- Overlapping outages are counted in full each, so a month may fall below zero per cent.
- Role names are matched against the configured names without slashes, so a claim spelt with one never
  matches; POST `components` alone has no `RBACAuthorizationMW`, so callers
  without a mapped role keep their access there (`middleware.go:204` says so).

## 7. Plan

Done: every part of section 1 but the last row, with proofs for `Outbox`, `Maintenance`, `InfoEvents`, `Incidents`,
`Lifecycle`, `StaticProxy`, the sessions, histories, statuses, edits, reopenings and components of `Store` and the rules of
`Access`, `Config`, `EventViews`, `Availability` and the eager loads of `Ent`.

Next:
- a composition of `Maintenance` and `Outbox` (a committed transition is eventually mailed or given up).
