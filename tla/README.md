# A verification of the DSS: strategic conflict detection and its neighbours

This directory holds TLA+ specifications of the Discovery and Synchronization
Service (DSS) in this repository, the TLC models that check them, and proofs
for TLAPS. The DSS is a Go service over CockroachDB: UAS service suppliers
(USSs) register operational intents, constraints and subscriptions with it, and
learn from it whom to ask for details and whom to notify. The repository adds
vertiport management (VRP) to the strategic conflict detection (SCD) and remote
identification (RID) services of the DSS. All three are modelled, and so is the
way an instance starts.

| File | Content |
| --- | --- |
| `Volumes.tla` | 4D volumes and S2 cell unions, used by `SCD` and `RID` |
| `SCD.tla` | strategic conflict detection: state, handlers, properties |
| `MCSCD.tla`, `SCDCore.cfg`, `SCDConstraints.cfg`, `SCDSameSecond.cfg`, `SCDOrphan.cfg`, `SCDDeafSupport.cfg`, `SCDMerge.cfg` | its instances |
| `ReadModifyWrite.tla` | what a client may count on when it reads an entity and writes it back: an abstract specification |
| `SCDSessions.tla`, `MCSCDSessions.tla`, `SCDFencing.cfg` | `SCD` with clients that keep the OVNs they were given, and their instance |
| `SCDProofs.tla` | theorems about the tables of `SCD` and the support of operational intents |
| `SCDHistoryProofs.tla` | theorems about notification indices; `SCDSessions` implements `ReadModifyWrite` |
| `SCDNotificationProofs.tla` | theorems about who is notified and about the key check |
| `AtomicCalls.tla` | what a client may count on when it calls SCD: the abstract specification |
| `SCDTransactions.tla`, `SCDTransactions.cfg` | transactions that are run again, and their instance |
| `SCDTransactionsProofs.tla` | they implement `AtomicCalls` |
| `RID.tla`, `MCRID.tla`, `RID.cfg` | remote identification with its garbage collectors, and its instance |
| `RIDProofs.tla` | theorems about `RID` |
| `VertiportSchedule.tla` | arithmetic of time periods: free times and used places |
| `VertiportScheduleProofs.tla` | theorems about it, for lists of any length |
| `VRP.tla`, `MCVRP.tla`, `VRP.cfg`, `VRPFreeTimes.cfg` | vertiport reservations and schedule queries, and their instances |
| `VRPProofs.tla` | theorems about `VRP`, the answers of its queries included |
| `Startup.tla`, `Startup.cfg` | migration, start and retries of an instance |
| `StartupProofs.tla` | theorems about `Startup` |
| `PROJECT.json` | components, runs, mutants, source lines of every definition, findings, hazards, theorems |

Run `tlc -config SCDCore.cfg MCSCD.tla` for a model and `tlapm SCDProofs.tla`
for the proofs.

## 1. Inventory of the system

### Components

**SCD operational intents** (`pkg/scd/operational_intents_handler.go`,
`pkg/scd/models/operational_intents.go`, `pkg/scd/store/cockroach/operational_intents.go`).
State: table `scd_operations`. Operations: create and update
(`PutOperationalIntentReference`), delete, get, query. A write checks the OVN of
the version it replaces and a *key*, the OVNs of every operational intent (and
perhaps constraint) it conflicts with; it makes, names or extends a supporting
subscription, stores the row and increments the notification index of every
subscription to notify. Correct if every operational intent keeps a
subscription that covers it, conflicting USSs know of each other, and nobody
affected is left out of a notification.

**SCD subscriptions** (`subscriptions_handler.go` and its model and repository).
State: table `scd_subscriptions`, with a notification index per row.
Operations: create and update (`PutSubscription`), delete, get, query. An update
must leave the operational intents that depend on the subscription covered; a
deletion is refused while there are any. Correct if no index is lost or repeated and
whoever writes with a version replaces what they read.

**SCD constraints** (`constraints_handler.go` and its model and repository).
State: table `scd_constraints`. Create, update, delete, get, query; writes
notify the subscriptions interested in constraints.

**4D volumes** (`pkg/models/geo.go`, `pkg/geo/s2.go`). No state: polygons and
circles become unions of level-13 S2 cells, volumes are united, searches compare
them.

**SCD USS availability** (`uss_availability_handler.go`). One row per USS,
upserted without comparing the version the request carries: the last
arbitration to commit wins.

**Transactions** (`pkg/scd/store/cockroach/store.go`, the same in `pkg/vrp`,
`pkg/rid`). `Transact` runs a closure in a serializable transaction and runs it
again when CockroachDB asks for a retry. Correct if nothing of this can be seen:
a call takes effect in one instant, or not at all.

**VRP reservations** (`pkg/vrp/*_handler.go`, `pkg/vrp/store/cockroach`). The
protocol of SCD over vertiports and their zones in place of cells, without
`UnionVolumes4D`: only the new reservation is notified, and an implicit
subscription that is extended moves. Correct if conflicting USSs know of each
other and a subscriber knows what reserves its zone.

**Vertiport schedules** (`pkg/vrp/models/models.go`, `vertiports_handler.go`).
Vertiports with a number of parking places; free time periods and used places
are computed from reservations. Correct if the computed values agree with a
count instant by instant, for every order in which the rows come back.

**RID service areas and subscriptions** (`pkg/rid/application`, `pkg/rid/server`,
`pkg/rid/store/cockroach`). Tables of identification service areas and
subscriptions with versions, owners, quotas per area and notification indices.
Correct if a subscriber knows every service area in its cells, none of them in a
version that is gone, and the quota holds.

**RID garbage collection** (`garbage_collector.go`). A periodic job of every
instance that removes expired records its own locality wrote. Correct if it
removes nothing else, and every such record goes in the end.

**Authorization** (`pkg/auth`). Tokens, keys resolved at the start and refreshed in
the background, scope validators per operation. Correct if an operation runs only
with a valid, unexpired token signed by a current key and with its scopes.

**Service start** (`cmds/core-service`, `pkg/cockroach`). The core-service
connects a store per service, checks its schema, and tries again after a growing
time when that failed for a reason that may pass. **Schema migration**
(`cmds/db-manager`). A job per schema, which executes the steps from the version
found to the latest. **HTTP gateway** (`cmds/http-gateway`). Registers with the
core-service and retries. Correct if all three come up in any order, through
outages and restarts, on the right schemas.

**Dummy OAuth server** (`cmds/dummy-oauth`), generated API code, logging and errors.

### How they interact

The gateway turns HTTP into gRPC; the interceptor of `pkg/auth` puts the owner
into the context; a handler of SCD, VRP or RID validates the request and calls
`Transact`. Handlers share nothing but tables: an operational intent refers to a
subscription by id, writes of operational intents and constraints increment the
index of subscriptions, writes of subscriptions read operational intents, and
deletions of operational intents delete implicit subscriptions. USSs tell each
other about changes; the DSS only answers the writer with the list of whom to
tell. Every instance of the service has its own collector on the shared tables.
db-manager and core-service meet in the database alone: in which databases exist
and which version each records.

### Hard behaviours

- Read-modify-write cycles of several USSs, with an OVN (a hash of id and
  second) as fencing token.
- The one-sided key check: awareness must outlast every later update, state
  change, move and deletion.
- A reference (operational intent to subscription) kept consistent by checks in
  three different handlers, each of which looks from its own side.
- Batches of notification index increments, reported by row position.
- Retried closures with captured state, answers lost after a commit.
- A search that runs after the transaction whose answer it is for, and rows that
  are listed in one statement and deleted in another.
- Boundaries: `LIMIT` on searches, four sibling cells, the five minutes of
  clock skew, the longest duration, a time that is left open.
- Background jobs: garbage collection, key refresh, migrations that stop half way.
- Results that depend on the order in which rows come back.

`PROJECT.json` lists the hazards with their lines and the properties that guard them,
or the reason why none does. Lesser ones are named in sections 4 and 6.

## 2. The models and the code

### 2.1 `Volumes` and `SCD`

| Variable | Code |
| --- | --- |
| `now` | the transaction timestamp, in seconds: the resolution of an OVN |
| `ops`, `subs`, `constraints` | the tables `scd_operations`, `scd_subscriptions`, `scd_constraints`; `Nil` for no row |
| `retired` | observation: OVNs and versions that were overwritten or deleted |
| `proved` | observation: per operational intent, the key its last write was checked against |
| `told` | observation: per subscription, the indices of its own row that responses have reported |

No guard depends on `proved` and `told`. `retired` is read to say which stale
OVNs a client may still hold (`Presented`) and that `uuid.New` gives fresh ids. Nothing
is asked of clients: they write as often in a second as they like.

An OVN is the pair of an id and a second. `NewOVNFromTime` hashes the same data
(`time.RFC3339` has no fraction), and collisions of SHA-256 are ignored.

Each handler does its work in one serializable transaction that commits or
leaves no trace, so an accepted request is one action and a rejected one is no
step. Error returns are guards, in any order, since none of them has an effect.

| Action | Handler |
| --- | --- |
| `PutOpWithImplicitSub` | `PutOperationalIntentReference` without a subscription id |
| `PutOpWithCoveringSub` | ... naming a subscription that covers the volume |
| `PutOpExtendingSub` | ... naming an implicit subscription that has to grow |
| `DeleteOperationalIntentReference` | itself, with the removal of an implicit subscription that has no other dependent |
| `PutSubscription`, `DeleteSubscription` | themselves; create and update are one handler |
| `PutConstraintReference`, `DeleteConstraintReference` | themselves |
| `Tick` | a second passes |

`StoreOp` is the common end of the first three: key check, upsert, search for
subscriptions in the union of the old and new volume, increment of their
indices, response.

What is abstracted:

- Polygons and circles are the sets of cells that cover them. Of the S2
  hierarchy one parent and its four children are kept, since
  `s2.CellUnionFromUnion` replaces the children by the parent.
- `CellUnion.Contains` bisects the stored cells, and those of an implicit
  subscription are stored in the order of a Go map, so `ContainsAnswers` lets the
  search miss. The stored order itself is not tracked; after an extension the
  cells are sorted and the code can no longer miss where the model still can. The
  model then has behaviours the code has not: a needless extension, which the
  invariants survive.
- A search with more matches than `MaxResultLimit` returns any subset of that
  size (`Limited`). The code has 10000; the model can be given 1 or 2.
- URLs, names and the remaining columns are left out; no property needs them.
- A missing altitude that `ValidateDependentOp` dereferences ends the request
  without a commit. That the panic also ends the process is not modelled.
- Get and Query requests change no table and are no actions of `SCD`; what a client does
  with the OVN that a Get request gave it is in `SCDSessions`.
- Access scopes and the validation of a request's syntax come before the
  handler's transaction and are not modelled.

| Property | Kind | What could break it |
| --- | --- | --- |
| `TypeOK` | invariant | malformed rows, OVNs of no entity |
| `SupportExists` | invariant | a subscription deleted, re-created by another USS, or dropped with another operational intent |
| `SupportCovers` | invariant | an extension or an update of a subscription that forgets an end, a cell or a dependent |
| `MutualAwareness` | invariant | two conflicting operational intents neither of which was checked against the other's current version |
| `NotificationGapFree` | invariant | an index reset by an update or an extension, or kept for another subscription under the same id |
| `NotifiesAffected` | action | a subscription that meets the old or the new place of an entity is not notified |
| `ListeningOperatorInformed` | action | a supporting subscription that listens misses a conflicting change |
| `ImplicitHasDependent` | invariant, refuted | an implicit subscription that stays behind |
| `OperatorInformed` | action, refuted | any supporting subscription that misses a conflicting change |
| `OVNFencing` | invariant, refuted | a version that becomes current again |

`ListeningOperatorInformed` does not follow from `SupportCovers` and `NotifiesAffected`
alone. Of implicit subscriptions it does not say that they listen: that is for the code
to see to, when it makes them, when it extends them, and when `PutSubscription` turns
them into explicit ones. A subscription may start up to `MaxClockSkew` later than what it
supports, so a change which is over by then may be missed, and no other.

`NotificationGapFree` is about the indices of a row, which is what `told` follows. It does not
say that a response reports each under the subscription it belongs to: the increments come
back in no stated order, `repos.go:100` credits them by position, and so nothing in the
code assures it.

### 2.2 `ReadModifyWrite` and `SCDSessions`

What the OVN is for: a USS gets a reference, plans with it and writes it back, and the
write must fail if anybody wrote, deleted or re-created the entity meanwhile.
`ReadModifyWrite` says so without versions and without a clock. An entity has a `value`,
a session has a `basis`, the entity whose current value it has read, and whoever changes
an entity takes it from every basis; only a session with the entity as its basis may
`Update` it. Others `Interfere` as they like. `writer` names the session whose update a
step is, so that an update cannot pass for an interference. An abstract step may write
any value, because what a handler writes is the business of `SCD`.

`SCDSessions` extends `SCD` by what each session has read (`read`) and by `writer`:

| Action | Code |
| --- | --- |
| `Get` | `GetOperationalIntentReference`, `GetConstraintReference`: only the manager is told the OVN |
| `Update` | `UpdateOperationalIntentReference`, `UpdateConstraintReference`, with the OVN the session has read, however old, and as often as it likes |
| `Others` | every action of `SCD`, by anybody and in any second: creations, updates with any OVN ever given out, deletions, subscription requests, `Tick` |

Two writes in one second share an OVN (`SCDSameSecond`), so an OVN that is read in the
second that made it may come to stand for another version, and no session can count on
it. A *settled* reading is one made in a later second, and `Get` is such a reading. The
answer of an update is no settled reading; it tells the OVN of the running second.
Sessions therefore read again after an update, whether its answer arrived or not. This is
a rule for who reads; others may write twice in a second, and do.

The refinement (`Register`) takes a session's basis to be the entity of its OVN as long
as that OVN is the current one (`Basis`). Nothing in the code keeps such a relation: it
compares the OVN of the request with one computed from the row.

| Property | Kind | What could break it |
| --- | --- | --- |
| `ImplementsReadModifyWrite` | refinement | an update let through with an outdated OVN, an OVN that is current again after a deletion and a creation, a repeated update that takes effect twice |

With `<=` for `<` in `Get` it fails after four steps: a session reads in the second of the
creation, another request writes in that second, and the session overwrites it. It
promises nothing about deletions, which ignore the version they name: `Interfere` asks
for no basis.

### 2.3 `AtomicCalls` and `SCDTransactions`

`SCD` takes it for granted that an accepted request is one step. These two
modules look inside, for one subscription that several calls of `PutSubscription`
write and one availability that calls of `PutUssAvailability` set. `AtomicCalls`
is the promise: a call that was sent takes effect in one instant, on the version
it names, or has none; its client learns which, or loses the connection.
`SCDTransactions` is the code:

| Action | Code |
| --- | --- |
| `Call` | the request arrives; its start time becomes part of what the closure captures |
| `RunPut`, `RunArbitration` | one run of the closure up to its commit: reads, checks, and `AdjustTimeRange`, which fills the start time into the captured request |
| `Commit` | `RELEASE SAVEPOINT`; serializable isolation lets it through only while the row read is unchanged |
| `Retry` | `crdbpgx.ExecuteTx` rolls back and runs the closure again, or gives up after `max_retries` |
| `Lose` | the connection breaks before, in or after the commit: the client does not know whether there was an effect |

Between the runs of a call others commit, operational intents increment the
index (`Notify`), and the subscription may be deleted (`Delete`).

| Property | Kind | What could break it |
| --- | --- | --- |
| `TypeOK` | invariant | more runs than `max_retries` allows, a phase without its request |
| `ImplementsAtomicCalls` | refinement | an effect after a refusal, a start time from a row that is gone, a notification lost with the index written back |
| `RefusedForCause` | action | a valid request refused without a retry that explains it |

The refinement mapping is the identity on the row, the availability, the requests
and the answers; the control variables disappear. The abstract start time of a
creation is any instant of the call, since the closure that commits may not be the
one that filled it in.

### 2.4 `RID`

| Variable | Code |
| --- | --- |
| `now` | the clock of the database |
| `isas`, `subs` | the tables; a row has owner, cells, times, writer and version |
| `gc` | per server, where its collector stands and the ids and versions that it listed |
| `stamp` | the last `updated_at`, which is the version of a row |
| `crashes` | bound on failures |
| `answered`, `known` | observation: what each subscriber was told of each ISA |

| Action | Code |
| --- | --- |
| `PutISA`, `DeleteISA` | `InsertISA`, `UpdateISA`, `DeleteISA` with the notification of the affected cells, one transaction |
| `PutSubscription` | `InsertSubscription`, `UpdateSubscription` up to the commit |
| `AnswerSubscription` | the search that follows, outside the transaction |
| `DeleteSubscription` | itself |
| `ListExpiredISAs`, `CollectISA`, `ListExpiredSubscriptions`, `CollectSubscription`, `EndCollection` | `DeleteRIDExpiredRecords`, statement by statement |
| `Crash` | a statement fails or the server stops: the run of the collector is over |

The search of the answer is a step of its own because the code makes it one
(`subscription_handler.go:173`); likewise the collector's listing and each of
its deletions. The loop over the listed rows returns after the first that it
deletes, and so does the model. Notification indices are left to `SCD`:
those of RID are reset by an update, in one line that needs no model.

| Property | Kind | What could break it |
| --- | --- | --- |
| `TypeOK` | invariant | rows without a writer, collectors with rows of no table |
| `SubscribersKnowISAs` | invariant | an ISA written between the commit of a subscription and the search of its answer |
| `NoStaleISA` | invariant | an ISA that moves and is not told of where it was; four siblings that became a parent |
| `SubscriptionsPerArea` | invariant | an update, a prolongation or a move that is not counted |
| `CollectsOnlyExpired` | action | a row prolonged between listing and deleting |
| `ExpiredAreCollected` | liveness | a collector that finds nothing, or the same rows for ever |

Fairness: `WF_vars(Collect(g))` for every server. `cmds/core-service/main.go:158`
schedules the job again and again, `SkipIfStillRunning` keeps one run at a time,
and nothing disables the next step of a run but a crash, of which there are
finitely many. Nothing makes clients act or an answer arrive.

### 2.5 `VertiportSchedule` and `VRP`

The tables `vertiports`, `ops`, `subs` and `constraints` are variables; `aware` and
`known` observe which OVNs a write was checked against and what an explicit
subscriber was told last. No guard reads the two.

| Action | Code |
| --- | --- |
| `PutOpWithImplicitSub`, `PutOpWithCoveringSub`, `PutOpExtendingSub`, with `StoreOp` | `PutVertiportOperationalIntentReference` |
| `DeleteOp` | `DeleteVertiportOperationalIntentReference`, with the implicit subscription and what the schema's `ON DELETE CASCADE` takes with it |
| `PutSubscription`, `DeleteSubscription` | `PutVertiportSubscription`, `DeleteVertiportSubscription` |
| `PutConstraint`, `DeleteConstraint` | the constraint handlers |
| `PutVertiport`, `DeleteVertiport` | themselves: no owner, no look at what refers to the vertiport |
| `FATOAvailableTimes`, `UsedParkingPlaces` | `GetVertiportFATOAvailableTimes`, `GetNumberOfUsedParkingPlaces`: queries, so operators |

Version counters, OVNs, notification indices and the limit of a search are line by
line those of `SCD` and are left to it. The queries are evaluated in every
reachable state, for every window and for every order in which the rows of each
table may come back (`BusyPeriods`). What they compute is in `VertiportSchedule`:
`ComputeFreeTimePeriods` cuts one busy period after the other, as the loop does, and
`ComputeNumberOfUsedParkingPlaces` is a set of numbers, one for every order in which
`sort.Slice`, which is not stable, may leave the changes of one instant. No handler
checks that a window ends after it begins, so `Windows` may contain others; a window
without an instant comes back as it is. The knowledge of the USS behind an implicit
subscription is not followed: it has asked nothing.

| Property | Kind | What could break it |
| --- | --- | --- |
| `TypeOK` | invariant | rows with times that are absent |
| `ExplicitSupportCovers` | invariant | a subscription put again after it moved away as an implicit one |
| `ConflictsSeen` | invariant | a move, a prolongation or a return to a state that requires a key |
| `SubscribersKnow` | invariant | an entity that falls between the answer and the notifications |
| `StaleOnlyByDeparture` | action | a deletion by cascade, or a deletion or change that is not announced |
| `FreeTimesExact` | invariant | a period lost or left when several are cut out |
| `ParkingCountBounded` | invariant | arrivals and departures counted in the wrong order |
| `FreeTimesAnswered` | invariant, refuted | a reservation that shares one end with a free period |

### 2.6 `Startup`

| Part | State | Actions |
| --- | --- | --- |
| databases | `db`: per database whether it exists, its version, whether a step is torn | |
| db-manager, one per schema | `mgr` | `MgrStart`, `MgrApply`, `MgrRecreate`, `MgrRecord`, `MgrPanic`, `MgrCrash` |
| core-service | `core`, `store`, `backoff`, `crons` | `Dial`, `CheckRID`, `CheckOther`, `Authorize`, `RefreshFails`, `Retry`, `Restart`, `CoreCrash` |
| http-gateway | `gateway` | `Register`, `RetryRegister` |
| surroundings | `dbUp`, `keysUp` | `DatabaseDown`, `KeysDown`, `Recover` |

A step of a migration is a file of statements without a transaction around it;
the last one records the version. `torn` says that statements have been executed
which do not allow the file to be executed again; `Rerunnable` names the steps whose
statements all say `IF NOT EXISTS`. The last step of remote ID renames its
database and creates an empty one under the old name, where another job or the
core-service may look in between. The core-service tells errors that may pass
(`codeRetryable`) from those that end the process, and `Dial`, `CheckRID` and
`CheckOther` do so as the code does at each place.

| Property | Kind | What could break it |
| --- | --- | --- |
| `TypeOK` | invariant | an index past the list of waiting times |
| `OneCollector` | invariant | a scheduler that outlives a failed attempt |
| `ServesSupportedSchemas` | invariant | a check of the wrong database, a version that is taken back |
| `OnlyCrashesStick` | invariant | a step that another job's step makes impossible |
| `EventuallyServing` | liveness | a service that waits for what never comes, or ends for what would have come |

Fairness is weak, on `Migrate(f)`, `Serve`, `Forward` and `Recover`: processes go on,
and Kubernetes starts them again when they end with an error: the core-service and the
gateway as containers of a Deployment (`build/deploy/base.libsonnet:83`), whose restart
policy is `Always` unless something else is said, the migrations as Jobs with
`restartPolicy: 'OnFailure'` (`build/deploy/base.libsonnet:203`). So `EventuallyServing` is
about that deployment. In `build/dev/docker-compose_dss.yaml` only the database has a
restart policy; there a core-service or a migration that ends stays down until
somebody starts it, and liveness is not promised. Outages end. Crashes and outages are not fair and
are finitely many.

## 3. Runs

TLC explores every state of the instances below. Unless noted, those of `SCD` have
two operational intents and two subscriptions of one USS, two extents that overlap in a cell and
in time, two states (one that needs a key and one that does not), two seconds,
two versions per entity, a notification index of at most three.

| Run | Instance | Result |
| --- | --- | --- |
| `SCDCore` | extents that touch in time instead, subscriptions that fit one of them or start a second late, skew 1 | 185,409 states up to symmetry; all seven properties hold |
| `SCDConstraints` | two USSs, one operational intent, one constraint, all notification flags, skew 1, subscriptions without a footprint, over one cell or that start late, one second | 141,284 states; support and notification hold |
| `SCDFencing` | `SCDSessions`: two sessions of one USS, one entity of each kind, three seconds, three versions, any number of writes in a second | 408,405 states up to symmetry; `ImplementsReadModifyWrite` holds |
| `SCDSameSecond` | subscriptions alone, no skew | `OVNFencing` fails: a subscription that is updated in the second of its creation keeps its version |
| `SCDOrphan` | subscriptions with open times, no skew | `ImplicitHasDependent` fails: an update without a subscription id leaves the old implicit subscription behind |
| `SCDDeafSupport` | subscriptions without altitudes, which may ask for constraints alone, no skew | `OperatorInformed` fails: an operational intent names such a subscription as its support, and another comes to conflict with it |
| `SCDMerge` | two extents that are halves of four sibling cells, no skew | `NotifiesAffected` fails: an extension stores the parent cell, which no search finds |
| `SCDTransactions` | two writes of a subscription and an arbitration, a start time that is given or not, two retries, three instants, no skew, an index of one | 1,193,795 states; the three properties hold |
| `RID` | one owner, one ISA, two subscriptions, two servers, two cells that are all siblings, a quota of one, three writes, four instants, one crash | 372,420 states; the six properties hold |
| `VRP` | one USS, one vertiport, two operational intents, two subscriptions, one constraint; reservations that overlap, touch and share an end; three windows, one of them empty; two instants | 121,744 states up to symmetry; the seven properties hold |
| `VRPFreeTimes` | as `VRP`, with one operational intent | `FreeTimesAnswered` fails: a query answers an error |
| `Startup` | SCD and VRP enabled, two waiting times, one outage, one crash | 468,737 states; the five properties hold |

### Bounds, and why they are enough

`MaxTime`, `MaxVersion` and `MaxIndex` bound the counters in the guards of `Tick`,
`StoreOp` and `PutConstraintReference`, and `BelowMaxIndex`. Every property relates at
most two entities and a subscription or two, over one step or over the writes
that set two rows: two entities, two subscriptions and two versions let each be
created, overwritten, deleted and created again. `retired` matters only through
which OVNs are stale, and two seconds give one that is stale and one that is
not. The two extents of an operational intent give moves that shrink and grow
in space and time; a subscription covers both, or one of them, or (in `SCDConstraints`) only the
second cell. A subscription is notified of its own operational intent, so an index
of three lets a second one be added to it and the first be deleted; with two the
deletion of an operational intent with a shared subscription would never happen. The
proofs of section 5 need no bounds.

Of `SCDCore`: one extent ends in the second in which the other begins, which is also the
second in which a late subscription starts, so every comparison of times is made at its
boundary. An implicit subscription that is updated to start late still supports the
first extent, which is what the skew of 1 allows; what meets it then does so in that second.
`SCDDeafSupport` leaves the altitudes
out because `ValidateDependentOp` refuses to update a subscription without them while
something depends on it: the deaf subscription is then one that was named, and
not one that went deaf later (`PutSubscription` lets an explicit or an implicit one do so).

Of `SCDSessions`: a session reads in the second after a creation, others write in that
second or the next, and the session names its outdated OVN; an index of three lets an operational
intent that notifies its own subscription be written three times. With an index of two
no update with an outdated OVN would come to the check. Sessions meet only in the
entity they write, so two are enough.

Of `SCDTransactions`: two writers and an arbitration are enough for every way in
which calls interfere, since each refers to one row and the rows of `sub` and `avail`
are independent; two retries let a closure see its own first run and then another
writer's effect. With no skew, one tick makes a filled-in start time too old.

Of `RID`: `MaxWrites` is three, so that a subscription and an ISA are written
and one of them is written again while a collector has it listed. The two
cells are all the siblings of their parent, so a move from one to the other makes
the union that is normalised. A row expires at instant two at the earliest, and
the clock goes to three. Two servers let one write what the other wrote first. The
crash comes once; `ExpiredAreCollected` needs that there are finitely many, not that
there is one.

Of `VRP`: the reservations of a zone show every case of `Cut` that two of them can
show: equal, contained, sharing an end, touching. Two zones let an implicit
subscription move. One USS is enough for the knowledge of a subscriber, because
notifications do not look at the manager; the theorems are for any number. The lists
that the queries go through have at most three periods; the theorems are for lists of
any length.

Of `Startup`: a job per schema, one core-service and one gateway are the whole
deployment of an instance; two waiting times give one that is followed by another and
one that is the last.

Model values of USSs, operational intents and subscriptions are symmetric in the runs
of `SCD`, sessions in `SCDFencing`, those of operational intents and subscriptions in
`VRP`: no definition orders them, and those runs check no liveness.

Deadlock is checked in all runs but two. In
`SCDTransactions` the calls are finitely many and end. `Startup` rests when everything
serves, or when a migration is stuck.

Fairness is stated in `RID` and `Startup`, as section 2 says, and needed by
`ExpiredAreCollected` and `EventuallyServing` alone.

### Mutants

Each of the 32 properties that a passing run checks has a mutant there: an operator next to the definition it
replaces, with a plausible slip (only the new volume is notified, periods that
touch do not count, an update forgets the index, an implicit subscription is
dropped while others depend on it, a conflict search asks for containment, a row is
deleted whatever its version, a scheduler is not stopped), under which the run fails. So no property holds by the shape of the model.

## 4. What the code does differently from its documentation

Five runs show a difference; `PROJECT.json` quotes the lines.

- Same-second writes (`SCDSameSecond`). The API calls a version something "that
  the DSS changes every time"; here it changes every second. A stale client may
  then overwrite a version it has not seen. OVNs are made in the same way, and section
  2.2 says what a client can still count on.
- Orphaned implicit subscriptions (`SCDOrphan`). Nothing removes them, and
  they collect notifications until a USS deletes them by hand.
- Deaf support (`SCDDeafSupport`). The API wants the supporting subscription to
  provide notifications for operational intents; the handler does not look at the flags
  of the one that a request names. `ListeningOperatorInformed` is what holds.
- Merged siblings (`SCDMerge`). The union is normalised, the search compares
  ids.
- Failing free times (`VRPFreeTimes`). A comment says that a busy period which
  covers a free one leaves nothing; the condition below it misses the case of exactly
  one shared end, and the query answers an error instead.

More are visible in the model without a run:

- `DeleteOperationalIntentReference`, `DeleteConstraintReference` and
  `DeleteSubscription` have a version parameter and no guard that reads it.
- `KeySuffices` asks for the OVN of the operational intent that is being updated,
  which `scd.proto:506` says is not needed.
- `PutSubRow` stores `implicit |-> FALSE`: an update of an implicit
  subscription makes it explicit, and it then survives its operational intent.
- `Reported` keeps an index with the row that it comes from. SQL states no order for the rows
  of `UPDATE ... RETURNING`, so with two subscriptions to notify a response may credit each
  with the index of the other (`repos.go:100`).
- With a `MaxResultLimit` below the number of entities, `MutualAwareness` and
  `NotifiesAffected` fail: a truncated search is no error.
- No action removes a subscription that has ended (`scd.proto:521` says the DSS
  does).
- `ArbitrationEffect` has no condition on the version: `old_version`, "for consistent
  read-modify-write operations" (`scd.proto:610`), is read by nobody.
- `RefusedForCause` allows one refusal that no client can understand: a request
  without a start time is refused because a run before a retry filled one in
  (`AdjustTimeRange` works on the captured request, in SCD as in RID).
- `ListExpired` compares the writer with the collector's locality. The code means to
  find rows with no writer as well (the comment at
  `identification_service_area.go:266`), but `writer = NULL` is true of no row; the
  mutant `ListExpiredOfNullWriter` shows what becomes of them.
- `Extended` moves an implicit subscription of VRP to another zone or vertiport and
  leaves its other dependents without coverage. `ExplicitSupportCovers` is therefore
  about explicit subscriptions alone.
- `StoreOp` and `PutConstraint` of VRP notify the place that an entity reaches and not
  the one that it leaves, which SCD and RID do: `StaleOnlyByDeparture` is as much as can
  be said.
- `FATOAvailableTimes` returns a window that ends before it begins as a free time: no
  handler refuses it.
- `NewStore` for remote ID is tried once more in the database of its older name, where
  it can never succeed (`ServesSupportedSchemas`).

## 5. What is proved

For every set of USSs, ids, requests and cells, and every bound:

| Theorem | Module | Statement | Under |
| --- | --- | --- | --- |
| `TypeCorrect` | `SCDProofs` | `Spec => []TypeOK` | |
| `SupportNeverDangles` | `SCDProofs` | `Spec => []SupportExists` | |
| `SupportAlwaysCovers` | `SCDProofs` | `Spec => []SupportCovers` | |
| `ConflictsAreKnown` | `SCDNotificationProofs` | `Spec => []MutualAwareness` | `WithinLimit` |
| `IndicesHaveNoGap` | `SCDHistoryProofs` | `Spec => []NotificationGapFree` | |
| `SessionsImplementReadModifyWrite` | `SCDHistoryProofs` | `SessionSpec => ImplementsReadModifyWrite` | |
| `SessionsUseSCD` | `SCDHistoryProofs` | `SessionSpec => Spec` | |
| `AffectedAreNotified` | `SCDNotificationProofs` | `Spec => NotifiesAffected` | `SubsWithinLimit`, `NoMerging` |
| `OperatorsAreInformed` | `SCDNotificationProofs` | `Spec => ListeningOperatorInformed` | `SubsWithinLimit`, `NoMerging` |
| `TransactionsTypeOK` | `SCDTransactionsProofs` | `TxSpec => []TypeOK` | |
| `TransactionsImplementAtomicCalls` | `SCDTransactionsProofs` | `TxSpec => ImplementsAtomicCalls` | |
| `TransactionsRefuseForCause` | `SCDTransactionsProofs` | `TxSpec => RefusedForCause` | |
| `RIDTypeOK` | `RIDProofs` | `Spec => []TypeOK` | |
| `RIDNoStaleISA` | `RIDProofs` | `Spec => []NoStaleISA` | |
| `RIDSubscribersKnowISAs` | `RIDProofs` | `Spec => []SubscribersKnowISAs` | no more ISAs than `MaxResultLimit` |
| `RIDCollectsOnlyExpired` | `RIDProofs` | `Spec => CollectsOnlyExpired` | |
| `RIDSubscriptionsPerArea` | `RIDProofs` | `Spec => []SubscriptionsPerArea` | |
| `CutOutExact` | `VertiportScheduleProofs` | what one round of `CutOut` leaves | the round does not fail |
| `ComputedFreeTimesExact` | `VertiportScheduleProofs` | what `ComputeFreeTimePeriods` leaves | it does not fail, busy periods are not empty |
| `ComputedUsedPlacesBounded` | `VertiportScheduleProofs` | what `ComputeNumberOfUsedParkingPlaces` may return | busy periods are not empty |
| `VRPTypeOK` | `VRPProofs` | `Spec => []TypeOK` | |
| `VRPExplicitSupportCovers` | `VRPProofs` | `Spec => []ExplicitSupportCovers` | |
| `VRPConflictsSeen` | `VRPProofs` | `Spec => []ConflictsSeen` | |
| `VRPSubscribersKnow` | `VRPProofs` | `Spec => []SubscribersKnow` | |
| `VRPStaleOnlyByDeparture` | `VRPProofs` | `Spec => StaleOnlyByDeparture` | |
| `VRPFreeTimesExact` | `VRPProofs` | `Spec => []FreeTimesExact` | |
| `VRPParkingCountBounded` | `VRPProofs` | `Spec => []ParkingCountBounded` | |
| `StartupTypeOK` | `StartupProofs` | `Spec => []TypeOK` | |
| `StartupOneCollector` | `StartupProofs` | `Spec => []OneCollector` | |
| `StartupServesSupportedSchemas` | `StartupProofs` | `Spec => []ServesSupportedSchemas` | |
| `StartupOnlyCrashesStick` | `StartupProofs` | `Spec => []OnlyCrashesStick` | |

### SCD

Every theorem rests on the assumptions of the modules, all named and evaluated by
TLC in every run: `CellsAssumption` (siblings are cells, their parent is not),
`NilAssumption` and `NilIsNoRow` (`Nil` is neither a number nor a row),
`RequestsAssumption` (requests are of the types the parsers produce),
`BoundsAssumption` (bounds are naturals), and for sessions `NilIsNoReading`.

The last column is what the code does not guarantee and the theorem needs:
searches that stay below their `LIMIT`, and footprints that never complete four
siblings. `SCDMerge` refutes `NotifiesAffected` without the second; without the first
TLC finds a violation in `SCDCore` as soon as `MaxResultLimit` is below the number of rows.
Nothing is assumed of how often clients write in a second, of the clock skew, or of what
clients ask to be notified of.

**Support.** `SupportExists` and `SupportCovers` are one inductive invariant,
`SupportInv`: per operational intent, its subscription exists, has the same manager
and covers it. Each is needed for the other: an extension must know that the other
dependents were covered before, and a deletion that there is a row to look at. One
lemma per kind of supporting subscription (`ImplicitSubReady`, `CoveringSubReady`,
`ExtendedSubReady`) shows that the row `StoreOp` finds supports the new volume;
`UnionArea` that normalisation loses no area; `NotifiedRowSupports` that an increment
disturbs no support; `SubscriptionSupport` uses `ValidDependentOp` for updates and
the absence of dependents for deletions; `DeleteOpSupport` that a removed implicit
subscription had one dependent. `StepSupport` puts them together, one step per
action. The three theorems hold for any siblings, so also where `SCDMerge` shows
that subscribers are missed.

**Awareness.** `MutualAwareness` is inductive with `TypeOK`. A write is checked
against every stored operational intent it matches (`SearchIsComplete`, which needs
the limit), and matching is symmetric (`MatchesOpSymmetric`), so a write restores
the invariant from whichever side it comes.

**Indices.** `NotificationGapFree` says nothing of missing rows; `IndexInv` adds
that they have no history, since an id may be used again. `NotifyingTells` is the
step all four notifying handlers share.

**Read, modify, write.** The invariant `SessionInv` says, beside `TypeOK`, that what a
session has read is `Settled`: the OVN of a version that its entity has or had (`Seen`),
of an earlier second than `now`. The OVNs that somebody may know only grow (`SeenGrows`), so
a reading stays settled (`StaysSettled`). A write gives its entity an OVN of the second
that it is made in, which no settled reading has; so a write makes every
reading of its entity outdated, whoever it is by and whatever was written before in the same
second, and it outdates no reading of another entity (`OutdatedBasis`). Conversely an
update that is accepted named the current OVN, so its session had the entity as its
basis (`UpdateSimulated`). `KindsOfStep` divides the steps of `SCD` into writes, deletions
and steps that change no entity, and each is shown to be the abstract step of its name.

**Notification.** `ConcernedIsFound` shows that a subscription a volume concerns
is found by a search in any larger volume, also after its extension, and
`NotifyVolumeContains` that the volume searched contains the place left and
the place reached. `OperatorsAreInformed` combines this with `SupportInv`: what
meets an operational intent, and is not over within the skew, meets the subscription
that covers it (`SupportIsConcerned`). That this subscription listens, if it is
implicit, is the invariant `Listening`: the DSS makes it so, an extension keeps the
flag, and an update makes it explicit (`PutOpListening`, `StepListening`).

### Transactions

The inductive invariant says of every call what the closure has captured
(`Captured`: the client's start time, or an instant of the call, or the start of the
row of the version named), that a call under way was sent and is not answered
(`UnderWay`, `NotSent`), that a closure which is about to commit read the version that
its request names (`RanOnNamedVersion`), and that versions in use were given out
(`VersionsGiven`). The last is what keeps a captured start time valid: a row of the
version named cannot come back with another start. `EffectIsAtomic` shows that a
commit is an effect that `AtomicCalls` allows; `StepIsAtomic` that every other step is
an abstract step or a stutter. `RefusedForCause` needs one invariant more, `FirstRun`: before a retry the captured
request is the client's.

### RID

`IInv` is `TypeOK` with `Versions` (versions were given out), `Listed` (what a
collector has listed is expired and of its locality, if it still has the version
listed) and `Told` (what a live subscriber holds for current exists, in its cells).
`Listed` is inductive since a write gives a version that no list has. `Told` rests on
`AffectedCellsCover`: splitting a normalised union into level 13 again loses no cell,
for any set of siblings. `SubscribersKnowISAs` then needs complete searches, which is
the one assumption. `SubscriptionsPerArea` is a count: a lemma shows that a write adds
at most the subscription itself to a set that had room.

### VRP

`IInv` is `TypeOK`, `ExplicitSupportCovers`, `ConflictsSeen`, `KnowsWhatItAsked`
(knowledge is only followed for explicit subscriptions that asked) and
`SubscribersKnow`. `MeetIsFound` connects searches with the shared instants of the
properties. `DeleteOpStep` shows that the cascade of the schema never deletes more
than the request names; with it, `StaleOnlyByDeparture` follows. `IdsAssumption` says
that there are finitely many ids, so that the rows of a table are a list.

**Schedules.** `VertiportScheduleProofs` is about the arithmetic alone, for any list of
busy periods. The loops over lists are recursive functions; the library's principles for
them take operators as parameters, which the provers cannot instantiate, so the module
states its own with sets and functions: `LeastElement` (from `NatLessThanWellFounded`),
`Induction` over a set of numbers, and `Recursion`, that a function which is defined
step by step exists. `CutOutExact` says that a round leaves an instant exactly if
it was free and is not in the busy period; `ComputedFreeTimesExact` carries that along
the rounds, as long as none fails. For the used places, `UsedCounts` says that after a
prefix of the sorted changes the places used are the periods whose beginning has been
seen less those whose end has. From below: the prefix of all changes up to an
instant (`SortedPrefix`), in whatever order they are within it, counts what overlaps there
(`UsedAtLeast`). From above: where the maximum is reached, every period that
counts has begun and not ended, so that it holds the instant of the last change
(`UsedAtMost`).

In `VRPProofs`, `PeriodsNonEmpty` is the invariant that the arithmetic needs: a stored
reservation ends after it begins, which the schema's `CHECK (starts_at < ends_at)` sees to
and not the handlers. `BusyPeriodsListed` says that the periods the queries
go through are those of the entities in the zone, once each in whatever order, and
`Corresponds` turns a count of positions in the list into a count of entities.

### Startup

`IInv` is `TypeOK`, `Migrations`, `Halted` and `Checked`. `Migrations` splits the life
of the remote ID database at its renaming (`BeforeRenaming`, `AfterRenaming`), which is
what makes `db["defaultdb"].version` 0 whenever `rid` exists, and follows the
others by `OtherMigration`. `Halted` says that without outages and crashes no job is
off in the middle of a step. `Checked` follows what the core-service has found so far
(`Started`, `Good`) together with its scheduler; a supported version is never left,
because db-manager only goes up (`MigrationStep`). The proof treats a step of one
job once for all others (`OthersUntouched`).

### What is only model-checked

- `ExpiredAreCollected` and `EventuallyServing`: liveness under fairness is out of the
  prover's reach, as `ENABLED` is.
- The refuted properties. Without the conditions of the last column above, TLC shows
  how the properties of `SCD` fail.

No module declares a recursive operator.

## 6. Plan

The order was: SCD, whose protocol matters most; its transactions and its clients, each
with the abstract specification it implements; RID with its collectors; VRP with the schedule
queries; start and migration. All of these are done. What could follow:

1. **The panics.** `ValidateDependentOp`, `GetNumberOfUsedParkingPlaces` and the
   parsing of a VRP subscription dereference absent values. A composition of `Startup`
   with the handlers would show what one such request does to the requests of others.
2. **Rows without a writer** in `RID`, as a migration of old data would leave them,
   beside collectors with and without a locality.
3. **Steps down** of db-manager, and migration to a given version.
4. **Resources** that a retry of the core-service leaks: pools and statistics jobs.

## 7. What is not modelled, and why

- Polygon and circle coverings are geometry over floating point, outside the reach of
  TLC and of no interest to the protocol. Of the S2 hierarchy one parent with its
  children is kept.
- Get and Query requests change nothing. Those whose answers another property relies on
  (the OVN of a reference, the search in the answer of a subscription, the schedule
  queries) are modelled.
- The verification of a token is a function of the token and the keys. What depends on
  time, that keys are resolved at the start and that a failed refresh ends the process, is
  in `Startup`.
- The repositories for schema version 3 of remote ID (`*_v3.go`): a service that insists
  on version 4 never calls them.
- db-manager's way down and other values of its `db_version` parameter than the latest
  version, which the deployments in `build/` ask for.
- Parsing and validation of a request, apart from what later steps depend on; URLs and
  names.
- The dummy OAuth server, a test fixture; logging and errors, which no step depends on.
- Generated code. The protobuf, gateway and OpenAPI files under `pkg/api` and
  `interfaces` are about 29,000 of the repository's 43,000 lines of Go; they translate
  formats and decide nothing, and a model of them would be the identity. The models
  stand for the part of the hand-written code that changes state.
- What CockroachDB promises: serializability, and that `RELEASE SAVEPOINT` commits.
  `SCDTransactions` uses both; interleavings inside a transaction are the database's.
