# RideFlow in TLA+

Specifications of the ride backend of this repository: what its handlers do to
rides, drivers, sessions and the SQLite file, how drivers are matched and routes
found. They are checked with TLC on small instances and, for the properties that
matter most, proved with TLAPS for all of them. Source files are named without
their directories, which `PROJECT.json` gives.

## The system

RideFlow is one C++ process: a Crow HTTP server (`runCrowServer`,
WebServer.cpp:2183-2763) over two objects, `DemoRideBackend` and `AuthStore`,
which share one SQLite file over two connections. Riders request rides, drivers
accept and carry them out, an administrator watches, forces statuses, manages
accounts and resets the demo.

| Component | State | Operations | What makes it correct |
|---|---|---|---|
| `DemoRideBackend` (WebServer.cpp:238-1428) | `rides`, `drivers`, `driverByEmail`, `riderByEmail`, fees, `nextDriverId`; all behind `backendMutex` | one public method per route; restart; demo reset | a driver serves one ride; his status agrees with the rides; rides only move forward |
| `RideService` (RideService.cpp) | `rideCounter` | create, assign, start, add stop, cancel, complete; recompute the route | guards of the lifecycle, the driver is freed, the fee; the sum of the legs |
| `RideHistoryStore` (RideHistoryStore.cpp) | nine tables; `storeMutex`, taken inside `backendMutex` | `saveRide` (a transaction), single-statement upserts, `clearAll` (seven statements, no transaction), loads | after any crash the tables say something true |
| `DriverMatchingService` | none between calls | `findNearestDrivers`: a route search per driver, a bounded max-heap | the k nearest available drivers, nearest first |
| `RouteService`, `CityGraph` | the campus graph, constant after start | A* over time | a fastest route, or none if there is none |
| `AuthStore` (AuthStore.cpp) | `users` table; `sessionToEmail` in memory | register, login, logout, session check, (de)activate | a token acts for one account; what was answered is in the file |
| routes (WebServer.cpp:2183-2763) | none | `requireRole`, handler, audit row, each under its own lock | requests do not mix; who was deactivated is logged; nobody waits for ever |
| pricing, vehicles, notification, pages, `Main.cpp` | none | arithmetic, console output, HTML | not modelled |

How they interact: a route asks `AuthStore` for the account, releases that lock,
then calls one method of `DemoRideBackend`, which holds `backendMutex` for its
whole body, changes memory, and writes to the store while still holding it.
Administrator routes then log the action with the mutex released. `AuthStore` and
`RideHistoryStore` meet only in the SQLite file, where each sees the other as a
lock. `RideService` asks `RouteService` for each leg of a ride, and
`DriverMatchingService` asks it for the way of every driver to the pickup.

What is hard here: Crow runs handlers on several threads, so requests of riders,
drivers and the administrator meet in any order, and between the check of a
request and its handler another request may undo what was checked; memory is
changed before it is saved, and the process may end between any two writes; a
restart rebuilds everything from `ride_history` alone, with new counters; there
is no busy timeout, so a statement that meets the other connection's lock fails
at once, and what becomes of that differs from caller to caller;
`ensureDriverForAccount` writes the saved availability over the live status on
every driver request, reads included; the route search stops early, on an
estimate. `PROJECT.json` lists these hazards at their lines with the properties
that cover them.

## The modules

| Module | Models |
|---|---|
| `RideBackend` | `DemoRideBackend`, `RideService`'s lifecycle and the tables of `RideHistoryStore` |
| `RideLifecycle` | what it promises: a ledger of rides that only moves forward, with the fee due exactly on cancellation after assignment; implemented by `RideBackend` with `ride_history` as the ledger |
| `RideBackendPromises` | `RideBackend` with a record of what replies and documentation told the users |
| `SqliteFile` | the two connections to one file, statement by statement: `saveRide`, `persistRide`, and the methods of `AuthStore` |
| `AtomicSaves` | what `RideBackend` takes for granted of `saveRide`: whole or not at all; implemented by `SqliteFile` |
| `Sessions` | `AuthStore`: accounts, tokens, restarts; one action per public method |
| `HttpServer` | the routes on several threads with their mutexes and the audit log, over `Sessions` |
| `RouteSearch` | `CityGraph::addRoad` and `RouteService::findShortestRoute`, queue entry by queue entry |
| `RideRoute` | `recomputeRoute`: a search for every leg, composed with `RouteSearch` |
| `DriverMatching`, `NearestDrivers` | the loop of `findNearestDrivers` with the times known beforehand; what "k nearest" means |
| `Dispatch` | the same loop with a search for every driver; composes `DriverMatching`'s heap with `RouteSearch` and implements `DriverMatching` |
| `MC*` | small instances for TLC |
| `RideBackendProofs`, `RideStoreProofs`, `SqliteFileProofs`, `HttpServerProofs`, `RouteProofs`, `RideRouteProofs`, `DriverMatchingProofs`, `DispatchProofs` | theorems |

The seams: `RideBackend` uses a table of minutes (`Eta`) and any k nearest
drivers; `Dispatch` shows that this is what the searches and the heap deliver. It
writes a ride in one step; `SqliteFile` shows that the statements amount to that,
or to nothing (`save_fails`). It takes one handler at a time; `HttpServer` has the
threads and mutexes that make it so.

### RideBackend

State. `rides`, `drivers`, `driverByEmail`, `rideCounter` and `nextDriverId` are
the members of the same names; a ride's fee is `cancellationFeeByRideId`. Driver
ids `Dn` and `DWEB-n` are both the number n, which loses nothing because
`nextDriverId` starts at the number of seeds. `rideTable`, `profiles`, `ratings`
and `reasons` are the tables `ride_history` (with `ride_stops`),
`driver_profiles`, `ride_ratings` and `cancel_reasons`. `pending` holds the
writes that the running handler has not yet made, in the code's order;
`backendMutex` is free exactly when it is empty.

Actions. One per handler, named as in the code. Since a handler reads and changes
memory under the mutex, that is one step; each write to SQLite that follows is a
step of its own (`WriteRide`, `WriteDriverProfile`, `WriteRating`,
`WriteCancelReason`, `ClearTable`), and so is its failure (`WriteRideFails`,
`WriteIsLost`, `ClearTableThrows`). Nothing but a crash can come between them.
Every driver handler includes what `ensureDriverForAccount` and
`getDriverProfile` do (binding the account, inserting the default profile,
refreshing location and status), also when the handler then refuses: that case is
`DriverState`. Other refusals change nothing and are stutters. `Reset` reseeds
memory and leaves `clearAll`'s deletions to be made; `Boot(T)` is
`initializeDemoState` followed by `restorePersistedRides` of the table T.

Faults, a constant of each instance: `crash` ends the process between two steps
and restarts it; `crash_in_reset` lets that happen inside `clearAll`;
`save_fails` lets `saveRide` roll back unnoticed (RideHistoryStore.cpp:240-265) and
the single-statement saves fail, at whose result nobody looks (:406, :473, :516);
`clear_fails` lets a DELETE of `clearAll` throw (:65-73, :345-354): the rest is not
deleted, the request is answered 500, and the process goes on with the memory that
`reset` had reseeded (WebServer.cpp:791-807), its counters set back below the rows
that are still there. The history variable `outdated` is true from such a reset,
if it left rows, until a reset empties `ride_history`.

Which of equally near drivers is taken is left open, as a `priority_queue` leaves
it. Fares, distances, names, rider numbers, stars and comments are left out: no
handler decides anything by them.

### SqliteFile

A ride is its version number, which every change in memory raises. `save` is the
step of `persistRide` and `saveRide` (BEGIN, upsert, stops, COMMIT, ROLLBACK) and
`auth` that of a method of `AuthStore` (a select that fails reads as "no such
row"; a write that fails is reported). `lock` is SQLite's lock per connection in
rollback-journal mode: none, shared, reserved, pending, exclusive; `written` is
what the open transaction has written and `file` what is committed. SQLite itself
is not under `src/`; its locks are modelled from how both stores open and use the
file (default journal, no busy timeout) and those definitions are marked external.

### Sessions and HttpServer

`users`, `sessionToEmail` and `nextSessionId` are `AuthStore`'s. A request is the
sequence of locks and statements that its route still has to run (`todo`), one
step each, so any thread may step in between: after `requireRole`, around
`backendMutex` and `storeMutex`, before the audit row. `saveDriverProfile` takes
no lock, because `getDriverProfile` calls it with the lock held. What handlers do to
rides is `RideBackend`'s subject.

Any statement may fail, as `SqliteFile` says when; here it is modelled what the
routes make of it. A COMMIT that throws (`CommitThrows`, RideHistoryStore.cpp:287)
frees `storeMutex` and leaves the transaction open on the connection that all
requests share. From then to the restart (`LeftOpen`) every BEGIN throws and
`persistRide` prints it (`BeginThrows`), every other statement joins the open
transaction (`Joins`) and is never committed, and the lock refuses `AuthStore`'s
statements, so that no session check passes and only the requests that had passed
theirs go on. `logAdminAction` looks at no result, so its row may be lost (`RowLost`)
while the request succeeds; `clearAll` throws and the reset is answered 500 with no
audit row (`ClearThrows`); an account change that fails is answered as refused
(`UserRefused`). `auditTable` is what is committed of `admin_audit_logs`.

`late` and `excused` are history variables: `late` says that somebody was deactivated
on the order of an administrator who was inactive by then, `excused` holds the
accounts about which two requests overlapped or whose audit row a crash took, the
file refused, or nobody committed.

### RouteSearch, RideRoute, Dispatch

Metres stand for kilometres; lengths are in quarters of a metre and estimates in
4000ths of a minute, so that 1.25 times the straight line, rounding up to whole
minutes and 80 km/h are all integers. The straight line is any symmetric
distance with the triangle inequality (`RoadsAssumption`), of which the
haversine is one; that a road, which is 1.25 times as long as the straight line,
is no faster than the estimate holds up to 100 km/h (`RoadsAssumption` again);
the code's roads have 18. There are finitely many places, as in the
`unordered_map` that holds them, and two of them may be at the same point. `openSet` is the queue with its outdated entries; any
entry with the least estimate may be on top (`Top`). `RideRoute` and `Dispatch`
run one search after the other and keep what they add up or put into the heap.

### RideBackendPromises

History variables only: the status last set for a driver and by whom, who saved a
profile, and who was seen since the restart. No guard reads them.

## What TLC checks

Runs that pass, with the bounds of the cfg and the distinct states found.

| Run (cfg) | Bounds | Shows |
|---|---|---|
| `backend` (MCRideBackend) | 1 rider, 2 driver accounts, 2 seeded drivers of which one ON_TRIP, 2 places, 2 rides, crashes; 1.95 million, depth 42 | types; no driver on two rides; ON_TRIP exactly while serving; driver and fee agree with the status; after every handler the store is the memory; one account per driver; a rating belongs to the ride that shows it |
| `accounts` (MCRideBackendAccounts) | 3 driver accounts, 1 seeded driver and 1 `DWEB` number, 2 rides, crashes, failing saves and a `clearAll` that throws; 2.23 million | reissued `DWEB` numbers never join two accounts, except after a reset that threw over old rows |
| `durable` (MCRideBackendDurable) | 2 rides, a stop each, two trips, crashes in the reset too; 0.86 million | `ride_history` implements `RideLifecycle`; rows keep their identity; never two active rows of a driver |
| `sqlite` (MCSqliteFile) | 2 rides of 2 versions, 2 accounts, restarts; 50 thousand | saves are atomic (`AtomicSaves`); a transaction stays open only after a failed COMMIT; what `AuthStore` answered holds; a deactivated account is not revived by registering it |
| `server` (MCHttpServer) | 2 threads, 3 accounts of which 2 administrators, 2 sessions per life, restarts, any statement failing; 2.62 million | what a COMMIT commits is its own request's; some administrator stays active; the audit log tells the truth; tokens keep their owner |
| `answers` (MCHttpServerAnswers) | 3 threads, 2 accounts, any statement failing; 0.80 million | no deadlock over the two mutexes; requests keep being answered (liveness) |
| `routes` (MCRideRoute) | 5 places, two of them at one point, every subset of 7 roads of which one names no place, up to 2 stops; 0.58 million | each leg is a fastest route, against all simple ways; path and totals agree; a place is settled once; the way back through `previous` has no circle; a stop never shortens a ride; every ride's routes get computed (liveness) |
| `dispatch` (MCDispatch) | fleets of 0 or 4 drivers of 7 kinds, limits 0 to 3, two campuses, one cut in two; 0.42 million | heap invariant, result, refinement of `DriverMatching`; the call returns (liveness) |

Why the bounds are enough for what they are asked: exclusivity and status need
two rides and a driver who could take both; an id needs to be lost by a restart
and given out again, for which one id to give, three accounts to give it to, and
two rides suffice, one in the rows that a throwing reset leaves behind and one made
after it, which is how two accounts come to share a driver while `outdated` holds;
a heap of limit k
needs k + 1 candidates, with a tie at the top; a place is reached again and sooner
only if the first way to it leads over another place, which five places allow
twice over (`MCCampus` is built so that it happens); that a settled place is
reached again, or a path leads in a circle, would first show on a road that takes
no time, so two places share their coordinates; a deadlock needs as many
threads as mutexes, and a third that holds neither; a deactivation on an overtaken
check needs two administrators.

The run `accounts` cuts its state space twice, each named in `MCRideBackend`.
`MCAccountsView` leaves `ratings` and `reasons` out of the fingerprint: no guard of
that instance reads them and the property does not. `MCLossWithOneRide` stops at
states in which both ride numbers exist and the memory of one is not in step with
its row (nor about to be by the last pending save): saves are lost in every way
while there is one ride, and clearing fails in every way with two. The proof
(`DriversNotShared`) has neither cut.

Fairness. In `HttpServer` each thread is weakly fair: the operating system runs a
thread that can run. Nothing is assumed about who gets a mutex, about clients or
about restarts, so a single request may starve; `ServerKeepsAnswering` says that
they do not all wait for ever. `RideRoute` and `Dispatch` are sequential
computations, weakly fair as a thread is. `RideBackend` and `SqliteFile` state no
fairness and no liveness: nothing in them retries or waits, and a rider's request
may stand for ever. Deadlock is checked everywhere except in `routes` and
`dispatch`, whose computations end.

Every property of a passing run has a mutant in `PROJECT.json`: a definition with
a plausible bug (`EnsuredStatus_NoRideCheck`, `FeeFor_StartedOnly`,
`AfterRefusal_Logged`, ...) under which the property fails in the same run.

Runs that show a disagreement between code and text, each with one property that
quotes the text:

| Run | The text | The code |
|---|---|---|
| `unsaved_transition` | readme.md:364 "All lifecycle transitions are persisted to SQLite immediately" | a session check under way makes `saveRide`'s COMMIT fail; the exception is printed and the handler answers ok |
| `reset_crash` | AI_HANDOFF.md:111 "new ride IDs do not collide with saved history" | the counter reads `ride_history` only, which `clearAll` empties before the other tables |
| `availability_lost` | AI_HANDOFF.md:224 availability is persisted | it is not read at start |
| `vehicle_never_applies` | WebServer.cpp:1099 "Vehicle changes apply after the next session refresh." | a known driver's vehicle never changes |

What `SqliteFile` shows of a failed COMMIT beyond that run: the transaction stays
open, so that every later BEGIN throws and every later save is lost without
notice; the lock it holds refuses session checks; and all this lasts until the
restart. `HttpServer` has what other requests make of it: their statements join the
transaction and are lost, but none of them comes to a COMMIT, which is why
`TransactionIsOwn` holds of every COMMIT all the same.

Behaviour of the code that no text of the repository excludes, so that no property
forbids it:

- a row of `admin_audit_logs` may be missing after a failed insert, a crash, or a
  COMMIT that threw; `AuditTellsState` says that those which are there never tell
  what was not done;
- a reset whose `clearAll` throws leaves rows under reseeded counters: the next rides
  overwrite the old rows of their numbers, a restart brings the others back, and one
  driver may then be bound to two accounts;
- a request to rebook may be made of a ride of any status; a rejected ride may be
  given to the driver who rejected it; a forced driver status is undone by the
  driver's next request; a request to create a ride that is sent twice makes two;
- a cancel reason is saved before the ride, so that after a crash it may stand
  alone;
- `getDriverProfile` takes a select that fails on a lock for a missing row and
  writes the default profile over the real one;
- the road to `GIRLS_HOSTEL` names a place that does not exist, so that
  `GIRLS_ROOM` is cut off, and a leg that cannot be reached counts as 0 minutes;
- a stop may lower the fare (the fastest way without it may be longer in
  kilometres) although the message prints a plus sign;
- the demo reset empties `admin_audit_logs` with the rest;
- a driver seeded ON_TRIP serves no ride, and only the administrator frees him.

## What is proved

For every value of the constants that satisfies the named assumptions
(`BackendAssumption`, `RoadsAssumption`, ...): every number of
riders, drivers, rides, places, threads, accounts and restarts. `RideBackend`'s
theorems, by the faults they allow:

| Theorem | Property | Faults excluded |
|---|---|---|
| `TypeCorrect` | `TypeOK` | none |
| `DriverGoesWithStatus` | `DriverFromAssignmentOn` | none |
| `DriversNotShared` | `OneAccountPerDriver`, which exempts the states after a reset that threw over old rows (`outdated`) | none |
| `NoDoubleService`, `StatusMatchesRides` | `ActiveExclusive`, `BusyIffServing` | a crash together with failing statements |
| `RestartIsSafe` | `StoreExclusive` | failing statements |
| `StoreFollowsMemory`, `RowsKeepIdentity`, `ImplementsRideLifecycle` | `StoreInStep`, `DurableIdentity`, `DurableLifecycle` | failing statements |
| `RatingsStayWithRides` | `RatingsBelong` | failing statements, a crash inside `clearAll` |

Failing statements are `save_fails` and `clear_fails`; without both is `Reliable`.
The exclusions are needed: a restart that reads a stale row can bring a driver
back to two rides, a reset that throws leaves rows of rides that memory no longer
has, whose numbers are then issued again, and the run `reset_crash` shows what a
crash in `clearAll` does to ratings.

The arguments, each an inductive invariant that is stronger than its property:

- Types (`RideBackendProofs`). `TypeOK` is inductive because its part on
  `pending` says that a ride is saved last and is a ride of the memory.
- Exclusivity (`RideBackendProofs`, `IInv`). What keeps a driver from a second
  ride is his status, so `ServingBusy` says that the driver of an active ride is
  ON_TRIP. A step that ends a ride sets its driver AVAILABLE, which is right only if
  he has no other ride (exclusivity again) and if a request has no driver. A new
  ride must have a new number (`IdsIssued`). A restart keeps all this only if the
  table it reads is safe (`TableSafe`), which the write of a ride preserves because
  every other row is in step with the memory, and the reset because memory is empty
  while the tables are cleared (`ResetEmpties`).
- Accounts (`RideStoreProofs`, `AInv`, while not `outdated`; what remains after is
  `RidesGood`, `OInv`). Failing saves make rows older than the
  memory, but not wrong: a ride's driver is set once, with the vehicle asked for,
  and an account's driver never changes while the process lives. So a row's driver
  and account are those of the memory even when the ride has moved on (`RowsKnown`),
  and any two rows agree on them (`TableInv`), which is what a restart needs to
  rebuild bindings of which no two share a driver. Handlers are first reduced to
  what they do to rides, drivers and bindings (`Handler`), and the invariant is
  shown of that.
- The store (`RideStoreProofs`, `InStep`). A row is at most one handler behind its
  ride, so its write is one move of the ledger. That the ledger's assignment takes
  a free driver needs `IInv`, that it is the first needs `AInv`. Ratings stay right
  because a completed row does not move again.
- `SqliteFileProofs`: what `written`, the lock and the transaction are at each step
  of `saveRide` (`OpenInv`) and of `AuthStore` (`WriteInv`); from that,
  `ClosedUnlessCommitFailed`, `AnswersHold`, `RegistrationRevivesNobody`, and
  `ImplementsAtomicSaves`, step by step.
- `HttpServerProofs`: the place of a thread in its request determines which mutexes
  it holds, and that a transaction is its own while it has a COMMIT to come, left
  open or not before (`MutexInv`), who still owes an audit row (`OwesInv`) and on whose order
  it acts (`ActorInv`); from that, `TransactionsKeptApart`, `AuditIsTrue`,
  `AdministratorStays`, `TokensKeepOwner`, for any number of threads. `NoDeadlock`
  is `MutexInv` once more: who holds `storeMutex` asks for nothing, who holds only
  `backendMutex` asks for `storeMutex` at most. That `GoesOn` is when a thread's
  step is possible can be read from the guards; `ENABLED` is out of the prover's
  reach.
- One search (`RouteProofs`, `SearchInv`). The estimate never falls by more than a
  road's minutes, so a place that is taken off the queue at its best time is worth
  no more than anything left there, and no road leads back to it sooner
  (`SettledNotImproved`). So it is final (`PlacesStaySettled`), predecessors are
  settled places and the path's sums are the answer (`PathsAreRoutes`), and the
  state in which the search stops has a potential that no road can beat
  (`RoutesCertified`). Minutes do not order places along a path, as a road may take
  none; `OrderInv` says that some numbering does, and a place reached anew can be
  numbered last because nothing settled was reached from it: hence `PathsAreSimple`.
- Fastest routes (`RouteProofs`, `RideRouteProofs`). `FastestRoute` compares the
  answer with all simple ways, whose times are a recursive function. Ways of any
  length (`Way`) carry the minutes up to each place, and what is said along them is
  proved by its least counterexample: that the recursive function is the last of
  those minutes (`TimeOfWay`), that a potential bounds them (`PotentialBounds`), that
  a way with a place twice can be cut to a simple one that takes no longer
  (`CutWay`, `SimpleWay`), and that two ways can be joined (`JoinWays`). So
  `LegsAreFastest`; and fastest times obey the triangle inequality
  (`FastestTriangle`), which with an invariant on the sum so far and the sum before
  the last stop (`TimesInv`) gives `StopsCostTime`.
- `DriverMatchingProofs`: adding a candidate to k nearest of a set, and dropping a
  farthest, gives k nearest of the larger set, for any finite fleet; the loop and
  the emptying of the heap keep that (`HeapIsNearest`, `NearestReturned`,
  `BackendViewHolds`).
- `DispatchProofs`: every minute in the heap or about to enter it is that of a
  finished search, so by the above the one in `DriverMatching`'s table (`DInv`).
  Each step of the searching loop is then a step of `DriverMatching` or a stutter
  (`SearchesDoNotMatter`), the invariant of `DriverMatchingProofs` carries over
  under the same substitution, and with it `HeapIsNearestByRoad`,
  `NearestByRoadReturned` and `BackendViewByRoad`.

Only model-checked: all liveness (`ServerKeepsAnswering`, `RouteComputed`,
`MatchingReturns`), which TLAPS cannot prove under fairness (`SomebodyGoesOn` and
`PlacesSettleOnce` are the safety it rests on), and the four disagreements. Every
other property of a passing run is stated by a theorem.

## Not modelled

- Pricing, vehicles and their factory: stateless arithmetic on doubles, by which
  nothing is decided.
- `NotificationService`, pages, JSON, CSV, receipts and exports: they read state
  and print it. The console demonstration of `Main.cpp` and `auth/test.cpp` keep no
  state of their own.
- `saved_locations` and `driver_status_logs`: rows of one request each, that no
  handler decides by. `admin_audit_logs` is in `HttpServer`.
- Rider ids, names, passwords, salts and hashes: they decide nothing beyond whether
  a login succeeds, which is a choice of the model.
- The deployed graph and the haversine formula: the models take any graph and any
  metric.
- Vendored code under `third_party`.

## What is left

1. In `RideBackend` a failing statement is a fault that comes and goes; in
   `SqliteFile` and `HttpServer` a transaction that was left open stays so until the
   restart, and what it holds is visible to its own connection until then. A
   composition with `RideBackend`'s tables would show which of the backend's
   properties survive that.
2. What can be said of the rows after a reset that threw, beyond `DriverGoesWithStatus`.
3. Saved locations and the status log, once something reads them to decide.
