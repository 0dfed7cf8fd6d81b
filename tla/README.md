# A verification project for Kurdel

Kurdel is a TypeScript framework: an HTTP runtime with modules and an IoC
container, adapters for Node and Express, a database package for SQLite and
PostgreSQL, migrations, and authentication with a database backend; its sample
`auth-db` is a server and a browser console built of all of them. These TLA+
modules model the parts of it whose correctness depends on what happens
*between* steps: several processes, concurrent requests, failing statements,
crashes, leases that expire, middleware that does what it likes. TLC checks them
on small instances and TLAPS proves the main results for every instance.

Paths below are under `src/packages/`, those that begin with `sample/` under `src/`.

## 1. The system

| part | state it keeps | operations | what is hard | what makes it correct |
|---|---|---|---|---|
| migration lease, `migrations/src/migration-lock.ts` | one row: owner, expiry | `initialize`, `acquire`, `release` | expiry, crashes, an old date in `acquire` | running leases exclude each other |
| migration manager and registry, `migrations/src/migration-manager.ts`, `migration-registry.ts`, `migration-loader.ts` | table `migrations`, the schema itself, the directory | `run`, `rollback`, `refresh`, `status` | several processes, a crash between `up()` and the INSERT, files that come and go | one worker at a time, each migration recorded once, registry and schema agree, batches in order |
| schema builder, `migrations/src/schema.ts`, `blueprint.ts`, `column.ts` | none | `create`, `createIfNotExists`, the blueprint's calls | a script that stops between two statements and runs again | running again completes it; the last word on a column counts |
| SQLite connection, `db/src/sqlite-db.ts` | promise queue, connection, open transaction | `get`, `all`, `run`, `transaction`, `close` | interleaved requests on one connection, failing BEGIN, COMMIT and ROLLBACK, nested use | the `Database` contract: each call atomic, in order; no transaction leaks; no call is forgotten |
| PostgreSQL connection, `db/src/postgres-db.ts` | a pool of clients | the same | READ COMMITTED, pool limit, a dirty client | the same contract, with weaker isolation |
| drivers, connector, query builder, `db/src/*` | none | configuration, SQL text | - | - |
| JWT sessions, `auth-db/src/database-jwt-session-service.ts` | sessions, refresh tokens | `create`, `createRefreshable`, `refresh`, `revoke`, `revokeAll` | concurrent refreshes, revocation during a refresh | a token is exchanged once and no token is lost |
| passwords and resets, `auth-db/src/database-password-service.ts` | credentials, reset tokens | `set`, `change`, `createReset`, `reset` | concurrent resets, sessions created meanwhile | a reset is spent once, a change leaves no session, replaces what was verified |
| users, roles, permissions, `auth-db/src/database-user-service.ts` | users, roles, permissions and their links | create, update, delete, bulk operations, role operations | names resolved, users looked up and holders counted before the transaction; ids that are used again | nothing names a free id; who gets a role was meant to; a role in use stays |
| password login, `auth/src/password/password-authentication-service.ts`, `auth-db/src/database-password-authentication-protection.ts` | failures, window, lock per login | `authenticate`; `assertAllowed`, `recordFailure`, `recordSuccess` | concurrent attempts, late records, windows and locks that end, a password that changes meanwhile | a lock holds and was deserved; a session follows its password |
| API keys and events, `auth-db/src/database-api-key-service.ts`, `database-auth-event-store.ts` | keys, audit rows | issue, revoke, list | a key issued while its user is deleted; an event that fails | a key has a user; an outcome has its event |
| strategies, policies, auth middleware, `auth/src/**` | registries | decide on one request | several reads while others revoke and disable | the handler runs only for those whom the route admits now |
| orchestrator and pipe, `runtime/src/http/runtime-request-orchestrator.ts`, `runtime-middleware-pipe.ts` | one request's place in the zones | `execute`, `dispatch` | failures in failures, streams, short circuits | everyone is answered, FINAL runs, an answered request stops |
| adapters, `runtime-node/src/http`, `runtime-express/src/http` | the response | render, `sent`, dispatch | what `sent` says and when | - |
| router and registries, `runtime/src/http` | route table, middleware lists | `init`, `resolve`, `for`, `all` | pattern order, merged metadata | the first fitting route with all that it declares, by priority |
| composition and lifecycle, `runtime/src/app`, `runtime/src/modules` | container, hooks, server | `bootstrap`, `listen`, `close` | asynchronous providers, hooks that fail, requests during start and close | what a module imports is there; shutdown undoes start |
| IoC container, `ioc/src/runtime` | bindings, singletons | `bind`, `get`, `createScope`, the graph | scopes that bind anew, singletons, cycles | scopes are isolated, one instance per singleton |
| sample server, `sample/auth-db/src` | its modules, routes, policies | the handlers of the above | what the packages leave to the application | as above |
| sample console, `sample/auth-db/src/admin` | the tokens of a tab, screens and dialogs | gestures, calls, one refresh and one retry | calls told 401 at once, several dialogs at once, answers after one has closed or shows another user, lost refreshes | one refresh at a time; no button or spinner waits for nothing; an answer finds its form |
| facade, CLI, templates, common, core | none | wiring, text, types | - | - |

How they interact: an adapter calls `ServerModule`'s handler, which opens an IoC
scope and calls the orchestrator; middlewares and controllers call the services
of `auth` and `auth-db`; those call `Database.transaction`, which is a
serial queue on SQLite and a pooled client on PostgreSQL; migrations use the same
`Database` from other processes, with the lease row as their only means of
coordination; the console knows the server by its answers and the two tokens it holds.

`PROJECT.json` lists every component with its status, and every hazard found in
the code with the line where it bites and the properties that cover it.

## 2. The modules

| module | models | kind |
|---|---|---|
| `MigrationLock` | the lease row and its clock | specification |
| `MigrationManager` | extends `MigrationLock`: the operations, the registry, the directory | specification |
| `SchemaBuilder` | `Blueprint`, `Column` and `Schema` | operators |
| `MCMigrationManager` | numbers of migrations, symmetry; facts on `SchemaBuilder` over bounded inputs | for TLC |
| `MigrationProofs` | theorems on the lease and the managers | proofs |
| `SerialDatabase` | what `Database` (`db/src/interfaces.ts`) promises | abstract specification |
| `SqliteDB` | `SQLiteDB`, which implements `SerialDatabase` | specification |
| `SqliteProofs` | theorems on `SqliteDB`, the refinement included | proofs |
| `CredentialService` | what these services promise for one user: operations that happen as a whole | abstract specification |
| `CredentialTransactions` | the transactions of JWT sessions, passwords, resets and user status | specification |
| `MCCredentialTransactions` | symmetry | for TLC |
| `CredentialProofs` | theorems on `CredentialTransactions`, the refinement included | proofs |
| `UserAdministration` | users, roles, permissions and keys, administered by concurrent requests | specification |
| `MCUserAdministration`, `AdministrationProofs` | symmetry; theorems | for TLC; proofs |
| `PasswordLogin` | attempts at one login, the protection, the session they end in | specification |
| `MCPasswordLogin` | symmetry | for TLC |
| `RequestAuthorization` | router, auth middleware, strategies and policies for one request | specification |
| `AuthDbRoutes` | the route table of the sample | data |
| `MCRequestAuthorization`, `AccessProofs` | the table and calls that are tried; theorems | for TLC; proofs |
| `RequestPipeline` | `execute()` with the pipe, the renderer, the adapters' response and the fallback | specification |
| `PipelineProofs` | theorems on `RequestPipeline` | proofs |
| `ContainerScopes` | container, scopes, graph and the resolution of controllers | specification |
| `MCContainerScopes` | the classes that are tried | for TLC |
| `ModuleLoading` | composer, module loader, provider registrar, and what they ask of the container | specification |
| `ApplicationLifecycle` | extends `ModuleLoading`: `listen`, start hooks, clients, `close`, shutdown hooks | specification |
| `SampleApplication` | extends `ModuleLoading`: the sample as modules, the middleware registry | operators |
| `MCApplicationLifecycle` | the applications that are composed; facts on the chains of middlewares | for TLC |
| `LifecycleProofs` | theorems on `ApplicationLifecycle` and `ContainerScopes` | proofs |
| `SessionClient` | `api-client.ts` of the console | operators and actions |
| `AdminConsole` | extends `SessionClient`: the screens and dialogs | specification |
| `MCAdminConsole` | symmetry | for TLC |
| `LoginConsoleProofs` | theorems on both ends of a signed-in user, `PasswordLogin` and `AdminConsole` | proofs |

Some operators carry the comment *Mutant*: each is a definition of the model
changed as a plausible bug would change it, used to see that a property notices.
They are no part of any specification.

### MigrationLock and MigrationManager

`row` is row 1 of `migration_locks`. `acquire()` is two steps, because its date
is computed in the process (`ReadClock`) and compared in the database
(`Acquire`, `AcquireRefused`). `release()` deletes the row only if it is the
caller's. Every process is a manager with its own owner id; one that died comes
back as another manager. All processes read one clock.

`MigrationManager` adds a program counter per process with one value per `await`
of the code: `acquire`; `findToRun`, `next`, `up`, `add`; `last`,
`findToRollback`, `down`, `remove`; `release`. A migration is its number in file
order (`readdir` of Node sorts), so the loops of `runMigrations` and
`rollbackMigrations` take the least and the greatest element of a set. `rows`
is the registry, with ids given as SQLite and PostgreSQL give them to an
insert without id; `schema` is what the migrations did. Every step may fail, and a
migration that fails may have done its work or not. A process may die at every
step. Files are added in any order and taken away.

The guard of `Clock` under `WorkFitsLease` is an assumption on the environment,
not something the code enforces: no live process is still at work when its
lease ends. Section 5 says what happens otherwise.

`SchemaBuilder` has no state of its own: `Configure` is what a sequence of builder
calls makes of an empty blueprint, and `CreateTable` executes the statements of
the result one after the other, up to a given number, on a catalog of names.
TLC evaluates the facts about it as `ASSUME`s of `MCMigrationManager`.

### SerialDatabase and SqliteDB

`this.queue = result.then(...)` is a ticket queue: a call's operation runs when
every earlier one has settled. A transaction holds its turn from BEGIN IMMEDIATE
to COMMIT or ROLLBACK, and its session bypasses the queue. A statement is the
value it writes. BEGIN, COMMIT and any statement may fail, some failures end the
transaction by themselves, ROLLBACK then fails as well, the handle may never have
opened, and another process may commit to the same file whenever the write
lock is free. A callback may call the outer database, as the documentation warns
it should not.

`SerialDatabase` is the contract: each call resolves at one instant, with all
its writes on top of the store it saw, or is rejected with none. The mapping hides what an unsettled or rejected
call saw and wrote.

A callback is assumed to await its statements and to end when one of them fails.

### CredentialService and CredentialTransactions

The rows of one user: sessions, their refresh tokens, the password, reset
tokens, the status. Each operation is the list of its SQL statements, in the
order of its callback, and each statement is a step. `Serialized` chooses the
database: one transaction at a time, which is what `SqliteDB` shows of `SQLiteDB`,
or statements of READ COMMITTED transactions that read committed rows and their own
writes and wait for rows another transaction has written. Any statement and the COMMIT may
fail (`Abort`); expiry, an unknown user and a client that goes away end in the
same step. Two SELECTs that cannot change an outcome for a user that exists (in
`set` and in `revokeAll`, where it only feeds audit rows) and the audit rows
themselves are left out.

`CredentialService` is what callers may take these operations for: between a call and its answer
each happens once and as a whole, with its guards and its effects in the same state, or is refused and
changes nothing. It has no statements, transactions or rows; a new token is one that nobody has, and a
refresh finds its session by the token. Over SQLite `CredentialTransactions` implements it (`ImplementsService`): the rows are what is
committed, the pending reset is the reset row that is there, and a call knows no more than its caller told it. It is
the sequential specification that a stale read, a row changed in between or half of an operation would break.

Caution: an insert made by another transaction while a statement
waits is visible here and would not be to that statement in PostgreSQL, so only
`ResetTokenSpentOnce` is claimed for it, by proof (section 4).

### UserAdministration

`users` and `roles` are the rows by id; an id that has become free is given again,
as SQLite does. `at[c]` and `job[c]` are a request and what it has found so far. The
services run on `SQLiteDB`, so that a `db.transaction` is one step, which is what
`SqliteDB` is shown to implement; a `db.get`, `db.all` or `db.run` outside one is a step of
its own, and other requests come between. `foreignKeys` is TRUE where the
connection has asked SQLite to enforce them (the seed script and the tests do, `SQLiteDB`
does not), and either in the run. `dependents` are the users that rows of the other tables name. Names,
e-mail addresses and paging are left out. `held` and `moved` are history: who has held a role ever since it was
to be deleted, and which calls have found a role that has been renamed or deleted since.

`GrantsAreAsked` compares what a user comes by with the *names* a call asked for, and not with the ids it has
found: those are resolved before the transaction, and by then may be those of other roles. What the code allows is what the
property allows, that the role which has the id by then is given; it allows nothing beyond, neither roles that
an earlier user with this id had, nor those of an update that wrote nothing but links. A call names its user by id, and
that another user may have got the id is not seen.

### PasswordLogin

One login name, any number of attempts at a time, each await of `authenticate` a
step: the read of the lock, the credential, the hash, the user, the records, the
session that `AuthDbController.login` creates. `count`, `start` and `locked` are the
row of the protection; the clock runs between the steps, and `recordFailure` has
read it before its statement runs. Other requests change the password and the
status. `failures`, `until`, `shut` and `since` are history that the properties need.

### RequestAuthorization and AuthDbRoutes

`Table` is what `RuntimeRouter.init` makes of controllers and routes, with `mergeAuth`,
and `Resolve` the first entry that fits. `request.at` is the statement that comes next: the
session or the key, the user, the roles, the permissions, the usage, the events. Any of
them may fail. One user owns the credentials; what a forged, malformed or
expired token says is the absence of a credential, and `live` are the credentials whose rows
are good. `ever` is what was true of the user at some moment of the request. `Routers` chooses
`RuntimeRouter` or one that hands over all that a route declares, which tells what
`mergeAuth` drops from what the middleware does.

### RequestPipeline

One request; requests do not share framework state. `stage` is the place in
`execute()`, `at` the index of `dispatch()`, `value` what the call of `next()` settled
with. Middlewares are not programs but choices: call `next()`, settle with
nothing, a result or an error without calling it, pass the outcome on, replace it or
lose it, write to the response. The FINAL zone is run by three places in the code, which
`exit` tells apart. `Sent` is `res.sent`: true on Node once the response has been
ended, never on Express. `platform` and the number of middlewares per zone are
chosen at the start. A client that disconnects and a source stream
that fails are left out.

### ModuleLoading and ApplicationLifecycle

A module is a record of what it asks of the container and does to it: imports,
providers and exports, the tokens its `register()` gets and binds, whether it awaits, and
the hooks it pushes. The modules of the framework are six such records, behind
which come those of the application, chosen at the start. `SampleApplication` derives the
records of the sample's modules from the constructors of their classes: what a
`register()` resolves is all that is reached from it. `stage` is the place
in `RuntimeComposer.compose()` and `ModuleLoader.init()`; `at` and `k` are its two
loops. A token stands for its binding; two that are always bound together share a name.
Code runs to its next `await`, and the loader awaits only `register()`: a factory's
promise settles there or later (`SettlePending`), and when it is rejected, nobody
handles that and the process ends (`"crashed"`).

`ApplicationLifecycle` adds the server with its keep-alive connections and each call of
`close()`. What `node:http` does is modelled from how the adapters use it: the
handle is there at once or after the host has been looked up; closing takes the
handle away and calls back when the last connection has ended, to the first caller
with success and to every later one with an error; closing before the handle is
there cancels the listening. `ServerRunner.close()` runs the hooks in both
cases. The hooks are a list of modules; `closed` is the set of those whose
shutdown hook has done its work.

Left out: a listen error on Express 5, which is passed to the ready callback; what a
failed `bootstrap()` leaves open; work that a handler goes on with after its
answer; a second `listen()`.

### ContainerScopes

All calls are synchronous, hence one step each. `dict` is the dictionary of every
container, `made` the objects in the order of their construction, each with its
dependencies and the container whose binding made it. `GetWith` is one call of `IoCContainer.get`, and
`Resolve` the `map` over its `depsMap`, which resolves one dependency after the other, each in the
world that the one before has left. `GetAll[n]` is what calls answer that have `n` levels of the stack left, a level being a
call under way or a dependency resolved before it; with none they throw (`"overflow"`), so that a circular dependency, which
in the code ends in a `RangeError`, does here. A factory closes over the root container, as those of
the modules do. A class of a controller that no container has is built with an empty
list of dependencies.

### SessionClient and AdminConsole

The server is seen through its tokens: `tokens[n]` is the n-th pair with the session
it belongs to, whether its access token still works and its refresh token can
still be spent. A call and its answer are one step, any answer being possible that the
server could have given since the call was sent; only the refresh is told apart into
sending, serving and answering, because its token is spent in between. A call is `"waiting"` for the
shared refresh after its first 401, and `"restoring"` when it is `restoreSession()`, whose request is the
first one and may be repeated once, as any other.

`ui` is the screen, the dialogs that are open, which components are submitting (`busy`) or show that
they load (`loading`), what the dialogs hold, and the effects that React has yet to run. The dialogs are
states of their own, as in the code: a backdrop stops the mouse, but there is no `inert` and no focus trap, so that
the page behind a dialog works with the keyboard. Hence several dialogs are open at once, filters and logging out work behind them, and `Select`
puts another user into an open `ManageUserDialog`, which has no `key` and so keeps all of its state: `chosen` is the
prop `userId`, `shown` the user in its state, and `switched` is history, that another user has been chosen
since the dialog was opened. `about` of a call is the user it was sent for.

A call whose component has been unmounted is an `"orphan"`, of which
nothing is left but `onUnauthorized`; one that reports to the dashboard or to `Admin` goes on doing so (`life = "closed"`).
Calls that shared a refresh that failed are rejected one after the other (`Reject`), each with its own handler, and
nothing else of the page runs before they are: they are continuations of one answer.

One call stands for the two GETs of `ManageUserDialog` ("load"), one for the lists of keys and events ("read"), and one kind
for issuing and for revoking a key ("change"), whose forms are local to `ApiKeyManager` and left out. So are rows,
filters, the display of a new key's secret, and messages, among them "Loading API keys..." (section 5).

## 3. The runs

| run | bounds | properties |
|---|---|---|
| `migrations` | 2 processes, 3 migrations, lease of 2 ticks, clock to 3, 1 crash or failure, 1 file withdrawn | `LeaseExclusion`, `OneWorker`, `RecordedOnce`, `OneTearPerFault`, `BatchesInOrder`, `RollbackRemovesNewestBatch` |
| `sqlite_db` | 3 calls of any kind, 2 statements in a callback, 1 commit of another process | `SettleInOrder`, `NoLeakedTransaction`, `ImplementsContract`, `EveryCallSettles` |
| `credentials_sqlite` | 2 concurrent requests, 2 sessions, 3 refresh tokens, 2 reset tokens, 2 passwords | `RefreshTokenSpentOnce`, `ResetTokenSpentOnce`, `HandedTokensAreStored`, `PasswordChangeRevokes`, `ImplementsService`, `OneResetToken` |
| `credentials_refresh_race` | create and refresh only, 1 session, READ COMMITTED | **violated**: `RefreshTokenSpentOnce` |
| `administration` | 2 requests at once, 3 in all, 2 ids, 2 role names, 1 permission, 3 keys | `KeysHaveUsers`, `FreeIdsAreUnnamed`, `GrantsAreAsked`, `HeldRoleStays` |
| `login` | 2 attempts at once, 4 in all, 2 failures lock, window and lock of 2 ticks, clock to 4, 1 change | `LockHolds`, `LockIsDeserved`, `SessionsHavePasswords` |
| `access` | one request at a time, the 26 routes of the sample with two ids and 8 calls more, both routers | `AdmittedByTheDatabase`, `OutcomesAreAudited` |
| `access_policies` | the same behind `RuntimeRouter` | **violated**: `PoliciesGrant` |
| `pipeline` | up to 2 middlewares in each of 5 zones, both platforms | `FinalCount`, `EveryRequestAnswered`, `StoppedRequestsStop`, `EveryRequestSettles` |
| `lifecycle` | 20 applications with and without a database, one module more by `use()`, 2 connections, 2 calls of `close()`, 2 requests | `AnswersBeforeHooks`, `ClosedInReverse`, `ResolvedMeansClosed`, `MissingImportIsMissing`, `EveryCloseSettles` |
| `container` | the root and 1 request, 3 tokens, 3 objects, a stack of 8 levels | `ScopesAreIsolated`, `OneSingleton`, `CyclesAreReported` |
| `console` | one tab, 2 users, 2 dialogs open at once, 2 calls at once, 2 pairs of tokens | `BusyMeansWaiting`, `AnswersFindTheirForm`, `PresentedOnce` |

Why the bounds are enough for the questions. *Migrations*: two processes
are a holder and a contender; a clock of three ticks lets a dead holder's
lease expire and be taken over; three migrations leave one inside, one
before and one after a batch boundary, and one of them can be withdrawn; every
migration operation runs any number of times. *SqliteDB*: three calls are a
transaction, one nested in it and one behind both; two statements can be
separated by a failure. *Credentials*: two requests are every pair of operations
at every pair of statements, and the two sessions and three tokens let each
request create or rotate after the other. *Administration*: two requests are one that has
looked something up and one that takes it away, the third call uses the id again. *Login*: two
attempts can both be past `assertAllowed`, four can fill a window twice, and the clock
outlasts a window and a lock that follows it. *Access*: a decision concerns one request,
and what others do is not bounded. *Container*: three tokens are a class, what it
depends on and what both do; three objects are one of each; with two dependencies at most, three different tokens
need 6 levels of the stack, so that only a chain that comes back exhausts 8. *Console*: two
calls can be told 401 at once, and the second pair of tokens is the one they go on with; a
third call in flight would wait like the second; two dialogs are the one that an answer belongs to and one that is opened,
closed or answered meanwhile, and two users are the one that it is about and another. The theorems need none of
these bounds. *Pipeline*: with two middlewares the
first can replace or lose what the second did, and every zone may also be empty.
*Lifecycle*: the applications have up to three hooks, so that one can fail between two others, modules
below and above the priorities of what they import, tokens bound twice, promised
or never, and no server at all; two calls of `close()` overlap at every step, and
two connections can be at different points when the first of them comes.

Some facts about operators are `ASSUME`s, which TLC evaluates before a run: in
`migrations`, that the last of `notNull()` and `nullable()` counts (`LastNullabilityWins`), that a
`createIfNotExists()` that stopped half way is completed by running it again (`RerunCompletes`) and that
`create()` is for once (`CreateIsForOnce`); in `access`, that no route of the sample hides another
(`RoutesAreReachable`); in `lifecycle`, the chains of the sample's middlewares
(`SampleChains`) and the order of every chain of three (`ChainsAreSorted`).

### What the violated runs say

* `credentials_refresh_race`: `refresh()` selects the token and then updates
  `WHERE session_id = ?`. On SQLite transactions do not overlap and the run
  `credentials_sqlite` holds; at READ COMMITTED two refreshes with one token both
  succeed. SECURITY.md line 82 of `auth-db` says that the used token becomes invalid at once.
* `access_policies`: `mergeAuth` (`runtime/src/http/runtime-router.ts:62`) hands over
  `public`, `strategy` and `roles` and not the policies, so that a route of the sample that
  names `manage-users` or `view-user` admits whoever authenticates. `core/src/http/routing/route.ts:69`
  says that every policy must grant access. Behind a router that hands them over they
  do: that is the theorem `PoliciesGrantBehindWhole`.

Deadlock is checked in `access`, `console` and `container`. It is not in the other runs because each
of these models may stop: the clocks, calls, attempts and faults are bounded, tokens and resets are used
up, callbacks on the outer database block themselves, a request ends, and an application
is refused, fails to start, crashes or is closed.

### Fairness

`SqliteDB!FairSpec` is weak fairness of every step of a call that is under way:
SQLite answers every statement, and callbacks end. Nothing is assumed of who calls, nor of
the other process. `RequestPipeline!FairSpec` is weak fairness of the request's own
steps: JavaScript's event loop runs what is ready, and middlewares,
controllers and schemas settle. Writing by hand and the end of a stream are not fair.
`ApplicationLifecycle!FairSpec` is weak fairness of answering a request, of dropping a
connection that is idle, of the server's callback and of each hook: handlers and
hooks settle, and Node ends keep-alive connections after a timeout. Requests are bounded; without the
bound a client that sends another request before each timeout would keep `close()` waiting,
which the code allows, too: it does not end open connections by itself.
The other modules state safety only: nothing that they promise must happen rests on
more than the answers of the database, which `SqliteDB` has.

## 4. The proofs

Assumed throughout: the named `ASSUME`s of the constants (a lease and a bound
on the clock that are positive, migrations that are positive numbers and finitely many, and the like), which
TLC evaluates in every run. Two say of model values what the code has by its types: that `NoToken` is
neither a token nor a refresh (`TokensAssumption`), and that the modules of an application are records of the
shape of a module, with finite lists (`LoadingAssumption`).

*Lease* (`LockIsExclusive`, `ManagersExclusive`). `LockInv` says that a lease
that still runs is the one in the row, and that no pending date is ahead of the
clock. The second part is what the first needs: a row overwritten by an old date
had expired by that date, hence by now. Two running leases are both in the row,
and the row has one owner. `ManagersRefineLock` shows that each step of a manager
is a step of the lease protocol or leaves it alone, so that the theorem carries over.

*Serialization* (`ManagersSerialized`), under `WorkFitsLease`. The strengthening
says that a working process has a lease, that the lease is still running, and
that a pending date is not too old; `OneWorker` then follows from `LeaseExclusion`.

*Registry* (`MigrationsRecordedOnce`), under `WorkFitsLease`. Names in the table are
distinct, a working process that is running migrations has only unrecorded ones to
do, and nobody else changes the table meanwhile: that is `OneWorker`.

*Batches and tears* (`BatchOrder`, `RollbackIsOfNewest`, `TearsAreFaults`), under `WorkFitsLease`, for any number
of processes, migrations, crashes and files that come and go. None of the three properties is inductive. `PhaseInv` says which
operation may be at which place: `refresh()` asks for the migrations to roll back without a batch.
`FileInv`: what is in the registry, or about to be, has its file, or had it. `OrderInv` adds to `BatchesInOrder` why a row may be written with
the number its operation has read: no row whose file is kept has a higher one, which `run()` has from reading
MAX(batch) and `refresh()`, which always writes 1, has from having taken all of them away. `UndoInv`: while a `rollback()` has rows left, MAX(batch) is the number it has read, since
all that it deletes has that number. `TearInv`: between `up()` and INSERT, and between `down()` and DELETE, the
schema has, or has no longer, the migration that the registry is about to follow; a lemma on cardinalities
then counts one tear for one fault.

*Types* (`TypeCorrect`, `SqliteTypes`, `AdministrationTypes`, `LoginTypes`, `CredentialTypes`,
`PipelineTypes`, `LifecycleTypes`). That of the managers needs lemmas on the greatest and least elements of
finite sets of numbers, which open `MigrationProofs`: batches and ids are such maxima. That of the lifecycle
follows each index through the list that it walks.

*Connection* (`SqliteSettlesInOrder`, `SqliteLeaksNothing`). `QueueInv`: tickets
are distinct, those below `serving` have settled, those above it wait, and only
the call that holds it can be inside a transaction. `DraftInv`: a callback that
runs has the transaction and the write lock of the file, the committed store is the one it
saw first, and its writes are the draft.

*Refinement* (`SqliteImplementsContract`). From the same invariant: BEGIN, session statements, throwing and
ROLLBACK of a call that ends rejected are stutters or `Reject`; COMMIT and a single statement are `Resolve`; a commit by the other process is
`Outside`.

*Credentials*. `AnyInv` holds over either database: which statements a transaction has left,
which rows it has written and nobody else may, that generated values are new, and that a
reset token that is spent is in no row and in no transaction. The row lock of DELETE ...
RETURNING is what it needs, and `ResetTokensAreSpentOnce` follows without `Serialized`. With
`Serialized`, `SerialInv` adds that one transaction is open, that what it has read is still so, what it has
written, and which rows hold the tokens that were handed out and not spent; the other
theorems on one property follow, each at the COMMIT of the transaction it is about.

*Credentials as a service* (`TransactionsAreOperations`), over SQLite and for any number of clients, tokens and passwords.
An operation happens at the COMMIT of its transaction; `BEGIN`, its statements and what it finds out about its rows are
stutters, and everything else that ends it is a refusal. `DraftInv` is what that needs: `Drafted` says of an open transaction that its
draft is the committed rows with exactly the effects of the statements it has executed, and `Saw` that what these
have read, an active user, the session and its token, the password, the reset, is so in the committed rows *now*. The second holds because nobody else commits meanwhile, which is where `Serialized` comes
in: at READ COMMITTED it is false, and `credentials_refresh_race` shows it. TLC checked `DraftInv` as an invariant of
`credentials_sqlite` before it was proved.

*Administration* (`NoOrphanedKeys`, `NoInheritedRows`, `OnlyAskedRoles`, `HeldRolesStay`). The
invariant relates what a request has found to its place, but says nothing of whether it is
still so: the transactions look again, or write rows that foreign keys check. For `OnlyAskedRoles` it keeps what is left of an answer that has
become old: every id that was found has the name that was asked for, or the call is in `moved`; and links whose user is gone are
replaced when his id is given again, so that only a call for that id can give him a role. `CountInv` says that a
role whose users were counted as none was at that moment held by nobody, so that nobody has held it
all along.

*Login* (`LocksHold`, `LocksAreDeserved`, `SessionsFollowPasswords`). `LockInv`: a lock that runs is the one
in the row, no clock that an attempt has read is ahead, and an attempt that began while it
ran has either not read the row or has read this lock. `CountInv`: the counter is at most the number of
recorded failures that its window may count, which a lemma on cardinalities keeps as failures are recorded late.
`SessionInv`: what an attempt has read of the password has been stored since sessions were
last revoked, or the attempt was overtaken.

*Access* (`AdmissionIsCurrent`, `OutcomesLeaveEvents`, `PoliciesGrantBehindWhole`), for every table of
routes, every set of policies and any changes by others. `SeenInv`: each read of the strategy has seen what it lets
through, in this very request. `EventsInv`: where the events stand at each place.

*Pipeline* (`FinalZoneRuns`, `RequestsAreAnswered`, `StoppedRequestsStay`), for any number of
middlewares. The invariant says which stages know what of the FINAL zone and of the answer, and that the
outcome of auth or pre is on its way up its zone until it is lost.

*Closing* (`AnswersComeFirst`, `ReverseOrder`, `ResolvingCloses`). `HooksInv`: a module
pushes its shutdown hook once, when it is loaded, and modules are loaded in
order, so that the list is strictly increasing; without it, closing one hook could
close another that comes earlier in the list. `CloseInv`: a call that has come to a
hook is past all later ones, and by then the server has stopped and no connection is
left. Nothing is assumed of the applications but the shape of their records, and
nothing of the number of clients or calls.

*Loading* (`SortIsStable`, `ImportsAreFound`), for every list of modules. `SortByPriority`
is shown to be a stable sort: it permutes the modules, orders them by priority, and keeps the order of
those that have the same. The model selects by rank, the number of modules that come before, so that no induction
over the list is needed: distinct modules have distinct ranks in `1..n`, and so every rank is taken. `SupplyInv`: the modules before the current one have bound all that they
supply, and the current one what it has come to, so that a token that is missing when an import is looked
at is supplied by no module of a lower priority.

*Console* (`NothingSpinsForEver`, `FormsAreFound`, `TokensArePresentedOnce`), for any number of users, of dialogs open, of calls
at once and of tokens. The first half is about pages, records of calls and user interface, and knows no step. `Struct` says
which calls can be alive on which screen (`Offstage`, `SignIn`, `Restores`), what has become of those whose component is gone (`Lives`),
that a change or a deletion is the only one, has the dialog submitting and its form shown (`Forms`), and that until another user
is chosen all that the dialog does is about one (`Choices`); `Waits` is `BusyMeansWaiting` of a page, and a page `Fits`
when it has both. Each handler takes a page that fits without the call that it answers to one that
fits, and each gesture to one that fits with the call it makes; a page only goes
*onward*, keeping the calls that others wait for. `Forms` is what makes the properties inductive: a dialog that is submitting cannot be closed or
change its view, and the answers of other dialogs, which may close their own and reload the list, leave it alone; `Select`
changes `chosen` and nothing else that an answer relies on. The second half is `TokInv`: memory and sessionStorage agree, the token
they hold has not been presented unless its answer is under way, and a refresh is under way iff calls wait for it. That
`session = storage` is what `ReloadPage` needs, which forgets the refresh and begins one with what was stored.

*Container* (`ScopesStayIsolated`, `SingletonsAreMadeOnce`), for any bindings and any depth of the stack. `Good` says of a
world that every object holds objects of its own container or of the root, and that a binding keeps the one singleton made of
it, unless it is a factory, which makes none. A call takes a good world to a good one in which the
objects are those of before and some more, also when it fails. `GetAll` is a recursive function: that one exists that satisfies
its equation is proved from the values up to `n`, which agree (`GetAllIs`), and that all its calls are sound (`GetAllIsFine`) by
the least depth at which they would not be. The deepest point is `GetWithIsSound`: a class may find its own singleton made by the time that its
dependencies are there.

*Circular dependencies* (`CyclesDoNotReturn`), for any bindings of the root, whatever was bound and resolved before. `walk()` of the graph is the least relation
closed under its rules (`WalksExist`). A call that returns with `n` levels of the stack has dependencies whose calls
return with fewer; so a token that `walk()` meets on its way back would need fewer levels than
itself (`ReturningMeetsNone`). The other way, where `walk()` meets nothing at most the tokens that it has not passed are ahead, and each needs as many levels as it has
dependencies (`GraphsFit`). That is the assumption of the theorem, `DeepStack`: finitely many tokens, lists of
dependencies no longer than some number, and a stack of more levels than both multiplied. The run's constants satisfy it, and
so do applications, whose graphs are far smaller than the stack of JavaScript; without it an acyclic graph would overflow too.

Only model-checked: the temporal properties.
`EveryCallSettles`, `EveryRequestSettles` and `EveryCloseSettles` stay with TLC: liveness under
fairness is out of the prover's reach.

## 5. What was seen besides, and what is left

Seen in the code while modelling it, without a run of their own:

* The lease lasts an hour, is never renewed and not looked at again before `up()`
  (`migrations/src/migration-manager.ts:93`). A migration that takes longer is joined by a second
  process, which the README of `migrations` (lines 8-9) says cannot happen. `OneWorker` and
  `RecordedOnce` are claimed for operations that fit their lease.
* When all files of the newest batch are gone, `rollback()` selects nothing and succeeds
  (`migration-manager.ts:56`).
* A middleware that awaits `next()` without returning its result drops the result of those
  behind it (`runtime/src/http/runtime-middleware-pipe.ts:8`), and the controller acts: the exception
  in `StoppedRequestsStop`. The logger of a sample is one.
* On Express `res.sent` does not exist, so that the POST zone never runs
  (`runtime/ARCHITECTURE.md:288` says that it follows render).
* `close()` neither waits for the start hooks nor stops them (`runtime/src/app/lifecycle-manager.ts:9`
  says that hooks run one after the other; each list does, the two do not).
* Attempts that run at once all pass `assertAllowed()` before any of them records its failure, so that
  more than `maxFailures` passwords may be compared before the lock is set (`auth-db/README.md:165-166`
  says that five failed attempts block further ones).
* `refresh()` reads the clock before its transaction has its turn, and judges expiry by it
  (`auth-db/src/database-jwt-session-service.ts:190`).
* `toFactory()` replaces a binding silently (`ioc/src/runtime/ioc-container.ts:88`); a value that is falsy
  is not found (line 142); `has()` looks at its own container only; the graph of a scope follows the scope's
  bindings where `get()` follows those of the container that has the class; a controller whose dependency is missing
  is refused when it is first asked for, not at `init()`.
* Two unnamed indexes on the same columns share a default name, and with IF NOT EXISTS the second is
  not made (`migrations/src/schema.ts:50`).
* Another user can be chosen behind `ManageUserDialog` while it submits, by keyboard
  (`sample/auth-db/src/admin/user-table.tsx:51`): the answer of a save for one user is then written into the dialog of the other
  (`manage-user-dialog.tsx:95-100`). Once both are loaded, what is shown may be the user whose answer came last, while
  `save()` and `remove()` go to `userId`: "Delete A?" deletes B (lines 109-115 and 217-221), where
  `sample/auth-db/README.md:33` says that the deletion of a user requires confirmation. `AnswersFindTheirForm` claims the
  form for every answer, and the user for a dialog in which no other has been chosen.
* "Loading API keys..." may stay for ever: when the list has failed, "+ New key" clears the message while there is still no
  list (`api-key-manager.tsx:88` and 152). `BusyMeansWaiting` is about what is disabled, spinning or restoring.
* A session that a login creates while the password is changed outlives the change
  (`auth/src/password/password-authentication-service.ts:66`): the exception in `SessionsHavePasswords`.
* Where ids are used again, an `update()` that looked its user up before its transaction may give roles to the next user with the id,
  and one that resolved its roles may give the role that has got the id by then (`auth-db/src/database-user-service.ts:208`).
* A comment says of the priority of middlewares that "lower runs first"
  (`core/src/http/middleware/middleware-registration.ts:19`); the registry sorts the higher ones to the front, and so does the model.
* The secret of a new key is lost with the dialog that shows it, or with a lost answer
  (`sample/auth-db/src/admin/api-key-manager.tsx:43`).

Left, in the order of importance:

1. Middlewares that call `next()` more than once: `RequestPipeline` has those that call it once or not at all.
2. `PostgresDB`: the pool with its limit, clients, failed ROLLBACK; the same `SerialDatabase`
   where it applies.
3. The audit rows that services write inside their transactions; `list()` and queries of events.
4. Clients that disconnect, request parsing, `listen()` of the adapters.

Not to be modelled: SQL text and types of columns, query building, cryptography, templates, CLI
output, types and tokens. They keep no state, and tests reach them.
