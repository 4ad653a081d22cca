# AgentLabX: a verification project

TLA+ models of the AgentLabX server (`agentlabx/`, Python, asyncio), TLC
configurations that check them on small instances, and proofs, checked by TLAPS,
that hold for every instance. Paths below are relative to `src/` of the repository.

## Inventory

AgentLabX is one asyncio process: a FastAPI application, a SQLite database, an
audit log, and a set of MCP servers (subprocesses, HTTP sessions or in-process
sessions) whose tools agents call. Tasks interleave only at awaits, so every
hazard of concurrency sits between two awaits of a handler; SQLite reads run
outside a transaction, so a read and the write that follows are two steps.

| Component | State it keeps | Operations | What is hard | What makes it correct |
|---|---|---|---|---|
| MCP host (`mcp/host.py`) | published handles, start locks, one owner task and request stream per server | `start`, `stop`, `stop_all`, `call` | starts, stops and calls of one server overlapping; an owner that fails at any step; requests in a stream when it closes | no transport is forgotten, one current instance per server, nothing left of a failed start, callers are answered |
| Server registry (`mcp/registry.py`, `mcp_servers` in `db/schema.py`) | rows: spec, owner, `enabled`, `last_startup_error` | `register`, `delete`, `set_enabled`, `set_startup_error`, `update_admin_spec` | reads that are stale when written back; NULL owners in a unique index | deleted rows stay deleted, one row per name and owner |
| MCP HTTP API (`server/routers/mcp.py`) | none: it moves registry and host together | register, enable, disable, delete, list, invoke | a request between its row write and its start, another one on the same server | rows and processes agree when requests end |
| Boot and shutdown (`server/app.py`) | the wiring of all the others | migrate, seed bundles, start enabled servers, stop all | a crash between two writes of a seed; one bundle failing | boot reconciles rows and processes and is not blocked |
| LLM calls (`llm/`) | money spent, the process's environment, `_env_lock` | `complete`, `check`, `record` | check and record far apart; keys in `os.environ`; cancellation inside the scope | bounded overrun, own key only, environment restored |
| Tool dispatcher and redaction (`mcp/dispatcher.py`, `mcp/redaction.py`) | none: it reads the host and emits events | `invoke`, `resolve_capability` | a credential replaced and its server restarted under a call; which failures leave an event | the logged text of a result never holds its credential; who returns is on record |
| Event bus and audit log (`events/`, `clear_audit_log` in `server/routers/settings.py`) | handlers; the log file and its archives | `emit`, append, clear, list | the log is renamed while other handlers append; two clears in one second; a line that cannot be written | no line is lost by a clear, no line holds a credential |
| Accounts and sessions (`auth/`, `server/routers/auth.py`, `server/middleware.py`) | users, passphrase hashes, sessions, tokens, capabilities | bootstrap, login, logout, change and reset of the passphrase, tokens | a login in flight while the passphrase changes; two bootstraps at once | an owner at all times, a change ends the keys it finds, nothing outlives its user |
| Login rate limiter (`server/rate_limit.py`) | failures and lockouts per e-mail address | check, record | attempts checked together before one is recorded | lockout after five failures, bounded overshoot |
| Administration (`server/routers/settings.py`) | rows of users, capabilities, credentials | grant, revoke, delete, store | two administrators acting on each other | the owner keeps its rights |
| Migrations (`db/migrations.py`) | schema and version stamp | apply, verify | a crash between a statement and the stamp; a server and a command beside each other; a failed read taken for a fresh database | the version never promises more than the schema has; who is up has all of it |
| Stages (`stages/`) | a registry of stage implementations | discover, register, default, validate | tables that must agree: contracts, targets of backtracking, tags | a run is stopped only for what a plugin did against its own declarations |
| Code-execution bundle (`mcp/bundles/code_execution_server.py`) | one container per call | run, time out | a timeout that ends the client and not the container; a session that dies beside it | a container left behind has one of three causes |
| Memory bundle (`mcp/bundles/memory_server.py`) | rows of entries | create, search, get, delete | nothing: one statement each | left to tests |
| Transports, other bundles, keyring, CLI, configuration, plugin dictionary, web client | streams, options, user interface | | input and output | left to tests |

Interactions: handlers call the registry (rows) and the host (processes) in
sequence, without a lock that spans both; the host calls the slot resolver
(credentials) and the transports; the dispatcher calls the host and the event
bus; the audit log is a handler of the bus; sessions are checked by the
middleware before each handler; the traced LLM provider calls budget, provider
and bus.

## Modules

| Module | Models | Runs | Proofs |
|---|---|---|---|
| `ServerLifecycle` | what the host promises: instances of a server, at most one current | refinement in `host_safety` | `HostImplementsLifecycle`, `HostOneCurrent` |
| `MCPHost` | `mcp/host.py` | `host_*` | `MCPHostProofs` |
| `HostView` | what the handlers can tell of the host: a server is down, launching or up | | `HostImplementsView`, `HandlersKeepToTheView` |
| `MCPServers` | registry, HTTP handlers that change rows, seeding and boot | `servers_*` | `MCPServersProofs` |
| `LLMCalls` | traced provider, budget, scoped environment | `llm_calls` | `LLMCallsProofs` |
| `Accounts` | users, capabilities, passphrases, sessions and tokens | `accounts*` | `AccountsProofs` |
| `LoginLimiter` | `server/rate_limit.py` in the login handler | `login_limiter` | `LoginLimiterProofs` |
| `AuditLog` | event bus, audit log, archives | in `tool_calls` | in `ToolCallsProofs` |
| `ToolCalls` | invocations from dispatcher to tool and log, with the credential and the code-execution server; extends `AuditLog` | `tool_calls` | `ToolCallsProofs` |
| `Migrations` | `db/migrations.py` under crashes and concurrent processes | `migrations` | `MigrationsProofs` |
| `Stages` | registry, contracts and validator of stages, and a run over them | `stages` | `StagesProofs` |
| `MCMCPHost`, `MCMCPServers`, `MCLLMCalls`, `MCAccounts`, `MCLoginLimiter`, `MCToolCalls`, `MCMigrations`, `MCStages` | instances for TLC, with symmetry where a run has no liveness property | | |

### ServerLifecycle and MCPHost

State of `MCPHost` and its source: `handles` is `_handles`, `lock` is
`_start_locks`, `owner` is the program counter of `_owner_task`, `ready` its ready
future, `stopSet` its stop event (set together with the close of `call_send`),
`queue` the buffer of its request stream, `current` the request `_run_one_call`
runs; `start`, `stop`, `call` are the program counters of the requests.

An action is the code from one await to the next. `EnterStart` takes the lock and
passes the "already running" guard; `SpawnOwner` creates the owner task; `Publish`
is the resumption of `start` after a successful ready future; `StartRaises` the
one after a failure. The owner's loop is `TakeRequest`, `Park` (the race of stop
event and receive in `_receive_or_stop`), `RunRequest`, `FinishCall`,
`ObserveStop`, `CloseTransport`. `Detach` is the part of `stop` before its await.
Faults are members of the constant `Faults`: closing a transport raises, a session
dies; a transport that cannot be opened needs no permission.

A start is used once per run, and an owner is named after its start, so the
history of an instance stays visible when its handle is gone. A call that is
cancelled (`AbandonCall`) leaves its request in the stream, as the code does.
Left out: cancellation of a `start`, event handlers that raise, the values in
requests and answers.

`ServerLifecycle` has no locks, tasks or streams: an instance is absent,
starting, running, stopping or gone, and begins only when no other one of its
server is starting or running. The refinement maps the owner, its start and the
published handle to the phase of the instance.

### MCPServers

Answers are abstracted to "ended", except the 502 of a failed start, which a
property is about. Rows are `row[i]`, with a spec (name and owner, `None` for admin scope), the
`enabled` flag and whether `last_startup_error` is set. The host is seen as
`HostView` describes it, which `MCPHost` is proved to implement (a launch is in progress from the check of `_handles`
to the publication). A handler is a sequence of steps: `InsertRow`,
`ReadRow`, `EnableRow`, `StopServer` and `StopReturns`, `Launch`, `LaunchEnds`,
`SettleFailure`, `ClearError`, `SetFlag`, `EraseRow`. Each call of the registry is
the statement it commits; its earlier read may be stale, and then the write
finds nothing or raises (`AfterWrite`). `Boot`, the `Seed...` actions, `BootStart`
and `Serve` are the lifespan; `Exit` is a crash or the end of the process at any
moment. `DeleteUser` removes the rows of a user through the foreign key.

The database may refuse any write (it is locked, the disk is full). A handler then ends
with an error (`WriteFails`); the two places that record the outcome of a start best effort, the
boot and the failed start of a PATCH, go on with the row as it was.

The variable `adrift` is auxiliary: it collects the rows on which two requests
overlapped, whose owner was deleted, or whose outcome the database refused to record. Only
`QuietServerHasItsRow` and `BootReconciles` read it: they do not hold for such rows (a DELETE that
overlaps a start, for example, leaves a server that runs without a row, and a refused
write at boot leaves a failed server without its error). `BootReconciles` still holds such a row to its
flag, and every other row to everything.

The order in which the bundles are seeded is left open, and servers of the boot
start one at a time, as in the code. Ids are never reused (they are uuid4).
Users are deleted only without the admin capability, and capabilities do not
change: they belong to `Accounts`.

### LLMCalls

A caller makes one call after another: `Admit` (budget check, then the queue of
`_env_lock` when the provider has an `env_var`), `EnterEnv` (`_scoped_env` sets the
variable if there is a key), `Answer` or `Fail` (leave the scope, record the cost
or not), `Emitted`. `Cancel` is a task cancelled while it waits or runs. Money is a
natural number; a budget without a cap never refuses and has no bound to check.

### Accounts

A handler is a sequence of steps, one per transaction, with the reads it acts on in
a step before: `CountUsers` and `InsertUser` are `DefaultAuther.register`; `Login`,
`Supersede`, `IssueSession` the login; `BeginRotation`, `CommitRotation`, `CollectKeys`,
`SweepKeys` or `RevokeKeys`, `IssueSession` the change of a passphrase, which is two
transactions and a session; `ResetPassphrase` the command `reset-passphrase`, one step: its new
hash is flushed before it reads the keys, so it holds the write lock of the database from
before its reads to its commit. The second transaction of a change has no such write: its read of the
sessions is a step. If there are any, marking them revoked takes the lock and the tokens are
read under it (`SweepKeys`); if there are none, the tokens are read without it (`RevokeKeys`).
`CheckDelete`, `DeleteUser` and `CheckDemote`, `Demote` ask for the owner before they write.
`Admit` is the middleware: a handler keeps the identity it was given, the admin
capability included, while the tables change. `Abort` ends a handler at any await: the
process stops, the database is locked, or a row it wants to write is gone.

`live` is the set of keys (sessions that are neither revoked nor expired, tokens that
exist). Changes of a passphrase are numbered. Three history variables say what they did:
`swept[u][kind]` are the changes that have read the keys of `u` of that kind, `ended[u]`
those that have come to their end, and each key carries in `after` the changes that had read
the keys of its kind when it was written. `RotationRevokes` uses them: a change that has come
to its end has ended every key there was when it read, so any key still live was written
after that read. The documentation promises more (all sessions and tokens end), and two findings
say what the code leaves open: a change that stops between its transactions has ended no key,
and a login, a token request or a refresh under way writes its key after the read.

Left out: e-mail addresses and display names (unique by constraint, a refused one
changes nothing), labels of tokens, and capabilities other than the two the code
asks for.

### LoginLimiter

One address (addresses share nothing) and attempts in the two halves of the
login handler, before and after the verification. `now` is discrete. `history`
is auxiliary: the failures of the window since the last success or restart. `Recent` is the
list comprehension of `record_failure`, as a recursive function over the list.

### AuditLog and ToolCalls

`AuditLog` is the file and the bus: `emit` schedules the sink's handler (`waiting`), a handler
appends its line (`log`) or raises (`unwritten`), a clear renames the file to an archive
named after the second. `ToolCalls` adds the tasks. `invoke` has no await between the
look-up of a tool and the sending of its call, so its checks are one step
(`Invoke`: turned away by the debug endpoint, not running, not found, refused, invalid arguments, or
sent to the instance that was looked up). Then the tool runs (`Execute`), here the code-execution server
with its container; its session may die under it (`SessionDies`, kept in `lost`). The outcome becomes an
event and an answer; when the event cannot be written its exception is the answer (`Resume`, "unlogged"). Around it a server is
stopped and started with other capabilities (`StopInstance`, `Start`), its credential is
stored and erased in the two steps of those handlers (`ReadSlot`; `StoreSlot`, `EraseSlot`),
and administrators clear the log (`ClearLog`). `Abandon` cancels an invocation at any await.

An event carries a payload: the text of the result, the arguments and the reason of a refusal, each the set of
credential values it shows, which is all a property can tell. The text is redacted by the slot values
(`Redact`), the arguments by their keys (`RedactArgs`), the reason not at all. So `RecordsAreScrubbed`
excepts a slot value that the caller passed under an ordinary key, and is silent on rejected arguments; a
finding names both. Starts are one step here, since their own steps are
those of `MCPHost`. Left out: a start whose slot cannot be resolved, the events of other
requests, and the paging of `list_events`.

### Migrations

The schema is a set of tables, columns and indexes; a migration is a script of
statements, each with what it makes, what it is left out for and what it raises on. A step is what
SQLite commits at once: the driver begins a transaction before INSERT, UPDATE and
DELETE only, so `CREATE TABLE` commits by itself and a kill between two of them is
seen (`Crash`). A process reads the version (`ReadVersion`, or `Misread` when the
read raises, which the code takes for a fresh database), looks at the schema
(`Look`), runs the script (`Run`, `DropRevoked`), stamps (`Stamp`), and in the server
asserts the version (`Pin`). `Init` has every release's database: the indexes with
their tables, the column `revoked` with version 3, and one newer release.
`met` and `misread` are auxiliary and read by `LoneBootsFinish` only.

Rows are abstracted to whether users have their addresses and whether revoked tokens are
left. The tables of the first release that no migration changes are one feature (`users`).

### Stages

The class variables of a stage are a record (`ClassVars`), a payload maps fields to the types of
their values, and the contracts are the fields of `stages/contracts/`. `Conforms` is
`StageRegistry.register`, `Default` is `default_for`, `Discover` the entry points, whose first
failure ends the loop. `ValidInput`, `ValidOutput` and `ValidBacktrack` are the validator.
The repository has no runner yet; the model takes the order of the chain test
(`tests/integration/stages/test_pipeline_chain.py`) and, on a signal, goes back to its target and
drops what the target and later stages made (`Start`, `Resolve`, `GoBack` and `Refuse` are marked
external). What plugins return is any of: a right output, one with a field missing, added, `None` or
of another type, each with any reproducibility, and any signal.

Left out: the values inside a field (the models of `_shared`), the warning of the fifth rule, and
discovery on a registry that is not new.

## Runs

| Run | Shows |
|---|---|
| `host_safety` | no forgotten transport, failed starts leave nothing, stop releases the transport, no published owner is overwritten, `ServerLifecycle` is implemented |
| `host_liveness` | starts and stops end, a request is in one place, requests are served unless the owner is stopped |
| `host_drain` | violation: a request buffered behind a running one is never answered after a stop |
| `servers_rows` | failed registrations leave no row, deleted rows stay deleted, a boot reconciles, quiet servers have their row, requests end |
| `servers_boot` | violation: two admin rows with the name of a bundle abort the next boot |
| `accounts` | an owner remains and keeps its rights, nothing outlives its user, a change of a passphrase that succeeds has ended every key it could read |
| `accounts_first` | violation: two registrations on a fresh install make two owners |
| `login_limiter` | the overshoot of the limiter is bounded by the attempts under way; lockouts are justified |
| `llm_calls` | bounded overrun, own key in scope, environment restored, waiting calls are served |
| `tool_calls` | the logged text of a result never shows the credential it was made with, lines stay on disk, who returns is on record, containers left behind have one of three causes |
| `migrations` | the version never promises more than the schema has, who is up has all of it, boots on their own end |
| `stages` | a run is stopped by the validator only for what a plugin's class returned against its declarations |

### Bounds, and why they are enough

- `host_safety`: two servers (locks and handles are per server, `stop_all` walks both), three starts
  (one running, one replacing it while it closes, one that must wait for the lock),
  two stops (a stop beside a `stop_all`), one call. `host_liveness`: one server, two
  starts, two calls, so that one request is queued behind another and an owner is
  replaced; servers share nothing, so a second one adds no waiting.
- `servers_rows`: two rows, two names of which one is a bundle that needs a slot, an admin and a
  plain user, and two requests: every pair of operations on one row and every
  pair of rows with one name. A third request would only repeat a pair, except
  on the start lock, where waiting is for the launch in flight and never for
  another waiter.
- `llm_calls`: three callers (one inside `_env_lock`, two waiting, so that the order of the
  queue matters and a waiter in the middle is cancelled), two variables, a cap of 1
  and a cost of up to 2, so that the cap is met exactly and passed.

- `accounts`: two handlers, because every hazard here is one handler between the read
  and the write of another (the proofs cover any number); two users, an owner and one
  that is promoted, demoted and deleted; three keys, so that a user has a session and a
  token while a third is written; two passphrase changes, so that two run into each other.
- `login_limiter`: a limit of 3 and three attempts, so that the limit is passed by attempts
  under way; a window of 2 and a lockout of 3, since the code's lockout is longer than its window (the
  bound needs that, `LimiterAssumption`); time up to 12, four lockouts. The bound
  is met exactly: with one failure less allowed it is violated.

- `tool_calls`: one invocation, one put and one delete of the credential, an administrator that clears
  again and again, two values (one of them in the environment, so that the value
  changes by a put, by a delete and by a fallback), two seconds. A call is passed one value at most, that
  of the environment, under a secret or an ordinary key (`OneValuePassed`): its instance has it or the other one. Invocations share the
  log and the instance and nothing else; of the four requests three start in a behaviour
  (`AtMostThreeStart`), which keeps each pair beside the third.
- `migrations`: a server and a command, each started and killed any number of times, on the empty file and the
  database of every release. Two are enough for a process to pass another one; the proofs cover any number.
- `stages`: four plugin classes, one for each way to differ: narrower targets, a flag that is not canonical,
  another implementation of a stage, a stage there is not. Each is registered up to twice (`MaxTimes`), so that a
  stage has none, one, or several implementations.

### Deadlock and fairness

Deadlock is checked in the `servers_*` runs, where the process can always boot or
exit, and in `stages`, where a run can always start. It is not in the host runs and `tool_calls`,
whose requests are used once each, in `accounts` and `login_limiter`, whose ids and time run
out, in `llm_calls`, where an exhausted budget refuses every call for good, nor in
`migrations`, where nothing waits: a process that is down may boot.

Fairness is weak and per task: `StartStep`, `OwnerStep` and `StopStep` in `MCPHost`,
`RequestStep` in `MCPServers`, `CallStep` in `LLMCalls`. The event loop runs every
task that is ready, which justifies it for internal steps. Three steps wait for
the world and are assumed to end: a transport opens or fails, a tool call
returns (the code puts no timeout on it), and a provider answers or times out
(`timeout_seconds`). Arrivals, cancellations, faults and crashes are never fair.
Weak fairness suffices for the start lock of `MCPServers`, which the model grants in
any order: a waiter is overtaken at most once by each other request, and requests are used once.
(The code's lock is first come, first served.)

## Proofs

`MCPHostProofs`, for any sets of servers, starts, stops and calls and any faults:

- `TypeCorrect`.
- `NoOrphanCorrect`, `StopReleasesTransportCorrect`, `FailedStartLeavesNothingCorrect`
  and `NoOverwriteCorrect`, from the inductive invariant `IInv` = `TypeOK` with
  `LockInv` (a start past its lock is the holder of the lock, so there is one per
  server), `OwnerInv` (what the ready future says about the owner), `HandleInv` (a
  published owner is that of a start which got its answer) and `StopInv` (a stop
  that awaits an owner has popped it). None of the properties is inductive:
  `NoOverwrite`, for example, needs that between the guard and the publication
  nobody else publishes, which is `LockInv`.
- `RequestInOnePlaceAlways`, from `StreamInv`: what is in a stream or current was sent to that owner, no stream repeats a
  request, an owner that runs none is the only one that takes one, and a waiting request is held by its owner while
  that receives (`PlaceInv`, for each request and owner). `TailOccurs` and `AppendOccurs` are the
  facts about sequences it rests on.
- `HostImplementsLifecycle`: `MCPHost` refines `ServerLifecycle`; initial states map to
  initial states and each action maps to a step of one instance or to a stutter.
  `HostOneCurrent` carries the abstract invariant over.
- `WaitersHaveWork` and `StoppedOwnersWindDown`, from `ProgressInv` (what the ready future says of its owner, that only
  published owners are stopped and are published no more, that who holds a lock is launching): the part of the liveness
  properties that is safety. Whoever waits waits for somebody who can go on: for the lock, a start past its check; for an
  owner, one still opening, or an answer already there (unless a close raised); in `stop`, an owner told to stop.
  And an owner told to stop takes at most one more request: each of its steps lowers `Remaining`. With fairness,
  which TLC adds in `host_liveness`, this is why starts and stops end.
- `HostImplementsView`: the steps of the host are, for its callers, those of `HostView`.

`MCPServersProofs`, for any sets of users, ids, names, bundles and requests:

- `TypeCorrect`; `DeletedRowsStayDeleted` (`NoResurrection`).
- `FailedRegisterLeavesNoRowAlways`, `QuietServersHaveTheirRows` (`QuietServerHasItsRow`) and `BootsReconcile`
  (`BootReconciles`), from `IInv` = `Types`, `ServingInv`, `BootInv`. A request touches its own id only, so what is
  said of a request is disturbed by itself, by another request on its id, by the deletion of a
  user, or by the end of the process. `RequestInv` holds whoever else is there; `CalmInv` says, of a
  request that has its id for itself, how row and host stand at each place of its handler; `Apart` says that two
  requests on one id have set it adrift. `BootInv` is about the bundles seeded and the servers started so far.
  None of the properties is inductive: a quiet server, for example, was left by a handler.
- `LaunchesHaveTheirRequest`: a server is being launched iff exactly one request is at its launch, so a start that
  waits for the lock waits for a request that will release it. From it `HandlersKeepToTheView`: while the process serves,
  the host changes by steps of `HostView` only, the ones `MCPHost` is proved to make. (The boot, alone with the
  host, starts a server in one step.)

`LLMCallsProofs`, for any finite set of callers, any variables, cap and cost:

- `TypeCorrect`, `SpendingIsBounded`, `KeysStayApart`, `EnvironmentComesBack`, from
  `IInv` = `TypeOK`, `SpendInv`, `QueueInv`, `EnvInv`. Beyond the cap nobody is admitted, so
  what is spent plus the most the calls in flight can still spend does not grow:
  `SpendInv` is that sum, and needs to be: the bound alone does not survive a step.
  The queue of `_env_lock` holds each scoped call once and only the first runs
  (`QueueInv`); so the environment differs from the initial one by at most the
  variable of the call at the front, which remembers the old value (`EnvInv`).
  `RemoveAtProperties` states what is left of a sequence after a cancellation.
- `QueueMovesOn` and `FirstComeFirstServed`: a call that waits is in the queue, the call at the front runs or is the
  next to run, and nobody gets in front of a waiting call. With fairness, which TLC adds for `WaiterServed`, this is why
  each waiter is served.

`AccountsProofs`, for any sets of users, keys and requests and any number of changes:

- `TypeCorrect`; `NothingOutlivesItsUser` (`NoOrphans`).
- `AnOwnerRemains` (`OwnerPresent`) and `OwnersAreKept` (`OwnerKept`), from `OwnerInv`: what a
  handler has read about the users is still true when it writes. A handler that saw
  users finds users, since the owner is never deleted; one that found no owner in its
  target finds none later, since owners are only made together with a new id
  (`OwnersAreBorn`). `OwnerPresent` and `OwnerInv` need each other and are proved together.
- `ChangesEndOldKeys` (`RotationRevokes`), from `KeyInv`: of the kinds a change has read and not
  yet ended, it has each live key of its user in its list or the key was written after the read; and a
  change that has ended the keys of a user had read both kinds. The property alone is not
  inductive: it does not say that the change in progress knows the key.

`LoginLimiterProofs`, for any finite set of attempts, any limit, any window and any longer lockout:

- `TypeCorrect`; `FailuresBoundedAlways`, `LockoutJustifiedAlways` and `ListIsTheWindow`, from `LimiterInv`. The bound is
  not inductive: a failure adds to it. `RoomForVerifying` counts the attempts under way as failures to come, so that only
  `Check` can add, and `Check` passes without a lockout only. Then fewer failures than the limit are in the window, because the list holds
  all of them (`ListIsHistory`: from the time on when those that led to the last lockout are out of the window, which is
  before the lockout ends), and the list is shorter than the limit.
- `Recent` is recursive, so what it keeps is proved by induction over the list: it has a value at all (`KeptExists`: the
  recursive definition is a CHOOSE), what it makes of one more element (`RecentOfAppend`), and from this, by
  `SeqInductionOnSet`, that filtering twice is filtering once with the later time (`RecentOfRecent`). The library's
  induction theorems take an operator, which the provers cannot instantiate; `NatInductionOnSet` says the same of
  a set and follows from `WFMin` and the well-foundedness of `<`.

`ToolCallsProofs`, for any sets of requests, values and capabilities and any allow list:

- `TypeCorrect` (with it that at most one instance is published), and `LeftContainersAlways`: up to the call's
  own steps nobody else touches its container (`ContainerInv`).
- `EndsOnRecordAlways`: the steps are first sorted by their effect on the record of a request
  (`RecordEffect`); the invariant says at each place of a task whether its event is
  scheduled, handled or not yet made.
- `RecordsAreScrubbedAlways`: the text of what is on its way, in the log or archived was redacted with
  the values read before the call, which are those of the instance it was sent to; an event from before the
  call was sent is of a call that no instance served.
- `RecordsKeptAlways`, an action property, from the effects on the files.

`MigrationsProofs`, for any sets of servers and commands:

- `TypeCorrect`, `SchemaMatchesVersionAlways`, `UpOnCurrentSchemaAlways`, from `SchemaInv`. Neither
  property is inductive. `Frame` says what no step undoes: only `revoked` is ever dropped and it
  does not come back. So what a process saw when it looked is still there, and what is left of its script
  makes the rest of its target (`ProcInv`); without a row every process is on the fresh path,
  and the tables it finds are of the current release (`FreshInv`). A late stamp lowers the version, which is harmless.
- `LoneBootsFinishAlways`, from `AloneInv`: beside a boot that has met nobody, nobody runs, so the row is what it read or
  stamped and no statement left of its script raises (`LoneInv`). For this an index must
  not be there without its table, since `create_all` decides from the table whether to make both (`IndexInv`).
  `ScriptShape` is what a change of a script would break.

`StagesProofs`, for any plugins and class variables:

- `TypeCorrect`, `OnlyResultsAreRefusedAlways`. The invariant: at position `at` every field made by an earlier stage is
  carried with its type (`FieldsCarried`); what is in the registry conforms; the result is one of the class that
  runs. The lemmas on the tables (`InputsAreMade`: each input of a stage is a seed or made by an
  earlier one; `TargetsAreEarlier`) are what a change of a contract would break.

The assumptions are the constants' (`HostAssumption`, `ServersAssumption`, `LLMAssumption`, `AccountsAssumption`,
`LimiterAssumption`, `ToolCallsAssumption`, `PluginsAssumption`), which TLC
evaluates on each run. Liveness (`StopTerminates`, `StartTerminates`,
`ServedUnlessStopped`, `RequestsEnd`, `WaiterServed`) is model-checked only: it needs
fairness and ENABLED, which the prover does not treat. What it rests on besides fairness is proved: who waits for whom,
and what gets nearer its end.

## Disagreements between code and documentation

Each is a finding in `PROJECT.json`, with the quoted line. Three are shown by violation runs:

- the drain of the owner task never fails anybody (`mcp/host.py:416`, run `host_drain`);
- two admin rows with the name of a bundle block the boot (`server/app.py:500`, run `servers_boot`);
- two registrations on a fresh install make two owners (`auth/default.py:57`, run `accounts_first`).

The others were met while modelling, and the models do what the code does:

- Host: a close that raises strands the start that waits for it (`mcp/host.py:352`;
  `StartNotStranded` in `MCPHost` states what is broken).
- Servers: an outcome of a start at boot that the database refuses is lost without a trace (`server/app.py:582`).
  Enabling is not idempotent while a start is in flight (`server/routers/mcp.py:345`;
  `RunningShowsNoError` in `MCPServers`). The advice to keep a bundle stopped with
  `enabled=false` (`server/routers/mcp.py:408`) lasts until the next boot (`server/app.py:525`).
- Accounts: a change of a passphrase that is cut off between its two transactions leaves the old keys in force
  (`server/routers/auth.py:307`), and a key that is being written when the keys are read survives it (`:317`).
- Audit log: a clear replaces an archive of the same second (`server/routers/settings.py:462`); the event of the
  clear need not be the first line of the new log (`:463`); several outcomes of an
  invocation leave no event (`mcp/dispatcher.py:168`); its arguments are redacted by key only and the reason of a rejection not at all (`:162`); an event that cannot be written fails the
  invocation (`events/bus.py:35`).
- Code execution: a timeout ends the docker client and leaves the container (`code_execution_server.py:249`); docker
  that is not installed raises instead of an answer (`:236`); a program's own `FileNotFoundError`
  reads as a daemon that is down (`:201`).
- Migrations: a boot killed after `ALTER TABLE users ADD COLUMN email` can never finish the migration
  (`db/migrations.py:33`); one killed between a table and its index leaves the index out for good (`:221`);
  any error of the first read is taken for a fresh database (`:215`).
- Stages: a recommended backtrack is not validated (`stages/validator.py:137`); a class's narrowed targets
  are not read (`:209`); no contract bounds a length (`:137`); `preserve` is checked against the fields of the
  stage's own output (`:220`).

## Plan

Done: `ServerLifecycle` and `MCPHost`; `MCPServers`; `LLMCalls`; `Accounts` and `LoginLimiter`; `AuditLog` and
`ToolCalls`; `Migrations`; `Stages`; and the proofs of each, as listed above.

Left are the parts below, and what the abstractions above leave out: a start that is cancelled, the credential
reads of the settings page, the warning of the stage validator.

## Not modelled

- Transports, subprocesses and the MCP SDK: input and output. `MCPHost` has what they may do: open or fail, close or fail, die.
- Encryption and the keyring: a slot resolves, is missing, or does not decrypt.
- The OAuth device flow: no router uses it.
- The memory server: each operation is one statement on the rows of its caller, so there is nothing to interleave.
- The other bundles, the key resolver of the LLM provider, options, configuration and the plugin
  dictionary: single reads, or data without a protocol of their own.
- The web client: it keeps no state the server relies on.
