# A TLA+ verification of sakumock

sakumock is a suite of mock servers for the SAKURA Cloud APIs.  Each service is
an HTTP control plane over a store, most of them in memory, and some have a data
plane that does the work the API describes: queues that deliver messages,
schedules that fire, runbooks that run, containers that start.  This directory
holds TLA+ models of the parts with behaviour of their own, the TLC runs that
check them, and proofs checked by TLAPS.

`PROJECT.json` is the machine-readable index: components, runs, mutations, the
lines of source every definition stands for, hazards and theorems.

## Inventory

Every service is built the same way.  An `http.Server` runs each handler in a
goroutine; a handler parses and validates the request, calls the store (one
critical section per call, under `MemoryStore.mu`), and answers.  A handler that
calls the store twice, or reads something before it takes the lock, can be
interleaved with any other request between the two.  That is where most of the
hard behaviour is: the stores themselves are maps under one lock.

| component | state | operations | hard behaviour |
|---|---|---|---|
| SimpleMQ, memory store | message queues by name, each with its own lock; control-plane queues by id and by name; keys | send, receive, extend, delete; create, update, rotate key, clear, delete queue; compaction goroutine | two locks and a look-up between them; clock read before the lock; queues made by use or by the control plane in either order; visibility and expiry |
| SimpleMQ, SQLite store | the same in two tables that outlive the process | the same | settings read before the transaction that uses them, and made under another process's defaults; restarts with leases running |
| EventBus | items by id, their statuses, the end of the last tick, delivered jobs | item CRUD, tick, inject an event, list and clear deliveries; scheduler goroutine | ticks that overlap; a firing made of four steps; references checked, then stored |
| EventBus crontab | none | next matching minute | calendar arithmetic, five-year cut-off |
| Workflows | workflows, revisions and aliases, executions, histories; cancel functions and contexts of the running executions | CRUD, start, cancel, delete; one goroutine per execution; close | cancel against start, end, timeout and delete; a status written without looking at the one there |
| Workflows runner | variables and signals of one run | steps, parallel, try, switch, for, call | branches that go on after the first failure; errors of a done context caught by a try |
| AppRun | applications, versions, traffics; containers | CRUD, traffics; start, stop and monitor containers | list-check-create limits; four critical sections to delete a version; containers of applications deleted while they start |
| AppRun Dedicated | clusters, auto-scaling groups, load balancers, worker nodes, applications, versions, certificates, with an order beside every map; containers | CRUD, activate a version, lists by cursor | orders and maps that must agree; a limit counted before it is used; a start that fails half way; a cursor whose item is gone |
| API Gateway | subscriptions, services, routes, users, groups, domains, certificates, OIDC settings, and names of theirs copied into each other; logins under way and sessions | CRUD, proxying with authentication | referential integrity over many maps; three looks at the store per proxied request; a login's callback that comes twice |
| KMS | keys and the material of their versions | create, rotate, change status, schedule destruction, encrypt, decrypt | what stays decryptable after a rotation or a status change |
| Secret Manager | vaults, secrets and their versions | create, delete, unveil | version numbers reused after a delete; oldest versions dropped |
| CloudHSM | licences, HSMs, clients, peers, in maps of maps | CRUD | a peer made for a partition looked up before |
| Object Storage | buckets, contracts, accounts, permissions, keys; directories and an account file for a versitygw process | CRUD | every call of the data plane may fail and is taken back; directories left from before a restart |
| Monitoring Suite | log, metrics and trace storages, keys, routings, alert projects, rules, notification targets | CRUD, reordering; forwarding to an external process | records changed in place without a lock after they were looked up; the order of a new routing drawn before it is stored |
| IAM | users, groups, projects, folders, policies, keys, service principals | CRUD | a deletion that sweeps up in several critical sections what belonged to the record |
| Simple Notification | destinations, groups, routings, sent messages | CRUD, reorder, send | a reordering that reads and writes every routing in two calls |
| Security Control | the activation, automated actions, evaluation rules | CRUD, lists by page token | tokens are offsets into a list that becomes shorter |
| Service Endpoint Gateway, Add-on | records by id | CRUD | none beyond one critical section each |
| Core | ID generator, token bucket, fault rules, schemas | next, reserve, observe an id; allow; choose a fault | unique ids across services; faults injected after the handler has done its work |
| Command and tools | none at run time | flags, start and stop, code generation | start and stop of many listeners |

Components interact in four ways.  Under `sakumock all` they share one listener
(by path prefix) and one ID generator.  EventBus forwards a job to SimpleMQ,
Simple Notification or AutoScale by HTTP, as a client.  A data plane runs in its
server's process, over the same store as the handlers.  Faults and the rate limit
wrap every handler; a fault in the "after" phase answers with an error when the
handler has already changed the store.

### What makes each part correct

- **SimpleMQ.** A message that was received stays with its receiver until its
  visibility timeout, unless it is extended; it leaves the reach of consumers
  only by a delete, an expiry, a clear or the deletion of its queue; what was
  part of a deleted queue is part of no later one of the same name; the two
  control-plane maps agree; expired messages are freed.  With a database all of
  that holds through restarts.
- **EventBus.** Every boundary of a schedule fires, once, whatever ticks overlap
  it; a Status is that of the latest firing; a reference names an item of the
  right class.  The search for the next minute of a crontab passes none over.
- **Workflows.** An execution never stays active with nothing to end it; its
  outcome is final and agrees with its history and with when it says that it
  succeeded or failed; an alias names one
  revision.  A parallel step that succeeds has all its results, and none of its
  goroutines waits for ever.  A run that was cancelled starts no step but the one
  it was about to and is told as cancelled.  An expression is read as the precedences
  and the associativity of its operators say.
- **AppRun and AppRun Dedicated.** The latest version of an application is never
  lost, a version number never given again; the manager and Docker agree, but for a
  container about which a docker command failed; a Healthy application is served,
  unless it names no registry; an exit is noticed; maps and orders agree.
- **KMS and Secret Manager.** What was encrypted stays decryptable through
  rotations and restarts with preset keys; a secret has its last version, and the
  window of versions before it.
- **IDs.** No two live resources of the services sharing a generator have one ID.
- **API Gateway.** What a record refers to exists, or its deletion is refused or
  takes the reference along; copied names follow; a proxied request is admitted by
  a group and sent to a service there was while it was served; a login gives one
  session.
- **Object Storage.** A bucket or a key that is listed works, and a key that is not
  listed does not, whatever call of the data plane failed.
- **The other control planes.** What is deleted stays deleted and takes along what
  belonged to it; a list followed to its end has shown everything.

## The modules

One action is one critical section: what a handler does between taking a lock and
releasing it, with what it computes from that before it takes the next one.
Where a handler takes several, a per-request record (`req`, `pc`, `work`,
`cancels`, `api`, `calls`, `hs`, ...) holds where it has got to and the local
variables it carries over, which is what goes stale.  Histories that only
properties read are marked "history" where they are declared.

| module | models | in the code |
|---|---|---|
| `SimpleMQ` | the in-memory store with its data plane and control plane | `MemoryStore.queues` is `queues` (a name to a handle) and `handles` (the `memoryQueue` behind it, which outlives the entry); `queueByName`, `queueResources`; a request goes `Admit` (strict check), `Enter` (clock read), `GetQueue` (store's lock), then `Send`, `Receive`, `ExtendTimeout` or `Delete` (queue's lock); `Compact` is `compactLoop` |
| `SimpleMQSQLite` | the store with a database | `messages` and `queues` are the tables; a statement or a transaction is an action, the pool having one connection; `QueueSettingsFor` comes before it; `Restart` keeps the tables and takes other defaults |
| `EventBus` | ticks, events and item requests | a worker is a call of `tick` or `injectEvent`: `Claim` (`lastTick`), `List`, then per boundary `Resolve`, `Forward`, `Record`, `SetStatus`; item handlers are `Validate` and `CreateItem`/`UpdateItem` |
| `Crontab` | expressions, `Matches`, `Next` and the loop of `dueBoundaries` | `NextStep` is a turn of the search, `Found` and `NotFound` its two ends; the calendar is a set of constants with what the time package promises of them (`CalendarOK`) |
| `Workflows` | the store, the handlers and the executor | `pc[e]` follows `handleCreateExecution` and then the goroutine of `submit`: `CreateExecution`, `GetRevision`, `Submit`, `Begin`, `Emit`, `End`, `Judge`, `Finish`, `Leave`; `CancelRun` and `CancelExecution` are the two halves of the cancel handler; `Expire` is the context's timeout; `LeaveBranch` and `StrayEnd` are branches that a failed parallel step left behind |
| `Lifecycle` | the abstract specification of an execution | what `Workflows` is shown to implement |
| `Parallel` | a parallel step of a runbook | a branch goes `Acquire` (semaphore), `CloneEnv`, `ExecStep`, `Send` (channel), `Leave`; `CloseChannel` is the goroutine behind `wg.Wait`; the step collects and returns, and a try around it may catch its error |
| `Runbook` | the run of a runbook by one goroutine | `frames` are the calls of `execSteps` under way, each with its list and its loop's items left; `Check` is the head of `execSteps`' loop, `Announce` the event that a step starts, `Call` what the step does, `Item` the head of a `for`'s loop, `EndStep` and `LeaveSteps` the returns, `Finish` that of the run; `Cancel` is the context |
| `Expression` | the parser of expressions | `ParseExpr`, `Infix` and `ParseList` are the parser's functions over a position in the tokens; `Readings`, `Respects` and `Nesting` say what the grammar allows a text to mean |
| `AppRun` | the store, the handlers and the Docker manager | `containers` is the manager's map, `docker` what the Docker daemon has under each application's name (external); `CheckContainers` is a turn of its monitor goroutine; `Stop` and `StartContainer` are for a component with a `ContainerRegistry`, `DeployNothing` for one without; `Failing` are the docker commands that may fail, and `lost` marks a container which the manager gave up for it |
| `Dedicated` | AppRun Dedicated, likewise, with a client that pages through a list | `hs` holds the handlers that call the store more than once; `page` the client's cursor |
| `KeyManager` | KMS keys and the material of their versions | material is where it was drawn from and how often it was hashed: `nextKeyMaterial` is deterministic, random material is never repeated |
| `SecretManager` | vaults, secrets, versions | values are symbols; encryption at rest is left out |
| `IDs` | the generator's arithmetic | `Next`, `Reserve`, `Observe` |
| `Suite` | `sakumock all`: KMS, Secret Manager and SimpleMQ's queues over one generator, or SimpleMQ with a database and its own; stop and restart | composes `KeyManager`, `SecretManager` and `IDs` by `INSTANCE` |
| `ApiGateway` | the management API and the requests the gateway serves | an operation of the store is an action; a proxied request is `FindRoute`, its users, its service, with the store unlocked in between |
| `GatewayLogin` | OIDC logins and sessions | `TakeState` is the critical section of `finishLogin`, `Establish` the one after the exchange with the provider |
| `ObjectStorage` | buckets and access keys, mirrored to the data plane | one call of the data plane is one action, with a branch for its failure and the roll-back that follows; `Restart` empties the store and keeps the directories |
| `Identity` | the tables of IAM | `Set` and `Drop` are the generic table's, the handlers go on to sweep up one owned record at a time |
| `MonitoringSuite` | storages, keys, rules, targets, routings | a handler holds the record it looked up; `ChangeInPlace` writes to it without a lock |
| `CloudHSM`, `SecurityControl`, `Notification` | these stores, with a peer's creation, a paged list and a reordering as the handlers of several steps | |
| `Orders` | the slices of IDs that stores keep beside their maps | `Among` is `removeFromOrder` and the loops like it |
| `Stores`, `Engines`, `Sakumock` | `sakumock <service>`: a process that serves one of the services above; `Stores` has those that are a store and its requests, `Engines` those that do more | compose twelve modules by `INSTANCE` |
| `Scenarios` | that process, looked at from one side, or the parser of expressions | adds `Expression` to `Sakumock`, and says what there is in each scenario (`Within`) |
| `MC*` | constants and symmetry for TLC | |
| `SimpleMQ_proofs`, `AppRun_proofs`, `EventBus_proofs`, `Workflows_proofs`, `Suite_proofs`, `ApiGateway_proofs`, `Stores_proofs`, `Sakumock_proofs` | theorems and proofs | |

Data is abstracted to what the properties tell apart: message contents, settings
that are only stored, names, tags and timestamps nobody compares are left out.
Requests that are refused before they change anything are left out too, except
where the refusal rests on state another request may change.

A definition whose comment begins "Mutation:" is not part of the model: it is what
another one would be with a plausible bug in the code, and stands beside it so
that `PROJECT.json` can say which property notices.

### One process, one service

`Sakumock` is what `cmd/sakumock` starts when it is given the name of a service:
that service alone, with state nobody else sees.  `serving` is chosen in `Init`,
the variables of the services not served have one fixed value, and only the one
served acts.  Its state space is the sum of those of the services and not their
product, which is sound because they share nothing; what they do share in
`sakumock all`, the ID generator, is `Suite`'s subject.  The layers are for the proofs:
`Stores` declares the stores and what they are assumed to be given, `Engines` adds
Object Storage, the logins and what runs by itself beside a store, `Sakumock` is the
process.  `Scenarios` is what TLC checks of it.  It adds the parser of expressions, which
is apart because its RECURSIVE operators may not be in reach of a theorem, and divides
what is too large to be checked at once: a scenario restricts what there may be
(`Within`) of Dedicated, IAM or Monitoring Suite, so that a question about pagination
does not pay for containers.  The theorems are about `Sakumock`, without such a
restriction.  There are 21 scenarios:

| scenario | module | what is in it |
|---|---|---|
| pools, listing, containers | `Dedicated` | clusters, groups, balancers and nodes; applications up to the limit and a client paging through them; versions, activation and containers |
| buckets, keys | `ObjectStorage` | buckets and directories; accounts, permissions and keys |
| people, projects, folders | `Identity` | users with devices and keys; principals with their keys, and projects; projects and folders with their policies, and the records of the other tables |
| alerts, storages, routings, rules | `MonitoringSuite` | targets and routings with their order; storages of every sort and their keys; a log storage, its key and its routings; log-measure rules and metrics routings, one request at a time about to write |
| hsm, actions, reordering | `CloudHSM`, `SecurityControl`, `Notification` | all of it |
| login | `GatewayLogin` | three states, three sessions, two callbacks at once |
| database | `SimpleMQSQLite` | one queue name, made and deleted twice, two requests; three instants, so that a message is hidden, seen again and expires; the settings of a queue differ from the defaults |
| parallel | `Parallel` | three branches with no limit on their concurrency, or one or two of them at a time; a limit of three is no limit |
| runbook | `Runbook` | 588 runbooks of one or two steps, with steps inside the first and perhaps inside one of those; a `for` of up to two items; the context cancelled at any time |
| expression | `Expression` | five alphabets of tokens, texts of up to nine for the conditional, seven for the other operators and the brackets; three levels of nesting allowed |
| schedule | `Crontab` | 324 expressions, two windows, three starts |

`RecordsAgree`, `DataPlanesFollow`, `ListsInOrder`, `NothingUndone`, `OutcomesTrue`,
`ReadAsMeant` and `RunbooksEnd` are each one demand made of several services or parts;
what it means for a service is a named definition of that service's module.

## The runs

| run | question | bounds, and why they are enough |
|---|---|---|
| `SimpleMQ_messages` | do leases hold, and are expired messages freed? | two consumers, one queue, two messages, three instants: a receive, its timeout and another consumer with an older or a newer clock |
| `SimpleMQ_queues` | do the settings and the generations of a queue agree, is nothing lost? | two clients, one name, two control-plane queues and three message queues under it: a request can hold a queue that was deleted and made again. One message, one key rotation. Default visibility differs from the one requested, so settings from the wrong place show |
| `EventBus_schedules` | is every boundary fired, once? | the scheduler and one manual tick, two items, three instants; a recurring and a crontab schedule, one edit |
| `EventBus_status` | is a Status the latest, are references sound? | one worker at a time, a process configuration, a schedule and a trigger, one event, forwarding that succeeds or fails |
| `EventBus_overlap` | (violation) is it, with two ticks in flight? | two workers |
| `Workflows_executions` | does every execution end, once, consistently, as `Lifecycle` says? | one execution with a step and a branch left behind, two cancel requests, timeout, deletion and shutdown; two revisions and an alias. Executions touch each other only through the id they are stored under, so one is enough for those properties |
| `Workflows_cancel_race` | (violation) does an accepted cancel stick? | one of everything |
| `AppRun_containers` | is the latest version kept, and do store, manager and Docker agree? | two requests, one application, three versions of which two are kept: a version can be pruned or deleted while another request has it in hand. Applications share nothing but the version counter. A component names no registry or an image whose container may exit at any time, which includes one that does not and one that exits at once; `docker rm` may fail on any container the manager has, and `docker inspect` in a start as in a turn of the monitor. A `docker port` that fails leaves what a failing inspect of a start leaves, and a `docker run` what an exit leaves; they are in the model, and in the proofs, without adding to this run |
| `AppRun_update` | (violation) does an update start the new container? | as above |
| `Suite_stores` | are IDs distinct, and does what is stored survive? | four IDs, a preset one in the middle of them, restarts at the same second or the next; two key versions and two secret versions kept of three stored |
| `ApiGateway_references` | are references sound, and is a request served by what there is? | two of what is named by several records, one of the rest, six records made in all, one proxied request: a record can be deleted and another take its name between two looks |
| `Sakumock_services` | do the other services keep their records, their lists and their data planes straight? | two requests in flight, and of every kind the fewest records that let one of them be deleted, and made again, under the other's hands; about 1 110 000 states over the 21 scenarios |

The calendar of `MCSakumock` has ten days of two hours of two minutes, months of two
and three days and weeks of two, so that every field of an expression has values
that come back and values that do not, and the search takes each of its jumps.
`Crontab` asks nothing of a calendar but `CalendarOK`, which TLC evaluates for this
one.  `FiveYears`, `MaxApplications`, `MaxKeys`, the sweep threshold and the page
sizes are the code's limits scaled down to where they are met.

`CHECK_DEADLOCK FALSE` stands where the bounded system really stops: everything
it may create has been created, or the server has been closed.

### The abstract specification

`Lifecycle` says what the Workflows mock promises of an execution: it is owed an
outcome from when it is made, gets it once, and changes no more; until then it may
be cancelled, deleted with its workflow once cancelled, and even run after that.
`Workflows` implements it (`KeepsPromise`, checked with the fairness of both) under
the mapping that reads an outcome as owed while the handler or the goroutine of the
execution has its last update still to make.  That the debt outlives a cancellation
is what the code does, and why `Workflows_cancel_race` finds what it finds.

### Fairness

Only what runs by itself is fair; no request is ever assumed to arrive.

- `SimpleMQ`: the compaction goroutine (`compactLoop`, a `time.Ticker`) with the
  time it is then.  It only needs the locks, which every holder gives back.
- `EventBus`: the goroutine of a tick or an event goes on from step to step (it
  blocks on nothing but locks and a forward with a timeout), and the scheduler
  takes its next tick with the clock's time, being a loop over a ticker.
- `Workflows`: a handler that has begun and a goroutine that has started go on;
  the timeout of a context expires; a run whose context is done returns.  That a
  run returns otherwise is *not* assumed: a runbook may loop for ever, and
  `RunsEnd` holds of it all the same, because of the timeout.  A branch that was
  left behind ends for the same reason; that it does is what `Parallel` shows.
- `Parallel` and `Runbook` (`RunFairness`): every goroutine that can go on does.  A
  goroutine at the semaphore or the channel can go on only if there is room, so that
  the fairness assumes none of what `RunbooksEnd` says.  Calls end, for they carry the context.
- `AppRun`: the monitor goroutine (a `time.Ticker`) takes a turn when a container has
  exited, and a handler that has begun goes on: it only waits for the two locks, and
  for docker commands, which return.

## What is proved

TLAPS checks these for every value of the constants that the named assumptions
admit: any number of clients, queues, messages, applications and versions.
The assumptions say that bounds are natural numbers, that the configured durations
and limits the code requires to be positive are, and that `None` is none of the
values it stands beside.

**SimpleMQ** (`SimpleMQ_proofs`): `TypeOK`, `IndexesAgree`, `SettingsAgree`,
`NoStaleIncarnation`, and, as action properties, `LeaseHonoured` and
`NoSilentLoss`.  Not even the type invariant is inductive: a send reads the
settings of the queue its request holds.  `IInv` adds that every handle in the map
or in a request was made (`HandlesMade`), that what was allocated is behind its
counter (`Allocated`), what a request knows at each step (`RequestShape`), that a
live queue was made in its name's present generation (`HandleGenerations`), and that
a running lease is the visibility the store has for the message (`LeasesStored`),
which is what makes a receive with an older clock harmless.  `SettingsAgree` is
carried separately, under the assumption that the defaults are whole seconds.

**AppRun** (`AppRun_proofs`): `TypeOK`, `LatestKept`, `RunningIsKnown` and
`HealthyIsServed`.  That a version which is about to be deleted is not the latest
rests on what the request read three critical sections earlier.  `IInv` carries it
over: versions are numbered in the order they are made (`Numbered`), those of an
application are its own and listed in that order (`Owned`, `Ordered`), and a request
that will delete a version knows a later one, which the latest is never before
(`Pending`).  The lemmas `KeepSuffix` and `WithoutOne` say what pruning and deleting
do to a list, `LedgerKept`, `RequestMoves` and `LedgerMoves` why a step of one request
leaves what the others know true.  For `HealthyIsServed`, `Served` says what a
request in the middle of a start or a stop has already done to Docker, and that only
a component with a registry was ever given a container.  All four hold whichever
docker commands may fail (`Failing`); the exceptions that makes necessary are in the
properties themselves: a container about which `docker rm`, `port` or `inspect` failed
(`lost`) may run unknown to the manager, and an application whose latest version names
no registry is Healthy with nothing that serves it.

**EventBus** (`EventBus_proofs`): `TypeOK`, `FiredOnce`, `ReferencesKeepClass`,
`NoneMissed` and `StatusIsLatest`.  Two ticks can find one boundary only if their
windows overlap: the invariant says that every job was found in a window that ends
at or before `lastTick`, and that no two jobs have one schedule and one boundary.
References rest on IDs never being given again.  `NoneMissed` is proved where
`maxFiresPerTick` is enough for any window (`CapSuffices`), `StatusIsLatest` where
there is one worker; the run `EventBus_overlap` shows that two workers break it.

**Workflows** (`Workflows_proofs`): `TypeOK`, `ActiveOwned`, `OutcomeAgrees`, and
`Implements`, the step simulation behind `KeepsPromise`: every initial state is one of
`Lifecycle`, and every step is one of its steps or leaves its variables alone.  The
invariant is indexed by the phase of the goroutine of an execution: what it has
recorded, what it was told, and that it holds the cancel function registered for it
(`Recorded`, `Told`, `Connected`).  `OutcomeAgrees` ties the times of success and
failure to the status and excludes the one with the other; `canceledAt` is bound only
where the code binds it, in an execution that was cancelled before it began.

**Suite** (`Suite_proofs`): `TypeOK`, `IdsDistinct`, `StaysReadable` and `VersionsKept`.
The generators are beyond every ID in use, whether it was drawn, preset or found in
the database; key material is a function of where it was made and of its version, so
a ciphertext that names both can be decrypted; the versions of a secret are a window
that ends at the latest.

**API Gateway** (`ApiGateway_proofs`): `TypeOK`, `ReferencesSound`,
`BadGatewayOnlyIfGone` and `OnlyMembersAdmitted`.  Each kind of reference has a
conjunct of its own, as each create and delete disturbs few of them.  IDs are never
given again (`Issued`), which is needed because a domain may name a certificate that
is gone.  A request that has matched a route goes on with what it read; the
invariant says what of it is still true when it is answered.

**The process** (`Stores_proofs`, `Sakumock_proofs`): `TypeOK`, `RecordsAgree`,
`NothingUndone`, `ListsInOrder`, `LoginsUsedOnce`, `OutcomesTrue`, `BoundariesFound` (half
of `ReadAsMeant`), `ApplicationsBounded` and `DataPlanesFollow`.  Nothing changes `serving`,
and a step of the process is a step of what it serves (`ServesTheSame`); so the proof is an
inductive invariant for each service, gathered in `EngineInv` and `StoresInv`.  Of the
engines:

- *Logins* (`LoginInv`).  The code trusts a random state not to be drawn twice, and
  `randoms` is what was drawn: a login that is being exchanged, or has its session,
  is pending no more and cannot be again.
- *Parallel steps* (`StepInv`), for any finite set of branches.  A branch puts its
  result into a channel with room for all and returns its token afterwards: `Sent` and
  `Closed` relate both to where each branch is, and that there is room is shown by
  mapping what is in the channel one to one to the branches that have finished
  (`RoomForOne`).
- *Runs* (`RunInv`): once a run has noticed that its context is done it does nothing
  but return the error of it, unless a try has caught that, which is on record.
- *Crontabs* (`CronInv`), for every calendar that is one (`CalendarOK`).  `next` skips
  whole months, days and hours and is right only because no minute of what it skips
  matches (`SkipIsSafe`); that a search loses nothing is the conjunct `Search`.
- *Buckets* (`BucketInv`): what each request in the middle of a creation, a deletion or a
  roll-back has yet to do (`BucketCalls`), that a bucket which two requests had in hand
  at once is on record (`RacesNoted`), and that any other that is listed is served, or
  in a request's hands (`Served`).
- *Keys* (`KeyInv`): the same of the keys of accounts and permissions (`KeysServe`,
  `KeysStop`, `KeyCalls`); an owner has no more than one key, numbered no higher than
  its counter, so that a new key is not one the gateway knows (`KeysOwned`).

Of the stores, each beside its `TypeOK`:

- *Orders.*  A store keeps a slice of IDs beside a map, and takes IDs out of it with a loop
  (`Among`).  The prover has no induction over data, but from the well-foundedness of the
  numbers it has a least number of any set (`LeastNumber`), and so a first turn at which a loop
  would go wrong: `KeptPicks` says what the loop has picked after any number of turns, and
  `AmongIsTheRest` what follows from it for a slice of any length.
- *Dedicated* (`AppRunInv`).  The orders name what the maps hold, each once; what a map holds
  was made; a request that is to start, stop or delete an application has one (`CloudInv`,
  `CatalogInv`).  What a listing has still to see comes after its cursor, or the cursor's item
  is gone and the listing starts anew (`PageInv`).  `Once` is what makes that inductive: with an
  ID twice in the order the cursor would not tell where the listing is.
- *Its applications* (`LimitInv`).  The limit is counted in one critical section and used in
  another, so a bare bound is not inductive; the sum of the applications and of the requests
  that were counted for is, as long as there are any.
- *IAM* (`IamInv`).  An order matches its table (`IamRecords`), a request is about what it may be
  about (`IamWork`), and whatever belongs to nobody any more, or is a policy of nothing, is in the
  hands of a request that will come to it: in the rest of the list that request walks, or in a
  table it has not listed yet (`IamTidy`).  What was added after the sweep (`late`) is excepted,
  and what mentions a deleted record without belonging to it, a group's members or the bindings
  of another's policy, is not looked at.
- *Monitoring Suite* (`SuiteInv`).  The records a handler has looked up may be deleted under it:
  `EditSound` says what is true of them still, and that a record to be stored has an ID that
  nobody else has in hand.  A new routing's order was drawn beyond those stored at that time, so
  it comes after those that are there still (`before`).
- *CloudHSM* (`HsmInv`).  Every ID is below the counter, and no partition, client or license
  shares one.
- *Security Control* (`ControlInv`).  What a client that walks the list has still to see is after
  its token (`Ahead`), or, walking back, before it (`Behind`), where deletions do no harm.
- *Simple Notification* (`NoteInv`).  The settings of a routing are the last accepted, unless a
  reordering has crossed an update (`crossed`), and a request that reorders has read the last.
- *SimpleMQ's database* (`DBInv`).  A lease never outlasts the visibility in the table, and a
  request's times are numbers of its own clock; `LeaseHonoured` and `NoSilentLoss` then hold of
  every step, a restart's included.

`StoresAssumption` and `EngineAssumption` state what is assumed: bounds are numbers, `None` is none
of the IDs, IDs of different kinds differ, the requests in flight are finitely many
(`BoundsOK` of each module); `MaxKeys` is 1, as `maxAccountKeys` and `maxPermissionKeys` are; the
table of days reaches far enough beyond both ends of a window, and is a calendar (`CalendarOK`);
parsed fields are in their ranges (`FieldsOK`), and a runbook's steps hold lists that are
there (`BooksOK`).  TLC evaluates them for the run `Sakumock_services`.

Only model-checked: the liveness properties (`ExpiredCompacted`,
`EveryBoundaryFires`, `RunsEnd`, `ExitIsNoticed`, `RunbooksEnd`) and the fairness of
`KeepsPromise`, which are beyond the prover; and the half of `ReadAsMeant` about
expressions, because their parser is recursive.

## Where code and documentation part

Three runs end in a counterexample to what a document says; `PROJECT.json` has them
under "findings" with the lines.  EventBus can leave the Status of an older firing.
A Workflows cancel can be accepted and the execution run all the same.  An AppRun
update after an exit does not start the new container, because the old one still
has its name.

Met while modelling, and not the subject of a run:

- SimpleMQ's strict mode "only serves queues that were created" (its README, line
  139), but looks the queue up before the request takes it: one deleted in between
  is served, and made anew by the look-up that follows.  With a database SimpleMQ
  numbers its queues itself, so that under `sakumock all` other services give the
  same IDs (`core/server.go:30` says IDs are globally unique).  After a restart it goes
  on from the time of the start or the highest number stored, so that a restart within
  the second may give the number of a deleted queue again; `SimpleMQSQLite` includes that.
- `ExtendTimeout` sets the visibility from the clock its handler read, so one with
  an older clock can shorten it; the lease property counts an extension as the end
  of the lease.  Who may extend or delete is not checked: a consumer whose lease is
  over still can.
- A default visibility timeout below a second becomes zero for a queue created by
  the control plane, and not for one made by its first message (`int(vt.Seconds())`).
  `SettingsAgree` is proved for whole seconds.  The SQLite store falls back to the
  defaults there, for both settings at once.
- A window with more than `maxFiresPerTick` boundaries loses those beyond it, as
  `lastTick` has moved on; the comment on `start` says that none is missed.
  `ReadAsMeant` says which ones are lost: the last.
- A range of a crontab field with a step near the largest integer overflows in
  `rangeMask`; `Crontab` has no such steps.
- A job whose forwarding was answered late is recorded as failed though it may have
  arrived, and the client library may have retried it; that is for who reads the
  delivery record to know.
- History appended after `DeleteExecution` stays in memory.  An execution that was
  cancelled and whose run then ends otherwise keeps its `CanceledAt` beside the time of
  that end (`store_memory.go:399-426` clears nothing), and a run that ends as Canceled by
  itself has none.
- `Validate` of a runbook "reports an error when the runbook is not executable"
  and does not look at `next`.  A `next` is looked for in the list its step is in, so
  from inside a try (whose body is a list of its own), a `for`, a switch or a branch
  it cannot reach an outer step: the run fails there, or a try catches it.
- `EvalInterpolated` takes a string that begins with its only `${` and ends in a
  brace for one expression, so that `${a} and }` is refused.
- A branch of a parallel step that waited for the semaphore clones the variables
  when the step may have returned its error, while a try around it sets its own
  (`ExceptAs`): a map read while it is written, which Go does not define.  The
  hazard stands in the list without a property.
- AppRun starts a container only for a component with a `container_registry`, which
  `deploy_source` does not require: without one an application is Healthy from its
  creation with nothing to serve it, and a patch to such a component leaves the
  container of the version before running.  A failed `docker rm` is logged and the
  container forgotten all the same (`dataplane.go:109-113`), a failed `docker port`
  (73-78) or `docker inspect` (87-92, 170-175) taken for an exit: the container may run
  on, and holds the name that the next start needs.
- AppRun validates a patch against one version and merges it into another, so two
  valid patches can leave `min_scale` above `max_scale`; deleting an application can
  overtake the start of its container; `Close` can come before the handlers are
  through, as `Serve` does not wait for `Shutdown`; its README says of the status
  "Always returns Healthy", which the data plane does not do.
- AppRun Dedicated: two updates that activate versions may start the container of
  the older one; a delete may be overtaken by a start, which leaves a container; a
  `docker rm`, `port` or `inspect` that fails leaves one the manager does not know, as
  in AppRun, so that `PortsHeld` asks only that Docker has what the manager forwards to; deleting a cluster
  leaves what names it, and the active version may be deleted.  `handler.go:946` and
  `571` look at the stored application's version twice without a lock, and it may be
  nil the second time.
- API Gateway: deleting a certificate a domain uses is refused by looking at the
  domains, while `UpdateDomain` assigns the certificate before it knows that there
  is one, so a refused update leaves a domain that names none; the groups of a user
  are replaced one by one up to the first that does not exist; a service changed to
  Object Storage keeps routes with methods its README excludes.
- Object Storage: two creations, or a creation and a deletion, of one bucket or key
  at once can leave the store and the data plane apart, and a failed creation can
  take away the directory another one made: `DataPlanesFollow` excepts what two
  requests had in hand at once (`raced`).  A directory left from before a restart, or
  by a removal that failed, becomes the content of a new bucket: that a bucket which is
  not listed has no directory is not asked.
- IAM: deleting a user or a service principal leaves its ID among the members of groups
  (`handler_group.go:127-147`) and in the bindings of stored policies
  (`handler_user.go:199-210` touches neither).  `NothingLeftBehind` is about what
  belongs to a deleted record, not about what mentions it.
- Monitoring Suite: an update of a log routing has set the publisher when it is
  refused for its storage; an update of a storage deleted meanwhile is answered with
  success; two creations at once can draw the same order.
- Simple Notification: an update that crosses a reordering of its routing is lost.
- IAM: a request that looked a user up in time can add a device after the sweep of
  its deletion; `NothingLeftBehind` excepts it (`late`).
- Secrets can be stored under an ID no vault has.  A secret deleted and made again
  starts at version 1.

## What is not modelled, and why

`PROJECT.json` says of each component what is left out.

- *Generated validators.*  More than half of the lines of the implementation are
  `validate_gen.go` and the like: tables of field constraints, written by a
  generator from OpenAPI documents and walked by one function.  They hold no state,
  and a model of them would be the documents over again; so the share of the lines
  that definitions stand for stays near a tenth, and a quarter of what is written by
  hand.
- *Requests and answers*: routing by path, parsing, the JSON forms, headers, CORS,
  transformations, filters of lists, statistics.
- *External programs*: Docker, versitygw, the VictoriaMetrics processes, the
  identity provider.  They are modelled as far as the code relies on them (what
  Docker has under a name; which call may fail), and marked external.
- *Cryptography* is taken to be sound: signing, hashing, encryption.
- *Service Endpoint Gateway and Add-on*: one map under one lock, nothing that refers
  to anything; there is nothing to interleave.
- *Faults and the rate limit*: a fault is drawn for each request and has no state; the
  bucket is a library's, and what is added is a map of buckets under one lock.
- *Of expressions*: tokens, evaluation and functions; *of runbooks*: reading the YAML
  and the HTTP calls.  Both are pure and sequential; the parser of expressions, where
  an order of operators can go wrong, is modelled.
- *Code generators and drift reports*: not part of the program that runs.

## Plan

1. Done: `SimpleMQ`, `EventBus`, `Workflows`, `AppRun`, and the composition `Suite`;
   the other control planes and the composition `Sakumock`; logins, the run of
   a runbook with its parallel steps, the parser of expressions and the crontab; the
   abstract `Lifecycle`; the database of SimpleMQ.
2. Proofs: done for every invariant and action property that the runs check, but for the
   parser of expressions.
3. Worth adding: an abstract queue that both stores of SimpleMQ implement; a parser of
   expressions written as a recursive function, which a theorem could be about.
