# Verification of the Dragonfly client SDK

TLA+ models, TLC model checks and TLAPS proofs for the client SDK of Dragonfly
(`client-request/rust` and its port `client-request/go`). A client sends a GET
through a seed peer of a Dragonfly cluster, and preheats or deletes files on the
seed peers. Paths below are relative to `client-request/`.

## 1. Inventory

| Part | State | Operations | What is hard about it |
|---|---|---|---|
| Seed peer selector (`rust/src/selector.rs`, `go/internal/selector`) | `hosts` (name to host and health), hash ring, refresh mutex | `refresh`, `update`, `select`, `select_all`, `run` | concurrent updates, a lock released between comparing and installing, slow listings |
| Ejection (`on_failure`, `on_success`, `is_ejected`, `EjectionMiddleware`) | failure count and ejection time per proxy endpoint | record an answer, record a failed connect, query | late answers, a check and a removal in two steps, time |
| Replica walk (`select`) | none (reads hosts and ring) | clockwise walk with a doubling window | termination and boundaries of the window |
| Requests (`Proxy::get`, `get_into`, `lookup_endpoints`, `retry.rs`) | the attempts of one request; the caller's buffer | look up endpoints, shuffle, attempt, retry | endpoints are looked up once and may be ejected meanwhile; a body that breaks half way |
| Client pools (`rust/src/pool.rs`, `go/internal/pool`) | clients by endpoint, their last use, last cleanup | `entry`, cleanup | Rust has no lock around an entry; capacity and idle time |
| Preheat and delete (`Proxy::preheat`, `delete`, the image variants) | one task per seed peer | fan out, retry per peer, first error aborts the rest | partial failure, unhealthy replicas |
| Selector service (`run`, `shutdown.rs`, Go `Run`/`Close`) | the loop's position, pending signals | tick, signal, close | a signal that arrives during a refresh |
| Task ids (`id_generator.rs`, `task_id`, `digest.rs`, `url.rs`, `http.rs`) | none | derive an id from a request | one id for one file, however its url is spelled and whoever derives it |
| Errors (`errors.rs`, `errors.go`) | none | classify an answer, decide on a retry | the answer of an origin arrives in two ways, HTTP and the details of a gRPC status |
| Request types and headers (`lib.rs`, `request.go`) | plain data | defaults, validation, headers, messages | the SDK picks seed peers by an id that the seed peer derives again from what it is sent |
| Image resolution and stat (`oci.rs`, `stat_image`, `stat.go`) | none | manifest, digests, urls, what is held | preheat, delete and stat must mean the same tasks |
| Builders (`ProxyBuilder`, `ProxyWithSeedPeersBuilder`, `ProxyWithEndpointsBuilder`) | the proxy under construction, its service | validate, connect, first refresh, spawn, assemble | a step that fails after the service was spawned |
| Tracing, certificates, connection settings | plain data | set | none for a model checker |

Interactions: `Proxy` owns a selector, a pool and a retry policy. A background
task refreshes the selector from the scheduler; `ProxyWithSeedPeers` replaces
the listing by calls of `update_seed_peers`. A request asks the selector for the
healthy replicas of its task, drops the ejected endpoints, shuffles the rest and
sends every attempt through the pooled client of the next one. The client's
middleware reports every answer and every refused connection back to the
selector's ejections.

What makes each part correct, in a sentence; the properties of section 4 make
it precise.

- Selector: hosts and ring are always in step, an update is atomic for readers,
  an older listing never overwrites a newer one, and the table catches up with
  the scheduler.
- Ejection: the count is that of failures in a row, whatever answers and
  refusals coincide, and no ejection lasts for ever.
- Replica walk: it returns exactly the healthy ones among the nearest hosts of
  the ring, and it ends.
- Requests: attempts are spread evenly over the endpoints, a request gives up
  only when its attempts are used up, a buffer holds the file once and whole or
  is as it was, and every call returns.
- Client pools: calls for one endpoint share one client, cleanups remove what is
  idle and nothing that is in use (Go), except when the pool is crowded (Rust).
- Task ids, requests, images: what is put at the seed peers by one call is found by
  another for the same file, and only by such; stat reports exactly what is held.
- Errors: an attempt is repeated exactly when the documentation says.
- Builders and service: a proxy that was built has what its requests need, and its
  service refreshes until it is stopped.
- Preheat and delete: Ok means that the work is done on every seed peer
  addressed; an error has a cause other than the call's own retries or
  cancellations; the limit of concurrent tasks is kept and no permit is lost.

## 2. Modules

| Module | Models | State |
|---|---|---|
| `SeedPeerSelector` | `rust/src/selector.rs`: `refresh`, `list_seed_peers`, `update`; `update_seed_peers` of `lib.rs` | `hosts`, `ring`, `mutex`, and per task where it is and the listing it brings |
| `SeedPeerTable` | the abstract specification of the selector: an atomic table | `table`, `ring`, the listing each caller offers |
| `Ejection` | `on_failure`, `on_success`, `is_ejected` | per endpoint: entry present, failures counted, age of the ejection |
| `ProxyGet` (extends `Ejection`) | `Proxy::get`, `lookup_proxy_endpoints`, `EjectionMiddleware`, `retry.rs` | per request: shuffled endpoints, attempts, outcome |
| `Rotation` | the abstract specification of a request in both SDKs: the retry policy | per caller: phase, endpoints, attempts at each, attempts made, what it returns |
| `GetInto` | `get_into` of `Proxy` and `ProxyWithEndpoints` | the caller's buffer, the buffer on its way through the attempts, the mark to cut back to |
| `TaskIds` | `id_generator.rs`, `digest.rs`, `url.rs`, `http.rs`, `oci.rs`, `Proxy::task_id`: how a file gets its id | none: operators on urls taken apart |
| `Errors` | `errors.rs`: `from_response`, `from_status`, `is_retryable` | none: operators |
| `Requests` (extends `GetInto`, `TaskIds`, `Errors`) | the request types, `GetRequest::send`, `proxy_headers`, the messages of preheat, delete and stat, the targets of an image | the request of the `get_into` in hand, what its last attempt met, the ids held and picked by, a history of the files put and not deleted, the last report of a stat |
| `ProxyLifecycle` | the three builders, `SeedPeerSelector::run`, `shutdown.rs` | per proxy: where its `build` is, its table and clients, where its service is, tick due, signal heard; of the process: whether signals still end it |
| `ReplicaSelection` | `select` of `selector.rs` | the walk: window, position, hosts seen and found |
| `ClientPool` | `rust/src/pool.rs` | clients by key, last use, last cleanup, per call where it is |
| `FanOut` | `Proxy::preheat`, `Proxy::delete` | what the seed peers hold, per call and seed peer a task with its attempts, requests nobody waits for any more |
| `ImageTasks` | `Proxy::preheat_image`, `Proxy::delete_image` | a task per target, the free permits of the semaphore, what is held |
| `GoPool` | `go/internal/pool/pool.go` | pooled clients, requests under way, time since last use and since the last cleanup |
| `GoGet` (extends `GoPool`) | `Get`, `GetInto`, `sendTo` of `go/proxy.go`, `go/retry.go` | per call: endpoints, attempts, the attempt contexts not yet cancelled, whether and how its context has ended |
| `GoFanOut` | `go/preheat.go`, `go/delete.go` | two levels of errgroups: a goroutine per target and per seed peer, the first error of each group |
| `MC*` | small instances: constants and symmetry | |
| `SelectorProofs` | theorems about `SeedPeerSelector`, `ReplicaSelection` and `ProxyLifecycle` | |
| `RequestsProofs` | theorems about `GetInto`, `Requests`, `TaskIds` and `Errors` | |
| other `*Proofs` | theorems about the module they are named after | |

How the modules compose: `ProxyGet` extends `Ejection` and `GoGet` extends
`GoPool`, sharing their state. `ImageTasks` takes a preheat or delete of one
target as a step, which `FanOut` justifies (its `OkMeansEverywhere` and
`EveryCallReturns`, which a preheat whose stream stays silent does not). `ReplicaSelection` assumes of the table that the ring names
its hosts, which `SeedPeerSelector` proves (`HostsAndRingInStep`); `FanOut`
takes the replicas as a constant set, which `ReplicaSelection` defines
(`ReplicaSet`). `GetInto` leaves the choice of endpoints to `ProxyGet`, and so
does `GoGet` the answers of a look-up. `ProxyGet` and `GoGet` implement `Rotation`: an
order drawn once and an index that wraps round it are one way to try the endpoints
evenly. `Requests` is `GetInto` with requests that
say something: its steps are those of `GetInto`, each with the file, the headers
and the failure behind it, among preheats, deletes and stats that are single steps
there, as `FanOut` and `ImageTasks` justify. `ProxyLifecycle` takes a refresh as a
step that ends, well or not, which `SeedPeerSelector` details.

How actions correspond to code. A step of a Rust task is the code between two
points where another task can run: an `.await` that may suspend, the release of
a lock, two operations on a concurrent map. So `update` is two steps, `Rebuild`
and `Install`, or one, `ReplaceRecords`, as its names differ or not; and
`on_success` is two, `Answered` (with `HasEntry`) and `Clear` (with
`RemoveEntry`). A step of a Go call lies between two operations on shared state,
so `Entry` is one step, under its mutex, and taking the guard is another. A
future that may be dropped has an action `Cancel` or `Drop`. The map of
`PROJECT.json` names the lines of each definition.

Where an instant of time decides, its age is kept, up to the value where it makes
no more difference (`age`, `idle`, `sinceCleanup`), or a bounded clock
(`ClientPool`).

External parts: the scheduler (`SchedulerChange`), seed peers that execute
requests (`Executed`, `Stray`), proxies that come and go (`Flip`), the registry
(`Retag`), the ring's order (`Walks`), what the proxy of a seed peer and the
scheduler make of headers and messages (`Told`, `Received`, `Found`), what an attempt may
meet (`Responses`, `Statuses`), signals (`Signal`, the part outside `shutdown.rs`),
the caller and its context (`CallerEnds`,
`TakeResult`) and time (`Tick`). They are free to do at any moment whatever the
code has to put up with.

## 3. Runs

| Run | Module | States | Instance |
|---|---|---|---|
| `Selector` | `MCSeedPeerSelector` | 13451 | two refreshers, an updater, two names, listings that are empty, doubled or unparsable, four submissions, two changes at the scheduler |
| `ProxyGet` | `MCProxyGet` | 556820 | two proxies, a request for a task of both and one for a task of the first, which may be unhealthy; two retries, so that the rotation wraps, two failures to eject, cooldown of two ticks |
| `Requests` | `MCRequests` | 69960 | six gets, three preheats, five deletes, two of each image call; two spellings of a url, two registries, known and unknown digests, with and without filter, tag, application, piece length and content, a tag and an application of the same letters, two platforms; a file of two chunks, one retry |
| `ProxyLifecycle` | `MCProxyLifecycle` | 5348 | two proxies, each of seven configurations: valid ones of each kind, and ones that miss a limit by one; a service each, signals at any time |
| `ReplicaSelection` | `ReplicaSelection` | 113096 | every ring of up to five virtual nodes of three hosts, every health, one to four replicas |
| `ClientPool` | `MCClientPool` | 836770 | two keys, two calls, capacity one, clock to three, three clients |
| `FanOut` | `FanOut` | 61824 | two seed peers, both replicas, one caller, one retry |
| `DeleteAll` | `FanOut` | violation | two seed peers, one replica, no retry |
| `ImageTasks` | `MCImageTasks` | 112896 | a tag that moves between two images with a common blob, one permit |
| `ImageByContent` | `MCImageTasks` | violation | three targets of one task id, two permits |
| `GoGet` | `GoGet` | 398133 | two endpoints, of which look-ups return any, two requests, one retry, capacity one, idle timeout of one tick |
| `GoFanOut` | `GoFanOut` | 99132 | three targets, limit two, two seed peers, one retry |

Why the bounds suffice. Two tasks are enough for the races of the code: each is a
race of one critical section of one task with one of another, and no step reads
more than one other task's work. Two refreshers contend for the mutex while an
updater works without it. Two endpoints and three attempts make the rotation
wrap with a remainder, and one endpoint and three make it wrap twice. Two chunks
make a break after nothing, after a part and after the whole. The requests of
`MCRequests` contain, for each parameter of an id, two that differ in it or
agree in spite of it. Two services are enough for signals, which meet a service
only through the streams of its own and the one flag of the process. Rings of
five virtual nodes make the window double from 2 and from 4, end inside, at and
beyond the ring's length. Capacity one with two keys makes a pool crowded and
uncrowded. Three targets with a limit of two make one wait for another. One
retry has both a failure that is retried and one that is not. `FanOut` runs one
caller under fairness, whose calls overlap with the stray requests of earlier
ones; that several callers at once keep its safety properties is proved, not
run. Where a run counts on symmetry it checks safety only. The properties with
a counter (attempts, permits, failures) are proved for all values of the
constants.

Two runs set `CHECK_DEADLOCK FALSE`. In `ClientPool` the clock and the number of
clients are bounded, so the model, not the program, stops. In `ProxyLifecycle` a
signal may end the process, or all builds fail and all services stop. In
`ReplicaSelection` the end is an explicit stuttering step.

`TypeOK` is an invariant of the run of `Selector`; for the other modules it is a
theorem, alone or as a part of an inductive invariant.

Every property has a mutant: a plausible slip in one definition, written beside
it (a dropped guard, an off-by-one, a missing reset), under which TLC finds the
property violated.

## 4. What the runs show

**Selector.** `InStep`: hosts and ring name the same hosts, whichever updates
compared, rebuilt and installed in between. `TableSpec`: the selector implements
`SeedPeerTable`, so a reader never sees a mixture of two listings, and a
cancelled update leaves no trace. `ListingsInOrder`: a refresh never puts an
older listing over a newer one, which is what the `try_lock` is for (the
program itself refreshes from `build` and then from one loop, so the two refreshers of
the run are more than it has today); updates by
`update_seed_peers` are outside it, nothing in the code orders them.
`OnlyARefreshEmptiesTheTable`: an update never takes the last seed peer away.
`CatchesUp`: when the scheduler's hosts stay and can be listed, the table becomes
them; a host whose ip does not parse blocks every refresh while it is listed,
which the property has to exempt. `MutexReleased`: no refresh keeps the mutex.

**ProxyGet.** `CountsFailuresInARow`: the record of a proxy is
the number of its failures in a row, though an answer is recorded in two steps.
`EjectionEnds`: late failures of requests under way may prolong an ejection, but
new requests avoid the proxy, so the cooldown runs out. `EvenRotation` and
`GivesUpOnlyAfterTheRound`: no endpoint is two attempts ahead of another, and a
transient error is returned only after the last attempt, every endpoint having
been tried if there were enough. `RotationSpec`: the requests implement `Rotation`.
Every attempt goes to an endpoint tried least so far, which says more of a history
than `EvenRotation` of its states; what a request returns and when is the policy's
choice; and what other requests do to the ejections meanwhile is invisible.

**Requests.** `HoldsWhatIsAsked`: a get, a preheat and a delete find a file at the
seed peers they pick if and only if it was put there for a request for the same
file, by whichever call, and not deleted since. What is the same file (`Identity`)
is said without ids and from the docs of the request types: one content, one digest,
or one url, that is, decoded queries with the same values for every key the filter
leaves, in any order of the keys, for the same tag, the same application and the same
piece length, each by itself. So the headers of a get and the message of a preheat
must carry all that the id is made of, and preheating an image must leave what
deleting one of its blobs removes.

The code hashes url, tag, application and piece length as one text without
separators, and so does the model: `TaskID` is the sequence of the letters of all of
them, one behind the other. Requests of different files can therefore come to one id
(`RunTogether`), and some of `MCRequests` do: a preheat with the tag "t" and a delete
with the application "t". The property is about the others (`Apart`); nothing else is
exempt. A get that tells the seed peer something else than it goes by itself (an empty
filter, for which no header is sent; a header of the caller's own) is in the property:
it leaves the file at the seed peers of the one id, under the other.
`StatTellsWhatIsHeld`: a stat reports layers of its image only, and of these exactly
the ones put there for the same tag, application, piece length and filter, again of
the ones `Apart`. `RetriedAsDocumented`: an attempt
is repeated exactly for the failures of `rust/README.md:85-91`, whichever way an
answer came. `AppendsOnceOrNothing`: when a `get_into` returns, the buffer holds
what it held and the file once and whole, or only what it held; a dropped call
loses the buffer's content, which the model shows as the code does it.
`EveryCallReturns`, whatever its attempts meet.

**ProxyLifecycle.** `BuiltIsUsable`: a proxy comes with a table and, when it knows
the scheduler, with a service behind it, or with a client for every endpoint; and
no service runs on a table that was never filled. `KeepsRefreshing`: a service goes
on whatever comes of its refreshes and of its proxy. That a service which hears a
signal stops is the one step `Stop`, and no property: which signals it hears depends on
when they come.

**ReplicaSelection.** `SelectsTheReplicas`: the walk selects exactly the healthy
ones of the hosts in the first places of the ring, in their order, where places
are defined without a walk. `SelectReturns`.

**ClientPool.** `CallsShareAClient`: all callers of an endpoint get one client
until a cleanup removes it, though several may make one at the same time.
`CleanupIsThorough`: at the end of a cleanup no client it found had been idle beyond
the timeout when it began (`pool.rs:84-86`), whatever calls took and inserted beside it.
`OnlyCrowdingRemovesRecentClients`: a client handed out within the idle timeout
goes only in a crowded pool.

**FanOut.** `OkMeansEverywhere`: Ok means that every addressed seed peer holds
the file, or holds it no longer, unless a call of the other kind came across.
`FailsForCause`: no call fails because of its own repetition, as a delete
answered by NotFound the second time. `EveryCallReturns`: a delete always does, and a
preheat unless the stream of a download stays silent for ever, of which see below.

**ImageTasks.** `OkMeansEveryTarget`, `WithinTheLimit`, and `EveryCallReturns`,
which a lost permit would break; here, too, a preheat with a silent stream may not
return.

**GoGet.** `OneTimerPerAttempt`: an attempt's context is cancelled when it is
over, and never while its body is being read. `GuardsAddUp`: the count of a
client is the number of requests being sent through it, however they end.
`ClientsInUseStay`: a cleanup never takes a client that is in use; one that
`Entry` has returned and whose guard is not yet taken may go, from a crowded pool
or when the caller has slept beyond the idle timeout, and the request goes on
with it. `GivesUpForCause`: an attempt's timeout never passes for the end of the
caller's context. `EvenRotation`: here, too, no endpoint is two attempts ahead of
another, counted over the attempts aimed at it. `EveryCallReturns`, with nothing
assumed of the proxies.

**GoFanOut.** `AllIsDoneAtReturn`: no goroutine survives the call, even a failed
one. `ReportsTheCause`: the error is never the cancellation that another error
caused. `EveryCallReturns`, with the limit.

### Findings

Two runs show where the code does other than its documentation says.

- `DeleteAll`: `rust/README.md:64-65` says "Delete with the same scope to remove
  the file from every seed peer". `select_all` returns only the seed peers that
  passed their last health check, so one that holds the file and is unhealthy at
  the time keeps it, and the delete returns Ok.
- `ImageByContent`: `lib.rs:184-186` says that `preheat_image` "has the seed
  peers download every config and layer blob". With
  `content_for_calculating_task_id` in the request, every target gets the same
  task id; seed peers that hold the first download no other, and the call returns
  Ok.

Further observations, without a run of their own: the Rust pool over its capacity
removes all its clients, not the idle ones as `pool.rs:81-82` says, which is why
`OnlyCrowdingRemovesRecentClients` exempts it. The comment `lib.rs:1588-1589`,
"so the delete targets the same tasks", holds only while the tag does not move.
The Go pool inserts beyond its capacity, which `pool.go:91` calls the maximum
number of clients. Tag, application and piece length are hashed behind the url
without a separator (`id_generator.rs:106-128`), so a task with the tag "x" and no
application is the task with the application "x" and no tag, though tag and
application each identify "different task for same url" (`lib.rs:276-280`), and a tag
can continue the last part of a url; `HoldsWhatIsAsked` names such requests and exempts
them. That ids of requests which differ in one of the three alone are different is
proved (`OneParameterTells`). A get with an empty filter sends no
filter header (`lib.rs:443`), so the seed peer filters by its default and keeps the
file by another id than the SDK picked it by: a delete with the empty filter does not
find it, and one with the default only where the two ids pick the same seed peers. The timeout of a
preheat's channel covers the answer's headers; the loop over `message()`
(`lib.rs:1754-1759`) waits for a seed peer that falls silent as long as the connection
lives, though "the request timeout applies to each attempt" (`rust/README.md:95-96`).
The model has the silence, and `EveryCallReturns` of `FanOut` and `ImageTasks` says
what holds in spite of it. What code a gRPC status of a channel's own timeout has is
decided in tonic: with `DeadlineExceeded` the attempt is retried as documented, with
`Cancelled` it would not be.
`StatImageRequest` has no content for the task id: an image preheated with one is
reported as missing. A signal is seen by a service only while it waits; during a
refresh it is lost, and because tokio's handler stays installed it does not end
the process either (`selector.rs:238`, `shutdown.rs`). The service that `build` has
spawned goes on when `build_proxy` fails afterwards or the proxy is dropped.
`replicas as u32` (`lib.rs:1889`) makes a multiple of 2^32 ask for none.

## 5. Fairness

Safety runs use no fairness. Where a run checks liveness:

- `SeedPeerSelector`: weak fairness of each task's next step, because the
  scheduler's answer and the health checks have timeouts and tokio runs ready
  tasks; strong fairness of `StartRefresh`, because `run` ticks for ever and a
  refresh that finds the mutex held tries again at a later tick; strong fairness
  of `ListHosts`, an assumption on the scheduler: asked again and again it
  answers.
- `ProxyGet`: weak fairness of time alone; that ejections end needs nothing of
  requests or proxies.
- `Requests`: weak fairness of `Attempting`, the steps of the `get_into` in hand,
  because every attempt ends by the request's timeout. Which of its outcomes an
  attempt has is free: it may fail every time, and in any way.
- `ProxyLifecycle`: weak fairness of the steps of a service, which tokio polls and
  whose refreshes end by their timeouts, and of its interval. Nothing is assumed of
  signals and of builds.
- `ReplicaSelection`: weak fairness of the walk, a loop without waiting.
- `FanOut`: weak fairness of what the client bounds (`Bounded`): an attempt whose
  answer does not begin ends by the timeout of its channel, and tokio runs ready tasks.
  The steps of a task that waits for the next message of a stream (`Streaming`) have no
  fairness: nothing on this side ends it, and whether the seed peer keeps to the
  timeout the request hands to it is its own affair. Fairness is of all other tasks
  together, so that one silent stream excuses no other task.
- `ImageTasks`: the same with targets for tasks: a delete of a target ends, as it does
  in `FanOut`; a preheat of one (`Streaming`) may not, and then keeps its permit.
- `GoGet`, `GoFanOut`: weak fairness of what the call does by itself, its timers
  and the end of a request whose context is done among them. Nothing is assumed
  of proxies, seed peers or callers: their answers are not in the fair actions.

No crash, cancellation or failure is subject to fairness, except where the
failure of an attempt is what its timeout guarantees.

## 6. What is proved

The theorems are of the form `Spec => []Inv`, `Spec => property` or, for a refinement,
`Spec => AbstractSpec`, for all values of the constants that satisfy the assumptions
of the module (finite sets of endpoints, seed peers and targets, natural bounds, at
least one permit and one replica; in `ProxyLifecycle` that a configuration is one of
the three builders'; in `Requests` that answers are HTTP statuses and that keys and
urls have the fields of the model).

- `SelectorProofs`, the selector: `TypeCorrect`, `HostsAndRingInStep`,
  `RefreshesInOrder`, `UpdatesKeepSeedPeers`, `Refinement`. The inductive
  invariant is `IndInv`. `InStep` is inductive once the types are known:
  `Install` sets both, `ReplaceRecords` keeps the names. For `ListingsInOrder` it
  must be known that the mutex has one owner, who alone is past `StartRefresh`
  (`MutexOwner`), and that what it saw is no older than the table
  (`SeenAfterTable`). For the refinement each action is matched with a step of
  `SeedPeerTable`: `CheckHealth` and `CallUpdate` offer a listing, `Rebuild` is
  invisible, `ReplaceRecords` and `Install` take it over, `Cancel` abandons it.
- `SelectorProofs`, the walk: `SelectionInvariant`, `SelectsTheReplicasHolds`. The
  replicas are defined by places on the ring, the walk by windows, so the invariant
  ties the two. A window is as wide as was asked for or covers the ring (`Windows`);
  what the walk has found is the set of hosts of the prefix it has passed, each once
  and nearest first (`Passed`), and since it stops at the number asked for or at the
  end of a window that covers the ring, what it has found then are the replicas;
  the filter takes the healthy ones in this order (`Collected`). That a host which is
  found next has a place behind all that are found is by the minimality of places.
- `SelectorProofs`, the builders: `LifecycleInvariant`, `BuiltIsUsableHolds`. The
  invariant says what each stage of a build has come with (`Fit`): in particular that
  a build past its first refresh knows a table, and that only one from the scheduler
  has a service.
- `ProxyGetProofs`: `TypeCorrect`, `EjectionCountsFailuresInARow`,
  `RotationIsEven`, `NoReplicaLeftOut`. Evenness is not inductive: it says
  nothing of which endpoint is next. The invariant says that the attempts made
  are whole laps of the order and a part of another (`InsideALap`): the endpoints
  up to `attempts % Len(order)` have been tried `m + 1` times and the others `m`
  times. `Send` either goes on in the lap or completes it, by the lemmas on
  remainders. `ImplementsRotation` matches each step with one of `Rotation`: `Lookup`
  is `Begin` or `ReturnInVain`; `Send` is `Attempt`, because the endpoint that is next
  in a lap is tried least; `Decide` is `Return`, or invisible when it goes on to another
  attempt; `TakeResult` is `Take`; answers, ejections and time are invisible. A request
  that returns counts its attempts by then, so none with attempts left returns a
  transient failure.
- `FanOutProofs`: `TypeCorrect`, `OkIsEverywhere`, `FailuresHaveCauses`. The
  invariant adds that only a call under way has tasks at work, that a task about
  to send has attempts left (`CallsAndTasks`), and that while a call is
  undisturbed all that may still be executed is of its kind, so that what is done
  stays done (`WorkStaysDone`). That the default scope of a preheat covers the
  replicas rests on a count: as many healthy replicas as asked for are all of
  them.
- `RequestsProofs`, the buffer: `TypeCorrect`, `AppendsOnceOrNothingHolds` of `GetInto`.
  The call always holds the old buffer followed by what it has read in this attempt
  (`Holding`), so cutting back to the mark restores the old one.
  `ImplementsGetInto`: a step of `Requests` is one of `GetInto` or leaves its variables
  alone, and with it `AppendsOnceOrNothingAmongCalls`, which the run checks.
- `RequestsProofs`, the errors: `RetriedAsDocumentedHolds`. Every failure that an
  attempt can meet is of one of the ways of `Responses` and `Statuses`, and for each
  its class is computed from the code's operators and compared with the documented
  one, for every status from 100 to 999.
- `RequestsProofs`, the ids: `FilteredOnce`, `PartsTellFiles`, `IdsTellFiles`,
  `OneParameterTells`. What the code makes an id of, before it becomes one text
  (`Spelled`), is the same for two requests if and only if they are for the same file
  (`PartsTellFiles`), for any two requests. Queries may be of any length: that the
  sorted and filtered query is told by its parts, whatever their number, is an
  induction on the length, of a set of lengths, with the recursive functions of
  `TaskIds` unfolded a step at a time (`PairsFound`, `PairsOfBoth`). `FilteredOnce`:
  filtering what has been filtered changes nothing, so that the SDK and a seed peer may
  filter one after the other. As one text the parts can run together; where they do not,
  ids tell files (`IdsTellFiles`), and they never do for requests of one url that differ
  in the tag, the application or the piece length alone (`OneParameterTells`, by the
  cancellation of a common beginning and end).
- `RequestsProofs`, what is held: `PickedByTheIdKeptHolds`, `HoldsWhatIsAskedHolds`,
  `StatTellsWhatIsHeldHolds`. The invariants are `Underway` (a get in hand is one of the
  requests, valid and with an id), `PickedByTheIdKept` (what seed peers hold they hold
  under the id it was picked by, or it came of a get without a filter or with headers of
  the caller's own), `HeldInStep` (what is held of the files that are asked for is
  what the history says was put there) and `OthersInStep` (and so is what such gets
  left). The history goes by `Identity`, which knows nothing of ids; each step is
  matched by `Match`: the pair of ids it adds or takes and the pair of files it adds or
  takes are those of the same requests of `Apart`, by `IdsTellFiles`. `HeadersKeepTheId`
  is what the proof needs of a get: what the proxy of a seed peer reads in its headers
  comes to the same id, if the get tells all. The theorems have no hypotheses about the
  requests; what is exempt is in the property.
- `ImageTasksProofs`: `TypeCorrect`, `LimitIsKept`, `OkIsEveryTarget`. A permit is
  free or with a target in hand (`PermitsAddUp`), and what is done stays done
  while only work of its kind is left.
- `ClientPoolProofs`: `TypeCorrect`, `ClientsAreShared`, `CleanupsAreThorough`,
  `RecentClientsStay`. The invariant adds that a key has handed out no client but the
  one in the pool, which was last used when it was last handed out (`Fresh`), and that
  of the keys a cleanup has visited, those that have a client hold one worth keeping or
  one inserted since it began (`Visited`).
  The clock and the supply of clients stay bounded in the proof as in the run.
- `GoGetProofs`: `TypeCorrect`, `TimersAreCancelled`, `GuardsAreReleased`,
  `GivingUpHasCause`, `UsedClientsStay`. The invariant says for each request what it
  holds where (`Holding`). That the guards add up is a count: each step adds one
  request to the set that is counted, removes one or keeps it, by the theorems on
  finite sets; a cleanup removes no counted request's client because its count is
  not zero. `ImplementsRotation`, `LapsHold`, `RotationIsEven`: the endpoint of an
  attempt is computed from its number in Go, so the attempts at an endpoint are the
  cardinality of the set of the numbers that aim at it, which each attempt increases by
  one; from there laps and the step to an endpoint tried least are as in Rust. `Call` is
  `Begin` or `ReturnInVain`, an attempt is `Attempt`, or `Return` when it fails before it
  is sent and ends the call, a failure, a response and the end of the caller's context
  are `Return` or invisible, and reading the body, the pool and time are invisible.
- `GoFanOutProofs`: `TypeCorrect`, `AllIsDone`, `TheCauseIsReported`. Three parts: a
  goroutine that failed has left its error in its group (`Tried`); the error of a
  target that is over is in the outer group, and a cancellation is the first error
  of a group only if the caller cancelled or the outer group had a cause before
  (`Kept`); and what is known of all targets at each stage of the call (`Stage`).
  One lemma covers every step of a seed peer's goroutine, one every end of a
  target's.

The invariants were checked by TLC on the instances of section 3 before they were
proved. So was `RotationSpec` of `GoGet`; it is proved and not a property of the run,
which would take long with it.

Every safety property of a passing run is a theorem. Only model-checked are the
liveness properties, because the prover has no rule for fairness and `ENABLED`: that
the selector catches up and releases its mutex, that ejections end, that services
refresh, that walks and calls return.

## 7. Not modelled, and why

- The bytes of urls, queries and hashes: a url is taken apart beforehand, a hash is
  what it is taken of. The text that is hashed is a sequence of letters; what stands
  before the last part of the path is one letter, so that parts run together there
  (a query key, or an algorithm, spelled by a tag) only through values and the last
  part of the path. Normalizations of the url crate that change neither path nor
  query, fragments, and filters with a comma in them are left out.
- Priorities, credentials, timeouts and certificates of requests: passed on as they
  are. Names of seed peers that are empty, which the builders refuse.
- The registry protocol: a sequence of exchanges without state of the SDK. Resolving
  an image is one step, which may fail in `ImageTasks`.
- That the seed peer derives ids as the SDK does is assumed of it (`Received` uses
  the same `TaskOf`): its copy of the code is not in this repository.
- In `ProxyGet`, `FanOut`, `ImageTasks` and the Go modules an error is transient or
  definitive, freely; `Errors` and `Requests` say which is which.
- Lengths of delays and timeouts: only that they end, and their order with other
  events, which is free.
- Two seed peers of one address: endpoints are told apart by name in the models;
  in the code two hosts of one endpoint would share ejection and client.
- `DashMap::len` of the Rust pool is not atomic over the shards; `CheckCleanup`
  takes it in one step.
- Seed peers that evict a file on their own: `holds` changes by requests only.
- A single signal: that it is heard depends on when it comes; see section 4.
- Panics of tasks, and processes that crash: nothing is persistent in the SDK.
- The Go selector with its `Run` and `Close`, the task ids, errors, messages and
  stat of Go, and its `ProxyWithEndpoints` and `ProxyWithSeedPeers`: ports of the
  Rust algorithms, read for differences and not mapped.
- Tests, examples, benchmarks and end-to-end drivers.

## 8. Checking it

`tlc -config <Run>.cfg <Module>.tla` with the module of section 3 checks a run;
`tlapm <Module>Proofs.tla` checks the theorems of a module. The longest run is
`ProxyGet`, two to three minutes with two workers, most of it spent on the refinement.

## 9. Plan

Modelled in the order of importance: selector and its abstract table, requests with
ejection and rotation, preheat and delete, downloads into a buffer, replica walk,
pools, images, the Go request path and fan-out; then what requests say and how
they are classified, the life of a proxy and its service, and the retry policy that
both request paths implement. Every module of section 2 has theorems but the abstract
specifications, whose theorems are the refinements.

What would come next:

1. The selector and the service of Go against the abstract table: their critical
   sections are those of Rust, but updates have no cancellation and skip hosts that
   are missing, and `Close` takes the place of signals.
2. `FanOut` and `ReplicaSelection` composed: the replicas of a call selected from a
   table that changes between two calls.
3. Task ids and errors of Go as a second instance of `TaskIds` and `Errors`, with the
   property that both SDKs give one id to one file.
4. For the proofs: an abstract specification of an endpoint's clients that both pools
   implement; `FanOut` as the refinement of the single step that `ImageTasks` and
   `Requests` take for it; and what bounds the loops that the liveness properties are
   about, as action properties: the walk has fewer places left after every step, a
   call fewer attempts.
