# A TLA+ specification of SniffIt

SniffIt watches RabbitMQ traffic. A *probe* (`cmd/sniffit`) captures packets,
reassembles TCP streams, parses AMQP and management-HTTP messages, turns each
meaningful one into an *alert* and posts it to the *control plane*
(`cmd/control-plane`). The control plane stores alerts in SQLite, keeps a
topology in memory, asks AI providers for diagnoses and streams everything to
*dashboards* (`ui/`) as server-sent events. An admission webhook injects the
probe into pods.

This directory specifies the parts of it where goroutines, streams, the database,
the page and restarts interact, checks them with TLC on small instances, and proves the
main safety properties with TLAPS for all values of the constants.

1. [Inventory](#1-inventory)
2. [Modules](#2-modules)
3. [Runs, bounds, fairness](#3-runs-bounds-fairness)
4. [Proofs](#4-proofs)
5. [Where the code and its text disagree](#5-where-the-code-and-its-text-disagree)
6. [What is only model-checked, and what is not modelled](#6-what-is-only-model-checked-and-what-is-not-modelled)
7. [Plan](#7-plan)

Paths are relative to `src/`; `server.go` is `internal/controlplane/server.go`.

## 1. Inventory

| component | state | operations | hard behaviour | what makes it correct |
|---|---|---|---|---|
| **Packet capture** `internal/capture/sniffer.go` | AF_PACKET ring, assembler, one goroutine per TCP direction | capture loop, stream start, frame loop, drain | one loop feeds all streams and waits for the reader of each; packets lost or out of order | alerts of a stream in frame order; one stream never stops the others |
| **AMQP parser** `internal/amqp` | position in the stream | `NextFrame`, `UnmarshalMethod`, field decoders | oversize or malformed frames | malformed input ends one stream only; frames that are not reported do not misalign it |
| **Rules engine** `internal/rules/engine.go` | none | `EvaluateMethod`, `EvaluateHTTPRequest/Response` | names the topology matches on | same method, same rule |
| **Dispatcher** `internal/alerting/dispatcher.go` | one HTTP client | `Dispatch` (blocking POST, 5 s, no retry) | answer after the timeout; control plane down | a frame is reported at most once; the capture goes on |
| **Ingest** `handlePostAlert`, `handleDeleteAlerts` | `alerts` table, ids | insert, topology, broadcast, AI trigger; clear | each step interleaves with the others; crash between steps | accepted means stored; what was shown is stored |
| **AI diagnosis** `triggerAI` | goroutines in flight | ask, save, broadcast again | late answer after a clear or other inserts | a diagnosis lands on its own alert |
| **AI agent** `internal/ai/agent.go` | none between calls | `Diagnose`, `AnalyzeStream`, `GenerateHealthSummary`, `Chat` over one completion | models fail one after the other, for minutes; answers that cannot be read | every model tried once; health is always answered; the worst events are shown |
| **Topology** `updateTopologyFromAlert` | per-tenant maps and a list of 50 connections | update, clear, read | read unlocked while written; lost at restart | entries reflect the alerts seen |
| **SSE hub** `broadcastAlert`, `handleEventsSSE` | client map, RWMutex, a channel of 100 per client | register, send, drop, unregister | map and channels changed under the read lock; slow clients | every live client gets every alert of its tenant or is cut |
| **Middleware chain** `internal/auth`, `server.go` | context values, keys to be touched | key lookup, rate limit, admin test, audit, login | order of the middlewares; keys deleted or expiring under a request | nothing is served without a key that could be used |
| **Rate limiter** `internal/auth/ratelimit.go` | per key the times granted in the last minute | `Allow` | edges of the window | never more than the limit per minute; a refusal is earned by grants |
| **Store** `internal/store` | SQLite, one connection | alerts, settings, keys, tenants, audit, migrations | a start that ends between two statements; errors ignored | the schema is whole before it is used |
| **Dashboard** `ui/src/App.tsx` | list of alerts, selected alert | history fetch, events, reconnection, Ask AI, clear | the history replaces events; answers to a copy of an alert that has changed | an alert once; an event takes no other alert off; a diagnosis that came leaves no entry of the events without one |
| **Webhook** `webhook/mutator.go` | none | admission review to patch | two hooks for one pod, called again; a pod whose object leaves its namespace out | one sidecar for each pod that asks, none in system namespaces |

How they interact: probe → control plane by HTTP POST; request goroutines and
diagnosis goroutines of the control plane share the database connection, the
topology mutex and the hub's RWMutex; the hub hands pointers to alerts through
channels to the handler goroutines of the dashboards; probes and dashboards share
nothing but the control plane.

`PROJECT.json` lists every component with its status, and under `hazards` what a
test of each would hardly reach, at its line, with the properties that exclude it.

## 2. Modules

| module | models | role |
|---|---|---|
| `AlertFeed` | what `GET /api/events` promises a dashboard | abstract specification |
| `SseHub` | `broadcastAlert` and `handleEventsSSE`, goroutine by goroutine | implements `AlertFeed` |
| `SseHubProofs` | | proofs |
| `RateLimiter`, `RateLimiterProofs` | `SlidingWindowLimiter.Allow` with the limit `AuthMiddleware` passes | |
| `Webhook` | `HandleMutate` and the hooks of the chart, while the API server admits a pod | proofs in `AccessProofs` |
| `Access`, `AccessProofs` | start of the control plane (migration, bootstrap key), middleware chain, login, keys, crashes | extends `RateLimiter` |
| `Ingest`, `IngestProofs` | `handlePostAlert`, `triggerAI`, `handleDeleteAlerts`, `handleTopologyClear`, settings, crash and restart, over the hub's abstraction | composes store, topology, hub and AI |
| `AiAgent` | the completion with its fail-over, the choice of events, the health summary | |
| `AiService` | the goroutine of `triggerAI` waiting for its completion, and the handlers of `/api/ai/...` and `/api/analyze` | composes `Ingest` and `AiAgent`, implements `Ingest` |
| `AiServiceProofs` | | proofs about `AiAgent` and `AiService` |
| `Dashboard`, `DashboardProofs` | the page: history, events, selection, Ask AI, Clear | |
| `Probe`, `ProbeProofs` | the capture loop, the streams' goroutines, the dispatcher, and the network on both sides | composes capture, parser and dispatcher |
| `RulesEngine` | `EvaluateMethod`, `EvaluateHTTPRequest`, `EvaluateHTTPResponse`: the alert of each method | pure operators |
| `Topology`, `TopologyProofs` | `updateTopologyFromAlert` and the clears, fed through `RulesEngine`, beside a broker and its clients | composes rules and topology |
| `MC*` | | small instances |

**SseHub.** `registered` is the key set of `s.clients`, `buf[c]`/`closed[c]` the Go
channel of client `c`, `handler[c]` the place of its goroutine; `readers` and
`writer` are `clientsMu` (a waiting writer keeps new readers out, as
`sync.RWMutex` does); `bpc[b]`, `todo[b]`, `at[b]` are the place of a broadcaster
and of its range over the map. Each step that another goroutine can see is an
action: taking the lock, visiting a key, the `select`, the `close`, the `delete`.
A send on, or close of, a closed channel is the action `Panic`: the deferred
`RUnlock` runs, `net/http` recovers a request's goroutine, and a diagnosis
goroutine, which nobody recovers, ends the process. The unsynchronised `delete` is a data race:
`RemoveSlow` is the outcome that goes unnoticed, `MapRace` the runtime's fatal
error. `targets` is a history variable.

**AlertFeed** knows subscriptions, inboxes and what each broadcast still owes. In
the refinement mapping (`FeedSub`, `FeedPhase`, `FeedOwed` in `SseHub`) a client is
live while its channel is registered and open, and a broadcaster owes the alert to
the live clients it has not dealt with. Closing a slow channel is `Cut`; a panic
is `Abort`, the only step by which a live client misses an alert. Broadcasts may
complete only when nothing is owed.

**RateLimiter.** `windows[k]` is the limiter's state; `granted[k]` is the history of
all grants, `refused[k]` of the times of refusals. A refusal that is right leaves the windows
as they are, so without `refused` it could not be told from no step at all. `Allow` runs under a mutex from reading the clock to its return, so it
is one step. Times enter in order, so the filter loop is written as cutting a
prefix: what is kept is what follows the first `n` times. A restart forgets the
windows, so every promise of the limiter is about one run of the process. It is a part of `Access`, and is checked alone as well.

**Access.** `made` counts the statements of the migration that have taken effect (SQLite
runs them one by one), `recorded` is its row in `schema_migrations`, `keyRow` the
table of keys. `boot` and `at` are the place of the start; `Exit` is an error of it as well as a
crash at any time, and keeps only the database. A request is a record with the
list of what it still has to pass: `Chain` is what `server.go` wraps, from the
outside in, so an admin request meets `AdminOnly` first. `could` is history: the
key could be used at some time since the request came. AuditLogger is no step: it
passes every request, and its insert leaves out a column that may not be NULL, so
nothing is stored. Keys come and go by an operator's SQL (external), because the
handlers of `/api/keys` are not reached. With authentication off everyone is an
admin of the default tenant, and nothing is promised.

**Webhook.** A pod is its namespace as the object names it (which may be left out: `NoName`), its label and
its containers; `home` is the namespace it is created in. `CallHook` is one look of the API server (external)
at a hook: when the selector matches, the pod becomes what `HandleMutate` makes of it. A call that is not answered
refuses the pod, which is sent again (`RefusePod`), and an admitted pod may be copied and created again
(`CreateAgain`), so that the webhook meets its own sidecar. The label counts with any value in
the webhook, but the hook for pods only matches `"true"`.

**Ingest.** A handler is a sequence of steps, each one SQL statement or one mutex
section; `pc`, `dpc`, `cpc` say where posts, diagnoses and clears are. `rows` and
`lastId` are the table with its AUTOINCREMENT sequence. A queued alert is a
pointer: the diagnosis set in memory (`told`) shows through it. A broadcast is one
step here, with the outcomes `SseHub` establishes: all live dashboards of the
tenant, or a panic after some of them, or a cut at any time. `Crash` loses
everything but the database; `Restart` is `NewServer`.

**AiAgent.** `ask[q]` is the place of a completion, `tried[q]` the models it has
called. Every error of `callAPI` means the same: the next model, after a rest.
`FilterSignificant` and `Heuristic` are the pure parts; the loops that pick out of a list are
`Only`, a recursive function, so that what they compute can be proved.

**AiService** extends both: `Diagnose` of `Ingest` becomes `AskDiagnosis`, the calls, and
`Diagnosed`. A query reads the alerts (`Begin`, where what needs no model is
answered at once; `Lists` are the at most `MaxListed` rows that `ListAlerts` may return, any of them, because
they are ordered by the time of the probe and a late post has an old one), waits for its completion, and answers from what it had read.
The refinement of `Ingest` is the identity on its variables: the calls are
stutters. The fairness of `Ingest` is implied as well, because calls end.

**Dashboard.** An entry of the list is its alert, whether it came as an event
(`live`), and its diagnosis. The store cuts times to a second, so the page never
recognises an entry of the history when an event comes for it: `Same` compares
events by alert and history by second. The history is read in one step and
replaces the list in another, unless it has no rows: `null` is not an array, and the list stays. `inbox` and
`missed` are what `AlertFeed` allows the
server to do: queue, cut, or panic before it reaches the page. `gone` remembers what the page took out itself, and is
what `NothingVanishes` excuses: that the history replaces the events that came before it, and the answer to
"Ask AI" other entries of its second, are losses the property does not speak of. `DiagnosisArrives` wants some diagnosis,
that of the server or the one asked for.

**Probe.** `Wire[s]` is what one direction of a connection sends, packet by
packet; a piece is known by the frame it completes (none, one to report, one that
is passed over, one that stops the parser). `Arrive` is the interface and the ring
(packets a little early, or dropped when the ring is full); `Assemble` is one turn
of the capture loop; `feeding` is the stream whose reader it waits for, as
`tcpreader` makes it. The reader's steps are `Pass`, `Report`, `Break`, `Drain` and
`End`. `Report` starts a POST; `Handle` and `Lose` are its fate, `Answer` and
`TimeOut` the two ways `client.Do` returns. `Unsent` is an alert of which no request can be made
(dispatcher.go:65-75); `gaveUp` remembers these and the ones that timed out. The
HTTP streams of the management port run the same loop.

**RulesEngine.** A method is its name, whether its arguments could be parsed, what
it names, a number and the marks the engine looks for. Most methods have one rule
whatever they say: these are a table (`FixedRules`). The evaluators of single
methods are ladders of conditions in the order of the code (`...Rungs`), of which
the first that holds decides (`FirstMatch`). Of the sentence of an alert only what the control
plane parses out of it again is kept: the marks `durable=true` and the like, and
the consumer tag (`FlagsIn`, `tag`). A tag with a comma or quotes in it, which the
parsing would cut, is not modelled.

**Topology.** `entities` is `topo.Queues` with `topo.Exchanges`, `consumers` is
`topo.Consumers`, `connections` the `Active` fields of `topo.Connections`. `Handle`
is the whole way of one method: evaluated, posted, put into the topology under
`topoMu`. The broker, its clients and the management API are external, and are
there to have something to agree with: `exists`, `consuming` and `up` are the truth, and each
operation changes it and sends the methods of AMQP on the two streams of its
connection. Streams are handled independently, so alerts of different streams come
in any order. That makes some questions unanswerable from the streams: whether a
passive declaration found the queue, which of two connections came first, what was
there before the probe. `unsure` is the set of the names of which this is so: an
operation removes a name when it states the name's new state and no other stream
still has something to say about it. `EntitiesAgree` and `ConsumersShown` demand
agreement on all other names, as soon as what was said about them is handled. `Notice` is any other
method: requests and responses on the API's stream, AMQP methods on the streams of an open
connection, and those only a broker says on the broker's (`Says`).

Each module holds, ahead of the actions, a few *mutants*: forms of an action with a plausible
bug. No specification uses them; `PROJECT.json` pairs each property with the one
that violates it, as evidence that the property can fail.

## 3. Runs, bounds, fairness

| run | instance | states | shows |
|---|---|---|---|
| `hub` | 2 clients, 2 posters, 1 diagnoser, one tenant, capacity 1 | 313 k | types, nothing lost silently, justified drops, refinement of `AlertFeed` |
| `hub_live` | the same, two tenants, fair | 36 k | tenant isolation, broadcasts end, handlers that leave get the lock |
| `access`, the chain | 2 keys (limits 2 and default 1), 2 requests, 3 statements, clock 0..1, any number of crashes | 1.0 M | whole schema, only keys pass |
| `access`, the limiter alone | the same keys, window 2, clock 0..5 | 398 k | rate bound, the window is the end of the history, no false refusal |
| `access`, the webhook | a namespace of users and one of the system, pods with and without a sidecar, label and name, both modes | 576 | exact injection |
| `ingest` | 3 posts, one of another tenant with a false claim, 1 DELETE, 1 dashboard, 1 crash | 3.1 M | own row, accepted is durable, shown is durable, tenant walls |
| `service` | 1 post, 1 DELETE, 1 query of any kind, 2 models, 1 crash, fair | 90 k | complete fail-over, health always given, refinement of `Ingest`, posts, diagnoses and queries end |
| `dashboard` | 2 alerts of one second, list of 3, channel of 2 | 5.0 M | an alert once, no event takes another alert off, diagnoses arrive |
| `probe` | streams of 4 and 3 pieces, ring of 2, packets 1 place early, fair | 126 k | order, at most once, capture never stalls, what is captured is reported |
| `topology` | 2 connections, 1 queue, 1 exchange, 1 tag, 3 operations after the openings, every method of the catalogue, list of 3 | 722 k | agreement on entities and consumers, connections covered, list bounded, catalogue of rules |
| `hub_all_clients`, `access_admin_reachable`, `ingest_cleared_alert`, `topology_ack_timeout` | as above or smaller | | section 5 |

*Why the bounds are enough.* `hub`: the capacity is 100 in the code, and 1 here,
because what matters is the edge: with capacity 1 and three broadcasts a channel
fills, is found full by two broadcasters at once, and has a neighbour that is
healthy; symmetry is over clients and over posters, which only occur in sets and as
function arguments, and is not used with liveness. `access`: one run with three kinds of behaviours, each of one
part that leaves the others where they are (`part` in `MCAccess`), for the webhook shares no state with the
rest, and the limiter alone is the chain without its requests. The limiter: a limit of 2
in a window of 2 is used up, half of it and all of it leave the window at its exact edge, and this twice. The chain: two
times are enough for a request that is refused beside one that passes (`ChainTime`; what the limiter promises is proved of the chain); three statements
have a first, an inner and a last place to stop at; two requests hold the same key or different ones while
it is deleted, expires or comes back. Crashes are not bounded. `ingest`: posts
whose severities trigger the AI under different levels, so that one diagnosis is
late while another alert is inserted after a DELETE, and one of another tenant; one crash at every point.
`service`: the primary model is one of the fallbacks, as by default, so the two models
are one try each; a post and a query are two completions at once. `MaxListed` (500) is 1: there is one
row, which a DELETE may take while a request that has counted it waits. The pure
properties of `AiAgent` are evaluated over bounded inputs: 4 alerts, 9 errors
and 27 warnings, which is past both floors of the score. The webhook: all that `needsInjection` and
the selectors tell apart, and both orders of the hooks. `dashboard`: two alerts
can have four entries, so a list of 3 (500 in the code) overflows; the
channel of 2 (100) is full with the two events of one alert; one second for
both is the hard case of the comparison, and any number of reloads,
reconnections, questions and clears are possible. `probe`: a ring of 2 is
full when both streams send; a gap forms, is filled, or stays; a stream stops parsing with bytes still to
come; both streams can time out while the other is fed. `topology`: three
operations are declare, delete and declare again, or a consumer, a lost connection
and its tag taken by the other connection; `MaxBehind` lets a new operation
start while one method is unhandled, which is what it takes for two streams to
speak of the same name at once; openings are extra, and two of them, counted twice,
already cut a list of 3 (50 in the code). Other methods (`Notice`) are sent when
nothing is unhandled: they change nothing at the broker. They and the closes
exercise every row of the catalogue. All these
bounds are constants: `Cap`, `Channel`, `MaxTime`, `ChainTime`, `MaxCrashes`, `Statements`, `SavedLevels`, `RingSize`, `Early`, `MaxListed`,
`MaxOps`, `MaxBehind`, `MaxShown`.

*Deadlock* is checked, except in `probe`, where finite streams end and then nothing
is left to do. `SseHub` has an explicit step for proper termination, so any
other stop of its goroutines is reported.

*Fairness.* `SseHub`: the Go scheduler runs a goroutine that can run (weak fairness
of lock steps and of broadcaster steps). Reading an event has none: the write to a
dashboard has no deadline (server.go:392), so it may stop for ever. The lock steps
need no strong fairness, because a pending `Lock()` keeps new readers
out. `Ingest`: SQL statements and mutex sections end, the AI calls have timeouts;
nothing is assumed of probes, dashboards, the operator, or of `Restart`. `AiService`: the
same, with each call of a model ending (45 s, or 180 s for a local one) in
place of `Diagnose`, and handlers that go on when their completion has ended; nothing makes a
query begin. `Probe`: the capture loop and
the streams' goroutines run, and `client.Do` returns after 5 s at the latest;
nothing is assumed of the network or of the control plane.

## 4. Proofs

All assumptions are the named `ASSUME`s of the modules (`HubAssumption`,
`LimiterAssumption`, `AccessAssumption`, `WebhookAssumption`, `ProbeAssumption`, `IngestAssumption`, `AgentAssumption`,
`ServiceAssumption`, `DashboardAssumption`, `TopologyAssumption`): sets are what they are used as and are
disjoint where they name different things (a post is no query, the API stream is no connection), the capacity, the
default limit, the window, the statements, the ring and the lists are at least 1. Three say something about
the code or its surroundings: the names of a pod's containers are different, as the API server wants it; `fallbackModels` holds no model twice (agent.go:19-25 is a constant list), and the `Notices` of
`Topology` are methods that neither close the connection nor state what is at the broker (those are actions of
their own). TLC evaluates each in the runs.

**SseHub** (`SseHubProofs`). The safety properties are not inductive alone. A
broadcaster keeps keys in hand after the map changed, so the proof needs to know
where the handlers of those keys can be: `PendingShape` says that the write lock
keeps a handler from leaving while a broadcaster still has its key, so only another
broadcaster can have closed that channel. `LoopShape` ties `at` and `todo` to the
program counter, `HandlerShape` ties a handler's place to membership of the map and
to the channel, `NothingSkipped` is `NoSilentLoss` for broadcasts still under way.
Together they are `HubInv`; one lemma per action shows it kept. From it follow
`TypeCorrect`, `LockCorrect`, `TenantsIsolated`, `ClosedNotRegistered`,
`NothingLost`, `DropsJustified` and, with one lemma per action that maps it to a
step of `AlertFeed` or a stutter, `HubImplementsFeed`. They hold for any number of
dashboards, tenants and broadcasts, and any capacity.

**RateLimiter** (`RateLimiterProofs`). `RateBound` speaks of the whole history, and
`Allow` sees only its window. `WindowIsHistory` bridges the two: the window is the
end of the history, and all that is not in it is too old. `CutKeepsRecent` and
`AppendKeepsRecent` are the lemmas on sequences. `NoFalseRefusal` speaks of refusals long past: the grants
that had used up the limit by then are counted once, when it is refused (`RefusalEarned`), and a later grant takes none of
them away (`GrantAddsOnly`). `LimiterInv` gives `WindowKept`,
`RateBounded` and `RefusalsJustified`, for any keys, limits and window.

**Access** (`AccessProofs`). `ServedCouldPass` alone is not inductive: a request that
has passed authentication and waits for the limiter or the handler must be known
to be owed it (`RequestKnows`), also when its key is deleted and put in again
meanwhile. For the schema, what a start has executed must have taken effect
(`AppliedIsMade`), so that a start that was preceded by any number of partial ones has
everything at its last statement. With the shapes of requests this is
`AccessInv`. `Sound` says of one request what the invariant says of all, and `SlotStep` that a
step which leaves its request sound keeps the invariant; each step of
the chain then only shows that. From it `SchemaIsComplete` and
`OnlyKeysPass`, for any keys, requests, statements and crashes. A request on its way has a key the
limiter knows (`KeysHeld`), and a crash starts limiter and history anew, so `LimiterInv` holds in the chain as
well: `RateBoundedInChain`, `WindowKeptInChain` and `RefusalsJustifiedInChain` say of `AccessSpec` what is checked
of the limiter alone.

**Webhook** (`AccessProofs`). `CallsSoFar` says what the hooks called so far make of the pod that was sent: it is as
it was, or has the sidecar once, and has it exactly when one of them matched, it had none and names no system namespace.
No call changes what the selectors look at, and a call that finds the sidecar leaves the pod alone (`MutateDecides`,
`InjectedOnce`), so the order does not matter, and a copy of an admitted pod is again a pod with one sidecar at most
(`WebhookTypeOK`). When all hooks were called this is `InjectionExact`, for any namespaces, names and pods.

**Probe** (`ProbeProofs`). Order at the control plane relates the log to goroutines
far away from it. `GivenShape` says that what a stream holds unread is the
consecutive run of pieces just before the one the assembler waits for, and after
the one read last, so reading only moves forward; `PostedShape` that nothing
beyond it was posted; `FlyingShape` that a POST under way is either waited for or
given up on. So an alert handled behind a later one of its stream was given up on. `EndShape`
and `WaitShape` close the induction. `ProbeInv` gives `ProbeTypeOK`,
`AlertsInOrder` and `AlertsOnce`, for any streams, contents, loss and reordering.

**Ingest** (`IngestProofs`). None of the safety properties is inductive, because a late step acts on what it
read long before: the id of its insert, the tenant of its request. `RowsNamed` and `IdsDistinct` say that an id
stands for one post for ever: a row's id is its post's, ids are at most `lastId`, and no two posts have
the same, so the UPDATE of a diagnosis finds the row of its own alert or none, also after a DELETE and a
restart (`DiagnosesFindTheirRow`). `PostShape` ties the place of a request and of its diagnosis to the database: past the insert the
post is stored, or a DELETE of its tenant took it (`AcceptedIsStored`); before a diagnosis is sent again its
row has it or is deleted. `QueuedKept` says the same of what lies in the channels of dashboards, where an alert is a
pointer and shows what was told meanwhile: without it `ShownIsStored` is not kept by the step that shows an alert.
`TenantsAreApart` rests on a post that passed the check having the tenant of its key. All hold for any number of crashes.

**AiAgent and AiService** (`AiServiceProofs`). `ServiceImplementsIngest` maps each step of the composition to
`Ingest`: `Diagnosed`, which ends a completion, is `Diagnose`; calls and queries are stutters. So every theorem about `Ingest` is one about the
service. The loops of the agent are shown correct for every list by induction on its length: a set of
lengths at which a loop were wrong would have a least element (`Least`), and the step from the one before shows
it right there. That gives `OnlyPicks` (the loop picks exactly what it should, in order) and
`OnlyOnce`, and from them `CandidatesOnce`: the candidates are the primary model and every other fallback,
each once. With `TriedShape` (what was called is a prefix of the candidates, as long as the place of the
completion says) a failed completion has called all (`FailedEverywhere`). `QueryShape` keeps what a health
request has read, with errors and warnings counted in a finite table, until it is answered (`HealthIsGiven`).
`ShownWorstFirst` and `MoreTroubleIsWorse` are about every list, limit and count; `SeverityDecides` is the bounded form of
the run.

**Dashboard** (`DashboardProofs`). Lists are rebuilt by every event, by the history, by an answer and by a clear, so
each property is shown of each way to rebuild a list: what is found and replaced, what is put in front and cut.
`DashboardInv` adds to the properties the types, the bounds (`Bounded`) and that an entry of the history is not
live (`SnapNotLive`), which is what lets the history replace the list and leave no alert live twice (`AlertsLiveOnce`).
`AlertsDoNotVanish` and `DiagnosesArrive`, with what they excuse (section 2), hold for any alerts in any seconds, any capacity, and any order of
the server's steps with the user's, broadcasters that panic included.

**RulesEngine** (`TopologyProofs`). Each `...Decides` lemma says what a
ladder of conditions gives for the codes it knows, by naming the rung that comes first
(`FirstDecides`); `RejectionRules` does the same for the table.
`CatalogueOfRules` goes through the dashboard's catalogue row by row, and
`CatalogueKept` says it of every behaviour, for any methods in flight, where the
run has a handful.

**Topology** (`TopologyProofs`). The topology is told things late and in an order that is not the broker's.
`LastWord` names the method that is the last a stream has to say about a name. `EntityWordsHold` and `ConsumerWordsHold` are the
heart of the induction: of a name that is not unsure the last word of *every* stream that has one is what
the broker has, so that it does not matter which stream is handled last. A stream without a word left is
covered by `EntitiesAgree` and `ConsumersShown` themselves, which the handling of the last word of all establishes. An operation of the broker adds the
word that is true from then on to one stream, and takes the name out of `unsure` only when no other stream still
has a word about it.
For connections, of which a close says no name, the invariant counts: entries that
are not active, closes on their way, and connections that are up are together never more than were opened, and the
list is as long as it can be with what was opened (`EntriesCount`); for this a
connection must be closed once, by one side (`ClosedOnce`). `TopologyCorrect` is the
invariant; `TopologyTypes`, `EntitiesAreAgreed`, `ConsumersAreShown` and
`ConnectionsAreCovered` (`CountCovers`) follow, for any broker, connections, names and bounds.

## 5. Where the code and its text disagree

* A broadcaster closes a slow client's channel under the read lock; another one that
  holds the same key then panics half way through its loop, and clients after it
  miss the alert (`hub_all_clients`, server.go:338 against the comment at 326).
* AdminOnly, whose comment wants it after AuthMiddleware, is wrapped around it and runs first: every
  admin request is answered 403, and keys, tenants and audit log cannot be managed
  (`access_admin_reachable`, server.go:160 against middleware.go:104).
* A diagnosis that ends after a DELETE sends the cleared alert to every dashboard
  again (`ingest_cleared_alert`, server.go:591 against App.tsx:376).
* A channel closed for a late acknowledgement is reported as a topology mismatch: the
  rule meant for it comes after one that catches every 406 (`topology_ack_timeout`,
  engine.go:482 against 481).
More that the models have and no run of its own shows: the handler of a client that was
dropped as slow closes the channel a second time and panics (server.go:369 against the routine
"drop and remove" of 337; `CloseOwn` in `SseHub`), and a DELETE between the insert and the
topology update of an alert leaves its entities in the topology (server.go:275; `ClearCache`
before `UpdateTopology` in `Ingest`). The guard on system namespaces reads the namespace of the object, which may
leave it out: a labelled pod that does is injected in a system namespace (mutator.go:54, where 53 says "never";
`NeedsInjection` in `Webhook`, and `InjectionIsExact` says nothing of such a pod). README.md:62 says "deduplicates
alerts": the control plane stores and sends every post, and the page, which does look, compares times, of which the
history has only the second, so that an alert of the history whose event comes after it is listed twice (App.tsx:348;
`Same` in `Dashboard`). `LiveOnce` is what does hold.

"Ask AI" for one of two history entries of the same
second and rule overwrites the other (App.tsx:400), and its answer replaces a diagnosis of the server that came
while it was asked for (App.tsx:398). A history that is shown after an event takes the event's entry away (App.tsx:330). README.md:43-45 has the
user label a namespace, which does nothing unless `namespaceLevelInjection` is set (values.yaml:49).
The sidecar is given the tenant of a label of the pod and the bootstrap key, which is of the tenant
"default": the alerts of any other tenant are refused (mutator.go:145-149, server.go:256). Once a tenant
has saved settings, `GetSettings` cannot scan its row when the driver hands `updated_at` over as text:
`TriggerSkipped` in `Ingest`. server.go:31 calls the
topology a cache "backed by store", and NewServer starts with an empty one
(server.go:117): a restart forgets it, as `Restart` in `Ingest` shows. The
dashboard's catalogue gives NOT_ALLOWED (530) as the trigger of rule 2.3, and the
engine waits for 503 (engine.go:457); that row is left out of `Catalogue`. An
exchange's `Durable` is never set, because its sentence says " durable" and not
"durable=true" (server.go:493, engine.go:145). A `basic.consume-ok` registers a
consumer named "consumer@" (server.go:507), which `ConsumerKeys` allows for.

## 6. What is only model-checked, and what is not modelled

*Only model-checked:* liveness, which rests on fairness and ENABLED: `BroadcastEnds` and `HandlerExits` of the hub,
`CaptureNeverStalls` and `CapturedIsReported` of the probe, `PostEnds`, `DiagnosisEnds` and `QueryEnds` of the
service, and of its refinement of `Ingest` (`RefinesIngest`) the fairness. What the passing runs check besides, invariants, action properties and the safety part of both
refinements, is proved.

*Abstracted:* the contents of alerts and frames; the 25 s ping of the event stream
and the debug log; encodings. What the assembler, `tcpreader`, `net/http` and SQLite do is taken
as `src/` uses them, and marked external where a definition stands for it.
Restarts of the probe are left out: it keeps nothing.

*Not modelled:* `handleTopology` encoding the topology outside of its lock (a data race whose
outcome the encoder decides); the handlers of keys, tenants and audit log, which no request
reaches; PostgreSQL, on which neither the migration (AUTOINCREMENT) nor the statements
(placeholder `?`) run; of the page, the chat, the settings form, the topology page and the login form.
An open event stream is not authenticated again when its key is deleted; the chain is passed once, when it is opened.

*Not to be modelled:* the field decoders of `internal/amqp` (data
layout), `internal/correlator` (a mock), `cmd/test-trigger` (a traffic generator),
the Dockerfiles, the Helm chart but for its hooks, and `rewrite_app.py`.

## 7. Plan

1. That the one-step broadcast of `Ingest` and the channel of `Dashboard` are abstractions of `AlertFeed`: a refinement
   mapping for each, checked and then proved, so that what `HubImplementsFeed` gives is what the two assume.
2. `RefinesIngest` in two parts, of which the run then needs to check the fairness only.
3. Theorems for what the findings leave of the broken promises: `AllClientsSent` while no broadcaster panics,
   `ClearedStaysCleared` while no diagnosis is under way.
4. `Probe`: that a stream's log is a subsequence of what its wire has to report, from `ProbeInv`.
