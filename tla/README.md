# TLA+ models of the Zabbix agent 2 MongoDB plugin

This directory holds TLA+ models of the plugin in `src/` and the TLC
configurations that check them. The models cover the connection pool, the
`Export` dispatch path, and the metric handlers that contain real logic.
`PROJECT.json` lists every component, run, mutant, finding and hazard. It also
maps each definition to the source lines it models.

## 1. Inventory

### Components, their state, and their operations

| Component | Source | State | Operations |
|---|---|---|---|
| Plugin lifecycle | `src/plugin/mongodb.go` (`Start`, `Stop`), `src/main.go` | `Plugin.connMgr` (nil or a manager), `options` | `Start` creates a ConnManager. `Stop` destroys it and sets `connMgr` to nil. `main` hands the plugin to the SDK container. |
| Configuration | `src/plugin/config.go` | `PluginOptions`: Timeout (1..30 s), KeepAlive (60..900 s), named `Sessions`, `Default` | `Configure` unmarshals the options and uses the global timeout when Timeout is 0. `Validate` checks the TLS mode of each session. |
| Connection manager | `plugin/conn.go`, which is **not in `src/`** | a map from `uri.URI` to `MongoConn{session, lastTimeAccess, timeout}`, a mutex, a housekeeper goroutine | `GetConnection` (get and refresh the entry, or create one), `closeUnused` (every `hkInterval` = 10 s), `Destroy`, `getTimeout` |
| Dispatch | `src/plugin/mongodb.go` `Export` | none of its own (per request: a context with a deadline) | evaluate params, apply defaults, build the URI, `GetConnection`, take `max(Timeout, item timeout)` as the timeout, run the handler, map its error |
| Metric registry | `plugin/metrics.go`, which is **not in `src/`** | a static map from key to parameter schema, and `getHandlerFunc` | lookup only |
| Session interface | `src/plugin/handlers/interface.go` | none of its own (`MockConn` and the driver session implement it) | `DB`, `DatabaseNames`, `Ping`, `Run`, `CollectionNames`, `Find`, `FindOne`, `Count`, `Get`, `GetSingle`: all actions of `MockConn`, and the answer sets the handler modules draw from |
| Replica-set status and enrichment | `handlers/handler_replset_status.go` | one call's member list | `parseMember`, `parseMembers`, `injectExtendedMembersStats`, `ReplSetStatusHandler` |
| Oplog statistics | `handlers/handler_oplog_stats.go` | one call's loop over two oplog collections | `OplogStatsHandler`, `getTS`, `getOplogStats` |
| Discovery handlers | `handlers/handler_{databases,collections,config,shards}_discovery.go` | one call's listing | fetch, sort (databases and collections), split `rs/host:port,...` lists, emit LLD records |
| Pass-through handlers | `handlers/handler_{server_status,database_stats,collection_stats,connPool_stats,replset_config,collections_usage,jumbo_chunks,version}.go`, `handler_ping.go` | none | one command, then a fetch error, a marshal error, or the document |
| Test doubles | `handlers/mockconn.go` | maps of databases, collections and queries, each filled on first lookup; a `RunFunc` per database and a `DataFunc` per query | the `Session` methods over those maps, used by the unit tests; the tests install fixtures through the same lookups |

### How the components interact

The agent calls `Export` on many goroutines at once. Every `Export` shares
the one `ConnManager`, and the manager's housekeeper goroutine runs beside
them. The manager map is the only shared mutable state. Every manager
operation holds the manager mutex for its whole duration.

A handler receives a session borrowed from the pool. It calls the session
through the `Session` interface until the request context's deadline. It
keeps no reference to the session after it returns. Nothing renews the
entry's access time while a handler runs. Only `GetConnection` renews it.

### What makes it hard

- **Concurrency.** Concurrent `Export` calls race with one another for the
  same identity. They also race with the housekeeper, which closes sessions
  idle for longer than KeepAlive.
- **Time.** The lease is the access time set by `GetConnection`. A handler
  runs until `max(Timeout, item timeout)`. The agent chooses the item timeout
  (1 to 600 s), and nothing in the plugin bounds it by KeepAlive.
- **Failure paths.** Parameter evaluation, connection establishment,
  command errors and deadline expiry each map to a different result. The
  ping key turns every failure into the sentinel `0`.
- **Dynamic data.** The replica-set enrichment reads untyped documents. It
  picks a primary (keeping the last one it sees, or a zero member if there is
  none) and writes fields back into the documents.
- **Fall-through.** The oplog handler falls through from `oplog.rs` to
  `oplog.$main` on `ErrNoDocuments`, and fails on any other error.
- **A moving oplog.** `getTS` reads the newest and the oldest entry in two
  round trips. In between, the server keeps appending to the capped oplog
  and dropping its oldest entries.

### Properties that make each component correct

- Connection manager: every live session is in the pool, and no identity has
  two live sessions. The housekeeper never closes a session a running
  handler holds (only `Stop`'s `Destroy` may, and nothing in `Stop` waits
  for running requests). An idle session is eventually closed.
- Dispatch: `mongodb.ping` never returns an error after its parameters are
  accepted. A handler error after the deadline is reported as a timeout.
- Enrichment: every member's lag is the primary's optime minus its own. The
  primary's document carries the unhealthy secondaries in order, their count,
  and the total. An empty or unreadable list is a parse error.
- Oplog: when some oplog holds entries, a success answers from the first
  non-empty collection. Its timediff lies between 0 and the window that
  collection held when its newest entry was read, even while the server
  writes.
- Discovery: the listing is complete and sorted, an empty listing is `[]`,
  and each `host:port` yields one record.
- Handlers: every failure carries the error class of spec.md §7 for what
  failed first.
- Configuration: options that pass `Validate` give the manager a usable
  Timeout and KeepAlive.
- Lifecycle: no request ever uses the manager after `Stop` has set it to
  nil.
- Test doubles: a listing follows the mock's map in any iteration order.

## 2. Plan

Modules in the order they are built, most important behaviour first:

1. `ConnManager` (done). The pool, housekeeping and Destroy. It is modelled
   from spec.md §4.1/§5 because `conn.go` is not in `src/`.
2. `Plugin` (done). It EXTENDS `ConnManager` and adds concurrent `Export`
   workers, a clock, the housekeeper, and `Start`/`Stop`. This is the core,
   checked by `MCPlugin`.
3. `ReplSetStatus` (done). `ReplSetStatusHandler` and the enrichment as
   operators (`ParseMember`, the `parseMembers` loop as a fold,
   `InjectExtendedMembersStats`). They are checked against a reference read
   off the spec over every member list of up to three members.
4. `OplogStats` (done). The two-collection fall-through as a state machine
   with one step per `FindOne`.
5. `Discovery` (done). The database and collection listings (sort and the
   empty list), and the config and shard host-list splitting.
6. `Handlers` (done). The six command handlers, the jumbo-chunks count and
   `VersionHandler`, one call per behaviour. `MCHandlerCalls` composes one
   such call with an `OplogStats` call in flight at the same time.
7. `Config` (done). `Validate`, `Configure` and `Start` in any order.
8. `PoolAbstract` (done). The abstract promise of the pool: at most one
   session per identity, each one fresh, and a closed session never comes
   back. `ConnManager` is shown to implement it by an INSTANCE ... WITH
   refinement mapping (`PoolRefinement`, checked in `plugin_pool`).
9. `Lifecycle` (done). `Config` composed with `Start`, `Stop` and the part
   of `Export` that reads the plugin's fields, with `Stop` arriving while a
   request is in flight. It replaces the run of `Config` alone.
10. `MockConn` (done). The unit tests' `Session` double with the tests'
    fixture writes.
11. Composing `Handlers` into `Plugin` in place of the abstract handler
    outcome.

## 3. Modules and their correspondence to the code

### ConnManager.tla (spec-modelled)

| Variable | Code |
|---|---|
| `pool` | `ConnManager.connections`: identity ↦ `[sess, idle]`, where idle is `now - lastTimeAccess` in housekeeping intervals, saturated at KeepAlive+1 |
| `live` | sessions connected and not yet disconnected |
| `nextSess` | identity of the next session `create` establishes |
| `hkDue` | the housekeeper's ticker has fired and `closeUnused` is pending |
| `mgrUp` | `Plugin.connMgr != nil` |

The actions are `NewConnManager`, `GetConnectionReuse`/`Create`/`Fail`,
`CloseUnused`, `Destroy` and `Elapse` (one housekeeping interval). Each
action is atomic because each operation holds the mutex for its whole
duration. `IsStale` is the lease test `time.Since(lastTimeAccess) > keepAlive`.

### PoolAbstract.tla (spec-modelled)

The promise of the manager, with no time and no housekeeper. `apool` maps
an identity to its session, `alive` holds the open sessions, and `used`
holds every session ever opened. `Open(u, s)` gives an identity that has no
session a session never used before. `Close(U)` closes and forgets the
sessions of the identities in U, each of them still open, so no session
is closed twice (spec.md §5 (c)). A cache hit is a stutter.

`ConnManager` defines `Abstract == INSTANCE PoolAbstract WITH apool <- [u \in
DOMAIN pool |-> pool[u].sess], alive <- live, used <- 1..(nextSess-1)`.
`GetConnectionCreate` maps to `Open`. `CloseUnused` and `Destroy` map to
`Close`. `GetConnectionReuse`, `Elapse` and the Plugin steps map to
stutters. `PoolRefinement == Abstract!ASpec` is a PROPERTY of `MCPlugin.cfg`.

### Plugin.tla

Each worker is one agent request goroutine running `Export`. `ExportStart`
covers everything up to the handler call. Parameter rejection is the
`ParamError` disjunct. `ConnErrorResult` is the GetConnection failure path,
including the ping special case. The success path sets `remaining` to
`EffectiveTimeout`. `HandlerReturn` is `handleMetric` returning. The
handler's `outcome` is "ok" or "err", or "deadline" when its context expired.
`HandlerOutcomes` says that a command on a disconnected session fails.
`ExportReturn` is Export's error mapping, `ExportResult`. It reads the
deadline (`ctx.Err()`) as it is at that later step, as the code does after
logging the error. For ping the mapping is `PingHandler`. `Tick` moves time
by one interval (`Countdown`). It cannot move past a running handler's
deadline, because `context.WithTimeout` ends the handler there.
`Stop` is `Plugin.Stop`, `Destroy` with no guard: as in `mongodb.go:122-125`
nothing waits for running requests, so a handler may lose its session to
`Stop` and then fail. `HeldSessionLive` is therefore an action property
about every step except `Destroy`: it is the housekeeper that must never
close a session in use.

### ReplSetStatus.tla

`raw` is the decoded `members` array. Each member is reduced to name, health,
`optime.ts` and state. A field the type assertion rejects is `Absent`.
`annot[i]` records the fields the handler wrote into member `i`.
`ParseMember`, `ParseStep`/`ParseMembers` (a left fold over the indices, with
the same fail-fast behaviour), `UnhealthyMember` and
`InjectExtendedMembersStats` follow the Go functions line by line.
`ReplSetStatusHandler` is the whole handler.

### OplogStats.tla

`oplog[i]` is the set of entry timestamps of collection i (1 = `oplog.rs`,
2 = `oplog.$main`). The newest entry in natural order has the largest ts.
`ReadNewest` and `ReadOldest` are the two `getOplogStats` calls of `getTS`.
`FindOneResults` gives each call's possible answers: the entry's ts,
`ErrNoDocuments`, or a transient error. `Sorts` holds the `$natural`
directions `getTS` sets before each read (lines 77 and 84). `ReadFailed` is
the loop's error branch, and `Respond` is the marshalling of
`firstTs - lastTs`. `ServerWrite` is the server, not the plugin: it appends
an entry newer than every other to a non-empty oplog, dropping the oldest
when the capped collection is full. `writes` bounds the writes in a call.
`oldestSeen` is a history variable used only by the property. It holds the
oldest entry the collection had when its newest entry was read.

### Discovery.tla

`srv` fixes what every session call of the chosen handler answers, including
the server's own listing order and the failing call. Names are integers,
ordered as the strings they stand for. Host lists are character sequences
over {a, `:`, `,`, `/`}. `SplitAt`, `SplitRs`, `HostPortOk` and `HostOf` are
`strings.Split`, `strings.SplitN(.., "/", 2)` and `net.SplitHostPort`
(without brackets, which the alphabet leaves out). `HandlerServer` and
`HandlerShards` are the Go helpers. The four handlers are one step each.

### Handlers.tla

`call` is the handler the agent invoked and `status` its answer. `srv`
(drawn at `Init` from `Replies`) fixes what the server answers each session
call: Run, Find and Count can fail, and the command's document may hold a
NaN, which `json.Marshal` rejects. Each handler computes its answer from
`srv` as its Go code does. `ErrorsFollowTaxonomy` compares that answer with a
reference written from spec.md §7: `Steps(k)` lists the handler's calls in
order, and the answer must be the error class (`StepClass`) of the first
one that failed, or success. A behaviour is one call: the handlers keep no state
between calls. `CommandHandler` is the shape shared by the six command handlers. Each
of them is named after its Go function. `VersionHandler` is called but left
out of the checked set: its two failures use errors of their own
(`zbxerr.New`) rather than the fetch and parse classes, and checking it
fails on exactly those two paths. `PROJECT.json` lists this as a hazard.

### MCHandlerCalls.tla

Two handler calls in flight at once: `O == INSTANCE OplogStats` (its
`status` renamed `oStatus`) and `H == INSTANCE Handlers`. They share only
the session, so `Next` is a step of one with the other's variables
unchanged. The run checks the properties of both through `O!` and `H!`.

### MockConn.tla

`dbs` holds the keys of `MockConn.dbs`, `colls` the `<<db, coll>>` pairs of
the databases' collection maps, and `queries[<<db, coll, key>>]` is "absent",
"nil" (a `MockMongoQuery` without `DataFunc`) or what its `DataFunc` answers.
`runFunc[db]` is "nil", "default" (installed by `Run`) or "custom" (a test's).
`out` is what the last call returned. `DB`, `C`, `Find` and `FindOne`
return the stored object or store a new one. `QueryLookup` takes the
options and ignores them, as `fmt.Sprintf("%v", query)` does. `ListNames`
is the loop of `DatabaseNames` and `CollectionNames` with its early return,
run over every order of the map's keys (`SetToSeqs`), because Go's map
iteration order is unspecified. `Retrieve` is `retrieve`. `SetRunFunc` and
`SetDataFunc` are the tests' fixture writes. The nil-result returns of `Run`
and `retrieve` are left out, because no handler passes a nil result.

### Lifecycle.tla

`Lifecycle` EXTENDS `Config` and adds the agent's requests. `rpc[w]` is
"params" while request `w` runs lines 48-66 of `Export` (EvalParams,
SetDefaults, the URI and the handler lookup). `ExportParams` is that part,
which may reject the parameters. `ExportConnect` is line 68: it reads
`p.connMgr` at that moment, and with `mgr.up` false the call is on a nil
manager ("NilManager"). `StartPlugin` is `Config`'s `Start` for a stopped
plugin. `Stop` is `Plugin.Stop`: the manager is destroyed and the field set
to nil. The agent dispatches `Export` only to a started plugin, but `Stop`
is not synchronised with a request that is already running. What happens
inside `GetConnection` and the handler is left to `Plugin`, so a request
that got a manager is "Served".

### Config.tla

`text` is the option file, reduced to Timeout, KeepAlive and the TLSConnect
values. `options` is `p.options` and `mgr` is what `Start` handed to
`NewConnManager`. `UnmarshalOk` and `Unmarshal` are `conf.UnmarshalStrict`'s
range and default tags.

## 4. Runs

| Run | Checks | Shows |
|---|---|---|
| `plugin_pool` (`MCPlugin.cfg`) | TypeOK, NoLeakedSession, HeldSessionLive, PingNeverErrors, IdleSessionEvicted, PoolRefinement | With item timeouts no longer than KeepAlive: no session is leaked or duplicated, the housekeeper closes no session in use (`Stop` may), ping never errors, idle sessions are closed, and the manager implements the abstract pool |
| `plugin_long_item_timeout` (`MCPluginLongItem.cfg`, violation) | HeldSessionLive | An item timeout longer than KeepAlive lets the housekeeper disconnect a session while a handler still uses it |
| `replset_enrichment` (`MCReplSetStatus.cfg`) | TypeOK, EnrichmentMatchesReference | For every list with at most one primary, the handler's result equals the reference |
| `replset_empty_members` (violation) | EmptyMembersRejected | An empty member list is accepted, because the `len(result) == 0` check is dead code |
| `replset_two_primaries` (violation) | EveryMemberAnnotated | When two members report PRIMARY, the earlier one gets no lag and is not counted |
| `plugin_timeout_misreport` (`MCPlugin_TimeoutOnlyForDeadline.cfg`, violation) | TimeoutOnlyForDeadline | A handler's own error is reported as a timeout when the deadline passes between the handler's return and the `ctx.Err()` check |
| `handler_calls` (`MCHandlerCalls.cfg`) | OTypeOK, OTimeDiffWithinWindow, ErrorsFollowTaxonomy | With an oplog call and another handler call in flight, and the server writing the oplog between getTS's reads: a success of the oplog call answers from the first non-empty oplog. Its timediff is never negative and never wider than the window the collection held at the first read. The other handlers map every failure to its error class |
| `discovery_listings` (`MCDiscovery.cfg`) | TypeOK, ListingMatchesReference, HostListsParsed | The listings are complete and sorted whatever the server's order. Host lists round-trip through the parser, and every well-formed one is accepted |
| `discovery_shards_order` (violation) | ShardsSortedById | Shard records follow `$natural` order, not ascending `_id` |
| `lifecycle_validated` (`MCLifecycle.cfg`) | LTypeOK, ValidatedOptionsUsable | Validated options reach the manager with a Timeout in 1..30 and a KeepAlive in 60..900, whatever order the agent calls Validate, Configure, Start, Stop and Export in |
| `lifecycle_stop_race` (`MCLifecycle_NoNilManagerUse.cfg`, violation) | NoNilManagerUse | A Stop arriving while an Export evaluates its parameters leaves `connMgr` nil, and the Export then calls `GetConnection` on it |
| `mock_session` (`MCMockConn.cfg`) | MTypeOK, ListingsFollowMap | The mock's listings follow its maps in every iteration order, including the early return on `mustFail` |

### Bounds and why they are enough

- **Plugin.** The model has 2 workers, 2 identities and 2 keys (ping and one
  other). There are at most 3 sessions. KeepAlive is 2 intervals and Timeout
  is 1 interval. Item timeouts are {1, 2}, or {1, 2, 3} in the violation run.
  The properties compare idle times and deadlines only with KeepAlive, so the
  values that matter are below, equal to, and above KeepAlive. The bounds
  cover all three, and the equal case is the boundary where an off-by-one
  would bite. Two workers on two identities produce the concurrent reuse,
  create and fail interleavings, including a reuse racing a
  housekeeper pass.
- **OplogStats.** The model uses four timestamps, with collections of at most
  three entries (`OplogCap`) and up to two server writes per call
  (`MaxWrites`). Both collections may be empty or one of them may be. Spans
  may be zero (one entry) or positive, and every read may fail. A write may
  land between the two reads, including one that makes a full collection
  drop the very entry that was the oldest at the first read.
  `MaxWrites < OplogCap` is assumed: a real oplog holds far more entries
  than the server writes during two reads. If the server overwrote a whole
  oplog between the reads, the timediff would be negative.
- **Discovery.** The bounds are two database names and two collection names in
  every server order, and every host list of up to four characters over the
  four-letter alphabet. These cover empty items, missing and doubled colons,
  trailing commas, "rs/" with nothing after it, and two endpoints. Shards:
  up to two, with ids in either order, and three host lists (plain, with a
  replica set name, malformed).
- **MockConn.** The names are the ones the tests use: `local` and
  `mustFail` as databases, `oplog.rs` and `mustFail` as collections, one
  query key and two sort options. Two keys in a map give both iteration
  orders, so `mustFail` is met first or last. With one query key, both
  sort options reach the same query, which is the case the key's
  blindness to options matters for.
- **Config and Lifecycle.** Values are taken on both sides of each range
  bound, plus 0 and absent. The global timeout takes its two extremes. One
  request is enough for `Stop` to fall between its two steps, and the
  agent may restart the plugin any number of times.
- **ReplSetStatus.** The model checks every member list of up to 3 members,
  with each field drawn from two values or Absent. That covers 0, 1 and 2
  primaries, unreadable and partly readable members, duplicate optimes, and
  the empty list.

### Fairness

`Tick` and the housekeeper are weakly fair in `Plugin` because the ticker goroutine and
the clock never stop. `HandlerReturn` and `ExportReturn` are weakly fair because
`context.WithTimeout` bounds every handler and the mapping does not block. Start, Stop and the arrival of
requests are not fair, since the agent decides when they happen.

## 5. Not modelled and why

- **Wire-level driver, BSON decoding and JSON marshalling.** These are
  external. The model keeps only their outcomes: a handler is "ok" or "err",
  and a marshal either succeeds or fails.
- **Logging, the SDK container, `main`'s flag handling.** These are I/O only.
- **The tests' `DataFunc` counters.** The oplog tests' `DataFunc` answers by
  call count. `MockConn` reduces a `DataFunc` to one answer. `PROJECT.json`
  lists, as a hazard, what the shared query means for those tests.
- **Panics on unexpected BSON types in `parseMember`.** These are listed as a
  hazard. The model's member domain contains only the decoded types the
  handler accepts.
- **A `ts` that is not a BSON Timestamp in `getOplogStats`.** The code reads
  it as 0. The server always writes oplog entries with a Timestamp `ts`.
- **IPv6 literals in host lists.** `net.SplitHostPort`'s bracket handling is
  left out of the alphabet. An unbracketed IPv6 address is covered as "too
  many colons".
- **Handler parameters (database and collection names).** Handlers pass them
  to the server unchanged. No branch of the plugin depends on them.
- **The Zabbix agent's calling order.** The agent calls `Validate`,
  `Configure`, `Start`/`Stop` and `Export`, and it is not in `src/`. `Config`
  allows any order of the first three once `Configure` has run, and `Plugin`
  starts requests only while a manager runs.
