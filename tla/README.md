# A verification project for MAADB

MAADB is a database whose records are markdown files. One server process serves
many MCP clients; each *project* is a directory with markdown files (the truth),
a SQLite index derived from them, a journal of running operations and a git
repository every write is committed to. These modules model the parts of the
server whose correctness rests on the order in which things happen, check them
with TLC on small instances, and prove their safety properties with TLAPS for
every instance.

JavaScript runs one turn of the event loop at a time, so throughout an action is
what happens between two `await`s that can suspend, and processes are the
asynchronous calls, interleaved at their awaits with each other, with timers,
with crashes and with people who edit the same files.

## The system

| Component | State it keeps | Operations | Talks to |
|---|---|---|---|
| Write lock (`engine/mutex.ts`) | `held`, `queue` of grant closures | acquire, release, depth | `runExclusive` |
| Engine (`engine/index.ts`) | registry, schemas, backend, journal, git layer, `lastWriteOp` | init, reload, runExclusive, ctx, health | everything below |
| Write pipeline (`engine/writes.ts`, `journal.ts`) | `journal.json`, files | create, update, delete, bulkCreate, bulkUpdate, reconcile | indexer, git |
| Indexer (`engine/indexing.ts`) | none of its own; fingerprints in the backend | indexAll, indexFile, reindex | backend, files |
| SQLite backend (`backend/sqlite`) | documents, fields, relationships, meta | put, remove, lookups | indexer, reads |
| Git layer (`git/`) | the repository | add + commit, history, snapshot, stale lock recovery | write pipeline |
| Reads (`engine/reads.ts`) | none | get, find, join, aggregate, verify, changesSince | backend, files, without the lock |
| Engine pool (`instance/pool.ts`) | engines, init promises, reference counts, touch times, reload slot | get, acquire, release, evictIdle, applyDiff, closeAll | engines |
| Tool call wrapper (`mcp/with-session.ts`) | per call: timer, slot, acquired project | withEngine | sessions, limiter, pool, lock |
| Instance reload (`mcp/instance-reload.ts`, `reload-signal.ts`) | the live `InstanceConfig` | performInstanceReload (tool, SIGHUP) | pool, sessions |
| Sessions (`instance/session.ts`) | binding, roles, cancelled flag per session | create, bind, cancel, prune, destroy | transports, reload |
| Idempotency, rate limits (`mcp/`) | LRU cache of responses; buckets and in-flight counts | withIdempotency, tryAcquire | tool handlers |
| Shutdown (`mcp/shutdown.ts`) | running, draining, exiting | beginShutdown, drain | pool, limiter |
| Token registry (`auth/token-store.ts`) | records, two indexes, `tokens.yaml` | load, reload, issue, revoke, rotate | HTTP transport, SIGHUP, command line |
| Change feed, notifications (`engine/reads.ts`, `mcp/notifications.ts`) | cursor of the client; subscriptions, notifiers | changesSince, subscribe, notifyWrite | backend, sessions |
| Schemas, registry (`schema/`, `registry/`) | parsed schemas with file stamps | load, isStale, validate | engine |
| Parser, extractor, writer (`parser/`, `extractor/`, `writer/`) | none | parse, extract, serialize | write pipeline, indexer |

Blocks and inline annotations, the other commands of the command line, scaffolding,
logging, backups and the wiring of the MCP SDK are text transformations or calls
without a protocol, and are not modelled.

What is hard here, and what each component owes:

- *Write lock*: exclusive and FIFO although ownership passes between turns; a
  tool handler re-enters it; health and shutdown read its depth at any time.
- *Write pipeline*: one write is a file rename, a journal save, an index
  transaction and two git commands, and each of them can fail or be the last
  thing the process did. It owes that file, index and repository never disagree
  without somebody having been told, and that versions order contents.
- *Engine pool*: lazily created engines shared by concurrent calls, evicted by
  timers and by reloads, while calls time out and go on running. It owes one
  engine per project, exact counts, and no engine closed under a call.
- *Tool calls and shutdown*: a call holds a slot of its session, a reference to an
  engine, a place in the lock's queue and perhaps an idempotency key, and can lose
  its client, its session or its server at each of them. It owes one answer, slots
  given back once, and a shutdown that neither cuts a write nor waits for ever.
- *Sessions*: bound once, from three sources of authority (project, token, the role
  asked for), while reloads take projects away and bring them back. It owes that no
  order of these leaves a session with more than it may have.
- *Tokens*: one temporary file and one memory for concurrent calls, a reload and a
  command line. It owes that whoever was given a token gets in, and whoever lost it
  does not, across failures and crashes.
- *Schemas*: four awaits between the first file read and the swap, while people edit
  and reads look. It owes one consistent registry, freshness under the lock, and rows
  that follow the fields a schema indexes.
- *Queries*: tables derived from files one document at a time, rows that come and go
  under references to them. It owes the answer the frontmatter gives.
- *Change feed*: events leave after the lock is released and can overtake; pages are read
  while rows move. It owes that a client which does what the documentation says ends up
  with the present state.
- *Records*: a value passes a merge, a validator, a serializer, a YAML parser and an index.
  It owes that what was accepted is what is stored, or that somebody is told.

`PROJECT.json` lists every hazard with the line at which it bites and the
properties that watch it.

## Modules

| Module | What it is |
|---|---|
| `FifoLock` | the abstract promise of the write lock |
| `WriteMutex` | `AsyncFifoMutex` and `MaadEngine.runExclusive`, `reload` |
| `Catalog` | the abstract promise of the index: versioned entries |
| `DocStore` | files, index, journal, git and every operation on them |
| `DocStoreProofs` | theorems about `DocStore`, its refinement of `Catalog` among them |
| `EnginePool` | `EnginePool`, the engine part of `withEngine`, instance reload |
| `EnginePoolProofs` | theorems about `EnginePool` |
| `ToolCalls` | admission, slots, idempotency, timeouts and shutdown around `FifoLock` |
| `ToolCallsProofs` | theorems about `ToolCalls`, `WriteMutex` and `Sessions` |
| `Sessions` | the session registry, role caps, pins and what a reload does to them |
| `TokenStore` | the token registry of a server, its file, the command line beside it |
| `TokenStoreProofs` | theorems about `TokenStore` |
| `SchemaCache` | registry and schemas in memory against their files, and the rows built under them |
| `SchemaCacheProofs` | theorems about `SchemaCache` |
| `Queries` | the derived tables and every query over them, against the frontmatter |
| `QueriesProofs` | theorems about `Queries` |
| `ChangeFeed` | the polled feed and the pushed events beside write calls |
| `ChangeFeedProofs` | theorems about `ChangeFeed` |
| `Records` | frontmatter from a caller's fields to YAML, back, and into the index |
| `RecordsProofs` | theorems about `Records` |
| `MC...` | the instances TLC checks |

**WriteMutex.** `held` and `queue` are the fields of the mutex; `phase[c]` says
where caller `c` is suspended in `runExclusive`; `nest[c]` counts scopes re-entered
through the `AsyncLocalStorage` (`Reenter`, `LeaveInner`). `Acquire` is the body of
the promise executor, `Release` the release closure, which clears `held` and runs
the oldest grant in the same turn. A resolved grant runs its continuation in a
later turn (`granted`), which is the gap `MutualExclusion` covers. `reload()` closes
the backend and runs `init()`, which may fail before or after the new backend is
open. A failed reload leaves the engine uninitialised: later writes throw in `ctx()`
and still release the lock (`FnEnds`).

**DocStore.** One record `op` is the operation that holds the lock; that one is
enough is what `WriteMutex` shows. Its `pc` walks the awaits of the code: read,
rename (`WriteFile`), `journal.advance`, index, git add, git commit. Every one has
its failure action with the answer the caller gets. `told` and `excused` are not
program state: they collect the documents and paths somebody was told of - the
error of an operation, the recovery actions of a restart, or the author of a
direct edit - so that *silent* disagreement can be stated. `client` is a reader
that gets a document in two unlocked steps, as `getDocument` does, and updates
with the version it got.

**EnginePool.** `engines`, `initing`, `refcount`, `slot` are the pool's maps and
flag; `req` the tool calls; `reload` the reloads, which may be asked for twice at
once. `config` is `instance.yaml`, edited at any time; `instance` what the pool,
the server and the sessions use. `recent` abstracts the touch times: a project is
in it until `Age` says that the idle timeout has passed.

**ToolCalls.** `call[c].at` is the stage of a tool call between its awaits;
`inFlight`, `cached`, `identity` and the shutdown's `state` are the variables of the
limiter, the idempotency cache, the engine and `shutdown.ts`. `owner` and `line` are
those of `FifoLock`, instantiated: the composition uses the promise that
`WriteMutex` is shown to keep. `answered` says that the client has its response,
which the timeout can give before the handler ends. `streams` are the event streams
clients hold open. `drain` walks through the drain loop, the closing of the pool and
the closing of the transport.

**Sessions.** `sessions` is the registry's map and `entry` the transport's; `instance`
is the live configuration and `booted` the one the HTTP transport was started with and
keeps. The handlers are synchronous here, so the order of whole operations is what
matters. `Serves` is not an action: a served call changes nothing in the registry, so
it is the state predicate "withEngine would pass this call on". `opened` and `reborn`
are history: what a session was opened with, and whether a call has created it anew
under its id since.

**TokenStore.** `mem[h]` is the `TokenStore` object of the server or of one run of the
command line: the records, the keys of its indexes, and `revokedAt`. An operation changes
memory and takes the snapshot of the text in one turn (`Issue`, `Rotate`, `Revoke`), then
opens, writes and renames the one temporary file (`OpenTmp`, `WriteTmp`, `Replaces`), and
each of the three can fail (`PersistFails`, with `RollBack` of an issue). `where` follows
the file a writer has opened when another writer renames it. `ReloadRead` and `ReloadSwap`
are the two halves of a reload; `vouched` and `ledger` are history.

**SchemaCache.** `load` is a `loadRegistry` and `loadSchemas` under way, one read or stat at
a time; `Swap` is the turn that assigns both to the engine. `op` has the lock: a write, a
reindex (forced or not), a reload or an init. A sweep keeps the plan made when it began
(`PlanSweep`), scans documents one by one and stores the fingerprints at its end.

**Queries.** `db` holds the tables as functions of the document: its row, its field index
and its relations. `Materialize`, `Reindex` and `RemoveDocument` are the statements the
indexer sends; the queries are operators over `db`, written as the SQL and the TypeScript
around it compute them, and compared with operators that read `files`. A query is one
synchronous step in the code as well.

**ChangeFeed.** A call puts rows (`Index`), commits and releases the lock (`Commit`), then
walks the registered sessions (`Walk`, `Deliver`). A session's record is its subscription
and notifier in the server, and what the client does with the feed by
`docs/change-feed.md`: subscribe, a chain of pages, a read of every document it hears of.

**Records.** A string is the class its text belongs to for the serializer and for YAML.
`Errors` is the validator, `Quoted` and `ItemQuoted` the serializer's choice, `ReadBack`
what the parser makes of the result, `Wrote` the write with its index step. `Clean` is the
read-back of a bulk call: of every success (`Sampled`) when there are at most twenty, of ten of them
when there are more. Calls are one step; edits of files lie between them.

## Runs

| Run | Instance | Shows |
|---|---|---|
| `mutex` | 3 callers, 1 re-entered scope | exclusive, FIFO (refines `FifoLock`), depth exact, no reload under a write, everybody served |
| `store_one` | 1 document, 2 contents, 4 operations, 1 edit, 1 crash | no silent drift, no hidden uncommitted path, versions seen, reindex heals, refines `Catalog` |
| `store_bulk` | 2 documents, 2 operations, bulks of 2, 1 crash | a durable answer means committed, across the records of a batch |
| `pool` | 2 calls, 2 reloads, 2 projects, 2 directories, 3 engines | counts, one engine, no eviction under a call, serial reloads, everybody answered |
| `calls` | 2 calls, 2 sessions, 1 slot, 1 key | exact slots, keyed writes once, attribution, clean exits, every call and shutdown ends |
| `sessions` | 1 session, 2 projects, 2 tokens, 3 reloads | served within the caps, binding only shrinks, nothing for removed projects |
| `tokens` | 2 calls of the server or the command line, 3 tokens, 1 overlap, 1 edit | what is granted authenticates, what is revoked stays so, memory is the file, a rotation leaves no gap |
| `schema` | 2 types, 2 documents, 2 schemas, 2 edits | consistent registry at every await, freshness under the lock, rows follow fingerprints |
| `queries` | 2 cases, 2 clients, 6 fields, 5 frontmatters | every condition, edge and ref chain answers what the files say |
| `queries_between` | the same | *violation*: `maad_verify` does not take the filters of `maad_query` |
| `feed` | 2 documents, 2 calls, 1 client, 3 changes, 2 instants | pages cover what stands still once, a subscriber knows the latest content |
| `records` | 2 ids, 2 types, 3 fields, 8 inputs, 4 steps | rows are their files, accepted stays valid, verified means written |

*Bounds.* Three callers are an owner, a waiter and a newcomer, the least that can
overtake. Four operations on a document are create, get, delete, create, update with
reads in between, the longest history on which a version can repeat; one edit and one crash at
any point meet every step of every operation, and a second crash finds the same
states since a restart forgets `op`. A bulk of two records has a failing and a
succeeding one in both orders. Two calls, two projects and three engines allow one
eviction and re-creation beside another project. In `calls` one slot makes every second
call meet the limit, and two calls with one
key are a write and its retry; one session has a token and one an event stream. In
`sessions` one session is enough, for sessions share the instance only and a reload
treats each by itself; its two tokens cover an entry above the token's role, a project
without entry, a wildcard and an entry below it; three reloads can remove a project,
bring it back with another role, and remove it again.

In `tokens` three tokens are one that stands, a successor and one beside them, and one
overlap puts two operations, or an operation and a reload, at every pair of their awaits.
In `schema` two types are needed for a reference and for a load that has read one schema and
not the other; two edits tear a load and undo the first edit. The documents of `queries` have a
reference, a reference's reference, a missing target and a reference to oneself, and its
texts order differently as numbers; it has no bound on its length, so every history of
writes, deletes, edits and reindexings is covered. Three changes of `feed` are two
documents and one rewrite, two instants give rows that share a millisecond, and a page
of one makes every second row the start of a page. In `records` the inputs are a value for each
kind of text the serializer and YAML treat apart and each way to name an identity;
four steps are two writes, an edit and a reindexing.

Every bounded counter stands in a guard (`MaxReloads`, `MaxOps`, `MaxEdits`, `MaxCrashes`,
`MaxEngines`, `MaxNest`, `MaxBulk`, `MaxTokens`, `MaxRaces`, `MaxChanges`, `MaxClock`,
`MaxSteps`, `BulkSize`). The runs of `WriteMutex`, `SchemaCache` and `Queries` check
deadlock; the others do not, because their bounded environment may simply stop, or the
server has exited. Symmetry is declared only over values no property tells apart, in runs
without liveness properties.

*Fairness.* `WriteMutex` assumes that a caller inside the lock keeps being scheduled
(its awaits settle) and does not re-enter without end: async functions run to their
end. `EnginePool` assumes that an init that was started ends. `ToolCalls` has weak
fairness on one action, any step that the running process owes by itself (`ServerStep`:
promise continuations, timers, the drain loop, its deadline); it contains no step of a
handler, which may hang, and none of a client. Beyond that nothing is assumed of
clients, sweeps, reloads or people. The other modules state safety only.

## Known divergences

One run ends in a violation. `queries_between`: `verifyCount` hands the caller's filters to
the backend as they are, where `findDocuments` and `aggregate` expand and check them first;
`between` then throws and an empty list of conditions filters nothing. `maad_verify` documents
"same format as maad_query" (`mcp/tools/read.ts:186`). `join` and the document scope of
`verifyIntegrity` do the same.

The rest was met while modelling. The properties are stated so that they speak of what
does hold, and each exception is named here.

*Write pipeline.* The journal entry stays `pending` until the turn after the rename
(`journal.ts:75`), through the whole unlink of a delete, and `bulkCreate` has none;
`reconcile()` is silent about `pending` entries without a temporary path. A crash there leaves
a stale index and an empty `startupRecovery`. Until a crash no drift is silent
(`DriftIsAnnouncedUntilCrash`), and a reindex heals what it left (`ReindexHeals`). A version
counts the contents since the document entered the index, so `expectedVersion` cannot tell a
document from one that was deleted and created again (`writes.ts:156`);
`AcceptedVersionWasSeen` is the part that holds.

*Pool.* The end of an init caches the engine whether or not its project is still declared
(`pool.ts:361`). An engine that is initialised while its project is removed and added again at
another directory serves the old one; `RunningIsOpen` speaks of the projects that stayed. It
also speaks of calls not yet answered only: a handler that overran its timeout holds no
reference, and an idle sweep may close its engine.

*Shutdown.* `close()` awaits `httpServer.close()`, which waits for every connection, before it
closes the transports that hold the event streams open (`http.ts:413`), and the idle sweeper
is stopped by then; `ShutdownEndsIfClientsLeave` is what holds. Closing a session drops its
in-flight count (`rate-limit.ts:217`); until its write is in the lock's queue nothing the
drain loop looks at knows of it, and a clean exit may cut it. `CleanExitCutsNoWrite` speaks
of the sessions that are still there.

*Sessions.* A pin is validated against `opts.instance`, which no reload replaces, and not
against the token; `bindSingle` then refuses it after the session exists, and the refusal is
only logged (`http.ts:271`). The session stays open, unpinned and unbound. After
`SESSION_CANCELLED` the next call under the same id creates the session anew, without token
and pin; `ServedWithinCaps` holds a session to its token until it is destroyed.

*Tokens.* The rollback of an issue pops the last record, which may be another call's
(`token-store.ts:238`), so memory, indexes and file can disagree after overlapping calls of
which one fails: `MemoryIsFile`, `RotationLeavesNoGap` and `RevocationSticks` are stated for
operations that do not overlap, `GrantedAuthenticates` for any.

*Schemas.* A loader reads a file before it takes its stamp (`loader.ts:50`), so an edit between
the two is taken for loaded; a registry missing when it is stat-ed is never cached, against the
comment at `loader.ts:41`. `SchemasFollowFiles` excepts loads torn that way. A file that did not
index and is edited back to its indexed content keeps the row of an earlier schema
(`FingerprintCoversRows` excepts such rows).

*Queries.* `verifyIntegrity` subtracts from the files it scanned every document with a finding
(`reads.ts:935`), also the sources of broken references whose own file is gone, so `healthy` can
go below zero. A range over two items of a list may be met by two different items; ranges over dates
compare as text.

*Change feed.* `docs/change-feed.md` announces soft deletes as updates with a `_deleted` prefix;
the code emits none. The last page has no cursor: a poller starts again, and one that keeps the
last cursor it had misses a row rewritten in the cursor's millisecond under a smaller id. An
update that changes nothing fires an event, against the comment. Events of two calls can
overtake each other and carry no version, and reindexing and writes without a commit are not
announced, so `SubscriberKnowsLatest` asks of the client that it reads what it hears of. The
idle sweep never unregisters the notifier of a session (`http.ts:386`); it is not called again.

*Records.* `fields` may override `doc_id` and `doc_type` (`writes.ts:70`). The file keeps the name
of the id the call was made with, so a later create of that id overwrites another record's file; two
files with one `doc_id` exchange row and versions on every reindex; and a `doc_id` that is no
string, or a type that is not registered, passes the preflight and leaves a file without a row
(the answer says so). List items are written without the guard of `serializer.ts:92` (`["123"]`
comes back as a number, `["a: b"]` as an object), and line breaks in quoted strings fold to blanks.
Verification of a bulk call reports indexed lists of two or more items as mismatches though they
are written: `VerifiedMeansWritten` is one direction only. Beyond twenty successes only ten are
read back (`writes.ts:591`), so the property speaks of shorter calls. A later record of a bulk call
may write the file of an earlier one under another type, or leave it without a row; `AcceptedStaysValid`
excepts those (`WrittenLater`), for the type that validates a record is the one its row has
when the record's turn comes.

## Proofs

Every proof module has the same plan: an invariant `Inv` of named parts, `InitInv`, a lemma per
part saying that each action keeps it (one step per action of `Next`), `NextInv`, and the theorems,
which are parts or consequences of `Inv`. Bounds such as `MaxOps` are natural numbers in the proofs,
so a theorem speaks of histories of any length. What the properties alone do not say, and
`Inv` adds, is the interesting part of each.

**ToolCallsProofs, the write lock** - any set of callers, any nesting depth. `MutexSafety` (the
specification without fairness) implies `MutexTypeOK`, `MutualExclusion`, `LastWriteOpOwnsLock`,
`WorkingKeepsBackend`,
implements `FifoLock`, and, for finitely many callers, implies `DepthIsPending`. `MutexInv` says how the
three places the lock's state is spread over hang together: the queue holds exactly the
waiting callers, each once (`QueueIsWaiting`); `held` is set exactly while somebody owns the lock,
and a queue forms only then (`HeldIsOwned`); an initialised engine has an open backend and a caller
with a context is a write (`ContextValid`). The hard steps are a release with waiters, where
the head of the queue becomes owner and every index shifts, and the depth, where a cardinality is
followed through one joining or leaving caller. Assumptions: `NoCaller` is not a caller,
`MaxNest` is a natural number.

**DocStoreProofs** - any documents, contents and bulks, any number of operations, edits and
crashes. Proved: `TypeOK`, `DriftIsAnnouncedUntilCrash`, `DurableMeansCommitted`,
`AcceptedVersionWasSeen`, the action property `ReindexHeals`, and the refinement
`ImplementsCatalog`. The three invariants speak of moments between operations; `Inv` says
what the operation under the lock owes meanwhile. `InHand` are the paths it has touched and not
answered for: the repository differs from HEAD at excused paths and there only, and what
is staged before a commit is what it will commit (`GitInv`). A row may differ from its file
only where somebody was told or the operation is between rename and index (`DriftInv`). A
sweep that met neither error nor edit has brought every document behind it up to date, and
files it did not list are told of (`ScanInv`), which gives `ReindexHeals` at its last step. For
versions the invariant carries that a client's version never exceeds the row's, and that equal
versions mean equal contents unless the write that changes them is in hand (`ClientInv`). The
refinement has a lemma for each way a step changes rows: an index step enters or revises one
entry, a delete or the end of a sweep takes entries away. Assumptions: the null text and id are none of the
others, bounds are naturals.

**EnginePoolProofs** - any finite set of calls, any reloads, projects, directories. Proved:
`TypeOK`, `NoEngineLost`, `RefcountExact`, `RunningIsOpen`, and the action property
`ConfigNeverRegresses`. `RunningIsOpen` needs a chain: a running call has its project's engine
(`OnTheirEngine`), what the pool holds was created and not closed (`Open`), no engine is
in the pool twice (`Apart`), and the engine of a project that was not removed is at its
directory, also while it is being initialised (`AtDirs`). Counts are kept for
every project, below the calls for a removed one and exact otherwise (`CountedAt`), because a call
that started before a removal still releases. Reloads take turns at the slot, and what one has read
lies between what is live and the newest edition (`Serial`). Assumption beyond null values and
bounds: calls are finitely many, for the count is a cardinality.

**ToolCallsProofs, tool calls** - any finite set of calls, any sessions and keys, any limit. Proved: `TypeOK`,
`SlotsExact`, `KeyedWriteOnce`, `AttributedToCaller`, `CleanExitCutsNoWrite`. Here the
specification is composed with `FifoLock`, and `LockShape` is what the composition gives: the
calls past the lock own it, the queued ones stand in line once. Keyed writes are done once
because the cache is asked under the lock and filled before it is given back: a keyed write that is being
done finds neither a cached key nor a write (`KeyShape`). The identity in the engine's one slot
is the owner's (`IdentityShape`), so no call that timed out leaves its own behind. A drain loop
that was not cut short left no write of a session that is still there (`LeftClean`), which
rests on the count of every such session (`Counted`) and on admission being closed before.
Assumptions: finitely many calls, sessions with a token and listeners are sessions, distinct
nulls, a limit of at least one.

**ToolCallsProofs, sessions** - any session ids, projects, tokens and declarable roles, any
number of reloads. Proved: `SessionTypeOK`, `BoundIsDeclared`, `ServedWithinCaps`, and the action property
`BindingOnlyShrinks`. The roles a session has are settled when it binds and looked up long
after, so `SessionInv` carries what the binding still owes (`Owed`): each role within the token's cap
for ever, each project declared and each role within the declaration as long as the
session is not cancelled. It also needs that a session in the registry has a live entry and,
unless it was created anew, the token it was opened with. The argument at a reload is that roles of
projects that stay cannot change (`Mutates` refuses the reload), so a role only goes stale by a
removal, which takes the project or cancels the session (`AfterIsGood`); a project that comes
back with another role meets no session that remembers the old one. Assumptions: declarable
roles are roles, tokens are token records, and the null values are distinct from what they stand
beside.

**TokenStoreProofs** - any calls, tokens, overlaps and edits. Proved: `TypeOK`, `MemoryIsFile`,
`GrantedAuthenticates`, `RotationLeavesNoGap`, `RevocationSticks`. The first, third and fourth
speak of operations that do not overlap, so the heart of `Inv` is what such an operation
has left half done (`AloneAt`): the temporary file has what its stage says, its snapshot is
the text of memory, and undoing it in memory (`RollBack`) brings memory back to what the file
says - which is what its failure, at whichever of the three file calls, then does. `SyncedShape`
says so of the moments between operations and `ReloadShape` of a reload, whose text may be stale
once something else runs. `GrantedAuthenticates` holds with overlaps too and needs the
opposite view: no operation is left that could take back a token the server vouches for or is
about to vouch for (`VouchShape`), though roll-backs may pop each other's records.
`LedgerShape` ties the history of answers to the file: a successor has its predecessor's
origin, and no running operation works on what was granted or retired. `Aged` says that everything
there is was generated before the next token, which makes new tokens new. Assumptions: the server is
none of the calls, and a missing and a half-written file are no texts.

**SchemaCacheProofs** - any types, documents, schemas, fingerprints, any number of edits. Proved:
`TypeOK`, `TypesHaveSchemas`, `SchemasFollowFiles`, `FingerprintCoversRows`. `Stamped` says of every
copy, in memory or in a load under way, that it is the file's content as long as the stamps
agree; this is what lets `isStale` compare stamps instead of contents. `LoadFollows`
says that a load which nobody disturbed agrees with the files it has been through,
`LoadShape` that it has the schemas of exactly those types (so that the swap is consistent),
`Turn` when the engine is open. `SweepShape` is the sweep's debt: types it takes for clean are stored as
they are, and of dirty ones the rows behind it were rebuilt, or are among its errors.
Assumptions: a missing schema is no schema, targets are types, documents have types.

**ChangeFeedProofs** - any documents, calls, clients and filters, any page limit, any number of
changes. Proved: `TypeOK`, `PagesCoverOnce`, `SubscriberKnowsLatest`. That a list in the order of
`(updated_at, doc_id)` exists for every set of rows would be an induction over sets; it is had
from a least counterexample instead (`SortedExists`, with `Inserted` for the step), and from it what a page
is: the rows after the cursor, up to its own last one (`PageIs`). `PagesCoverOnce` is then
inductive with `since` not in the future: a row that is put meanwhile is newer than the chain,
wherever its stamp moves it. For `SubscriberKnowsLatest` the invariant says what a client that
does not know a document may still count on. One that caught up is owed an event by a call between put
and walk, or among the sessions of a walk (`CaughtUp`, `Owed`); one that is catching up may also
find the document after its cursor, or has it, or will rightly take it for gone
(`CatchingUp`). The hard steps are a commit, where the debt passes from the rows to the
events, an event delivered to the last of a snapshot, and the last page. Assumptions: documents
are finitely many numbers, filters are sets of documents, the page limit is at least one and at least
one change is allowed, the free lock is no call.

**QueriesProofs** - any finite set of documents, any schema, any frontmatters, any history of
writes, deletes, edits and reindexings. Proved: `TypeOK`, `FindMatchesFrontmatter`,
`LinksMatchFrontmatter`, `ChainMatchesFrontmatter`. The inductive part of `Inv` is short: whatever
happened to the file since, the field index and the relations of a document are those of the
content its row names, and a document without a live row has neither (`Derived`). The rest is what this
gives when nothing has drifted (`CleanRows`): the tables are functions of the files, and each
query is compared with its definition over them. A condition met by a cell is met by the text the cell was made
of (`CellMeets`, and `BetweenMeets` for the two bounds of a range). Counts and sums are
folds over sets. The induction over the subsets of a finite set that they need is had from a
least counterexample (`FamilyInduction`, for a family of sets in place of an operator). It yields
that sums exist and take one element at a time (`SumSteps`), are had on their support
(`SumSupport`), over a disjoint union (`SumUnion`) and by the fibers of a function (`SumFibers`),
and that a cardinality is one (`CardIsSum`). With these a chain's
groups are the fibers of the function that follows a document's refs, so each
document is counted in one. Assumptions: finitely many documents and fields, a scalar field has
at most one value, the null values are distinct from what they stand beside.

**RecordsProofs** - any finite sets of ids and types, any schema, inputs and hand edits, bulk calls
of any length. Proved: `TypeOK`, `IndexMatchesFiles`, `AcceptedStaysValid`, `VerifiedMeansWritten`.
`StoreOK` is what every record of a call and every file of a reindex keeps: each row is under its own id,
no two rows have one file (`TableOK`), and a row says what its file says outside of drift. A bulk call is a
recursive function of the number of its records; that what holds of the store before holds after each is an
induction, had from the least number that fails it (`CountUp`), as is the existence of the
function (`WalkExists`). `AcceptedStaysValid` carries through the records that each file
accepted so far is valid (`Valid`) or was written later. For `VerifiedMeansWritten` the difficult
records are those that give themselves another id than the call names. However they displace one another,
the last of them is left with a row elsewhere or with none (`Astray`; `CreatesKept`,
`UpdatesKept`), and its read-back fails; so a clean call had none, and everything is
where the call says (`Settled`). For reindexing, `OrderCovers` shows that any order visits every file, and
`Swept` and `Current` say what a sweep owes to the files behind it. Assumptions: finitely many ids and types,
inputs and edits are frontmatter, a field that takes a text with line breaks takes it with
blanks (an enum with a line break in a value would not), null values are distinct.

`TypeOK` stands in no configuration: it is proved for every instance (with
`LastWriteOpOwnsLock`, proved too).

Writing the proofs changed the modules. Four `CASE` expressions had arms
that overlap, where TLC takes the first and the logic any; their guards are now disjoint. The
`TypeOK` of `SchemaCache` and `TokenStore` did not say enough of records in progress to reason
about them. And what was taken for granted became named assumptions (finitely many calls
in `EnginePool` and `ToolCalls`, `Missing` and the two broken files as values of their own, a free
lock that is no call). In `ChangeFeed` the page's order is stated by `Sorted`, where it was
a library sort whose result nothing could be proved of. In `Queries`
the groups of a chain were stated for hops that the code refuses or takes no number from;
`ChainMatchesFrontmatter` now names the chains it speaks of (indexed, scalar refs). In `Records`
the proof of `AcceptedStaysValid` failed for a reason: a later record of the same bulk may
write the same file under another type. TLC has the counterexample once the inputs include a
number in a string field; the property was restated with the exception, and the input stays. There
too, verification was of all records where the code samples long calls, and folds over
sequences became recursive functions.

Every safety property of every passing run is proved. Only model-checked is liveness
(`EveryCallerServed`, `EveryWaiterAnswered`, `EveryCallAnswered`, `ShutdownEndsIfClientsLeave`):
it rests on fairness, so on `ENABLED`.

## Not modelled

- Git's `status.staged` is taken to list every staged path; a recent `index.lock`
  that makes `init()` refuse to start is one of the failures of an init.
- The SQLite transaction and a file rename are atomic; a power failure that loses
  what the operating system acknowledged is not considered.
- Two edits of a file always change its stamp, though the clock of a file system has a grain.
- `ToolCalls` has one project whose engine stays; token buckets are not counted, a call
  over its rate is refused at admission; the stdio server, which has no streams to wait for,
  is not modelled apart.
- `Sessions` leaves out the automatic binding of an instance without `instance.yaml`
  and the rule that a session's tools are listed by its role; `TokenStore` the expiry of tokens.
- `Queries` leaves out limits, offsets, sort orders and the cap on the groups of a ref chain, the
  averages and extremes of an aggregate (which take the missing metric of a group for 0), and
  the block table. `verifyIntegrity` is one step, though it reads files between its queries.
- `ChangeFeed` leaves out the project scope of a subscription, the payload of events and
  versions: a `getDocument` between two writes may pair a newer frontmatter with an older version.
- `Records` leaves out bodies, versions, defaults, the existence of a reference's target, and the
  `_deleted_` file of a soft delete. A generated id is any id.
- Blocks, verbatim zones, inline annotations and the normalizers of extracted values: text
  transformations without state.
- Memory pressure, maintenance, backup and audit, scaffolding, logging, and the other parts
  `PROJECT.json` lists as `not_modelled`.

## Plan

1. Done: the lock, the write pipeline, the pool, calls with shutdown, sessions with reload;
   then tokens, schemas, queries, the change feed and records.
2. Done: the proofs of all safety properties. Liveness stays with TLC.
3. Small modules worth adding when those stand: the token bucket and the memory monitor,
   block parsing against a reference definition.
