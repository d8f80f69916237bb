# Verification of llama_shim

llama_shim is an HTTP service that gives an OpenAI-style API (responses,
conversations, chat completions, files, vector stores, code interpreter
containers) to a model server, the *upstream*. It keeps state of its own in
SQLite or Postgres, answers some requests itself, forwards others, and runs some
tools locally. This directory holds TLA+ models of its stateful parts, TLC
configurations that check them on small instances, and TLAPS proofs of what holds
for every instance. Paths below are relative to the repository (`src/` here).

`PROJECT.json` lists the components, the runs, the source lines of every
definition, the hazards and the theorems. A definition whose comment starts with
"Mutant:" is a plausible bug in the definition after it; it is used only to see
that a property notices.

## 1. The system

| Component | State | Operations | What is hard about it |
|---|---|---|---|
| Conversation store and service (`storage/sqlite/conversations.go`, `service/conversations.go`) | a versioned row per conversation, item rows with a place `seq` | create, get, append, delete item, page, append a turn | the read is two queries outside a transaction; turns generate for seconds; commits compare and swap the version; places are reused |
| Responses store and service (`storage/sqlite/responses.go`, `service/responses.go`) | response rows linked by `previous_response_id` | create, warm up, compact, save an upstream's answer, refresh, cancel, delete | nothing is locked between reading a lineage and saving; refresh is read, merge, upsert; background responses change upstream |
| WebSocket sessions (`httpapi/response_websocket.go`) | a connection's cache of `store=false` responses | message, turn, failure, cleanup | rows known only to the memory of a connection; every deletion can fail |
| Upstream client (`llama/client.go`) | a counting channel of `max_concurrent_requests` places | acquire, wait with timeout, release | time-outs race hand-overs; a body keeps its place until closed |
| Upstream create handlers (`httpapi/handlers_responses.go`, `response_stream_proxy.go`) | none but the places they hold | a cascade of compatibility retries | which call may be repeated, how often, and holding what |
| Rate limiter (`httpapi/ops.go`, `middleware.go`) | a token bucket per caller | allow | the clock is read before the mutex is taken |
| Code interpreter containers (`httpapi/local_code_interpreter_*.go`) | sandboxes, session rows, file rows, stored files | create, reuse, upload, attach, list, read, delete, execute, expire | many statements without a transaction, beside a sweeper, over failures and restarts |
| SQLite connections (`storage/sqlite/db.go`) | pooled connections and their pragmas | statements | pragmas belong to one connection |
| Create routing, local tool loop, local tools | none | choose a runtime, bounded loop of tool calls | order of fallbacks |
| Stream proxy and replay | events of a stream, replay artifacts | rewrite and store a stream | saved after the client has the last event |
| Chat completions and shadow store | stored completions | rebuild from chunks, page, update, delete | cut streams |
| Files, vector stores, search | files, chunks, attachments, expiry | upload, attach, index, search, expire | several statements, activity extends expiry |
| Maintenance, backup | the database file | sweep, vacuum, backup, restore | list then delete; crash during restore |
| Memory notes, concurrency gates, Postgres storage, provider routing, configuration, calibration, custom tools, router | see `PROJECT.json` | | |

Interactions: every handler reaches the upstream through the admission places;
conversation turns, HTTP creates and WebSocket turns all save into the responses
table; container files are rows over the same files table as `/v1/files`; all of
them share the SQLite pool.

## 2. The modules

| Module | Models | Extends |
|---|---|---|
| `Conversations` | conversation store and the service operations on it | |
| `ConversationLog` | what a conversation promises: turns added one at a time | |
| `ConversationPages` | listing items page by page beside the other requests | `Conversations` |
| `Admission` | the admission controller of the upstream client | |
| `UpstreamCreate` | create handlers, their retries and the places they hold | `Admission` |
| `Responses` | response rows, creates, cancel with refresh, delete | |
| `ResponseSessions` | WebSocket connections over the same table | `Responses` |
| `SqlitePool` | pooled connections, their pragmas, cascading deletes | |
| `RateLimiter` | the token bucket | |
| `Containers` | container manager, sweeper and code execution | |
| `*Proofs` | theorems about `Conversations`, `Admission`, `RateLimiter` | the module they are about |
| `MC*` | instances for TLC | the module they instantiate |

### Conversations

`version` is the `version` column (0 while the conversation does not exist),
`rows` the item rows, `responses` the turns that were saved, `issued` the
identifiers in use, `req[p]` what a request remembers. `GetConversation` is two
steps, as in the code: the row with its version, then the items, and anything may
run in between and during generation. Each write is one step that fails when the
version has moved. A compaction item summarises the context it was made from
(`sums`); `domainItemsFromConversation` starts a context at the last *trusted* one,
that is one a response produced. Message content and metadata are left out.

`ConversationLog` has no versions, requests or conflicts: a turn reads its context
and is added in one step. `AtomicTurns` says that `Conversations` implements it.

`ConversationPages` adds one client that lists items: `LookupCursor` and
`SelectPage` are the two queries of a page.

### Admission and UpstreamCreate

A buffered Go channel serves blocked senders in order and hands a freed place
over, so `Release` gives the place to the head of the queue. `Abandon` is the
other branch of the select. `UpstreamCreate` follows a create through its flow
(see the header of the module): it keeps, per request, the stage of the cascade,
what the body still allows (`s`), the last answer, the number of calls, and
whether a fallback was used. Bodies are reduced to the four facts the retries look
at, answers to the error patterns they match. An error message may match several
patterns at once. An answer may also fail to parse or carry no output, which ends
the create with an error. The flow `local` is a create the shim answers itself by
generating text: raw tool-call markup is repaired by generating again, at most
twice, and in `prefer_upstream` mode a failure, a timeout included, may send the
whole create upstream (`shouldFallbackLocalState`); what counts as such a failure
is a choice where the code classifies status codes and messages.

### Responses and ResponseSessions

The content of responses is a set of facts: `<<r, "in">>` and `<<r, "out">>`. A
compaction item carries the facts it stands for, and `seen` records what the turn
was given. Creates come in two kinds. With local state (`Prepare`,
`CompleteCreate`) the lineage is read first and the row is saved at the end. A
forwarded create (`Forward`, `ShadowPrepare`, `SaveExternalResponse`) is answered by
the upstream first, and the lineage is read and the row saved when the client
already has its answer. An answer without output, such as a background response
that was only accepted, is never stored. `cancel` asks the upstream and then runs
`Refresh`: read, merge, upsert.

`ResponseSessions` adds connections. A turn refused before its stream starts
evicts its predecessor from the connection's cache; one that fails later does not.
Deletions may fail, which the code only logs; `leaked` records those rows, and the
rows whose memory note could not be written. A restart is not modelled: it would
lose the caches and keep the rows.

### RateLimiter

Time is counted in ticks and a token in `Unit` parts, `Rate` of which are refilled
per tick. `ReadClock` and `Allow` are two steps. The observer (`since`, `granted`)
may start to count at any refill, so `GrantsAreBounded` speaks about every window.

### Containers

Every SQL statement and every call to the sandbox is a step. `Fault` makes the
statement a call is at fail; `Crash` ends all calls. A run looks up the stored file
it was given before it reuses or creates a container, and does not look again.
Files may be deleted through `/v1/files` at any moment, a container's own uploads
included, and expired ones by the maintenance loop; `dropped` remembers them. `getContainer` expires an idle
container before it answers, exactly as the sweeper does. Foreign keys may be on
or off at each statement (section 6, SQLite pragmas). File content, names and
sizes are left out; two files may share a path, so that one upload replaces the
other.

### SqlitePool

`db.go` configures the connection that happens to run the pragmas. A connection
that the pool opens later has SQLite's defaults. Two callers use the pool: a
streamed create saves its response and, when that has returned, its replay
artifacts (at once when the response itself is not to be stored); a DELETE removes
a response in one statement.

## 3. What TLC checks

| Run | Instance | Shows |
|---|---|---|
| `conversations` | turns: 1 conversation, 4 items, 2 requests, versions up to 3; pages: 3 items, 1 writer, batches of 2, page sizes 1 and 2, both orders | a current version means a current context (`FreshVersionFreshContext`); no append or turn makes a conversation forget (`ContextNeverShrinks`); turns are atomic (`AtomicTurns`); places stay unique although they are reused; pages keep their order and a finished listing misses nothing that was there throughout |
| `upstream_create` | 1 request, every flow, body and answer, `prefer_upstream` | the cascade is bounded, an answer after a fallback obeys the original `tool_choice`, and a timeout is followed by another call only after the direct proxy and after a local generation (`TimeoutEndsMostCreates`) |
| `upstream_slots` | 2 requests that are proxied, streamed or local, 1 place, with a queue timeout | places are accounted for, a finished request holds none, every create is answered |
| `upstream_hold` | 1 proxied request, 1 place, without a queue timeout (the default) | **violated**: see finding 1 |
| `upstream_timeout` | 1 JSON create, every body and answer | **violated**: see finding 4 |
| `responses` | *races*: 3 identifiers, 2 requests, lineage cap 2; *background*: 2 identifiers, 2 requests, background responses; *chains*: 4 identifiers, 1 request, cap 2; *sockets*: 3 identifiers, 2 connections, 1 HTTP request, no cap | no set of stored responses closes a cycle; every continuation was given all its predecessor knew, but for what the cap cuts and the input of turns that compacted; an ended background response ended that way upstream; what a connection has cached is stored; no `store=false` root is left behind unless a storage statement failed |
| `responses_delete` | *background* without a cap | **violated**: see finding 2 |
| `responses_compaction` | *races* without a cap | **violated**: see finding 5 |
| `sqlite_orphans` | 1 response, 2 goroutines | **violated**: see finding 3 |
| `rate_limiter` | 1 key, 3 requests, 5 parts per token, 2 per tick, burst 2 | grants never exceed burst plus refill in any window; the advertised reset is long enough |
| `containers` | 2 containers, 1 client, the sweeper, 2 files on one path, no faults | a row that owns its file has it; no file uploaded by a client is deleted |
| `containers_expiry` | 1 container, 1 client, the sweeper, one fault or crash, one file deleted through `/v1/files`, clock up to 1 | containers nobody touches stop being running; only that deletion takes a file from a row that owns it, or from the client |

`conversations` and `responses` check several instances in one run: the MC module
has a variable `part` that says which one a behaviour belongs to.

**Why the bounds are enough to be interesting.** Two requests are what a lost
update needs; version 3 leaves room for a seed, a commit and a commit that
conflicts. Three items let a place be freed, reused and read by a cursor. Three
responses make a chain whose middle compacts, is deleted or is refreshed; with a
fourth, the third continues a lineage of two turns and the fourth one of three, so
that the cap of 2 cuts a turn, unless a compaction item within reach stands for it. Two creates on one place are the smallest pair that can wait for
each other. A rate that does not divide a token leaves fractions in the bucket.
Two containers sharing a file are what reference counting is for. One tick is the
lifetime of a container, so that expiry and every call can overlap. Symmetry is used
for identifiers and clients in safety runs, never in a liveness run. A deadlock is allowed in the runs whose identifiers or versions run
out, where the bounded instance really stops.

**Fairness.** `upstream_slots` and `upstream_hold` use weak fairness of each
handler. A Go handler that can go on does, the upstream answers or the client's
`llama.timeout` ends the call, and streams end. Clients need not disconnect.
`containers_expiry` uses weak fairness of the clock and of the sweeper, which a
ticker wakes for as long as the process runs. Requests have no fairness, so one
may stall anywhere. Faults are bounded in number: a statement that fails for ever
is not assumed away by fairness but by `MaxFaults`.

## 4. What is proved

For all values of the constants, with the named assumptions of the modules:

* `ConversationsProofs`, from `BoundsAssumption` (`MaxBatch` positive, `MaxVersion`
  a natural number; both only bound the behaviours):
  * `SpecTypeOK`, `SpecRowsAreUnique`, `SpecFreshVersionFreshContext`;
  * `SpecAtomicTurns`: `Conversations` implements `ConversationLog`.

  `FreshVersionFreshContext` is not inductive alone. The invariant `IInv` adds the
  types, that places are bounded (so `MAX(seq) + 1` exists and exceeds all of
  them), that a conversation without a version has no rows, and that rows are
  unique. The argument for the two unprotected reads: the version is read first
  and only grows with each write; if it is still current at the commit then
  nothing was written since, so the items read later are the current ones. For the
  refinement each appending transaction is shown to place new rows after all old
  ones (`Appended`), and a commit that passes the version check to be one abstract
  turn whose base is the abstract context.

* `AdmissionProofs`, from `AdmissionAssumption` (finitely many calls, a natural
  limit): `AdmissionSlotsAccounted`. The invariant is inductive with the types;
  the proof is by cases on who gets the freed place. `UpstreamCreate` uses the same
  actions, and TLC checks `SlotsAccounted` there too.

* `RateLimiterProofs`, from `RateAssumption` (positive unit, rate and burst):
  `LimiterTypeOK` and `LimiterBoundsGrants`. The strengthening `Paid` counts the
  tokens still in the bucket as well: granted plus remaining is at most the burst
  plus the refill. A request that arrives with an old clock reading refills nothing
  and does not move the bucket's time back.

**Only model-checked:** liveness (`CreateIsAnswered`, `ContainersExpire`), since
fairness is out of the prover's reach; everything about `UpstreamCreate`,
`Responses`, `ResponseSessions`, `ConversationPages`, `Containers`;
`ContextNeverShrinks`; `ResetIsEnough`. What the recursively defined lineage walk
computes needs induction over data, which the installed provers cannot do.

## 5. Findings

1. **A create can wait for itself** (`upstream_hold`). `proxyCreateWithShadowStore`
   answers a rejected `tool_choice` by a second call
   (`internal/httpapi/handlers_responses.go:2038`) while the body of the first is
   open and keeps its place. When every place is held that way and
   `llama.max_queue_wait` is 0, the default, the creates wait until their clients
   leave.
2. **A deleted response can come back** (`responses_delete`). `Refresh`
   (`internal/service/responses.go:1125`) upserts what it read before, so a DELETE
   answered in between is undone.
3. **Cascades depend on the connection** (`sqlite_orphans`). `PRAGMA foreign_keys`
   is set on one pooled connection (`internal/storage/sqlite/db.go:80`). A DELETE
   that finds it busy runs on a new one, and leaves the replay artifacts.
4. **A create that timed out is sent again** (`upstream_timeout`). When the replayed
   history is rejected, `createLocalStateViaUpstream` tries the direct proxy, only
   logs its error, a timeout included (`internal/httpapi/handlers_responses.go:776-788`),
   and goes on to the stringified retry.
   `docs/engineering/runtime-hardening.md:111` and `:55` rule that out. The
   `prefer_upstream` fallback of a local generation (`:1748`) does the same;
   `TimeoutEndsMostCreates` says that nothing else does.
5. **The turn that compacts is forgotten** (`responses_compaction`). The summary is
   made of what precedes the turn and stands in front of its output; a continuation
   starts there, without the turn's input (`internal/service/responses.go:937` and
   `:1175`). `docs/v3-compaction.md:89` says that the effective context can be
   rebuilt. `TurnsAreCarriedOver` states exactly this exception.

## 6. Where code and documents disagree, without a run of its own

* A background response whose first answer has no output is never stored
  (`internal/httpapi/handlers_responses.go:2020` and `:2133`), although
  `TestResponsesCancelRefreshesShadowStoredBackgroundResponse` speaks of it as
  shadow stored; its cancel is simply forwarded.
* `store=false` continuations outlive their socket
  (`internal/httpapi/response_websocket.go:364`; `docs/v3-websocket.md:278-280`), so
  `RootShadowsAreCached` speaks of roots only.
* A turn that fails after its stream started does not evict its predecessor
  (`internal/httpapi/response_websocket.go:319`;
  `docs/engineering/openai-api-choreography-atlas.md:463-465`).
* SQLite pragmas: `busy_timeout` too is set on one connection only
  (`internal/storage/sqlite/db.go:82`; the repository's `README.md:100`).
* Containers (`internal/httpapi/local_code_interpreter_containers.go`;
  `docs/guides/code-interpreter.md:62`): a container that expires or is deleted
  while a call is about to use it gets a new sandbox that nothing destroys (line
  147); the upsert of an expiry overwrites a touch, or brings a deleted session
  back as expired (473); an upload to an expired container leaves its stored file
  behind (259); an upload attached by its id between counting and deleting loses
  its file (513); a file deleted through `/v1/files` leaves a container's row
  without it where foreign keys are off (`internal/httpapi/handlers_retrieval.go:233`).

## 7. What is not modelled, and the plan

Left out for good: prompts and text rewriting, ranking and embeddings, formats,
logging and metrics, authentication checks, configuration parsing, the Docker and
host sandboxes themselves, development tooling. They hold no state that the
properties read, or are pure functions of strings.

Assumed: identifiers are fresh, and neither the shim nor the upstream uses one
twice (`LineageIsAcyclic` rests on it); a SQLite transaction is atomic and isolated;
`float64` token arithmetic is exact; the process is the only writer of its
database.

Planned, in this order:

1. `StreamProxy`: events of a proxied stream, what is saved when it is cut, and
   replay artifacts, composed with `Responses` and `Admission`.
2. `CreateRouting` and the bounded local tool loop.
3. `ChatCompletions`: rebuilding a stored completion from chunks; paging, update,
   delete.
4. `VectorStores`: files, attachment, indexing, search activity and expiry,
   composed with the rest of maintenance (sweep, backup, restore with a crash).
5. Memory notes and concurrency gates; the Postgres store against the same
   properties as the SQLite one.
6. Proofs: `LineageIsAcyclic` (identifiers are minted in order),
   `CachedIsStored`, `NoDanglingUploads` and `ClientFilesSurvive`, and
   `NothingHeldWhenDone` for any number of requests.
