# A formal model of mlxz

mlxz serves language models over an OpenAI-compatible HTTP API.  This directory
holds TLA+ modules that model its core, TLC configurations that check them on
small instances, and TLAPS proofs that hold for every instance.  Paths below are
relative to `src/mlxz/` of the repository.

## 1. Inventory

| Component | State it keeps | Operations | Talks to | What makes it correct |
|---|---|---|---|---|
| Continuous batching engine, `engine/continuous.py` | `_running`, `_kv_used_bytes`, `_shutdown_requested`; per request its KV cache, last token, bytes charged | `run` = admit, prefill one, decode all, retire; `_cancel_all`; `snapshot`, `shutdown` from the event loop | takes requests from the bridge, puts tokens on channels, reads the cancellation registry | answers whole, ended once, within the limit, truthfully explained; slots and KV accounted for; nothing blocks for ever |
| Thread boundary, `engine/thread_boundary.py` | submission queue (256), a token channel per request (64), cancellation events | `submit_async`, `get_next_sync`, `register`, `cancel`, `is_cancelled`, `unregister` | event loop on one side, engine thread on the other | bounds respected, no orphan, a cancel is seen |
| API handlers, `api/openai.py` | the coroutine of each HTTP request | check admission, create, submit, collect or stream, finally cancel and unregister | admission, bridge, registry, telemetry | one answer or one error for each request |
| Request, `engine/request.py` | state, finish reason, counters | `transition`, `StopChecker.check` | written by handler, then by engine, read by handler | only legal transitions |
| Admission, `scheduler/admission.py` | none (pure) | `decide` | reads a snapshot | never over capacity, monotonic |
| Single-stream engine, `engine/single_stream.py` | `_running_requests`, `_kv_used_bytes`; one request at a time | `run`, `_process_request` | as the continuous engine | as the continuous engine |
| Speculative engine, `engine/speculative.py` | draft length, acceptance counts | draft, verify, accept or reject, adapt | as the continuous engine | limit, caches in step with the tokens delivered |
| Decode paths and KV caches, `engine/cache_utils.py`, `engine/decode_compiler.py` | cache layers, offsets | append, batch, scatter, trim, restore | engines, prefix cache | a cache holds each token once |
| Circuit breaker, `engine/circuit_breaker.py` | state, trip time, half-open count | `should_accept`, `record_success`, `record_thermal`, `record_memory_pressure` | none yet | reopens, closes, bounded probes |
| Paged KV, `paged_attention/` | free list, reference counts; block tables, offsets, the two pools | allocate, free, incref, copy-on-write; allocate, append, free, gather a sequence | nothing in the server yet | blocks conserved, counts exact, each sequence a value of its own |
| Prefix cache, `prefix_cache/` | entries, sizes, recency; files and sidecars | hash, lookup, store, evict | the prefill of every engine | what is restored is the prefix asked for, budgets, crash safety |
| Schedulers, `scheduler/priority.py`, `chunker.py` | queues, progress | enqueue, dequeue, remove, next chunk | none yet | order, size |
| Server lifecycle, `api/app.py`, `api/health.py`, `lifecycle/` | phase, engine thread, what is on `app.state` | start, drain, join, stop; probes | all | a signal ends it whatever the engine thread does |
| Telemetry, `telemetry/recorder.py` | bounded queue, writer thread | record, close | handlers, lifespan | never delays a handler, flushes on close |
| Observability, security, profiling, loading, CLI, sampling | - | input and output, stateless filters, numerics | - | not modelled, see section 7 |

### How they interact

Two threads matter.  The *event loop* runs every HTTP handler; a handler keeps
it until its next `await`.  The *engine thread* runs `engine.run`.  They share
the submission queue and the token channels (janus queues), the cancellation
registry, the fields `snapshot()` reads, and the `Request` objects.  Nothing is
guarded by a lock that spans two of these, so the interesting behaviours are the
interleavings of engine steps with the pieces of a handler, clients that leave
at any moment, full channels, and shutdown.  The list of hazards, each at its
line and with the properties aimed at it, is in `PROJECT.json`.

## 2. Modules

| Module | Models | Built on |
|---|---|---|
| `RequestStates` | `RequestState`, `Request._TRANSITIONS`, finish reasons | - |
| `Admission` | `AdmissionController.decide` | - |
| `ApiBoundary` | handlers, `RequestBridge`, `CancellationRegistry` | `RequestStates`, `Admission` |
| `ContinuousEngine` | the engine thread, composed with the boundary; properties | `ApiBoundary`, refines `RequestLifecycle` |
| `RequestLifecycle` | abstract specification: what an engine promises of a request | `RequestStates` |
| `ContinuousEngineInv` | the inductive invariant | `ContinuousEngine` |
| `SumLemmas` | TLAPS proofs about sums over finite sets | - |
| `ContinuousEngineProofs` | TLAPS proofs, that of the refinement included | `ContinuousEngineInv`, `SumLemmas` |
| `SequentialEngine` | what the two one-request engines share: `run`, the `finally` block, `shutdown()`; properties of both | `ApiBoundary` |
| `SingleStreamEngine` | the decode loops and KV counter of the single-stream engine | `SequentialEngine`, refines `RequestLifecycle` |
| `SingleStreamEngineInv` | the inductive invariant | `SingleStreamEngine` |
| `SingleStreamEngineProofs` | TLAPS proofs, that of the refinement included | `SingleStreamEngineInv` |
| `SpeculativeEngine` | draft, verification, acceptance, adaptive draft length, the sizes of both caches | `SequentialEngine`, refines `RequestLifecycle` |
| `SpeculativeEngineInv` | the inductive invariant | `SpeculativeEngine` |
| `SpeculativeEngineProofs` | TLAPS proofs, that of the refinement included | `SpeculativeEngineInv` |
| `AdmissionGate` | the gate alone under every change of load | `Admission` |
| `AdmissionGateProofs` | TLAPS proof of monotonicity | `AdmissionGate` |
| `BlockManager` | the pool of blocks: each call as an operator on the pool, and a specification with any caller | - |
| `PagedKV` | `PagedKVCache` over the pool, with forks that share and copy blocks | `BlockManager`, refines `SequenceStore` |
| `SequenceStore` | abstract specification: sequences and forks as independent values | - |
| `PagedKVProofs` | TLAPS proofs about pool and cache, that of the refinement included | `PagedKV` |
| `PrefixKeys` | the hasher and the keys of the tiers | - |
| `PrefixMemory` | `PrefixCacheMemory` as operators on its value | `PrefixKeys` |
| `PrefixDisk` | `PrefixCacheDisk`: files, sidecars, a store in steps | `PrefixKeys` |
| `PrefixCache` | the prefill with both tiers, crashes and restarts | `PrefixMemory`, `PrefixDisk` |
| `PrefixCacheProofs` | TLAPS proofs | `PrefixCache`, `SumLemmas` |
| `TelemetryRecorder` | the queue of rows and its writer thread | - |
| `Server` | the lifespan, the health state, the engine thread from outside, the end of each request | `TelemetryRecorder` |
| `ServerProofs` | TLAPS proofs | `Server` |
| `MC...` | instances for TLC | the module each is named after |

### State and code

| Variable | Code |
|---|---|
| `state`, `reason`, `count` | `Request.state`, `.finish_reason`, `.completion_token_count` |
| `handler` | where the coroutine of the request stands; `"admitting"` and `"cancelling"` are inside a stretch without `await` |
| `snap` | the part of an `AdmissionSnapshot` read so far |
| `submitQ`, `out`, `taken` | the submission queue; everything ever put on a channel and how much of it was read |
| `events` | `CancellationRegistry._events` |
| `pc`, `cur`, `todo`, `slots`, `round`, `burst`, `chunked` | where the engine thread stands, and its local variables |
| `running`, `kvUsed`, `charged`, `last`, `shutdown` | `_running`, `_kv_used_bytes`, `_ActiveRequest.kv_charged` and `.last_token_id`, `_shutdown_requested` |

An engine step ends where another thread can notice it: a get, a put, a look at
the registry, an update of what `snapshot()` reads.  In order of the code:
`LoopTop`, `PopRequest`, `InsertRequest`, `AdmitDone` (`run`, `_admit_requests`);
`PickPrefill`, `FirstToken`, `FirstCounted`, `NoPrefill` (`_process_prefills`); `NoDecode`,
`StartSolo`, `StartGroup` (choice of the decode path); `Solo*`, `Chunk*` (the
single-request loops); `Group*` (the batched pass); `Retire*`; `Cancel*`
(`_cancel_all`).  A delivery is two steps: the `put` (`FirstToken`, `SoloPut`,
`GroupPut`), after which the client can read the token, and what the code does
behind it (`FirstCounted`, `SoloCounted`, `GroupCounted`): the count, the last
token and, but for a chunk, which was charged before, the charge.  On the API's
side: `ReadKvUsed` and `ReadRunning` (`snapshot()` reads one field after the
other, with the engine thread free in between), `Reject`, `Accept`,
`OpenStream`, `Take`, `Cancel`, `Unregister`, and the faults `Disconnect`,
`DisconnectUnopened`, `Timeout`.

The other two engines process one request at a time: `LoopTop`, `PopRequest`,
`NothingQueued` (`run`); `Begin`; then the single-stream `Prefill`,
`FirstToken`, and per round `Cancelled`, `Stop`, `Generate`, `Deliver`,
`ChunkStop`, `RoundOver`, `LoopOver`; or the speculative `BuildCaches`,
`Prefill`, `FirstToken`, and per round `Cancelled`, `Stop`, `Propose`,
`AcceptDraft`, `ReplaceOrBonus`, `LoopOver`; `Fail` (the `except` clause);
`PutSentinel`, and `Finish` or `Die` (the `finally` block).  `inFlight` is
`_running_requests`, `charged` the local `kv_charged`, `step` the loop variable
of `range(max_tokens - 1)`, `draftLen` is `_current_draft_k`, and `drain` is
where the coroutine of `shutdown()` stands.

`RequestLifecycle` has a constant `Slack`, the tokens by which an engine may
overshoot a limit: 0 for the continuous and the single-stream engine, 1 for the
speculative one, whose bonus token is put without a look at the limit.  Both
sequential engines move a request to `DECODING` before its first token is put;
the refinement mapping shows it as `PREFILLING` until then.

`PagedKV`: `pool` is `_free_list` and the reference counts of `BlockManager`,
`table` and `offset` are `_block_tables` and `_offsets`, `cells` the key and
value pools.  `AllocateSequence`, `FreeSequence`, `AppendKV` are the methods of
those names, `AppendOutOfBlocks` the `append_kv` that `OutOfBlocksError` leaves
half way, and `Gathered` is `get_kv`.  `Share`, `Release` and `Rewrite` are what
the class comment of `BlockManager` says `incref`, `free` and `copy_on_write`
are for: a second user of the blocks of a sequence, which copies a shared block
before it writes.  The ghost `forgotten` counts references that no table names
any more because `allocate_sequence` was called again for a live sequence.

`PrefixCache`: `memory` is the value of a `PrefixCacheMemory` (entries, their
order of use, `_used_bytes`); `tensors`, `sidecar` and `age` are the files and
their modification times; `writer` is where `PrefixCacheDisk.store_sync` stands.
`Prefill` is the prefix part of `_process_prefills` (the other engines have the
same): `MemoryHit`, `DiskHit`, `DiskRaises` or `Miss`.  `done` is the last
prefill: what was asked, where it was found, and what the cache of the model
holds when it is over.  `Restart` and `RestartInRemoval` end the process.

`Server`: `main` is where the lifespan stands, `phase` and `alive` the
`HealthState`, `thread` the engine thread, `told` its shutdown flag; `rows`,
`writer` and `fate` belong to `TelemetryRecorder`.  `Load`, `StartEngine`,
`StartRecorder`, `MarkReady`; `Accept`, `Answer`, `Leave`, `TimesOut` for the handlers;
`Take`, `EndRequest`, `EngineStops`, `EngineDies`, `EngineSticks` for the engine
thread; `Signal`, `BeginDrain`, `DrainEnds`, `JoinEngine`, `EndRun`,
`CloseRecorder`, `JoinWriter` for the shutdown, in the order of the code.

### Abstractions

- Tokens are of three kinds, the ones the control flow tells apart: plain, end
  of sequence, and one whose text completes a stop sequence.  A model call may
  return any of them.
- The order in which a pass visits `_running` (a dict) is left open: more
  behaviours than the code has, none fewer.
- The cancellation flags of one pass over `_running` are read in one step, and
  the checks of a batch are taken with each request's turn: between them the
  code touches nothing another thread reads.
- Behind the `put` of a token the continuous engine counts it, keeps it, moves
  the request on and charges it in one step: no other thread reads two of these
  fields in between.  In the two sequential engines the `put` is part of that
  step: no property there compares what was delivered with what was charged.
- A streaming handler reads up to 16 items per chunk; here one per step.
- Bytes per token are an integer; `int()` of a float product in the code is
  exact for the bit widths `config.py` allows.
- The three single-request loops (compiled chunk, compiled step, prefetching)
  differ in what they do to the KV cache and share their control; the last two
  are one.
- Exceptions of the model, the sampler or the tokenizer are modelled in the two
  sequential engines, which catch them.  In the continuous engine they end the
  thread: `EngineDies` of `Server`.
- In the speculative engine every draft may be accepted or rejected, whatever
  its probabilities; a cache is the number of tokens it holds.
- The order of the free list of blocks is left open, and a list of blocks a
  caller passes names none of them twice, as all lists do that the code builds.
- A hash is the chunk it is taken of: SHA-256 and its truncation to 128 bits for
  a file name are taken to be free of collisions.  Two entries are never last
  used, or last modified, at the same instant.
- The state of a KV cache is the sequence of tokens it was fed, with the name of
  its type; a trim cuts it.  A file that a failing or dying write leaves behind
  has the content `Torn`, and its size is that of the whole.  The header of a
  safetensors file has the same size in all of them (`HeaderBytes`).
- The two deletions of an entry that failed to validate are one step, except
  when the second one fails or the process dies between them.
- No code calls `store_sync` of the disk tier; its caller is whoever holds the
  cache after a prefill, one call at a time.
- The engine thread in `Server` is what the lifespan can tell of it; its inside
  is `ContinuousEngine`.  Uvicorn is external: on a signal it takes no more
  requests and waits for the handlers before the lifespan goes on.
- janus queues, the asyncio event loop and the behaviour of a streaming response
  whose client leaves are external; they are modelled as the code uses them.

Operators with a comment that starts with *Slip* are mutants: the form a
definition would have with a plausible bug.  Nothing refers to them; each run's
properties are tested by putting them in the definition's place.

## 3. Runs

| Run | Instance | What it shows |
|---|---|---|
| `EngineSafety` | two requests (limits 4 and 2), channels of 2, shutdown at any point | clients get whole and true answers, transitions are legal, the inductive invariant holds, the engine refines `RequestLifecycle` |
| `EngineCapacity` | three requests (limits -1, 0, 2), two slots | slots, queue and KV counter keep their bounds |
| `EngineLiveness` | limits 2 and 1, channels of 3, shutdown at any point | until shutdown every request ends, every waiting client is served, KV memory comes back; after it every running request is ended; the engine never waits |
| `SingleStream` | two requests (limits 4, by chunks of 2, and 2), one slot, channels of 2, failures at any point | whole and true answers, a KV counter that balances on every way out, `RequestLifecycle` implemented, every request ended unless the thread is stuck behind a client that left |
| `Speculative` | limits 3 and 0, draft length 1 to 3, failures and shutdown at any point | whole answers, a target cache that lacks no token, `RequestLifecycle` with a slack of one, every request ended unless the thread is stuck or gone |
| `PagedKV` | three blocks of two cells, two sequences, a fork, appends of up to three tokens | blocks free or referenced, counts exact, `SequenceStore` implemented: an append that fails is invisible, copy-on-write isolates |
| `PrefixCache` | a chunk, two prompts that continue it and one apart; two cache types; budgets that hold neither a plain entry of four tokens nor two plain entries on disk | a prefill ends with exactly the prompt in a cache of the right type; a computed prompt is found again; the entry just used is evicted last; the memory tier keeps its budget and books, the files exceed theirs by one header at most unless an eviction failed, through torn writes, files that cannot be read or deleted, and crashes |
| `Server` | three requests, two of them streams, a queue of two rows, an engine that dies or blocks, a database that hangs | rows are flushed, telemetry delays no answer, a signal ends the server except when the handler of a stream waits for an engine that is gone (`Deserted`) or the stop marker for a full queue nobody reads (`Wedged`) |
| `AdmissionMonotonic` | sizes, levels and counts around every threshold | a heavier load never relaxes a rejection |

The following runs each state what a document or comment of the repository says
and end in a counterexample; `PROJECT.json` quotes the sentence.

| Run | The code does |
|---|---|
| `EngineBackpressure` | a full channel stops the engine thread, not one request |
| `EngineBudget` | two requests, each of which fits the budget to its last token, are admitted one after the other: what admission compared with the budget is reserved nowhere |
| `SpeculativeCache` | rejected drafts stay in the target cache |

Other places where code and documents part were met on the way; the actions
named show them in the model, without a run of their own:

- `cancel` directly followed by `unregister` is invisible to the engine thread
  unless it looks between the two, so an abandoned request is decoded to its end
  (`Cancel`, `Unregister`); the plan, line 831, says cancelled requests free
  their KV cache immediately.
- Requests still in the submission queue at shutdown get no sentinel
  (`CancelVisit`); the plan, line 757, promises every stream a final event.
- `shutdown()` of the single-stream engine may look between the get and the
  running count and report a clean drain (`PopRequest`, `DrainEnds`), and
  cancels nothing when its time is over (`DrainTimesOut`).
- A compiled chunk is charged whole, above the projected peak (`SoloGenerate`,
  `Generate`).  A stream whose generator is never started leaves its event
  registered (`DisconnectUnopened`).  A request between the queue and the
  running set is counted nowhere (`PopRequest`), so a full server can accept one
  more.
- The speculative engine never looks at stop sequences (`Stop`), and an
  exception before both caches are bound ends its thread (`Die`).
- `store_sync` of the memory tier returns when the key is there ("already
  cached", `memory.py:103`), although the entry may be of the other cache type
  and lookups of this type go on missing.  `RepeatHits` names that case.
- "Gracefully degrades on I/O errors -- returns miss, does not crash"
  (`disk.py:28`): the `except` clause of the lookup deletes files, which may
  fail too, and the exception leaves the lookup (`DiskRaises`).  A valid entry
  whose files cannot be read or touched is deleted like a corrupt one
  (`PassedOver`).  A quantized
  entry comes back from disk as one flat tuple (`disk.py:181-183`) that the
  state setter of the cache refuses (`Restorable`).  The exception and the refusal
  end the engine thread.
- The disk tier does not keep `disk_budget_bytes`: `_evict_until_room` adds the
  size of tensors to that of files with headers (`HasRoom`, `FileSize`), and the
  store goes on when a deletion fails (`EvictionOver`, `disk.py:200-201`).
  `DiskBounded` says by how much and when; `forced` records the second case.
- "The health endpoint never reports GREEN when the engine thread is dead"
  (plan, line 759): nothing lowers `engine_alive` when it dies (`EngineDies`).
- `close(timeout)` of the recorder abandons its thread "after this deadline"
  (`recorder.py:185`), but the put before it has none (`CloseRecorder`).

### Bounds and why they are enough

Two requests are enough for every pair of steps of two handlers and the engine,
and for a batch; three are used where a queue must form behind two slots.
`LimitMixed` gives the chunked request a limit of 4 with chunks of 2, so that it
gets a first token, a whole chunk and a cut one; `LimitEdge` uses the values
below one that the schema lets in, and one that makes its request decode.  `LoopBound` (32 in the code) is 2, so the
loop is left at its bound.  Channels are shallower than an answer in
`EngineSafety`, so that every put can block, and deep enough in the liveness
runs, where the condition under which the engine never waits is itself checked.
The KV budget of 20 (30) bytes admits all requests, except in `EngineBudget`: there
a token has 2 bytes, no request decodes by chunks, and the budget of 12 (with a
headroom of 1) holds either request to its last token, of 10 and 6 bytes, and not
both.
`SingleStream` has one slot, since `app.py` chooses that engine only then; a
second request still comes in as soon as the first is taken from the queue, or
after it was released.  `Speculative` starts with a draft length of 3 for a limit
of 3, so that rounds are cut by the limit and the length reaches both its bounds;
it also covers the shutdown that both sequential engines share.

`PagedKV` has three blocks, so that two sequences and a copy exhaust the pool in
the middle of an append; a sequence crosses a block boundary after two tokens; a
live sequence is allocated again once.  Blocks, sequences and tokens are
interchangeable and symmetric.  In `PrefixCache` chunks have two tokens, prompts
up to two chunks with a partial one among them, and each budget is smaller than
the states of two prompts, so that every store evicts; `BytesPer` makes a plain
token twice a quantized one.  A header is one byte: the entries of a plain
chunk (4 and 1) and of a quantized prompt of three tokens (3) fill the disk budget
of 8 by the count of the code, and exceed it with the header of the second.  In `Server` the queue of
two rows is full before the third request records, and before the stop marker; of
the three, one does not stream, and may be the one the shutdown waits for.

Deadlock is not checked where the thread may end, after a shutdown, or block on
the channel of a client that left (`EngineBackpressure`).

### Fairness

`FairSpec` assumes weak fairness of the engine's steps, a thread that runs
whenever its `put` does not block, and of each handler's own steps, which the
event loop runs in turn.  Weak fairness of a handler suffices because the two
places where a handler holds the loop are left by steps that nothing disables.
Clients that leave, time-outs and shutdown are never assumed to happen.

In `Server` the steps of the shutdown are fair because each follows the one
before in one coroutine or ends with a time limit, and none is enabled while the
put of the stop marker waits; the engine thread and the writer are fair as long
as they run.  A handler that collects its answer gives up when no token came for
the time limit of one: `TimesOut` may happen at any time, and is fair when the
engine thread does not run, since then no token can come.  The handler of a stream
has no such limit (`Deserted`).  An exception, a hanging database, a client that
leaves and the signal are not assumed.

## 4. Proofs

`ContinuousEngineProofs` proves, for every set of requests, prompt, limit, queue
and channel depth, number of slots, chunk size and loop bound that satisfy
`AdmissionAssumption`, `ApiAssumption` and `EngineAssumption`: type correctness,
`CapacityRespected`, `SubmitFits`, `SentinelIsLast`, `AnswerIsWhole`,
`ReasonIsTrue`, `WithinTokenLimit` (no answer longer than its limit, or one
token), `EngineNeverWaits`, `KvConserved`, `KvCoversTokens`, the action property
`TransitionsAreLegal`, and that the engine implements `RequestLifecycle`.

None of these is inductive.  `IInv` adds where a request can be while the thread
stands at each `pc`: it is in the queue, at hand, or running (`QueuedAreAdmitted`,
`CurIsHeld`, `CurState`); running requests are not finished before the retire
pass (`RunningStates`); a request has been given its sentinel exactly when it is
finished and no longer ahead of that pass (`Closed`), and its channel holds the
tokens counted and then that sentinel (`ChannelContents`); and a burst never
exceeds what the limit leaves (`CountBounds`).  The proof has one lemma for each
action and conjunct it can disturb; the argument for `AnswerIsWhole`, for
example, is that whoever has read a sentinel has read `Len(out)` items, because
`ChannelContents` puts it last.

`KvInv` adds the books of the KV memory.  That the counter is the sum of the
charges of `running` is not inductive: a request joins that set with a charge
and leaves it with one, so one has to know that both are 0
(`NothingOutstanding`: nothing is charged before the prefill, and whoever the
retire pass is done with has given everything back).  `KvCoversTokens`
speaks of what clients were sent, the books of what was counted: by
`ChannelContents` these differ in one token at most, the one whose `put` is over
(`Delivered`, `Uncounted`).  `ChargesKeepUp` says that a request with a cache is
charged for its prompt, the tokens counted, and what is left of a chunk, which
is charged before its tokens are delivered one by one (`Ahead`).  `SumLemmas` holds what
the proof needs of a sum over a finite set: it does not depend on the order, it
changes by what one element changes by, and elements that are 0 do not matter.
The induction theorems of the library cannot be instantiated here, so these
lemmas, and that the fold exists at all, are proved by a smallest counterexample
(`SmallestSet`), which well-foundedness of the naturals gives.

The same module proves from `IInv` that the engine, with its handlers, faults and
shutdown, implements `RequestLifecycle`.  The mapping shows a request as ended when its channel holds the sentinel; by
`ChannelContents` that is when `Closed` says so (`EndedIsClosed`), which turns
every step of a decode path into one abstract step or a stutter.

`SingleStreamEngineProofs` proves for the single-stream engine, for every set of
requests, limit, chunk size and depth, and with exceptions at every model call:
`TypeOK`, `ReasonIsTrue`, `KvIsSettled`, `AnswerIsWhole` and that it implements
`RequestLifecycle`.  Its `IInv` ties the local variables of the loop to what the
client sees: `CurState` fixes the state of the request at hand by the place of
the thread, and `RoundsAreCounted` says that a request has at least one token
more than the rounds that are over, exactly one more without chunks, and never
a burst beyond the limit.  Without it `ReasonIsTrue` is not inductive: the loop
ends because `range(max_tokens - 1)` is used up, and only the count of rounds
shows that this means the limit was reached.  For
`KvIsSettled` the invariant says when the thread has a request at hand
(`CurIsHeld`): every way out of one passes the step that takes its charge back.

`SpeculativeEngineProofs` proves for the speculative engine, for every set of
requests, limit, draft length within its bounds and depth: `TypeOK` (with it that
the adaptive draft length stays in its bounds), `ReasonIsTrue`, `AnswerIsWhole`,
`TargetCacheCovers` and that it implements `RequestLifecycle` with a slack of one.
The argument is that of the single-stream engine but for the rounds: in the
middle of one, `RoundsFit` says that the drafts still to be looked at fit the
limit, which leaves the token that follows them as the only one beyond it, and
that the target cache holds the prompt, what was delivered, and those drafts,
which is what remains true of it when the round breaks off at a rejection.  A
thread that dies in its finally block has put the sentinel before.

`PagedKVProofs` proves `FreeOrReferenced` for a pool of any finite size, first
under calls of anybody in any order (`PoolIsSound`), then, with
`ReferencesAreExact`, under the calls of the paged cache, for every block size,
set of sequences and forks, and length of an append that satisfies
`PoolAssumption` and `PagedAssumption`.  Neither follows from the counts alone:
`free` and `incref` stop at the first block without a reference, so one needs to
know that a table names only blocks with one.  `IInv` says that the pool is
sound, that tables name each block once and have room for their offset, and that
a count is the number of tables naming the block plus the forgotten references;
from it, no `free` of a table ever raises.  One lemma per operation says what it
does to the users of a block, with the cardinality of a set that gains or loses
one element.

It also proves that the cache implements `SequenceStore`: sequences
and forks are values of their own although they share blocks.  Exact counts do
not suffice, since `append_kv` writes into a last block that forks may share
without looking at its count.  `RInv` adds that users of one block have it at
the same place of their tables (`SamePlace`), and that what shares a block with
a sequence is a fork which ends no later (`ForksEndFirst`): an append writes
behind the offset, hence behind every fork.  The proof
makes a premise of the model visible: a fork overwrites and does not append.  Two
users that both append must not share a last block that is not full.

`TypeOK` of the paged cache follows from `RInv` and what the cells hold (`TInv`).
The case that takes an argument is the append that runs out of blocks: that what
it writes are tokens of the call, none beyond its end, follows from the blocks
that were missing (`NotEnough`).

`PrefixCacheProofs` proves the four properties of the `PrefixCache` run for every
block size, budget, set of prompts and kinds of cache that satisfies
`KeysAssumption`, `MemoryAssumption`, `DiskAssumption` and `PrefixAssumption`.
`PrefixInv` says that the order of use names each entry once and `used` is the sum
of their sizes (`Books`), that an entry holds what its key stands for
(`Faithful`), that the files fit as far as they do (`Sized`), and, for what crashes leave behind,
that a readable sidecar describes the state of its own key whatever lies next to
it (`Descriptive`) and a store under way carries the state of its key and meets no
file of that name (`Storing`).  `PrefillIsExact` needs all of these: tensors of one
store may meet the sidecar of another, and only because a sidecar is about its key
and the checksum about the tensors does `Valid` imply that the tensors are those
of the key.  A hit that writes the last token back into the entry it restored
writes the token that was there (`RestoredIsPrompt`).  `RepeatHits` rests on the
last turn of `store_sync` alone, which is about the first chunk; room is made
before, so no later turn can evict it.  For `HitSurvives` an invariant of the loop
is needed (`Behind`): either the entry last hit is there and no other old one was
used after it, or no old entry is left that is not a key of the prompt stored;
eviction by the order of use leads from the first to the second only.

The operators of the prefix cache are loops over data: removal from an order,
`FlattenSeq`, the turns of a store, the least number of entries that makes room.
They are recursive functions or choices, whose values the provers know nothing of;
a lemma for each shows that the function exists (`LeftExists`, `JoinedExists`,
`TurnsExists`) and hands out its equation (`RemovedBy`, `FlattenedBy`, `StoredBy`),
and `Upwards`, bounded induction in the form of a set of exceptions that is empty,
carries a fact from turn to turn.

`ServerProofs` proves `FlushIsComplete` for any number of requests and any bound
of the queue: a row that counts as queued is in the queue or in the hands of the
writer, nothing is behind the stop marker, and the marker is put only after the
last handler is done, which is why no handler can put a row behind it.

`AdmissionGateProofs` proves `Monotonic` for every budget, headroom, limit and
size, negative sizes included: the projection grows with the size, and what is
available shrinks with the load.

## 5. Model-checked only

The liveness properties, because fairness and `ENABLED` are out of the prover's
reach: `EveryRequestIsEnded`, `WaitingClientIsServed`, `KvIsReleased`,
`ShutdownEndsRunning`, `AnswersAreClosed` and `SignalEndsServer`.  Every invariant,
action property and refinement that a passing run checks has a theorem.

## 6. What could follow

1. The KV cache of a request as the sequence of tokens it holds, through the
   four decode paths and batching by offset.
2. `StopChecker`, and, once the server uses them, the circuit breaker, the
   priority and chunked-prefill schedulers, `ShutdownCoordinator` and
   `EngineSupervisor`.

## 7. Not modelled

Model calls, sampling and tensors (numerical), and with them what a KV cache
holds while a request decodes; the text side of stop sequences (`StopChecker`):
a token may complete one or not.  Code the server does not use: the circuit
breaker, the schedulers besides admission, `ShutdownCoordinator` and
`EngineSupervisor`.  HTTP formatting, logging, metrics and the database schema
(no control depends on them); security middleware and the file-format validator
(stateless); hardware probes, model loading and the command line.
