# TLA+ models of proxy-sdk

These modules model `proxy-sdk` (`src/src`), the Rust SDK for proxy-wasm plugins, and check it with TLC:
- the event dispatcher (`dispatcher.rs`);
- the parts of the SDK that keep state or encode data for the host.

Each action is translated from the Rust source. `PROJECT.json` maps every definition to the lines it models, lists the runs, a mutant for every checked property, the findings and the hazards.

## 1. The system

A proxy-wasm host (Envoy) drives a plugin through numbered entry points (`proxy_on_*`, dispatcher.rs:956-1121). Each entry point calls `dispatch()`, which hands a closure the thread-local `Dispatcher`. First it wipes the dispatcher if its cached generation differs from the global `DISPATCHER_GEN`.

Plugin code runs inside an event handler or a stored callback. From there it reaches the host through wrappers in `hostcalls.rs`:
- outbound calls: HTTP calls, gRPC calls, gRPC streams, queue subscriptions. Each one registers a callback in the dispatcher, tagged with the current active context pair;
- header maps and bodies of the HTTP stream (`http.rs`), the data of an L4 stream (`stream.rs`), and the headers and bodies of call and stream responses (`http_call.rs`, `grpc_call.rs`, `grpc_stream.rs`);
- metrics (`metrics.rs`);
- shared data (`shared_data.rs`);
- Envoy attributes (`property/`).

The host later delivers a completion for the call's token. The dispatcher then:
1. removes (or looks up) the entry;
2. checks the origin root;
3. enters the origin context with `EffectiveContext`;
4. runs the callback;
5. restores the pair.

| Component | State | Operations | Module |
|---|---|---|---|
| Context tree | `roots`, `streams`, `http_streams` | `on_create_context`, `on_done`, `on_delete`, `on_tick`, … | `Dispatcher` |
| Pending call registry | `http_callbacks`, `grpc_callbacks`, `grpc_streams` | `register_*`, `on_http_call_response`, `on_grpc_receive`, `on_grpc_close` | `Dispatcher`, `PendingCallbacks` |
| Queue callbacks | `queue_callbacks` | `Queue::on_enqueue`, `on_queue_ready` | `Dispatcher` |
| Active pair | `active_id`, `active_root_id` | `EffectiveContext::enter`/`drop` | `Dispatcher` |
| Generation reset | `DISPATCHER_GEN`, `ROOT_INIT`, `generation` | `reset()`, `dispatch()`, `set_root_context_factory` | `Dispatcher`, `DispatcherThreads` |
| Metrics cache | thread-local `METRICS` keyed by `root_id()` | `Counter/Gauge/Histogram::define`, record, increment | `Metrics` |
| Body ranges | — | `calculate_range` and its three inlined copies | `BodyRange` |
| Header maps | — | `serialize_map`, `deserialize_map_bytes` | `HeaderMap` |
| Header and buffer views | the host's header map and buffer of the running callback | `HttpHeaderControl`, `HttpBodyControl`, `StreamDataControl`, `HttpCallResponse`, `GrpcCallResponse`, `GrpcStreamMessage` | `HttpData` |
| Shared data | the host's key/value/cas store | `get_with_cas`, `set`, `set_with_cas` | `SharedData` |
| Attributes | the host's attributes | every accessor of `property/envoy.rs`, `AllAttributes::get`, `get_property*`, `set_property` | `Attributes` |

## 2. Modules

### `Dispatcher.tla` (+ `MC_Dispatcher.tla`)

This module models one thread's dispatcher and a host that follows the proxy-wasm contract.

**State**
- `d` is the `Dispatcher` struct. Callback entries carry two ghost fields:
  - `call`, the host call they belong to;
  - `caller`, the context whose code registered them.
- `gen` is `DISPATCHER_GEN`. `D` is `d` after `dispatch()`'s generation check.
- `frame` is the running handler or callback:
  - its kind and context;
  - the `RefCell`s it holds borrowed;
  - `EffectiveContext`'s snapshot.
- `crashed` records a trap.
- The host: `hostCtx`, `hostCalls`, `used`.

**Actions**
- One action per entry point. `Return` ends the plugin code.
- Plugin calls (`HttpCallDispatch`, `GrpcCallDispatch`, `GrpcStreamOpen`, `GrpcCallCancel`, `GrpcStreamCancel`, `QueueOnEnqueue`) run inside a frame. Inserting into a map the frame holds borrowed traps.
- The completions `OnHttpCallResponse`, `OnGrpcReceive` and `OnGrpcClose` follow the code's order exactly.
- `Reinit` is `_start` on a reused thread.
- `NewInstance` replaces a trapped VM.

**Refinement**
- `PendingCallbacks.tla` is the abstract promise of the registry for unary calls:
  - a registered call is pending;
  - it leaves by firing once, by being discarded, or when the whole VM state is wiped;
  - one callback runs at a time.
- `Dispatcher` instantiates it with `INSTANCE PendingCallbacks WITH pending <- AbsPending, running <- AbsRunning`:
  - `AbsPending` is the calls of the current, untrapped dispatcher's `http_callbacks` and `grpc_callbacks`;
  - `AbsRunning` is the call of the running `http_cb`/`grpc_cb` frame.
- `PendingCallbacksRefined` is `Abstract!Spec`, checked as a `PROPERTY`.

### `DispatcherThreads.tla` (+ `MC_DispatcherThreads.tla`)

This module models several native threads, each with its own thread-local dispatcher but sharing `DISPATCHER_GEN` and `ROOT_INIT`.
- `Reset(t)` is `lib::reset()`, the start of `_start`. `SetRootContextFactory(t)` is the rest of it.
- `OnCreateRoot`, `OnTick` and `OnHttpCallResponse` go through `Dispatch(t, …)`.
- The ghosts `starts` (VM starts per thread) and `lost` (events of a live host context that were dropped) state the properties.

### `Metrics.tla` (+ `MC_Metrics.tla`)

This module models the `METRICS` cache keyed by `<<root_id(), kind, name>>`.
- `UseCounter(n)`, `UseGauge(n)` and `UseHistogram(n)` are `ConstCounter::get()` (and its kin) followed by `get`, `record` or `increment`. Each is a define (a cache hit, or `define_metric`, with 0 cached on failure), then a host call on the handle (`RecordMetric`).
- `EnterRoot(r)` is a dispatched event that sets `active_root_id`.
- `Reset` is a new VM on the thread. The host's id table starts over, and `METRICS` does not.
- The ghosts: `misses`, the updates that hit another metric than the one meant; `stuck`, whether a define ever returned a cached 0.

### `BodyRange.tla`

`calculate_range` (lib.rs:108-123) turns a `RangeBounds<usize>` into `(start, size)`. The model:
- uses a `Width`-bit `usize`;
- represents a `Bound` as a tagged record;
- returns from `CalculateRange` the outcomes the build can produce: with `OverflowChecks`, `*x + 1` at `usize::MAX` panics, otherwise it wraps.

`Wanted` is the reference: the buffer indices the Rust range contains. `HttpData` instantiates this module for the body views.

### `HeaderMap.tla`

This module covers the proxy-wasm header-map encoding (hostcalls.rs:945-985).
- `SerializeMap` and `DeserializeMapBytes` translate the code. The decoding loop is the `RECURSIVE DecodePairs`.
- `HostEncode` and `HostDecode` are the host's side, written independently as reference definitions.

### `HttpData.tla` (+ `MC_HttpData.tla`)

This module models the views plugin code gets inside a callback, over an Envoy-like host:
- the header and body views of an HTTP filter (`HttpHeaderControl`, `HttpBodyControl`, http.rs:51-146);
- the data view of an L4 filter (`StreamDataControl`, stream.rs:37-80);
- the response views of an HTTP call, a gRPC call and a gRPC stream message (`HttpCallResponse`, `GrpcCallResponse`, `GrpcStreamMessage`).

The host is Envoy's implementation of the ABI:
- `get` returns the first value, and an empty value as a null pointer;
- `replace` removes every pair of the name and appends one;
- a map type the running callback has no map for is an error;
- `get_buffer_bytes` clamps to the end and returns null for an empty slice;
- `set_buffer_bytes` drains `size` bytes and prepends when start is 0, appends when start is at or past the end, and rejects anything else.

**State**
- `view`: the kind of the running callback.
- `hmap`, `body`: the host's header block and buffer of that callback.
- `bsize`: the size snapshot (`body_size`, `data_size`) taken at callback entry.
- The ghosts `changed` (a `set()` succeeded in this callback) and `last` (what the latest accessor asked for and got).

**Actions**
- One per accessor: the header methods, `BodyGet`/`BodySet`, `StreamDataGet`/`StreamDataSet`, `HttpCallHeaders`, `GrpcCallHeaders`, `HttpCallBody`, `GrpcCallBody`, `GrpcStreamBody`. Each is guarded by the view it belongs to.
- `all()`, `replace()` and `clear()` are `get`/`set` with the full range, so they are covered by the range inputs.
- The response views inline `calculate_range` (`InlinedRange`), which is identical to it.
- `OnHttpHeaders`, `OnHttpBody`, `OnStreamData`, `OnHttpCallResponse`, `OnGrpcReceive` and `OnGrpcStreamMessage` start a callback with a new block.
- `log_concern` is `LogConcern`: an error becomes the type's default.

### `SharedData.tla` (+ `MC_SharedData.tla`)

This module models several VMs, each running the increment loop over one key:

```
loop {
    let (v, cas) = get_with_cas();
    match cas { Some(c) => if set_with_cas(v+1, c) { break }, None => { set(v+1); break } }
}
```

The host is Envoy's store:
- cas 0 means the key was never set;
- a set with cas 0 is unconditional;
- a mismatched cas fails;
- a successful set gives the key a fresh cas.

`pc` is each VM's place in the loop. Every hostcall is one atomic action. The ghost `creators` holds the VMs that wrote the key's first value with `set()`.

### `Attributes.tla` (+ `MC_Attributes.tla`)

Every accessor of `property/envoy.rs` is a row `<<field, name, getter, conversion>>`, one table per section. A name is a token sequence in which `"."` is the dot.

The modelled chain of a read:
1. `SplitOn` (`split('.')`);
2. `SerializePropertyPath` (parts joined with NUL, the last NUL popped);
3. the host's own split on NUL;
4. `GetPropertyCall`: NotFound and an empty value become `None`;
5. `Getter`: a length of 8 for `get_property_int`, a length of 1 for `_bool`;
6. `Convert`: `as u16/u32/u64/usize` as truncation to the low bytes, `ListenerDirection::from_i64`, `SocketAddr` parse, and the negative-time check.

Ints stay at their width: they are 8 little-endian bytes, and a cast keeps the low bytes.

`AllRequest` … `AllWasm` and `AllAttributesGet` are the wiring of `all.rs`. `DebugAttributes` is the `Debug` impl that uses it.

The reference is `DocPath`: the Envoy attribute each accessor's name and doc comment stand for, in Envoy's vocabulary. `Want` is its value as the Rust type, `Unpromised` when the type cannot hold it.

The host changes attributes between callbacks (`HostChanges`, `HostDrops`). The plugin sets and reads its own properties (`SetProperty`, `GetCustom`).

## 3. Runs

| Run | cfg | Expect | Shows |
|---|---|---|---|
| dispatcher_safety | `Dispatcher.cfg` | pass | The registry mirrors the host (`RegistryMatchesHost`). Completions reach their own call (`DeliveredToOwnCall`) under the registering context (`RegistrationAttributedToCaller`).  The dispatcher refines `PendingCallbacks` (`PendingCallbacksRefined`). 912k states. |
| dispatcher_liveness | `DispatcherLive.cfg` | pass | `UnaryEntryReleased`: a unary entry is eventually removed unless cancelled. |
| reentrant_registration_panics | `DispatcherPanic.cfg` | violation | A gRPC callback issuing a gRPC call traps on a held `RefCell`. |
| queue_and_create_attribution | `DispatcherAttribution.cfg` | violation | Calls from `create_context` and queue callbacks get a stale origin. |
| threads_no_stale_roots | `DispatcherThreads.cfg` | pass | `NoStaleRoots`: over two threads, `dispatch()` never hands out a root of an earlier VM of the same thread. |
| threads_foreign_reset_drops_roots | `DispatcherForeignReset.cfg` | violation | One thread's `_start` wipes another thread's live roots, and its ticks and responses are dropped. |
| threads_missing_factory_panic | `DispatcherFactoryPanic.cfg` | violation | A root created between another thread's `reset()` and `set_root_context_factory()` panics. |
| metrics_handles | `Metrics.cfg` | pass | `OwnMetricUntilReset`: with two names per kind, every update through a `define`d handle reaches its own metric until the first `lib::reset()`; `metrics_stale_after_reset` shows it stops holding after one. 1.6M states with symmetry over the names. |
| metrics_stale_after_reset | `MetricsReset.cfg` | violation | After `lib::reset()` a cached handle names another metric of the new VM. |
| http_headers_and_body | `HttpData.cfg` | pass | `all()` decodes exactly the host's pairs (`AllMatchesHost`). `set_all()` stores exactly the given pairs (`SetAllStores`). A `get()` of any view before any `set()` returns exactly its range (`GetReturnsRange`). An accepted `set()` of a body or of L4 data replaces exactly its range (`SetReplacesRange`). `AllMatchesHost` leaves out the gRPC call view; see the findings. |
| shared_data_cas | `SharedData.cfg` | pass | With four VMs, increments are lost only when two VMs both created the key with `set()` (`LostOnlyByCreation`), and every loop ends (`AllIncrementsFinish`). |
| attributes | `Attributes.cfg` | pass | Every accessor returns its own attribute's value whenever its type can hold it (`AccessorReturnsAttribute`). The `Debug` dump (`AllAttributes::get`) is modelled, but has no property of its own: each field is the accessor unchanged. `request.method` is excluded; see the findings. |

**Further configurations**

These reproduce the findings and hazards below. They are not part of the run list.

| cfg | Result | What it shows |
|---|---|---|
| `DispatcherTokenReuse.cfg` | `DeliveredToOwnCall` violated | A cancelled call's leaked entry catches a reused token's completion. |
| `DispatcherCancelLeak.cfg` | `CancelledEntryReleased` violated | A cancelled call whose completion the host suppresses leaks its entry. |
| `MetricsStickyFailure.cfg` | `NoStickyFailure` violated | A failed `define_metric` is cached as handle 0 for good. |
| `BodyRange.cfg` | passes (2,312 states) | `RequestWithinBounds`: over every input of a 3-bit `usize`, the request never passes the buffer or the range end. |
| `BodyRangeExcluded.cfg` | `RequestIsRange` violated | `Excluded(x)` becomes `x - 1`. |
| `BodyRangeOverflow.cfg` | `RequestIsRange` violated | `..=usize::MAX` wraps to an empty request. |
| `HttpBodyStaleSize.cfg` | `GetReturnsRangeAfterSet` violated | After `set(.., [1])` on an empty body, `get(..)` returns `None` (the stale `body_size`). |
| `HttpGrpcHeaders.cfg` | `AllMatchesHost` violated | `GrpcCallResponse::headers()` returns `[]` where the host holds metadata. |
| `HttpSetRefused.cfg` | `SetTakesEffect` violated | `set(1.., v)` on a two-byte body is refused by the host and silently dropped. |
| `HttpEmptyHeader.cfg` | `GetReturnsHeader` violated | `get(name)` of a header whose value is empty returns `None`. |
| `SharedDataCreateRace.cfg` | `NoLostIncrement` violated | Two VMs both read `None` and both `set()`, so an increment is lost. |
| `SharedDataPreset.cfg` | passes (98 states) | `NoLostIncrement` holds once the key exists before the VMs start. |
| `AttributesMethod.cfg` | `AccessorReturnsAttribute` violated | `method()` returns the `request.scheme` value. |
| `AttributesWrap.cfg` | `NoWrappedValue` violated | A `request.size` of 2^32 + 1 is reported as 1 on wasm32. |

### Bounds

**Dispatcher**
- Two ids, two tokens and `MaxCalls = 2`:
  - two contexts are the minimum at which a stale pair names another context;
  - a call can be outstanding while its callback issues a retry, or a cancelled call's token can be reused.
- `MaxGen = 2` allows one re-initialisation.
- The liveness run uses `MaxCalls = 1` and `MaxGen = 1`. Its property is about a single call.
- Symmetry over ids and tokens is used only where no liveness is checked. The refinement property is a safety property.

**DispatcherThreads:** two threads, two ids, two tokens and `MaxGen = 4`. That allows a restart on each thread and a restart while another thread is inside `_start`.

**Metrics:** one root (and the 0 that `root_id()` reads before any event), two names, three kinds, one host id per kind, and two VMs on the thread. With one id per kind, the second name's define fails in each VM, and after a restart an id goes to another name: these are the cases where a handle can be confused. The names are symmetric. The ghost records only updates that hit the wrong metric, and whether a cached 0 was ever returned, to keep the state space at 1.6M.

**HttpData**
- Headers:
  - two names and two values, one of them the NUL byte and one empty: the decoder's skip and a zero length both occur;
  - up to two pairs.
- Bodies:
  - up to three bytes, so a range can start and end strictly inside the buffer;
  - every range of a 3-bit `usize` that starts and ends within the body size;
  - written values of zero or one byte, so `clear()` and a one-byte `replace()` both occur.
- Six views. Each callback starts from a new block, so a view's accessors are checked over every block up to the bounds.
- 5,257 states.

**SharedData:** four VMs, so three can interleave between another VM's read and write. That gives 1,011 states. Three VMs are used for the race reproduction.

**Attributes**
- Five int values:
  - 80;
  - 2;
  - 2^16 + 80, past u16;
  - 2^32 + 1, past u32 and a 32-bit usize;
  - -1.
- Two strings, one of them a socket address.
- A good and a negative message.
- `MaxPresent = 1`:
  - one attribute holds a value at a time, which is enough because every accessor is compared with its own attribute;
  - a read of the wrong path, or a miswired field, sees a value where `None` is due;
  - 13,394 states, each with every accessor read.
- Two custom names:
  - `my.key`;
  - `my..key`, which has an empty part.

### Fairness

**Dispatcher**
- `Return` is weakly fair. Handlers are synchronous, so plugin code always returns.
- `HostAnswersUnary(t)` is strongly fair. Unary HTTP and gRPC calls carry a timeout that the host enforces, so the host answers every one.
- Strong fairness is needed because a delivery is disabled while plugin code runs.

**SharedData**
- Each VM's steps are weakly fair: a worker thread runs its handler to the end.
- Nothing is assumed about the order of the VMs.

**Everything else:** no fairness. Only safety is checked.

### Mutants

Every property of a passing run has a mutant: a faulty variant of a mapped definition, defined just before it in the same module and commented with the bug it stands for. With the variant in place, TLC finds the property violated.

| Run | Property | Definition | Mutated as |
|---|---|---|---|
| dispatcher_safety | `TypeOK` | `CreateSubcontext` | `CreateSubcontextLosesParent` |
| dispatcher_safety | `RegistryMatchesHost` | `OnHttpCallResponse` | `OnHttpCallResponseKeepsEntry` |
| dispatcher_safety | `DeliveredToOwnCall` | `Reinit` | `ReinitKeepsGeneration` |
| dispatcher_safety | `RegistrationAttributedToCaller` | `EnterAs` | `EnterAsKeepsRoot` |
| dispatcher_liveness | `UnaryEntryReleased` | `OnGrpcClose` | `OnGrpcCloseRemovesOnStatus` |
| threads_no_stale_roots | `TypeOK` | `OnTick` | `OnTickBeforeActive` |
| threads_no_stale_roots | `NoStaleRoots` | `Dispatch` | `DispatchKeepsStale` |
| metrics_handles | `TypeOK` | `DefineIn` | `DefineInRootless` |
| metrics_handles | `OwnMetricUntilReset` | `DefineGauge` | `DefineGaugeInCounters` |
| http_headers_and_body | `TypeOK` | `HeadersSet` | `HeadersSetAppends` |
| http_headers_and_body | `AllMatchesHost` | `DecodePairs` | `DecodePairsNoSkip` |
| http_headers_and_body | `SetAllStores` | `SerializeMap` | `SerializeMapNoNul` |
| http_headers_and_body | `GetReturnsRange` | `BodyGet` | `BodyGetShort` |
| shared_data_cas | `TypeOK` | `SetWithCas` | `SetWithCasFalseOnOk` |
| shared_data_cas | `LostOnlyByCreation` | `SetWithCas` | `SetWithCasUnconditional` |
| shared_data_cas | `AllIncrementsFinish` | `GetWithCas` | `GetWithCasCached` |
| attributes | `TypeOK` | `Convert` | `ConvertWideU16` |
| attributes | `AccessorReturnsAttribute` | `SerializePropertyPath` | `SerializePathNoPop` |
| http_headers_and_body | `SetReplacesRange` | `SetBuffer` | `SetBufferNoDrain` |
| dispatcher_safety | `PendingCallbacksRefined` | `OnHttpCallResponse` | `OnHttpCallResponseKeepsEntry` |

## 4. Findings

1. **Re-entrant registration traps** (dispatcher.rs:823, 843, 921, 548). A callback that retries or reconnects panics with "already borrowed".
2. **Stale attribution** (dispatcher.rs:549, 395). `on_queue_ready` and `do_create_subcontext` run plugin code under the previous event's active pair.
3. **Cross-thread reset** (dispatcher.rs:41, 160). In native mode, one thread's `_start` wipes the other threads' live roots. A root created in the window between `reset()` and `set_root_context_factory()` panics.
4. **Metrics across a restart** (metrics.rs:45). `METRICS` survives `lib::reset()`, so a stale handle names another metric.
5. **Token reuse after cancel** (dispatcher.rs:823) and **cancel leak** (grpc_call.rs:86). Entries of cancelled calls stay and can catch a reused token's completion.
6. **`RequestAttributes::method()` reads `"request.scheme"`** (property/envoy.rs:87-88). A plugin asking for the HTTP method gets the scheme. `AttributesMethod.cfg` shows it. The passing run therefore leaves this accessor out.
7. **Excluded start bound** (lib.rs:111, copied in http_call.rs, grpc_call.rs and grpc_stream.rs). `Excluded(x)` becomes `x - 1`. The passing `HttpData` run uses Included and Unbounded starts only.
8. **End overflow** (lib.rs:115). An included end of `usize::MAX` panics or wraps.
9. **Stale body size** (http.rs:116). After a `set()`, `get()` computes the range against the size from callback entry.
10. **Shared data creation race** (shared_data.rs:24). `set_with_cas` cannot express "create if absent", so concurrent first writers lose increments.
11. **Silent integer truncation** (property/envoy.rs:149 and the other casts). A size above 4 GiB on wasm32 wraps.
12. **Empty values look absent** (hostcalls.rs:430, and hostcalls.rs:371 for headers). The host returns a null pointer for an empty attribute or header value, and the SDK maps it to `None`. `HttpEmptyHeader.cfg` shows it for `HttpHeaderControl::get`.
13. **gRPC response headers are never read** (grpc_call.rs:251, 293). `GrpcCallResponse::headers()`, `header()`, `trailers()` and `trailer()` ask for the `HttpCallResponse*` map types, which do not exist in a gRPC receive callback. They always return empty or `None`. `HttpGrpcHeaders.cfg` shows it. The passing run leaves this view out of `AllMatchesHost`.
14. **Inner-range `set()` is silently dropped** (http.rs:128, stream.rs:67). Envoy's `set_buffer_bytes` only replaces a prefix or appends. A range that starts inside the buffer gets `BadArgument`, and `log_concern` hides it. `HttpSetRefused.cfg` shows it.

Findings 7, 8, 12, 13 and 14 are reproduced by the further configurations only: every run slot of the project is in use.

## 5. Not modelled

- **stream-metadata feature** (dispatcher.rs: metadata slots and handlers). It does not compile as written:
  - `d.d.active_id`;
  - `self.grpc_streams` used without a borrow;
  - `DISPATCHER.with_borrow_mut` bypassing `dispatch()`;
  - `usize` passed where `u32` is expected.

  `GrpcStream::open` calls `register_grpc_stream_close` (dispatcher.rs:301), which is not behind the feature. The model includes it and leaves out only the metadata slots.
- **DowncastBox**: its contract is memory safety, with no state transitions.
- **Native `ThreadContext`** (native.rs): it only forwards to the host.
- **Forwarding-only views:** `time`, `rng`, `env`, `logger`, `upstream`, `status`, `context`, and the `envoy.rs` `Upstream` builders (protobuf encoding). Each is one host call or one encoding with no state of its own.
- **Trailers and single-header accessors of the response views:** the same hostcalls as `headers()` with another map type.
- **Shared queue contents.** The queue lives in the host. The plugin side (registration, `on_queue_ready`, the borrow it holds) is in `Dispatcher`. The `on_receive` dequeue loop is one run of plugin code there: its dequeues change no dispatcher state.
- **Data:**
  - the payloads of queue messages and call responses;
  - protobuf contents (header maps inside attributes, Metadata, Node), abstracted to message tokens that always decode.
