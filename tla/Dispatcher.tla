----------------------------- MODULE Dispatcher -----------------------------
(***************************************************************************)
(* The context/callback dispatcher of proxy-sdk (src/src/dispatcher.rs),   *)
(* driven by a host that follows the proxy-wasm contract.                  *)
(*                                                                         *)
(* `d` is the thread-local Dispatcher struct: the three context maps, the  *)
(* four callback maps, the active id pair and the cached generation.       *)
(* Every entry point goes through dispatch(), which first wipes `d` when   *)
(* its generation differs from the global DISPATCHER_GEN (`gen`); D below  *)
(* is the struct as dispatch() hands it to the handler.                    *)
(*                                                                         *)
(* Plugin code runs inside a `frame`: a host event handler or a stored     *)
(* callback has been entered and has not yet returned.  While it runs the  *)
(* plugin may issue outbound calls, which register callbacks in `d`.       *)
(* Handlers that keep a RefCell of `d` mutably borrowed while plugin code  *)
(* runs record it in frame.held; registering into a held map panics.       *)
(*                                                                         *)
(* Callback entries carry two ghost fields that the code does not have:    *)
(* `call`, the host call the callback was registered for, and `caller`,    *)
(* the context whose plugin code registered it.                            *)
(***************************************************************************)
EXTENDS Integers, FiniteSets, Functions, TLC

CONSTANTS
    Ids,            \* context ids the host hands out (0 is never one)
    Tokens,         \* call tokens the host hands out
    Queues,         \* shared queue ids
    MaxCalls,       \* bound on outbound calls in one behaviour
    MaxGen,         \* bound on in-place re-initialisations (reset())
    PluginCallsIn,  \* frame kinds whose plugin code issues outbound calls
    TokenReuse      \* may the host reissue a token it has forgotten

None == 0           \* the id 0: no context, no callback, no parent

ASSUME None \notin Ids /\ None \notin Tokens
ASSUME MaxCalls \in Nat /\ MaxGen \in Nat /\ TokenReuse \in BOOLEAN

VARIABLES
    d,          \* thread-local Dispatcher (dispatcher.rs:123-135)
    gen,        \* global DISPATCHER_GEN (dispatcher.rs:38)
    frame,      \* the handler or callback whose plugin code is running
    crashed,    \* the VM trapped on a panic
    hostCtx,    \* host: live contexts, id -> parent (None for a root)
    hostCalls,  \* host: outstanding calls, token -> [kind, call, cb]
    used,       \* host: tokens handed out by this VM instance
    calls,      \* ghost: number of outbound calls issued so far
    cancelled   \* ghost: calls the plugin cancelled

vars == <<d, gen, frame, crashed, hostCtx, hostCalls, used, calls, cancelled>>

CallIds == 1..MaxCalls
FrameKinds == {"root", "child", "create", "queue",
               "http_cb", "grpc_cb", "stream_msg", "stream_close"}
Completions == {"http_cb", "grpc_cb", "stream_msg", "stream_close"}
Cells == {"http_callbacks", "grpc_callbacks", "grpc_streams", "queue_callbacks"}

EmptyFn == [x \in {} |-> None]
Drop(f, k) == Restrict(f, DOMAIN f \ {k})

(* Dispatcher::default(), with the generation dispatch() stores in it.     *)
Fresh(g) == [roots |-> {}, streams |-> EmptyFn, http_streams |-> EmptyFn,
             http_callbacks |-> EmptyFn, grpc_callbacks |-> EmptyFn,
             grpc_streams |-> EmptyFn, queue_callbacks |-> {},
             active_id |-> None, active_root_id |-> None, generation |-> g]

(* dispatch(): the struct after the generation check, reset on mismatch.   *)
D == IF d.generation = gen THEN d ELSE Fresh(gen)

(* prior is EffectiveContext's snapshot; call is the host call of the     *)
(* callback that runs and hcall the host call whose completion the host    *)
(* delivered.                                                              *)
NoFrame == [kind |-> "none", ctx |-> None, root |-> None, held |-> {},
            prior |-> <<>>, call |-> None, hcall |-> None]

Idle == frame = NoFrame /\ ~crashed
HostRoots == {i \in DOMAIN hostCtx : hostCtx[i] = None}
HostChildren == DOMAIN hostCtx \ HostRoots

(* The maps a handler keeps mutably borrowed while the plugin code runs:   *)
(* the `if let` scrutinee of on_queue_ready, on_grpc_receive and          *)
(* on_grpc_close lives until the end of the branch that calls the plugin.  *)
Held(kind) ==
    CASE kind = "queue" -> {"queue_callbacks"}
      [] kind = "grpc_cb" -> {"grpc_callbacks"}
      [] kind \in {"stream_msg", "stream_close"} -> {"grpc_streams"}
      [] OTHER -> {}

(* Plugin code of a handler starts running for context `ctx` of `root`.    *)
Run(kind, ctx, root) ==
    frame' = [NoFrame EXCEPT !.kind = kind, !.ctx = ctx, !.root = root,
                             !.held = Held(kind)]

(* Faulty variant: the handler sets the active id, not the root id.      *)
EnterAsKeepsRoot(kind, ctx, root) ==
    /\ d' = [D EXCEPT !.active_id = ctx]
    /\ Run(kind, ctx, root)

(* A handler sets the active pair and runs the plugin's code for it.       *)
EnterAs(kind, ctx, root) ==
    /\ d' = [D EXCEPT !.active_id = ctx, !.active_root_id = root]
    /\ Run(kind, ctx, root)

HostEvent == Idle /\ UNCHANGED <<gen, crashed, hostCalls, used, calls, cancelled>>

(***************************************************************************)
(* Context tree                                                            *)
(***************************************************************************)

(* on_create_context with parent 0: Dispatcher::root creates the root via  *)
(* the registered factory (always set once _start has run).                *)
CreateRoot(id) ==
    /\ d' = [D EXCEPT !.roots = @ \cup {id}]
    /\ UNCHANGED frame

(* Faulty variant: the child is stored without its root id.               *)
CreateSubcontextLosesParent(parent, id) ==
    IF parent \in D.roots
    THEN /\ \E map \in {"http_streams", "streams"} :
              d' = [D EXCEPT ![map] = (id :> None) @@ @]
         /\ Run("create", parent, parent)
    ELSE /\ d' = D
         /\ UNCHANGED frame

(* on_create_context with a parent: do_create_subcontext asks the root for *)
(* a context, which is an Http or a Stream one by the plugin's choice, and *)
(* inserts it (a reused id overwrites, with a warning).  The plugin's      *)
(* create_context runs without the active pair being set.                  *)
CreateSubcontext(parent, id) ==
    IF parent \in D.roots
    THEN /\ \E map \in {"http_streams", "streams"} :
              d' = [D EXCEPT ![map] = (id :> parent) @@ @]
         /\ Run("create", parent, parent)
    ELSE /\ d' = D
         /\ UNCHANGED frame

OnCreateContext ==
    /\ HostEvent
    /\ \E id \in Ids \ DOMAIN hostCtx :
         \/ /\ hostCtx' = (id :> None) @@ hostCtx
            /\ CreateRoot(id)
         \/ \E parent \in HostRoots :
              /\ hostCtx' = (id :> parent) @@ hostCtx
              /\ CreateSubcontext(parent, id)

(* on_done and on_log: the first map holding the id wins, roots last.      *)
OnDoneOrLog ==
    /\ HostEvent
    /\ UNCHANGED hostCtx
    /\ \E id \in DOMAIN hostCtx :
         CASE id \in DOMAIN D.http_streams ->
                EnterAs("child", id, D.http_streams[id])
           [] id \in DOMAIN D.streams -> EnterAs("child", id, D.streams[id])
           [] id \in D.roots -> EnterAs("root", id, id)
           [] OTHER -> d' = D /\ UNCHANGED frame

(* on_delete: removed from the first map holding it, roots last.           *)
OnDelete ==
    /\ HostEvent
    /\ UNCHANGED frame
    /\ \E id \in DOMAIN hostCtx :
         /\ hostCtx' = Drop(hostCtx, id)
         /\ d' = CASE id \in DOMAIN D.http_streams ->
                        [D EXCEPT !.http_streams = Drop(@, id)]
                   [] id \in DOMAIN D.streams -> [D EXCEPT !.streams = Drop(@, id)]
                   [] OTHER -> [D EXCEPT !.roots = @ \ {id}]

(* on_vm_start and on_configure: a root fetches its configuration from the *)
(* host; if that fails the handler returns false without running the       *)
(* plugin; otherwise the active pair is set and the plugin runs.           *)
OnVmStartOrConfigure ==
    /\ HostEvent
    /\ UNCHANGED hostCtx
    /\ \E id \in HostRoots, fetched \in BOOLEAN :
         IF id \in D.roots /\ fetched
         THEN EnterAs("root", id, id)
         ELSE d' = D /\ UNCHANGED frame

(* on_tick: a known root runs with the active pair set to it.              *)
OnTick ==
    /\ HostEvent
    /\ UNCHANGED hostCtx
    /\ \E id \in HostRoots :
         IF id \in D.roots THEN EnterAs("root", id, id)
         ELSE d' = D /\ UNCHANGED frame

(* on_queue_ready: a known root's registered queue callback runs while     *)
(* queue_callbacks stays borrowed; the active pair is NOT set.             *)
OnQueueReady ==
    /\ HostEvent
    /\ UNCHANGED hostCtx
    /\ \E id \in HostRoots, q \in Queues :
         /\ d' = D
         /\ IF id \in D.roots /\ q \in D.queue_callbacks
            THEN Run("queue", id, id)
            ELSE UNCHANGED frame

(* The five connection events (on_new_connection, on_downstream_data,     *)
(* on_downstream_close, on_upstream_data, on_upstream_close) on a Stream   *)
(* context, and the six http events on an Http context: a context missing  *)
(* from the map answers Continue without running the plugin.               *)
ChildEvent(map) ==
    /\ HostEvent
    /\ UNCHANGED hostCtx
    /\ \E id \in HostChildren :
         IF id \in DOMAIN D[map]
         THEN EnterAs("child", id, D[map][id])
         ELSE d' = D /\ UNCHANGED frame

OnStreamEvent == ChildEvent("streams")
OnHttpEvent == ChildEvent("http_streams")

(***************************************************************************)
(* Outbound calls issued by plugin code                                    *)
(***************************************************************************)

PluginRuns == ~crashed /\ frame.kind \in PluginCallsIn
PluginStep == UNCHANGED <<gen, frame, hostCtx>>

(* The host accepts an outbound call and hands out a token it does not     *)
(* hold (nor, unless TokenReuse, one it handed out before).               *)
HostIssues(t, kind, cb) ==
    /\ calls < MaxCalls
    /\ t \notin DOMAIN hostCalls
    /\ TokenReuse \/ t \notin used
    /\ hostCalls' = (t :> [kind |-> kind, call |-> calls + 1, cb |-> cb]) @@ hostCalls
    /\ used' = used \cup {t}
    /\ calls' = calls + 1

(* RefCell::borrow_mut on a map a running handler holds panics.           *)
Insert(cell, newD) ==
    IF cell \in frame.held
    THEN crashed' = TRUE /\ UNCHANGED d
    ELSE d' = newD /\ UNCHANGED crashed

(* HttpCallback / GrpcCallback: the origin is the active pair right now.   *)
NewEntry == [context_id |-> D.active_id, root_context_id |-> D.active_root_id,
             call |-> calls + 1, caller |-> <<frame.ctx, frame.root>>]

(* HttpCall::dispatch: register_http_callback when there is a callback.    *)
HttpCallDispatch ==
    /\ PluginRuns /\ PluginStep /\ UNCHANGED cancelled
    /\ \E t \in Tokens, cb \in BOOLEAN :
         /\ HostIssues(t, "http", cb)
         /\ IF cb THEN Insert("http_callbacks",
                         [D EXCEPT !.http_callbacks = (t :> NewEntry) @@ @])
            ELSE UNCHANGED <<d, crashed>>

(* GrpcCall::dispatch: register_grpc_callback when there is a callback.    *)
GrpcCallDispatch ==
    /\ PluginRuns /\ PluginStep /\ UNCHANGED cancelled
    /\ \E t \in Tokens, cb \in BOOLEAN :
         /\ HostIssues(t, "grpc", cb)
         /\ IF cb THEN Insert("grpc_callbacks",
                         [D EXCEPT !.grpc_callbacks = (t :> NewEntry) @@ @])
            ELSE UNCHANGED <<d, crashed>>

NewStreamEntry ==
    [context_id |-> D.active_id, root_context_id |-> D.active_root_id,
     message |-> None, close |-> None, caller |-> <<frame.ctx, frame.root>>]

(* register_grpc_stream_message / _close: a vacant token gets a new entry, *)
(* an entry of another origin context is left alone (error logged), an     *)
(* entry of the same context gets the slot overwritten.                    *)
RegisterStreamSlot(g, t, slot) ==
    CASE t \notin DOMAIN g -> (t :> [NewStreamEntry EXCEPT ![slot] = calls + 1]) @@ g
      [] g[t].context_id # D.active_id -> g
      [] OTHER -> [g EXCEPT ![t][slot] = calls + 1]

(* GrpcStream::open: the message slot is registered, then the close slot.  *)
GrpcStreamOpen ==
    /\ PluginRuns /\ PluginStep /\ UNCHANGED cancelled
    /\ \E t \in Tokens, onMessage, onClose \in BOOLEAN :
         LET g1 == IF onMessage THEN RegisterStreamSlot(D.grpc_streams, t, "message")
                   ELSE D.grpc_streams
             g2 == IF onClose THEN RegisterStreamSlot(g1, t, "close") ELSE g1
         IN /\ HostIssues(t, "stream", onMessage \/ onClose)
            /\ IF onMessage \/ onClose
               THEN Insert("grpc_streams", [D EXCEPT !.grpc_streams = g2])
               ELSE UNCHANGED <<d, crashed>>

(* hostcalls::cancel_grpc_call and cancel_grpc_stream (hostcalls.rs:767- *)
(* 784): proxy_grpc_cancel for a call of one of `kinds`, its result        *)
(* dropped by .ok().  Only the host is told; the entry stays.  The host    *)
(* either forgets the call at once or may still deliver it.                *)
CancelGrpc(kinds) ==
    /\ PluginRuns /\ PluginStep /\ UNCHANGED <<d, crashed, used, calls>>
    /\ \E t \in DOMAIN hostCalls :
         /\ hostCalls[t].kind \in kinds
         /\ hostCalls[t].call \notin cancelled
         /\ cancelled' = cancelled \cup {hostCalls[t].call}
         /\ \/ hostCalls' = Drop(hostCalls, t)
            \/ UNCHANGED hostCalls

(* GrpcCancelHandle::cancel (grpc_call.rs:83-88).                          *)
GrpcCallCancel == CancelGrpc({"grpc"})

(* GrpcStreamHandle::cancel (grpc_stream.rs:163-167).                      *)
GrpcStreamCancel == CancelGrpc({"stream"})

(* Queue::on_enqueue / on_receive: register_queue_callback.                *)
QueueOnEnqueue ==
    /\ PluginRuns /\ PluginStep /\ UNCHANGED <<hostCalls, used, calls, cancelled>>
    /\ \E q \in Queues :
         Insert("queue_callbacks", [D EXCEPT !.queue_callbacks = @ \cup {q}])

(* EffectiveContext::drop: the snapshot taken by enter is restored.        *)
DropEffectiveContext ==
    [D EXCEPT !.active_id = frame.prior[1], !.active_root_id = frame.prior[2]]

(* The plugin code returns; a completion drops its EffectiveContext.       *)
Return ==
    /\ frame # NoFrame /\ ~crashed
    /\ frame' = NoFrame
    /\ d' = IF frame.prior = <<>> THEN d ELSE DropEffectiveContext
    /\ UNCHANGED <<gen, crashed, hostCtx, hostCalls, used, calls, cancelled>>

(***************************************************************************)
(* Completions                                                             *)
(***************************************************************************)

(* The callback can be delivered: its root exists (else "referenced        *)
(* non-existing root context") and the host accepts its origin context     *)
(* in set_effective_context (EffectiveContext::enter).                     *)
Deliverable(e) == e.root_context_id \in D.roots /\ e.context_id \in DOMAIN hostCtx

(* EffectiveContext::enter snapshots the active pair and sets the origin;  *)
(* then the stored callback runs.                                          *)
EnterCallback(d1, kind, e, call, hcall) ==
    /\ d' = [d1 EXCEPT !.active_id = e.context_id,
                       !.active_root_id = e.root_context_id]
    /\ frame' = [kind |-> kind, ctx |-> e.caller[1], root |-> e.caller[2],
                 held |-> Held(kind), prior |-> <<d1.active_id, d1.active_root_id>>,
                 call |-> call, hcall |-> hcall]

CompletionEvent == Idle /\ UNCHANGED <<gen, crashed, hostCtx, used, calls, cancelled>>

(* Faulty variant: the entry is read with get instead of remove.          *)
OnHttpCallResponseKeepsEntry(t) ==
    /\ CompletionEvent
    /\ t \in DOMAIN hostCalls /\ hostCalls[t].kind = "http"
    /\ hostCalls' = Drop(hostCalls, t)
    /\ IF t \in DOMAIN D.http_callbacks
       THEN LET e == D.http_callbacks[t]
            IN IF Deliverable(e)
               THEN EnterCallback(D, "http_cb", e, e.call, hostCalls[t].call)
               ELSE d' = D /\ UNCHANGED frame
       ELSE d' = D /\ UNCHANGED frame

(* on_http_call_response: the entry is removed before anything else.      *)
OnHttpCallResponse(t) ==
    /\ CompletionEvent
    /\ t \in DOMAIN hostCalls /\ hostCalls[t].kind = "http"
    /\ hostCalls' = Drop(hostCalls, t)
    /\ IF t \in DOMAIN D.http_callbacks
       THEN LET e == D.http_callbacks[t]
                d1 == [D EXCEPT !.http_callbacks = Drop(@, t)]
            IN IF Deliverable(e)
               THEN EnterCallback(d1, "http_cb", e, e.call, hostCalls[t].call)
               ELSE d' = d1 /\ UNCHANGED frame
       ELSE d' = D /\ UNCHANGED frame

(* on_grpc_receive: a unary entry is removed and fired; otherwise a stream *)
(* entry's message slot fires and the entry stays.  The host delivers one  *)
(* reply to a unary call and any number of messages on a stream.           *)
OnGrpcReceive(t) ==
    /\ CompletionEvent
    /\ t \in DOMAIN hostCalls /\ hostCalls[t].kind \in {"grpc", "stream"}
    /\ hostCalls' = IF hostCalls[t].kind = "grpc" THEN Drop(hostCalls, t) ELSE hostCalls
    /\ CASE t \in DOMAIN D.grpc_callbacks ->
              LET e == D.grpc_callbacks[t]
                  d1 == [D EXCEPT !.grpc_callbacks = Drop(@, t)]
              IN IF Deliverable(e)
                 THEN EnterCallback(d1, "grpc_cb", e, e.call, hostCalls[t].call)
                 ELSE d' = d1 /\ UNCHANGED frame
         [] t \in DOMAIN D.grpc_streams /\ D.grpc_streams[t].message # None
              /\ Deliverable(D.grpc_streams[t]) ->
              EnterCallback(D, "stream_msg", D.grpc_streams[t],
                            D.grpc_streams[t].message, hostCalls[t].call)
         [] OTHER -> d' = D /\ UNCHANGED frame

(* Faulty variant: a unary entry is removed only once the status is read.  *)
OnGrpcCloseRemovesOnStatus(t) ==
    /\ CompletionEvent
    /\ t \in DOMAIN hostCalls /\ hostCalls[t].kind \in {"grpc", "stream"}
    /\ hostCalls' = Drop(hostCalls, t)
    /\ \E status \in BOOLEAN :
         CASE t \in DOMAIN D.grpc_callbacks ->
                LET e == D.grpc_callbacks[t]
                    d1 == [D EXCEPT !.grpc_callbacks = Drop(@, t)]
                IN IF ~status THEN d' = D /\ UNCHANGED frame
                   ELSE IF Deliverable(e)
                   THEN EnterCallback(d1, "grpc_cb", e, e.call, hostCalls[t].call)
                   ELSE d' = d1 /\ UNCHANGED frame
           [] t \in DOMAIN D.grpc_streams ->
                LET e == D.grpc_streams[t]
                    d1 == [D EXCEPT !.grpc_streams = Drop(@, t)]
                IN IF e.close # None /\ Deliverable(e) /\ status
                   THEN EnterCallback(d1, "stream_close", e, e.close, hostCalls[t].call)
                   ELSE d' = d1 /\ UNCHANGED frame
           [] OTHER -> d' = D /\ UNCHANGED frame

(* on_grpc_close: the unary or stream entry is removed; its callback fires *)
(* only if get_grpc_status succeeds after the EffectiveContext is entered. *)
OnGrpcClose(t) ==
    /\ CompletionEvent
    /\ t \in DOMAIN hostCalls /\ hostCalls[t].kind \in {"grpc", "stream"}
    /\ hostCalls' = Drop(hostCalls, t)
    /\ \E status \in BOOLEAN :
         CASE t \in DOMAIN D.grpc_callbacks ->
                LET e == D.grpc_callbacks[t]
                    d1 == [D EXCEPT !.grpc_callbacks = Drop(@, t)]
                IN IF Deliverable(e) /\ status
                   THEN EnterCallback(d1, "grpc_cb", e, e.call, hostCalls[t].call)
                   ELSE d' = d1 /\ UNCHANGED frame
           [] t \in DOMAIN D.grpc_streams ->
                LET e == D.grpc_streams[t]
                    d1 == [D EXCEPT !.grpc_streams = Drop(@, t)]
                IN IF e.close # None /\ Deliverable(e) /\ status
                   THEN EnterCallback(d1, "stream_close", e, e.close, hostCalls[t].call)
                   ELSE d' = d1 /\ UNCHANGED frame
           [] OTHER -> d' = D /\ UNCHANGED frame

(***************************************************************************)
(* Restarts                                                                *)
(***************************************************************************)

(* Faulty variant: reset() leaves DISPATCHER_GEN as it was.                *)
ReinitKeepsGeneration ==
    /\ Idle
    /\ gen < MaxGen
    /\ UNCHANGED gen
    /\ hostCtx' = EmptyFn /\ hostCalls' = EmptyFn /\ used' = {}
    /\ UNCHANGED <<d, frame, crashed, calls, cancelled>>

(* _start on a reused native thread: reset() bumps DISPATCHER_GEN, clears  *)
(* the factory and the plugin registers it again.  The thread-local        *)
(* Dispatcher keeps its contents until the next dispatch() sees the new    *)
(* generation.  The host's contexts and calls belong to the old VM.        *)
Reinit ==
    /\ Idle
    /\ gen < MaxGen
    /\ gen' = gen + 1
    /\ hostCtx' = EmptyFn /\ hostCalls' = EmptyFn /\ used' = {}
    /\ UNCHANGED <<d, frame, crashed, calls, cancelled>>

(* The host replaces a trapped VM by a new wasm instance: every static     *)
(* starts over and _start calls reset().                                   *)
NewInstance ==
    /\ crashed
    /\ d' = Fresh(0) /\ gen' = 1
    /\ frame' = NoFrame /\ crashed' = FALSE
    /\ hostCtx' = EmptyFn /\ hostCalls' = EmptyFn /\ used' = {}
    /\ UNCHANGED <<calls, cancelled>>

(***************************************************************************)
(* Specification                                                           *)
(***************************************************************************)

Init ==
    /\ d = Fresh(0) /\ gen = 1
    /\ frame = NoFrame /\ crashed = FALSE
    /\ hostCtx = EmptyFn /\ hostCalls = EmptyFn /\ used = {}
    /\ calls = 0 /\ cancelled = {}

Next ==
    \/ OnCreateContext \/ OnDoneOrLog \/ OnDelete \/ OnVmStartOrConfigure
    \/ OnTick \/ OnQueueReady \/ OnStreamEvent \/ OnHttpEvent
    \/ \E t \in Tokens : OnHttpCallResponse(t) \/ OnGrpcReceive(t) \/ OnGrpcClose(t)
    \/ HttpCallDispatch \/ GrpcCallDispatch \/ GrpcStreamOpen
    \/ GrpcCallCancel \/ GrpcStreamCancel
    \/ QueueOnEnqueue \/ Return \/ Reinit \/ NewInstance

(* The host answers every unary call (it enforces the call's timeout) and  *)
(* plugin code returns; nothing else is assumed to happen.                 *)
HostAnswersUnary(t) ==
    /\ t \in DOMAIN hostCalls /\ hostCalls[t].kind \in {"http", "grpc"}
    /\ OnHttpCallResponse(t) \/ OnGrpcReceive(t) \/ OnGrpcClose(t)

Fairness == WF_vars(Return) /\ \A t \in Tokens : SF_vars(HostAnswersUnary(t))

Spec == Init /\ [][Next]_vars /\ Fairness

(***************************************************************************)
(* Properties                                                              *)
(***************************************************************************)

IdOrNone == Ids \cup {None}
Pair == IdOrNone \X IdOrNone
EntryT == [context_id : IdOrNone, root_context_id : IdOrNone,
           call : CallIds, caller : Pair]
StreamT == [context_id : IdOrNone, root_context_id : IdOrNone,
            message : CallIds \cup {None}, close : CallIds \cup {None}, caller : Pair]
PFun(f, S, T) == DOMAIN f \subseteq S /\ \A x \in DOMAIN f : f[x] \in T

TypeOK ==
    /\ d.roots \subseteq Ids
    /\ PFun(d.streams, Ids, Ids) /\ PFun(d.http_streams, Ids, Ids)
    /\ PFun(d.http_callbacks, Tokens, EntryT)
    /\ PFun(d.grpc_callbacks, Tokens, EntryT)
    /\ PFun(d.grpc_streams, Tokens, StreamT)
    /\ d.queue_callbacks \subseteq Queues
    /\ <<d.active_id, d.active_root_id>> \in Pair
    /\ d.generation \in 0..MaxGen /\ gen \in 1..MaxGen
    /\ frame.kind \in FrameKinds \cup {"none"} /\ frame.held \subseteq Cells
    /\ crashed \in BOOLEAN
    /\ PFun(hostCtx, Ids, IdOrNone)
    /\ PFun(hostCalls, Tokens, [kind : {"http", "grpc", "stream"},
                                    call : CallIds, cb : BOOLEAN])
    /\ used \subseteq Tokens /\ calls \in 0..MaxCalls /\ cancelled \subseteq CallIds

(* The dispatcher's own view is current: no trap, generation up to date.   *)
Live == ~crashed /\ d.generation = gen

UnaryCalls == {d.http_callbacks[t].call : t \in DOMAIN d.http_callbacks}
              \cup {d.grpc_callbacks[t].call : t \in DOMAIN d.grpc_callbacks}
StreamCalls == {d.grpc_streams[t][s] : t \in DOMAIN d.grpc_streams,
                                       s \in {"message", "close"}} \ {None}
HeldByHost == {hostCalls[t].call : t \in {u \in DOMAIN hostCalls : hostCalls[u].cb}}

(* The callback maps mirror the host's outstanding calls: every call that   *)
(* was dispatched with a callback and that the host may still complete has *)
(* an entry (registration is never lost or skipped), and every entry is    *)
(* for such a call or for one the plugin cancelled (removal on completion  *)
(* in on_http_call_response, on_grpc_receive and on_grpc_close).           *)
RegistryMatchesHost ==
    Live => /\ HeldByHost \subseteq UnaryCalls \cup StreamCalls
            /\ UnaryCalls \cup StreamCalls \subseteq HeldByHost \cup cancelled

(* A completion runs the callback registered for the very call the host    *)
(* completed (the token lookups in the three completion handlers).         *)
DeliveredToOwnCall == frame.kind \in Completions => frame.call = frame.hcall

(* Every callback entry records as its origin the context and root whose   *)
(* plugin code registered it: the active pair read by register_*_callback  *)
(* is the one of the handler that is running.                              *)
AllEntries == {d.http_callbacks[t] : t \in DOMAIN d.http_callbacks}
              \cup {d.grpc_callbacks[t] : t \in DOMAIN d.grpc_callbacks}
              \cup {d.grpc_streams[t] : t \in DOMAIN d.grpc_streams}
RegistrationAttributedToCaller ==
    Live => \A e \in AllEntries : <<e.context_id, e.root_context_id>> = e.caller

(* The trap on a re-entrant registration (RefCell already borrowed).       *)
NoBorrowPanic == ~crashed

(* A unary call registered with a callback stays in the map until the host *)
(* answers it, which the host eventually does unless the plugin cancelled  *)
(* it: its entry is eventually gone or the call is cancelled.              *)
PendingUnary(c) == Live /\ c \in UnaryCalls
UnaryEntryReleased ==
    \A c \in CallIds : PendingUnary(c) ~> (~PendingUnary(c) \/ c \in cancelled)

(* Every unary entry is eventually released, cancelled or not.             *)
CancelledEntryReleased == \A c \in CallIds : PendingUnary(c) ~> ~PendingUnary(c)


(***************************************************************************)
(* Refinement of PendingCallbacks                                          *)
(***************************************************************************)

(* The pending unary callbacks are the entries of the dispatcher's own,    *)
(* current maps; a stale generation or a trap means none is left.  The     *)
(* running callback is the call of the http_cb or grpc_cb frame.           *)
AbsPending == IF Live THEN UnaryCalls ELSE {}
AbsRunning == IF ~crashed /\ frame.kind \in {"http_cb", "grpc_cb"}
              THEN frame.call ELSE None

Abstract == INSTANCE PendingCallbacks
                WITH Calls <- CallIds, NoCall <- None,
                     pending <- AbsPending, running <- AbsRunning

(* The dispatcher implements PendingCallbacks: a unary callback runs only  *)
(* for a call that registered it and is still pending, at most once, and   *)
(* an entry leaves the maps only by firing, by being discarded, or with    *)
(* the whole VM state (on_http_call_response, on_grpc_receive,             *)
(* on_grpc_close, dispatch()'s generation reset).                          *)
PendingCallbacksRefined == Abstract!Spec

=============================================================================
