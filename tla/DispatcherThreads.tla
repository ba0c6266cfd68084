-------------------------- MODULE DispatcherThreads --------------------------
(***************************************************************************)
(* The generation scheme of proxy-sdk's dispatcher across native threads   *)
(* (src/src/dispatcher.rs:35-64, 151-169; src/src/lib.rs:83-86).           *)
(*                                                                         *)
(* In native mode several host threads run the plugin in one process.      *)
(* Each thread has its own DISPATCHER (thread_local) holding its root      *)
(* contexts and callbacks, but DISPATCHER_GEN and ROOT_INIT are process    *)
(* globals.  A thread whose VM (re)starts runs the plugin's _start: it     *)
(* calls lib::reset(), which bumps DISPATCHER_GEN and clears ROOT_INIT,    *)
(* and then set_root_context_factory(), which sets ROOT_INIT again.  Every *)
(* entry point on any thread goes through dispatch(), which wipes that     *)
(* thread's dispatcher when its cached generation differs from the global. *)
(*                                                                         *)
(* Only what the generation scheme touches is kept: per thread the roots   *)
(* (id -> the VM start that created them, a ghost) and the http callbacks  *)
(* (token -> root); per host thread the root contexts and calls the host   *)
(* believes live in the thread's current VM.                               *)
(***************************************************************************)
EXTENDS Integers, FiniteSets, Functions, TLC

CONSTANTS
    Threads,    \* host threads running the plugin
    Ids,        \* root context ids the host hands out in one VM
    Tokens,     \* http call tokens the host hands out in one VM
    MaxGen      \* bound on VM starts in the process (DISPATCHER_GEN)

VARIABLES
    gen,        \* DISPATCHER_GEN (dispatcher.rs:38)
    rootInit,   \* ROOT_INIT is Some (dispatcher.rs:63-64)
    lgen,       \* per thread: Dispatcher.generation
    roots,      \* per thread: Dispatcher.roots, id -> VM start (ghost)
    callbacks,  \* per thread: Dispatcher.http_callbacks, token -> root id
    phase,      \* per thread: "boot", "reset" (inside _start) or "running"
    starts,     \* per thread: ghost, number of VM starts on it
    hostRoots,  \* per thread: root contexts the host created in this VM
    hostCalls,  \* per thread: http calls outstanding in this VM
    panicked,   \* a panic crossed an extern "C" entry: the process aborts
    lost        \* ghost: events of a live host context the dispatcher dropped

vars == <<gen, rootInit, lgen, roots, callbacks, phase, starts,
          hostRoots, hostCalls, panicked, lost>>

EmptyFn == [x \in {} |-> 0]

Running(t) == phase[t] = "running" /\ ~panicked

(* A mutant of dispatch(): the generation is stored but the stale          *)
(* dispatcher is kept.                                                     *)
DispatchKeepsStale(t, f) == f

(* dispatch() (dispatcher.rs:49-61): a map of thread t's dispatcher as the *)
(* handler sees it.  When the cached generation differs from               *)
(* DISPATCHER_GEN, Dispatcher::reset() has cleared every map first.        *)
Dispatch(t, f) == IF lgen[t] = gen THEN f ELSE EmptyFn

(* lib::reset() then dispatcher::reset() (lib.rs:83-86,                    *)
(* dispatcher.rs:40-43), called first thing in _start of a new VM on t:    *)
(* fetch_add on DISPATCHER_GEN and ROOT_INIT = None.  The host discards    *)
(* the contexts and calls of the VM t ran before; t's thread_local         *)
(* dispatcher is left as it is.                                            *)
Reset(t) ==
    /\ phase[t] \in {"boot", "running"} /\ ~panicked
    /\ gen < MaxGen
    /\ gen' = gen + 1
    /\ rootInit' = FALSE
    /\ phase' = [phase EXCEPT ![t] = "reset"]
    /\ starts' = [starts EXCEPT ![t] = @ + 1]
    /\ hostRoots' = [hostRoots EXCEPT ![t] = {}]
    /\ hostCalls' = [hostCalls EXCEPT ![t] = {}]
    /\ UNCHANGED <<lgen, roots, callbacks, panicked, lost>>

(* set_root_context_factory() (dispatcher.rs:167-169), the rest of _start: *)
(* ROOT_INIT = Some(factory).                                              *)
SetRootContextFactory(t) ==
    /\ phase[t] = "reset" /\ ~panicked
    /\ rootInit' = TRUE
    /\ phase' = [phase EXCEPT ![t] = "running"]
    /\ UNCHANGED <<gen, lgen, roots, callbacks, starts,
                   hostRoots, hostCalls, panicked, lost>>

(* Every entry point caches the global generation in t's dispatcher.       *)
Enter(t) == lgen' = [lgen EXCEPT ![t] = gen]

(* proxy_on_context_create for a root (dispatcher.rs:431-435) and          *)
(* Dispatcher::root (151-164): or_insert_with keeps a known id and makes   *)
(* an unknown one with the ROOT_INIT factory, whose                        *)
(* expect("missing root_context_factory") panics when ROOT_INIT is None.   *)
OnCreateRoot(t, id) ==
    LET r == Dispatch(t, roots[t]) IN
    /\ Running(t) /\ id \notin hostRoots[t]
    /\ hostRoots' = [hostRoots EXCEPT ![t] = @ \cup {id}]
    /\ Enter(t)
    /\ callbacks' = [callbacks EXCEPT ![t] = Dispatch(t, @)]
    /\ \/ /\ id \in DOMAIN r \/ rootInit
          /\ roots' = [roots EXCEPT ![t] = r @@ (id :> starts[t])]
          /\ UNCHANGED panicked
       \/ /\ id \notin DOMAIN r /\ ~rootInit
          /\ panicked' = TRUE /\ roots' = [roots EXCEPT ![t] = r]
    /\ UNCHANGED <<gen, rootInit, phase, starts, hostCalls, lost>>

(* A mutant of on_tick: the callback is stored before the active root is *)
(* set, under root id 0.                                                   *)
OnTickBeforeActive(t, id) ==
    LET r == Dispatch(t, roots[t]) IN
    /\ Running(t) /\ id \in hostRoots[t] /\ id \in DOMAIN r
    /\ Enter(t)
    /\ roots' = [roots EXCEPT ![t] = r]
    /\ \E tok \in Tokens \ hostCalls[t] :
          /\ hostCalls' = [hostCalls EXCEPT ![t] = @ \cup {tok}]
          /\ callbacks' = [callbacks EXCEPT ![t] = (tok :> 0) @@ Dispatch(t, @)]
    /\ UNCHANGED <<gen, rootInit, phase, starts, hostRoots, panicked, lost>>

(* proxy_on_tick of a root the host created (dispatcher.rs:532-541): an   *)
(* id the dispatcher does not know is warned about and dropped.  Plugin   *)
(* code of a known root may dispatch an http call, which the host answers *)
(* later with `tok`; register_http_callback (171-185) stores the callback *)
(* under the active root.                                                  *)
OnTick(t, id) ==
    LET r == Dispatch(t, roots[t]) IN
    /\ Running(t) /\ id \in hostRoots[t]
    /\ Enter(t)
    /\ roots' = [roots EXCEPT ![t] = r]
    /\ \/ /\ id \notin DOMAIN r
          /\ lost' = lost \cup {<<t, "tick", id>>}
          /\ callbacks' = [callbacks EXCEPT ![t] = Dispatch(t, @)]
          /\ UNCHANGED hostCalls
       \/ /\ id \in DOMAIN r
          /\ UNCHANGED <<lost, hostCalls>>
          /\ callbacks' = [callbacks EXCEPT ![t] = Dispatch(t, @)]
       \/ /\ id \in DOMAIN r
          /\ \E tok \in Tokens \ hostCalls[t] :
                /\ hostCalls' = [hostCalls EXCEPT ![t] = @ \cup {tok}]
                /\ callbacks' = [callbacks EXCEPT ![t] =
                                    (tok :> id) @@ Dispatch(t, @)]
          /\ UNCHANGED lost
    /\ UNCHANGED <<gen, rootInit, phase, starts, hostRoots, panicked>>

(* proxy_on_http_call_response (dispatcher.rs:762-791): the callback is  *)
(* removed; an unknown token, or a callback whose root is gone, is        *)
(* dropped with a debug log.                                               *)
OnHttpCallResponse(t, tok) ==
    LET r == Dispatch(t, roots[t])
        cbs == Dispatch(t, callbacks[t])
    IN
    /\ Running(t) /\ tok \in hostCalls[t]
    /\ hostCalls' = [hostCalls EXCEPT ![t] = @ \ {tok}]
    /\ Enter(t)
    /\ roots' = [roots EXCEPT ![t] = r]
    /\ callbacks' = [callbacks EXCEPT ![t] = Restrict(cbs, DOMAIN cbs \ {tok})]
    /\ lost' = IF tok \in DOMAIN cbs /\ cbs[tok] \in DOMAIN r
               THEN lost ELSE lost \cup {<<t, "http", tok>>}
    /\ UNCHANGED <<gen, rootInit, phase, starts, hostRoots, panicked>>

Init ==
    /\ gen = 0 /\ rootInit = FALSE
    /\ lgen = [t \in Threads |-> 0]
    /\ roots = [t \in Threads |-> EmptyFn]
    /\ callbacks = [t \in Threads |-> EmptyFn]
    /\ phase = [t \in Threads |-> "boot"]
    /\ starts = [t \in Threads |-> 0]
    /\ hostRoots = [t \in Threads |-> {}]
    /\ hostCalls = [t \in Threads |-> {}]
    /\ panicked = FALSE /\ lost = {}

Next ==
    \E t \in Threads :
        \/ Reset(t) \/ SetRootContextFactory(t)
        \/ \E id \in Ids : OnCreateRoot(t, id) \/ OnTick(t, id)
        \/ \E tok \in Tokens : OnHttpCallResponse(t, tok)

Spec == Init /\ [][Next]_vars

(***************************************************************************)
(* Properties                                                              *)
(***************************************************************************)

TypeOK ==
    /\ gen \in 0..MaxGen /\ rootInit \in BOOLEAN /\ panicked \in BOOLEAN
    /\ lgen \in [Threads -> 0..MaxGen]
    /\ starts \in [Threads -> 0..MaxGen]
    /\ phase \in [Threads -> {"boot", "reset", "running"}]
    /\ hostRoots \in [Threads -> SUBSET Ids]
    /\ hostCalls \in [Threads -> SUBSET Tokens]
    /\ \A t \in Threads :
          /\ DOMAIN roots[t] \subseteq Ids
          /\ \A id \in DOMAIN roots[t] : roots[t][id] \in 1..MaxGen
          /\ DOMAIN callbacks[t] \subseteq Tokens
          /\ \A tok \in DOMAIN callbacks[t] : callbacks[t][tok] \in Ids
    /\ lost \subseteq Threads \X {"tick", "http"} \X (Ids \cup Tokens)

(* dispatch() never hands a handler a root context made by an earlier VM   *)
(* on the same thread: whenever a thread's dispatcher caches the current   *)
(* DISPATCHER_GEN, every root in it was created since the thread's last    *)
(* _start, and every http callback in it belongs to one of those roots.    *)
NoStaleRoots ==
    \A t \in Threads : lgen[t] = gen =>
        /\ \A id \in DOMAIN roots[t] : roots[t][id] = starts[t]
        /\ \A tok \in DOMAIN callbacks[t] : callbacks[t][tok] \in DOMAIN roots[t]

(* Dispatcher::root never hits expect("missing root_context_factory"): a   *)
(* root the host creates on a running thread always finds ROOT_INIT set.   *)
NoFactoryPanic == ~panicked

(* Every tick of a root the host created, and every response to a call    *)
(* such a root made, reaches the plugin as long as the thread's VM has not *)
(* been restarted.                                                         *)
HostContextsServed == lost = {}
=============================================================================
