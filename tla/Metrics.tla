------------------------------ MODULE Metrics ------------------------------
(***************************************************************************)
(* The metric handle cache of proxy-sdk (src/src/metrics.rs) and the host  *)
(* metric calls behind it (src/src/hostcalls.rs:889-925).                  *)
(*                                                                         *)
(* METRICS is a thread_local map from a root context id to the handles     *)
(* defined under it, one map per metric kind.  Counter/Gauge/Histogram     *)
(* ::define look the name up under root_id(), the dispatcher's            *)
(* active_root_id read without dispatch()'s generation check, and only on  *)
(* a miss ask the host, caching whatever log_concern returns (0 when the   *)
(* host refuses).  The usual plugin pattern, ConstCounter::get() followed  *)
(* by record or increment, is one step: define, then a host call on the   *)
(* handle.                                                                 *)
(*                                                                         *)
(* The host side, as Envoy implements it: each VM instance has its own     *)
(* table of metric ids, each bound to the kind and name it was defined     *)
(* with; ids of one kind are numbered from that kind's tag (1, 2, 3) in    *)
(* steps of 4, so an id never names a metric of another kind.              *)
(* lib::reset() starts a new VM on the same thread; it does not touch      *)
(* METRICS, nor active_root_id until the next dispatched event.            *)
(***************************************************************************)
EXTENDS Integers, FiniteSets, Functions, TLC

CONSTANTS
    Roots,      \* root context ids the host hands out
    Names,      \* metric names the plugin uses
    Kinds,      \* a subset of {"counter", "gauge", "histogram"}
    MaxIds,     \* bound on metric ids of one kind the host issues in one VM
    MaxVm       \* bound on VM instances on the thread

None == 0

VARIABLES
    metrics,    \* METRICS: <<root id, kind, name>> -> cached handle
    active,     \* Dispatcher.active_root_id, as root_id() reads it
    vm,         \* host: the VM instance running on the thread
    table,      \* host: metric id -> [kind, name] in this VM
    next,       \* host: kind -> number of ids of that kind issued
    misses,     \* ghost: host updates that hit another metric than meant
    stuck       \* ghost: a define was answered with a cached 0

vars == <<metrics, active, vm, table, next, misses, stuck>>

EmptyFn == [x \in {} |-> None]

(* The host's type tag in the low bits of a metric id.                     *)
Tag == [k \in Kinds |-> CASE k = "counter" -> 1 [] k = "gauge" -> 2 [] k = "histogram" -> 3]
Handles == {Tag[k] + 4 * j : k \in Kinds, j \in 0..MaxIds - 1}

(* hostcalls::define_metric (hostcalls.rs:889-897): Ok with the id the     *)
(* host issues, or an error status.  `h` is the result, None for an error. *)
HostDefineMetric(k, n, h) ==
    \/ /\ next[k] < MaxIds /\ h = Tag[k] + 4 * next[k]
       /\ table' = (h :> [kind |-> k, name |-> n]) @@ table
       /\ next' = [next EXCEPT ![k] = @ + 1]
    \/ /\ h = None
       /\ UNCHANGED <<table, next>>

(* A mutant of the define body: the cache is keyed by kind and name only, *)
(* not by root.                                                            *)
DefineInRootless(k, n, h) ==
    LET key == <<k, n>> IN
    \/ /\ key \in DOMAIN metrics
       /\ h = metrics[key]
       /\ stuck' = (stuck \/ h = None)
       /\ UNCHANGED <<metrics, table, next>>
    \/ /\ key \notin DOMAIN metrics
       /\ HostDefineMetric(k, n, h)
       /\ metrics' = (key :> h) @@ metrics
       /\ UNCHANGED stuck

(* The body shared by the three define functions: look `n` up in the map   *)
(* of kind `k` under root_id(); on a miss call the host, keep the handle   *)
(* log_concern returns (0 on an error) and cache it.  `h` is the handle    *)
(* define returns.                                                         *)
DefineIn(k, n, h) ==
    LET key == <<active, k, n>> IN
    \/ /\ key \in DOMAIN metrics
       /\ h = metrics[key]
       /\ stuck' = (stuck \/ h = None)
       /\ UNCHANGED <<metrics, table, next>>
    \/ /\ key \notin DOMAIN metrics
       /\ HostDefineMetric(k, n, h)
       /\ metrics' = (key :> h) @@ metrics
       /\ UNCHANGED stuck

(* A mutant of Gauge::define: the name is looked up in, and stored into,   *)
(* the counters map.                                                       *)
DefineGaugeInCounters(n, h) == DefineIn("counter", n, h)

(* Counter::define (metrics.rs:42-55).                                     *)
DefineCounter(n, h) == DefineIn("counter", n, h)

(* Gauge::define (metrics.rs:98-111).                                      *)
DefineGauge(n, h) == DefineIn("gauge", n, h)

(* Histogram::define (metrics.rs:154-167).                                 *)
DefineHistogram(n, h) == DefineIn("histogram", n, h)

(* hostcalls::get_metric, record_metric and increment_metric             *)
(* (hostcalls.rs:899-925) on handle `h`, meant for metric (k, n): the host *)
(* reads or updates the metric the id names in this VM, or fails on an     *)
(* unknown id (log_concern logs the failure of an update).                 *)
RecordMetric(h, k, n) ==
    misses' = IF h \in DOMAIN table /\ table[h] # [kind |-> k, name |-> n]
              THEN misses \cup {[want |-> <<k, n>>,
                                 got |-> <<table[h].kind, table[h].name>>]}
              ELSE misses

(* The usual pattern, ConstCounter::get() (metrics.rs:35-37) and then     *)
(* get, record or increment on the handle (57-73).                         *)
UseCounter(n) ==
    /\ \E h \in Handles \cup {None} : DefineCounter(n, h) /\ RecordMetric(h, "counter", n)
    /\ UNCHANGED <<active, vm>>

(* ConstGauge::get() (91-93) and then get, record or increment (113-127). *)
UseGauge(n) ==
    /\ \E h \in Handles \cup {None} : DefineGauge(n, h) /\ RecordMetric(h, "gauge", n)
    /\ UNCHANGED <<active, vm>>

(* ConstHistogram::get() (147-149) and then record (169-173).              *)
UseHistogram(n) ==
    /\ \E h \in Handles \cup {None} : DefineHistogram(n, h) /\ RecordMetric(h, "histogram", n)
    /\ UNCHANGED <<active, vm>>

(* A host event for root r is dispatched: the handler sets active_root_id  *)
(* (on_tick, on_vm_start, on_configure, EffectiveContext::enter).          *)
EnterRoot(r) ==
    /\ active' = r
    /\ UNCHANGED <<metrics, vm, table, next, misses, stuck>>

(* lib::reset() and a new VM on the thread: the host's metric table starts *)
(* over; METRICS and active_root_id are left as they were.                 *)
Reset ==
    /\ vm < MaxVm
    /\ vm' = vm + 1
    /\ table' = EmptyFn /\ next' = [k \in Kinds |-> 0]
    /\ UNCHANGED <<metrics, active, misses, stuck>>

Init ==
    /\ metrics = EmptyFn /\ active = None
    /\ vm = 1 /\ table = EmptyFn /\ next = [k \in Kinds |-> 0]
    /\ misses = {} /\ stuck = FALSE

Next ==
    \/ \E n \in Names :
         \/ "counter" \in Kinds /\ UseCounter(n)
         \/ "gauge" \in Kinds /\ UseGauge(n)
         \/ "histogram" \in Kinds /\ UseHistogram(n)
    \/ \E r \in Roots : EnterRoot(r)
    \/ Reset

Spec == Init /\ [][Next]_vars

(***************************************************************************)
(* Properties                                                              *)
(***************************************************************************)

TypeOK ==
    /\ DOMAIN metrics \subseteq (Roots \cup {None}) \X Kinds \X Names
    /\ \A key \in DOMAIN metrics : metrics[key] \in Handles \cup {None}
    /\ active \in Roots \cup {None}
    /\ vm \in 1..MaxVm /\ next \in [Kinds -> 0..MaxIds]
    /\ DOMAIN table = UNION {{Tag[k] + 4 * j : j \in 0..next[k] - 1} : k \in Kinds}
    /\ \A i \in DOMAIN table : table[i] \in [kind : Kinds, name : Names]
    /\ misses \subseteq [want : Kinds \X Names, got : Kinds \X Names]
    /\ stuck \in BOOLEAN

(* A record or increment through a handle from Counter/Gauge/Histogram::   *)
(* define always updates the metric of the kind and name it was defined    *)
(* for, whichever root was active and whatever other metrics share the     *)
(* name.                                                                   *)
RecordsReachOwnMetric == misses = {}

(* Until the first lib::reset(), every get, record or increment through a *)
(* handle from Counter/Gauge/Histogram::define reaches the metric of the   *)
(* kind and name it was defined for, whether root_id() reads a root or the *)
(* 0 of no event yet, with two names per kind and define_metric failing at *)
(* any call: the per-kind maps keyed by <<root_id(), name>> never hand    *)
(* one metric's handle to another.  (RecordsReachOwnMetric itself fails    *)
(* after a reset.)                                                         *)
OwnMetricUntilReset == vm = 1 => RecordsReachOwnMetric

(* A define answered from the cache never returns the 0 that a failed      *)
(* define_metric left there: the host is asked again.                      *)
NoStickyFailure == ~stuck
=============================================================================
