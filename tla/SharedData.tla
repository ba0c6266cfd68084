----------------------------- MODULE SharedData -----------------------------
(***************************************************************************)
(* SharedData (src/src/shared_data.rs) over the host's shared key-value    *)
(* store (hostcalls.rs:458-508), used the way its documentation invites:   *)
(* several VMs of one VM id, on different worker threads, each add one to  *)
(* a counter kept under one key with the check-and-set loop               *)
(*                                                                         *)
(*     loop {                                                              *)
(*         let (v, cas) = data.get_with_cas();                            *)
(*         match cas {                                                     *)
(*             Some(cas) => if data.set_with_cas(v + 1, cas) { break },    *)
(*             None => { data.set(v + 1); break }                          *)
(*         }                                                               *)
(*     }                                                                   *)
(*                                                                         *)
(* None is the only answer get_with_cas gives for a key never set, and     *)
(* set_with_cas takes a plain u32, so a key's first value can only be      *)
(* written with the casless set().  The counter's bytes are abstracted to  *)
(* the number they encode.                                                 *)
(*                                                                         *)
(* The host, as Envoy implements proxy_get/set_shared_data: each key holds *)
(* a value and a cas number; 0 means the key was never set; a set with cas *)
(* 0 is unconditional, one with another cas fails with CasMismatch unless  *)
(* it equals the key's; a successful set gives the key a fresh cas.  Every *)
(* hostcall is atomic.                                                     *)
(***************************************************************************)
EXTENDS Integers, FiniteSets

CONSTANTS
    Workers,    \* VMs running the increment concurrently
    Preset      \* the key was set (to 0) before the workers start

ASSUME Preset \in BOOLEAN

None == -1          \* Option::None for the value

VARIABLES
    value,      \* host: the key's value, None when never set
    cas,        \* host: the key's cas number, 0 when never set
    nextCas,    \* host: the cas number the next successful set gets
    pc,         \* per worker: "get", "set" or "done"
    seen,       \* per worker: [v, cas] that get_with_cas returned
    creators    \* ghost: the workers whose first value went in with set()

vars == <<value, cas, nextCas, pc, seen, creators>>

(* hostcalls::get_shared_data (458-487): NotFound is (None, None); a cas  *)
(* of 0 from the host is None.                                             *)
GetSharedData == [v |-> value, cas |-> cas]

(* hostcalls::set_shared_data (489-508) and the host's set: `c` is the cas *)
(* argument, cas.unwrap_or(0).  TRUE when the host answers Ok.             *)
SetSharedData(v, c) ==
    IF c = 0 \/ c = cas
    THEN /\ value' = v /\ cas' = nextCas /\ nextCas' = nextCas + 1
    ELSE UNCHANGED <<value, cas, nextCas>>

SetSucceeds(c) == c = 0 \/ c = cas

(* A mutant of get_with_cas: after a first read the worker keeps the      *)
(* value and cas it read then.                                             *)
GetWithCasCached(w) ==
    /\ pc[w] = "get"
    /\ seen' = [seen EXCEPT ![w] = IF @.cas = 0 THEN GetSharedData ELSE @]
    /\ pc' = [pc EXCEPT ![w] = "set"]
    /\ UNCHANGED <<value, cas, nextCas, creators>>

(* SharedData::get_with_cas (23-30).                                       *)
GetWithCas(w) ==
    /\ pc[w] = "get"
    /\ seen' = [seen EXCEPT ![w] = GetSharedData]
    /\ pc' = [pc EXCEPT ![w] = "set"]
    /\ UNCHANGED <<value, cas, nextCas, creators>>

(* The value the worker writes: one more than it read, 0 standing for an  *)
(* absent value.                                                           *)
Incremented(w) == IF seen[w].v = None THEN 1 ELSE seen[w].v + 1

(* SharedData::set (32-38): an unconditional set; the worker is done.      *)
Set(w) ==
    /\ pc[w] = "set" /\ seen[w].cas = 0
    /\ SetSharedData(Incremented(w), 0)
    /\ pc' = [pc EXCEPT ![w] = "done"]
    /\ creators' = creators \cup {w}
    /\ UNCHANGED seen

(* A mutant of set_with_cas: the cas is not passed (None), so the set is   *)
(* unconditional.                                                          *)
SetWithCasUnconditional(w) ==
    /\ pc[w] = "set" /\ seen[w].cas # 0
    /\ SetSharedData(Incremented(w), 0)
    /\ pc' = [pc EXCEPT ![w] = "done"]
    /\ UNCHANGED <<seen, creators>>

(* A mutant of set_with_cas: the Ok and CasMismatch arms swapped, so the   *)
(* worker reads and sets again after a set that succeeded.                 *)
SetWithCasFalseOnOk(w) ==
    /\ pc[w] = "set" /\ seen[w].cas # 0
    /\ SetSharedData(Incremented(w), seen[w].cas)
    /\ pc' = [pc EXCEPT ![w] = IF SetSucceeds(seen[w].cas) THEN "get" ELSE "done"]
    /\ UNCHANGED <<seen, creators>>

(* SharedData::set_with_cas (40-50): true on Ok, false on CasMismatch (or *)
(* any other error, which check_concern logs); on false the worker reads  *)
(* again.                                                                  *)
SetWithCas(w) ==
    /\ pc[w] = "set" /\ seen[w].cas # 0
    /\ SetSharedData(Incremented(w), seen[w].cas)
    /\ pc' = [pc EXCEPT ![w] = IF SetSucceeds(seen[w].cas) THEN "done" ELSE "get"]
    /\ UNCHANGED <<seen, creators>>

Init ==
    /\ value = IF Preset THEN 0 ELSE None
    /\ cas = IF Preset THEN 1 ELSE 0
    /\ nextCas = IF Preset THEN 2 ELSE 1
    /\ pc = [w \in Workers |-> "get"]
    /\ seen = [w \in Workers |-> [v |-> None, cas |-> 0]]
    /\ creators = {}

(* Every worker has finished: the system stops here.                       *)
Finished == \A w \in Workers : pc[w] = "done"

Next ==
    \/ \E w \in Workers : GetWithCas(w) \/ Set(w) \/ SetWithCas(w)
    \/ Finished /\ UNCHANGED vars

(* Each worker thread runs its handler to the end once it has started.     *)
Spec == Init /\ [][Next]_vars /\ \A w \in Workers : WF_vars(GetWithCas(w) \/ Set(w) \/ SetWithCas(w))

(***************************************************************************)
(* Properties                                                              *)
(***************************************************************************)

TypeOK ==
    /\ value \in {None} \cup 0..Cardinality(Workers)
    /\ cas \in 0..nextCas - 1 /\ nextCas \in 1..Cardinality(Workers) + 2
    /\ pc \in [Workers -> {"get", "set", "done"}]
    /\ \A w \in Workers : seen[w].v \in {None} \cup 0..Cardinality(Workers)
    /\ creators \subseteq Workers

(* No increment is lost: the counter always holds the number of workers   *)
(* whose get_with_cas / set_with_cas (or set) loop has finished.          *)
NoLostIncrement ==
    value # None => value = Cardinality({w \in Workers : pc[w] = "done"})

(* The check-and-set loop terminates for every worker: a set_with_cas     *)
(* fails only when another worker's set succeeded.                         *)
AllIncrementsFinish == <>Finished

(* Increments are lost only by the creation race: as long as at most one  *)
(* VM has written the key's first value with the casless set(), the       *)
(* get_with_cas / set_with_cas loops of the others, interleaved in any     *)
(* order with it and with each other, lose no increment.                   *)
LostOnlyByCreation == Cardinality(creators) <= 1 => NoLostIncrement
=============================================================================
