-------------------------- MODULE PendingCallbacks --------------------------
(***************************************************************************)
(* What proxy-sdk's dispatcher promises a plugin about the callbacks of    *)
(* its unary outbound calls (HttpCall::dispatch, GrpcCall::dispatch with a *)
(* callback), stated without tokens, maps or contexts.                     *)
(*                                                                         *)
(* A call registered with a callback is pending.  A pending callback      *)
(* leaves the set in exactly one of three ways: it fires (and runs until   *)
(* its plugin code returns), it is discarded without running (its context  *)
(* is gone or the gRPC status could not be read), or the VM's state is    *)
(* wiped altogether (the VM restarts or traps).  Hence a callback runs     *)
(* only for a call that registered it, at most once, and one at a time.   *)
(*                                                                         *)
(* Dispatcher refines this specification under the mapping given there    *)
(* (Dispatcher.tla, PendingCallbacksRefined).                              *)
(***************************************************************************)
CONSTANTS
    Calls,      \* identities of outbound calls
    NoCall      \* no callback is running

VARIABLES
    pending,    \* calls whose callback is registered and has not run
    running     \* the call whose callback is running, or NoCall

vars == <<pending, running>>

Init == pending = {} /\ running = NoCall

Register(c) ==
    /\ c \notin pending /\ c # running
    /\ pending' = pending \cup {c}
    /\ UNCHANGED running

Fire(c) ==
    /\ c \in pending /\ running = NoCall
    /\ pending' = pending \ {c}
    /\ running' = c

Discard(c) ==
    /\ c \in pending
    /\ pending' = pending \ {c}
    /\ UNCHANGED running

Finish ==
    /\ running # NoCall
    /\ running' = NoCall
    /\ UNCHANGED pending

Wipe ==
    /\ pending' = {} /\ running' = NoCall

Next ==
    \/ \E c \in Calls : Register(c) \/ Fire(c) \/ Discard(c)
    \/ Finish
    \/ Wipe

Spec == Init /\ [][Next]_vars
=============================================================================
