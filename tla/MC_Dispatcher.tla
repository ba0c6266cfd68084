--------------------------- MODULE MC_Dispatcher ---------------------------
(* Model-checking instance of Dispatcher: two context ids, two call tokens *)
(* and one queue, all model values.                                        *)
EXTENDS Dispatcher

CONSTANTS c1, c2, t1, t2, q1

MC_Ids == {c1, c2}
MC_Tokens == {t1, t2}
MC_Queues == {q1}

(* Context ids and tokens are interchangeable (no property or action       *)
(* orders them); used only by runs without liveness properties.            *)
MC_Symmetry == Permutations(MC_Ids) \cup Permutations(MC_Tokens)

(* Plugin code that issues calls from event handlers and from callbacks,   *)
(* but not from queue callbacks or create_context.                         *)
MC_PluginCalls == {"root", "child", "http_cb", "grpc_cb", "stream_msg", "stream_close"}
(* Plugin code that also issues calls from queue callbacks and from        *)
(* create_context.                                                         *)
MC_PluginCallsAll == FrameKinds
=============================================================================
