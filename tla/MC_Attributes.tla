---------------------------- MODULE MC_Attributes ----------------------------
EXTENDS Attributes

(* Host int values: 80, 65616 (= 2^16 + 80), 2, 2^32 + 1 and -1, as the   *)
(* 8 little-endian bytes the host sends.                                   *)
MC_IntValues == {<<80, 0, 0, 0, 0, 0, 0, 0>>, <<80, 0, 1, 0, 0, 0, 0, 0>>,
                 <<2, 0, 0, 0, 0, 0, 0, 0>>, <<1, 0, 0, 0, 1, 0, 0, 0>>,
                 <<255, 255, 255, 255, 255, 255, 255, 255>>}

(* The plugin's own property names "my.key" and "my..key".                 *)
MC_CustomNames == {<<"my", ".", "key">>, <<"my", ".", ".", "key">>}

(* request.method is left out of the passing run: see AttributesMethod.cfg. *)
MC_Excluded == {<<"request", "method">>}
MC_NoneExcluded == {}
=============================================================================
