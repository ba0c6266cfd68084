---------------------------- MODULE MC_HttpData ----------------------------
(* Small instances of HttpData: two one-byte names, an empty and a         *)
(* one-byte value (the value byte is 0, the map separator), two body       *)
(* bytes.                                                                  *)
EXTENDS HttpData

MC_Names == {<<104>>, <<120>>}
MC_Values == {<<>>, <<0>>}
MC_Bytes == {1, 2}
(* AllMatchesHost is stated of the views whose all() asks for the map the  *)
(* host holds; GrpcCallResponse::headers() asks for another one.           *)
MC_Excluded == {"grpc_call"}
MC_NoneExcluded == {}
=============================================================================
