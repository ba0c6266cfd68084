----------------------------- MODULE Attributes -----------------------------
(***************************************************************************)
(* The Envoy attribute accessors of proxy-sdk (src/src/property/envoy.rs,  *)
(* all.rs, mod.rs) over the property hostcalls (hostcalls.rs:417-455 and  *)
(* serialize_property_path, 931-943).                                      *)
(*                                                                         *)
(* Every accessor is one row of a table: the name string it passes to      *)
(* get_property_string / _int / _bool / _decode, which of those it calls,  *)
(* and the conversion applied to the result (a cast, a parse, a check).    *)
(* A name is a sequence of text tokens in which "." is the dot character;  *)
(* get_property splits it on '.', serialize_property_path joins the parts  *)
(* with NUL bytes, and the host splits the path it receives on NUL again.  *)
(*                                                                         *)
(* The host holds the attributes as the bytes it hands out: an int or uint *)
(* attribute is 8 bytes little endian (two's complement), a bool is one    *)
(* byte, a string or a message is abstracted to one token.  The host      *)
(* answers NotFound for a path it has no value for, and a null pointer    *)
(* for an empty value.  Which attributes hold a value changes between      *)
(* callbacks as the stream goes on.                                        *)
(***************************************************************************)
EXTENDS Integers, FiniteSets, Sequences, SequencesExt

CONSTANTS
    IntValues,      \* 8-byte LE values the host gives int attributes
    StrValues,      \* string values (one token each) of string attributes
    ProtoValues,    \* serialized messages ("neg": a negative Timestamp/Duration)
    AddrStrings,    \* the StrValues that parse as a SocketAddr
    UsizeBytes,     \* size of usize: 4 on wasm32, 8 on a 64-bit native host
    CustomNames,    \* names the plugin passes to set_property/get_property
    MaxPresent,     \* bound on attributes holding a value at once
    Excluded        \* accessors the properties leave out (a known finding)

None == <<"none">>      \* Option::None
Unpromised == <<"any">> \* no value is promised (an out-of-range int)
NulByte == "NUL"        \* the 0 byte of a serialized property path

(* A name string "a.b" and "a" as token sequences.                         *)
Dot(a, b) == <<a, ".", b>>
Word(a) == <<a>>

(* str::split on `sep` over a token sequence: the parts are strings.      *)
RECURSIVE SplitOn(_, _)
SplitOn(s, sep) ==
    IF s = <<>> THEN <<"">>
    ELSE LET rest == SplitOn(Tail(s), sep) IN
         IF Head(s) = sep THEN <<"">> \o rest
         ELSE <<Head(s) \o rest[1]>> \o Tail(rest)

(* The bytes of a part: an empty part has none.                            *)
PartBytes(p) == IF p = "" THEN <<>> ELSE <<p>>

(* A mutant of serialize_property_path: the trailing NUL is not popped.    *)
SerializePathNoPop(path) ==
    FlattenSeq([i \in 1..Len(path) |-> PartBytes(path[i]) \o <<NulByte>>])

(* utils::serialize_property_path (hostcalls.rs:931-943): each part and a  *)
(* NUL, then the last NUL popped when anything was written.                *)
SerializePropertyPath(path) ==
    LET out == FlattenSeq([i \in 1..Len(path) |-> PartBytes(path[i]) \o <<NulByte>>])
    IN IF out = <<>> THEN out ELSE Front(out)

(***************************************************************************)
(* The accessor tables: <<field, name, getter, conversion>>.               *)
(***************************************************************************)

(* RequestAttributes (envoy.rs:62-157).                                    *)
RequestAccessors == {
    <<"path", Dot("request", "path"), "string", "none">>,
    <<"url_path", Dot("request", "url_path"), "string", "none">>,
    <<"host", Dot("request", "host"), "string", "none">>,
    <<"scheme", Dot("request", "scheme"), "string", "none">>,
    <<"method", Dot("request", "scheme"), "string", "none">>,
    <<"headers", Dot("request", "headers"), "decode", "none">>,
    <<"referer", Dot("request", "referer"), "string", "none">>,
    <<"useragent", Dot("request", "useragent"), "string", "none">>,
    <<"time", Dot("request", "time"), "decode", "nonneg">>,
    <<"id", Dot("request", "id"), "string", "none">>,
    <<"protocol", Dot("request", "protocol"), "string", "none">>,
    <<"query", Dot("request", "query"), "string", "none">>,
    <<"duration", Dot("request", "duration"), "decode", "nonneg">>,
    <<"size", Dot("request", "size"), "int", "usize">>,
    <<"total_size", Dot("request", "total_size"), "int", "usize">>}

(* ResponseAttributes (envoy.rs:159-206).                                  *)
ResponseAccessors == {
    <<"code", Dot("response", "code"), "int", "u32">>,
    <<"code_details", Dot("response", "code_details"), "string", "none">>,
    <<"flags", Dot("response", "flags"), "int", "u64">>,
    <<"grpc_status", Dot("response", "grpc_status"), "int", "u32">>,
    <<"headers", Dot("response", "headers"), "decode", "none">>,
    <<"trailers", Dot("response", "trailers"), "decode", "none">>,
    <<"size", Dot("response", "size"), "int", "usize">>,
    <<"total_size", Dot("response", "total_size"), "int", "usize">>}

(* ConnectionAttributes (envoy.rs:208-292).                                *)
ConnectionAccessors == {
    <<"source_address", Dot("source", "address"), "string", "addr">>,
    <<"source_port", Dot("source", "port"), "int", "u16">>,
    <<"destination_address", Dot("destination", "address"), "string", "addr">>,
    <<"destination_port", Dot("destination", "port"), "int", "u16">>,
    <<"id", Dot("connection", "id"), "int", "u64">>,
    <<"mtls", Dot("connection", "mtls"), "bool", "none">>} \cup
    {<<f, Dot("connection", f), "string", "none">> :
        f \in {"requested_server_name", "tls_version",
               "subject_local_certificate", "subject_peer_certificate",
               "dns_san_local_certificate", "dns_san_peer_certificate",
               "uri_san_local_certificate", "uri_san_peer_certificate",
               "sha256_peer_certificate_digest", "termination_details"}}

(* UpstreamAttributes (envoy.rs:294-357).                                  *)
UpstreamAccessors == {
    <<"address", Dot("upstream", "address"), "string", "addr">>,
    <<"port", Dot("upstream", "port"), "int", "u16">>} \cup
    {<<f, Dot("upstream", f), "string", "none">> :
        f \in {"tls_version", "subject_local_certificate",
               "subject_peer_certificate", "dns_san_local_certificate",
               "dns_san_peer_certificate", "uri_san_local_certificate",
               "uri_san_peer_certificate", "sha256_peer_certificate_digest",
               "local_address", "transport_failure_reason"}}

(* MetadataAttributes (envoy.rs:359-374).                                  *)
MetadataAccessors == {
    <<"metadata", Word("metadata"), "decode", "none">>,
    <<"filter_state", Word("filter_state"), "decode", "none">>}

(* ConfigurationAttributes (envoy.rs:376-409).                             *)
ConfigurationAccessors == {
    <<"cluster_name", Dot("xds", "cluster_name"), "string", "none">>,
    <<"cluster_metadata", Dot("xds", "cluster_metadata"), "decode", "none">>,
    <<"route_name", Dot("xds", "route_name"), "string", "none">>,
    <<"route_metadata", Dot("xds", "route_metadata"), "decode", "none">>,
    <<"upstream_host_metadata", Dot("xds", "upstream_host_metadata"), "decode", "none">>,
    <<"filter_chain_name", Dot("xds", "filter_chain_name"), "string", "none">>}

(* WasmAttributes (envoy.rs:430-492).                                      *)
WasmAccessors == {
    <<"plugin_name", Word("plugin_name"), "string", "none">>,
    <<"plugin_root_id", Word("plugin_root_id"), "string", "none">>,
    <<"plugin_vm_id", Word("plugin_vm_id"), "string", "none">>,
    <<"node", Word("node"), "decode", "none">>,
    <<"cluster_name", Word("cluster_name"), "string", "none">>,
    <<"cluster_metadata", Word("cluster_metadata"), "decode", "none">>,
    <<"listener_direction", Word("listener_direction"), "int", "direction">>,
    <<"listener_metadata", Word("listener_metadata"), "decode", "none">>,
    <<"route_name", Word("route_name"), "string", "none">>,
    <<"route_metadata", Word("route_metadata"), "decode", "none">>,
    <<"upstream_host_metadata", Word("upstream_host_metadata"), "decode", "none">>}

Sections == [request |-> RequestAccessors, response |-> ResponseAccessors,
             connection |-> ConnectionAccessors, upstream |-> UpstreamAccessors,
             metadata |-> MetadataAccessors, configuration |-> ConfigurationAccessors,
             wasm |-> WasmAccessors]

(* An accessor: <<section, field>>, and its row.                           *)
Accessors == UNION {{<<s, r[1]>> : r \in Sections[s]} : s \in DOMAIN Sections}
Row(a) == CHOOSE r \in Sections[a[1]] : r[1] = a[2]

(***************************************************************************)
(* Reading: get_property and the typed getters (property/mod.rs).          *)
(***************************************************************************)

Some(x) == <<"some", x>>

(* hostcalls::get_property (hostcalls.rs:417-437) for a path the plugin    *)
(* built: the host splits the serialized path on NUL; NotFound is None,   *)
(* and so is Ok with the null pointer the host returns for an empty value. *)
GetPropertyCall(path, store) ==
    LET hostPath == SplitOn(SerializePropertyPath(path), NulByte) IN
    IF hostPath \in DOMAIN store /\ store[hostPath] # <<>>
    THEN Some(store[hostPath]) ELSE None

(* property::get_property (mod.rs:8-13): the name split on '.'; an error   *)
(* status is logged by log_concern and read as None.                       *)
GetProperty(name, store) == GetPropertyCall(SplitOn(name, "."), store)

(* get_property_int (mod.rs:26-32): exactly 8 bytes, read as an i64; the   *)
(* i64 is kept as its little-endian bytes.  get_property_bool (34-40):    *)
(* exactly one byte, true unless 0.  get_property_decode (42-51): the      *)
(* host's messages always decode.  get_property_string (15-17): the        *)
(* tokens are valid UTF-8, so from_utf8_lossy keeps them.                  *)
Getter(kind, name, store) ==
    LET raw == GetProperty(name, store) IN
    IF raw = None THEN None
    ELSE CASE kind = "int"    -> IF Len(raw[2]) # 8 THEN None ELSE raw
           [] kind = "bool"   -> IF Len(raw[2]) # 1 THEN None ELSE Some(raw[2][1] # 0)
           [] kind = "decode" -> Some(raw[2][1])
           [] kind = "string" -> raw

(* An i64 in 0..255 as its 8 little-endian bytes.                          *)
LE64(n) == <<n, 0, 0, 0, 0, 0, 0, 0>>

(* ListenerDirection::from_i64 (envoy.rs:411-428).                         *)
Direction == [Unspecified |-> 0, Inbound |-> 1, Outbound |-> 2]
FromI64(x) ==
    IF \E d \in DOMAIN Direction : x = LE64(Direction[d])
    THEN Some(CHOOSE d \in DOMAIN Direction : x = LE64(Direction[d]))
    ELSE None

(* The bytes an integer cast keeps: `as u16`, `as u32`, `as u64` and       *)
(* `as usize` truncate the i64 to its low bytes.                           *)
CastBytes(conv) == CASE conv = "u16" -> 2 [] conv = "u32" -> 4
                     [] conv = "u64" -> 8 [] conv = "usize" -> UsizeBytes

(* A mutant of the conversions: `as u16` keeps three bytes.                *)
ConvertWideU16(conv, v) ==
    IF v = None THEN None
    ELSE CASE conv = "none"      -> v
           [] conv = "u16"       -> Some(SubSeq(v[2], 1, 3))
           [] conv \in {"u32", "u64", "usize"} -> Some(SubSeq(v[2], 1, CastBytes(conv)))
           [] conv = "direction" -> FromI64(v[2])
           [] conv = "addr"      -> IF v[2][1] \in AddrStrings THEN v ELSE None
           [] conv = "nonneg"    -> IF v[2] = "neg" THEN None ELSE v

(* The conversions the accessors apply to the getter's Option: the casts,  *)
(* ListenerDirection::from_i64, SocketAddr parse().ok(), and the negative  *)
(* seconds/nanos check of time() and duration() (envoy.rs:109-117,         *)
(* 136-144).                                                               *)
Convert(conv, v) ==
    IF v = None THEN None
    ELSE CASE conv = "none"      -> v
           [] conv \in {"u16", "u32", "u64", "usize"} -> Some(SubSeq(v[2], 1, CastBytes(conv)))
           [] conv = "direction" -> FromI64(v[2])
           [] conv = "addr"      -> IF v[2][1] \in AddrStrings THEN v ELSE None
           [] conv = "nonneg"    -> IF v[2] = "neg" THEN None ELSE v

(* What accessor `a` returns with the host's attributes `store`.           *)
Accessor(a, store) == LET r == Row(a) IN Convert(r[4], Getter(r[3], r[2], store))

(***************************************************************************)
(* AllAttributes::get (all.rs), which the Debug impl of Attributes prints: *)
(* each field of each All*Attributes struct is filled by one accessor.     *)
(***************************************************************************)

Fields(s) == {r[1] : r \in Sections[s]}

(* AllRequestAttributes (all.rs:33-72).                                    *)
AllRequest == [f \in Fields("request") |-> <<"request", f>>]

(* AllResponseAttributes (all.rs:74-99).                                   *)
AllResponse == [f \in Fields("response") |-> <<"response", f>>]

(* AllConnectionAttributes (all.rs:101-142).                               *)
AllConnection == [f \in Fields("connection") |-> <<"connection", f>>]

(* AllUpstreamAttributes (all.rs:144-177).                                 *)
AllUpstream == [f \in Fields("upstream") |-> <<"upstream", f>>]

(* AllMetadataAttributes (all.rs:179-192).                                 *)
AllMetadata == [f \in Fields("metadata") |-> <<"metadata", f>>]

(* AllConfigurationAttributes (all.rs:194-215).                            *)
AllConfiguration == [f \in Fields("configuration") |-> <<"configuration", f>>]

(* AllWasmAttributes (all.rs:217-248).                                     *)
AllWasm == [f \in Fields("wasm") |-> <<"wasm", f>>]

(* AllAttributes::get (all.rs:8-31): field <<section, name>> -> the        *)
(* accessor that fills it.                                                 *)
AllAttributesGet ==
    LET bySection == [request |-> AllRequest, response |-> AllResponse,
                      connection |-> AllConnection, upstream |-> AllUpstream,
                      metadata |-> AllMetadata, configuration |-> AllConfiguration,
                      wasm |-> AllWasm]
    IN [fld \in Accessors |-> bySection[fld[1]][fld[2]]]

(***************************************************************************)
(* The reference: the attribute each accessor's name and documentation     *)
(* stand for, in Envoy's attribute vocabulary, and the value that          *)
(* attribute has as the accessor's Rust type.                              *)
(***************************************************************************)

ConnectionEndpoints ==
    [source_address |-> <<"source", "address">>, source_port |-> <<"source", "port">>,
     destination_address |-> <<"destination", "address">>,
     destination_port |-> <<"destination", "port">>]

(* The Envoy attribute path of accessor <<section, field>>.                *)
DocPath(a) ==
    LET s == a[1]  f == a[2] IN
    CASE s \in {"request", "response", "upstream"} -> <<s, f>>
      [] s = "connection" -> IF f \in DOMAIN ConnectionEndpoints
                             THEN ConnectionEndpoints[f] ELSE <<"connection", f>>
      [] s = "configuration" -> <<"xds", f>>
      [] s \in {"metadata", "wasm"} -> <<f>>

(* An int attribute fits `w` bytes when its higher bytes are 0; a u64      *)
(* takes all 8 (the host's uint attributes).                               *)
Fits(v, w) == \A i \in w + 1 .. 8 : v[i] = 0

(* The value of accessor a's attribute in `store`, as its Rust type;       *)
(* Unpromised where the type cannot hold it.                               *)
Want(a, store) ==
    LET p == DocPath(a)  r == Row(a) IN
    IF p \notin DOMAIN store THEN None
    ELSE LET v == store[p] IN
    CASE r[4] \in {"u16", "u32", "u64", "usize"} ->
              IF Fits(v, CastBytes(r[4])) THEN Some(SubSeq(v, 1, CastBytes(r[4])))
              ELSE Unpromised
      [] r[4] = "direction" ->
              IF \E d \in DOMAIN Direction : v = LE64(Direction[d])
              THEN Some(CHOOSE d \in DOMAIN Direction : v = LE64(Direction[d]))
              ELSE Unpromised
      [] r[3] = "bool"   -> Some(v = <<1>>)
      [] r[4] = "addr"   -> IF v[1] \in AddrStrings THEN Some(v) ELSE None
      [] r[4] = "nonneg" -> IF v[1] = "neg" THEN Unpromised ELSE Some(v[1])
      [] r[3] = "decode" -> Some(v[1])
      [] OTHER           -> Some(v)

(* The values the host can give the attribute of accessor a.               *)
HostValues(a) ==
    CASE Row(a)[3] = "int"    -> IntValues
      [] Row(a)[3] = "bool"   -> {<<0>>, <<1>>}
      [] Row(a)[3] = "decode" -> {<<m>> : m \in ProtoValues}
      [] Row(a)[3] = "string" -> {<<t>> : t \in StrValues}

DocPaths == {DocPath(a) : a \in Accessors}
ValuesAt == [p \in DocPaths |-> HostValues(CHOOSE a \in Accessors : DocPath(a) = p)]

CustomPaths == {SplitOn(n, ".") : n \in CustomNames}

VARIABLES
    attrs,      \* host: attribute path -> its bytes, for the paths holding a value
    lastRead,   \* ghost: the latest accessor or get_property call [acc, got, want]
    lastAll     \* ghost: the latest AllAttributes::get, field -> [got, want]

vars == <<attrs, lastRead, lastAll>>

(* The host gives attribute p the value v as the stream goes on between    *)
(* callbacks.                                                              *)
HostChanges(p, v) ==
    /\ attrs' = (p :> v) @@ attrs
    /\ Cardinality(DOMAIN attrs') <= MaxPresent
    /\ lastRead' = {} /\ lastAll' = {}

(* The host no longer has a value for attribute p.                         *)
HostDrops(p) ==
    /\ p \in DOMAIN attrs
    /\ attrs' = [q \in DOMAIN attrs \ {p} |-> attrs[q]]
    /\ lastRead' = {} /\ lastAll' = {}

(* A handler calls one accessor of its Attributes (envoy.rs).              *)
ReadAttribute(a) ==
    /\ lastRead' = {[acc |-> a, got |-> Accessor(a, attrs), want |-> Want(a, attrs)]}
    /\ lastAll' = {}
    /\ UNCHANGED attrs

(* <Attributes as Debug>::fmt (envoy.rs:56-60): AllAttributes::get reads   *)
(* every accessor into its field.                                          *)
DebugAttributes ==
    /\ lastAll' = {[fld \in Accessors |->
                     [got |-> Accessor(AllAttributesGet[fld], attrs),
                      want |-> Want(fld, attrs)]]}
    /\ lastRead' = {}
    /\ UNCHANGED attrs

(* hostcalls::set_property (hostcalls.rs:439-455) with Some(value): the   *)
(* host stores the value under the path it decodes.                        *)
SetPropertyCall(path, v) ==
    (SplitOn(SerializePropertyPath(path), NulByte) :> <<v>>) @@ attrs

(* property::set_property (mod.rs:19-24): the name split on '.'; an error  *)
(* status is only logged.                                                  *)
SetProperty(n, v) ==
    /\ attrs' = SetPropertyCall(SplitOn(n, "."), v)
    /\ Cardinality(DOMAIN attrs') <= MaxPresent
    /\ lastRead' = {} /\ lastAll' = {}

(* property::get_property (mod.rs:8-13) of a name the plugin set.          *)
GetCustom(n) ==
    /\ lastRead' = {[acc |-> n, got |-> GetProperty(n, attrs),
                     want |-> IF SplitOn(n, ".") \in DOMAIN attrs
                              THEN Some(attrs[SplitOn(n, ".")]) ELSE None]}
    /\ lastAll' = {}
    /\ UNCHANGED attrs

Init == attrs = [p \in {} |-> None] /\ lastRead = {} /\ lastAll = {}

Next ==
    \/ \E p \in DocPaths \cup CustomPaths : HostDrops(p)
    \/ \E p \in DocPaths : \E v \in ValuesAt[p] : HostChanges(p, v)
    \/ \E a \in Accessors : ReadAttribute(a)
    \/ DebugAttributes
    \/ \E n \in CustomNames, v \in StrValues : SetProperty(n, v)
    \/ \E n \in CustomNames : GetCustom(n)

Spec == Init /\ [][Next]_vars

(***************************************************************************)
(* Properties                                                              *)
(***************************************************************************)

(* A result of accessor a has the Rust type the accessor declares.         *)
RustValue(a, g) ==
    \/ g = None
    \/ /\ g[1] = "some"
       /\ CASE Row(a)[4] \in {"u16", "u32", "u64", "usize"} ->
                   g[2] \in [1..CastBytes(Row(a)[4]) -> 0..255]
            [] Row(a)[4] = "direction" -> g[2] \in DOMAIN Direction
            [] Row(a)[3] = "bool" -> g[2] \in BOOLEAN
            [] OTHER -> TRUE

TypeOK ==
    /\ DOMAIN attrs \subseteq DocPaths \cup CustomPaths
    /\ Cardinality(DOMAIN attrs) <= MaxPresent
    /\ \A r \in lastRead : r.acc \in Accessors => RustValue(r.acc, r.got)
    /\ \A l \in lastAll : DOMAIN l = Accessors /\ \A f \in Accessors : RustValue(f, l[f].got)

(* Every accessor, and every get_property of a name the plugin set,        *)
(* returns the value of the attribute it is named and documented for,      *)
(* converted to its Rust type, whenever that type can hold it; None when   *)
(* the host has no value.                                                  *)
AccessorReturnsAttribute ==
    \A r \in lastRead :
        r.acc \notin Excluded /\ r.want # Unpromised => r.got = r.want

(* An accessor never returns a value the attribute does not have: an int  *)
(* attribute out of the range of the accessor's type gives None, not a     *)
(* wrapped number.                                                         *)
NoWrappedValue ==
    \A r \in lastRead : r.want = Unpromised => r.got = None

=============================================================================
