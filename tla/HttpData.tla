------------------------------ MODULE HttpData ------------------------------
(***************************************************************************)
(* The header and buffer views proxy-sdk hands to plugin code inside a     *)
(* callback: HttpHeaderControl and HttpBodyControl of an HTTP filter       *)
(* (src/src/http.rs:51-146), StreamDataControl of an L4 filter             *)
(* (src/src/stream.rs:37-80), and the response views of outbound calls:    *)
(* HttpCallResponse (http_call.rs:77-167), GrpcCallResponse                *)
(* (grpc_call.rs:196-306) and GrpcStreamMessage (grpc_stream.rs:237-292);  *)
(* the hostcalls behind them (src/src/hostcalls.rs:294-415) and the map    *)
(* encoding of HeaderMap.                                                  *)
(*                                                                         *)
(* One callback runs at a time, and its views are borrowed by it: `view`   *)
(* is the kind of the running callback, `hmap` its header block (request   *)
(* headers, or the response headers or metadata of a call) and `body` its  *)
(* buffer.  The host delivers a block, the dispatcher snapshots its size   *)
(* into the struct handed to the plugin (header_count, body_size,          *)
(* data_size), and plugin code calls the accessors any number of times     *)
(* before returning.  Only filter views write; response views only read.   *)
(*                                                                         *)
(* The host, as Envoy implements the proxy-wasm ABI: the header map is a   *)
(* list of pairs; get returns the first value of a name, replace removes   *)
(* every pair of the name and appends one, remove removes them all, add    *)
(* appends; a map type the running callback has no map for is an error.   *)
(* A value or slice of length 0 is returned as a null pointer.             *)
(* get_buffer_bytes clamps the size to the end of the buffer;              *)
(* set_buffer_bytes replaces a prefix (drain `size` bytes, prepend) when   *)
(* start is 0, appends when start is at or past the end, and refuses       *)
(* anything else with BadArgument.                                         *)
(***************************************************************************)
EXTENDS Integers, FiniteSets, Sequences, SequencesExt, HeaderMap

CONSTANTS
    Names,      \* header names (byte strings of valid UTF-8)
    Values,     \* header values (byte strings)
    Bytes,      \* body bytes
    MaxHeaders, \* bound on pairs in a header block
    MaxBody,    \* bound on bytes in a body block
    Width,      \* bits of usize
    StartKinds, \* start bounds plugin code passes: "Included", "Unbounded", ...
    OverflowChecks,
    Excluded    \* views whose headers() AllMatchesHost leaves out

None == <<-1>>  \* Option::None, a sequence that is no byte string

R == INSTANCE BodyRange WITH sb <- [kind |-> "Unbounded", x |-> 0],
                             eb <- [kind |-> "Unbounded", x |-> 0], limit <- 0

Maps == UNION {[1..k -> Names \X Values] : k \in 0..MaxHeaders}
(* HostEncode over Maps, computed once.                                    *)
Encoded == [m \in Maps |-> HostEncode(m)]
Bodies == UNION {[1..k -> Bytes] : k \in 0..MaxBody}
(* The values plugin code writes into a body: none or one byte.            *)
SetValues == UNION {[1..k -> Bytes] : k \in 0..1}
(* The Rust ranges plugin code passes, with bounds up to the largest body. *)
StartBounds == {b \in R!Bounds(StartKinds) : b.x <= MaxBody}
EndBounds == {b \in R!Bounds({"Included", "Excluded", "Unbounded"}) : b.x <= MaxBody}

(* The callbacks that hand plugin code a view: the header and the body    *)
(* events of an HTTP filter, L4 stream data, and the responses of an HTTP  *)
(* call, a gRPC call and a gRPC stream; "none" before the first one.       *)
Views == {"headers", "body", "stream", "http_call", "grpc_call", "grpc_stream"}
(* The map type each view's all() asks the host for (HEADER_TYPE.map() for *)
(* a filter, HttpCallResponseHeaders for both call responses), and the     *)
(* map type of the block the host holds while that callback runs.          *)
AskedMap == [headers |-> "HttpRequestHeaders", http_call |-> "HttpCallResponseHeaders",
             grpc_call |-> "HttpCallResponseHeaders"]
HostMapType == [headers |-> "HttpRequestHeaders", http_call |-> "HttpCallResponseHeaders",
                grpc_call |-> "GrpcReceiveInitialMetadata"]

VARIABLES
    view,       \* the kind of the running callback
    hmap,       \* host: the header block of the running callback
    body,       \* host: the buffer of the running callback
    bsize,      \* body_size / data_size, the size snapshot taken at callback entry
    changed,    \* ghost: a set() succeeded since the buffer was delivered
    last        \* ghost: what the latest accessor call asked and got

vars == <<view, hmap, body, bsize, changed, last>>

(* The latest step reported nothing to the properties.                     *)
NoReport == [op |-> "none"]

(* Host header operations, the host side of the header map hostcalls.   *)
Without(m, n) == SelectSeq(m, LAMBDA p : p[1] # n)
FirstValue(m, n) ==
    IF \E i \in 1..Len(m) : m[i][1] = n
    THEN m[CHOOSE i \in 1..Len(m) : m[i][1] = n /\ \A j \in 1..i - 1 : m[j][1] # n][2]
    ELSE None

(* hostcalls::get_map_value (360-378): the host's first value; NotFound is *)
(* None, and so is an empty value, which the host returns as a null        *)
(* pointer that NonNull::new turns into None.                              *)
GetMapValue(m, n) == LET v == FirstValue(m, n) IN IF v = <<>> THEN None ELSE v

(* hostcalls::set_map_value (380-400): Some(value) is a replace, None a    *)
(* remove.                                                                 *)
SetMapValue(m, n, v) == IF v = None THEN Without(m, n) ELSE Append(Without(m, n), <<n, v>>)

(* hostcalls::add_map_value (402-415).                                     *)
AddMapValue(m, n, v) == Append(m, <<n, v>>)

(* hostcalls::set_map (349-357): serialize_map, then the host decodes the  *)
(* bytes; Err(BadArgument) leaves the block as it was.                     *)
SetMap(m, vs) == LET r == HostDecode(SerializeMap(vs), Encoded) IN
                 IF r.ok THEN r.map ELSE m

(* lib::log_concern (lib.rs:88-96): the value of an Ok, the type's        *)
(* Default for an Err (after a warning).                                   *)
LogConcern(ok, x, default) == IF ok THEN x ELSE default

(* hostcalls::get_map (332-347) then deserialize_map_bytes: the host sends *)
(* the encoded block of the asked map type, or an error when the running   *)
(* callback has no map of that type; log_concern(..).unwrap_or_default()   *)
(* turns an error into the empty list.                                     *)
GetMap(m, present) ==
    LET r == DeserializeMapBytes(Encoded[m]) IN LogConcern(present /\ r.ok, r.map, <<>>)

(* all() of the running view: the map it asks for, and the host's block.   *)
ReportAll ==
    last' = [op |-> "all", view |-> view, host |-> hmap,
             got |-> GetMap(hmap, AskedMap[view] = HostMapType[view])]

Reads == UNCHANGED <<view, hmap, body, bsize, changed>>
HeaderWrite == UNCHANGED <<view, body, bsize, changed>> /\ last' = NoReport

(* HttpHeaderControl::all (http.rs:59-66).                                 *)
HeadersAll == view = "headers" /\ ReportAll /\ Reads

(* HttpHeaderControl::get (68-74).                                         *)
HeadersGet(n) ==
    /\ view = "headers" /\ Reads
    /\ last' = [op |-> "value", got |-> GetMapValue(hmap, n), want |-> FirstValue(hmap, n)]

(* A mutant of set: the pair is appended like add() without removing the  *)
(* name's other pairs.                                                     *)
HeadersSetAppends(n, v) ==
    /\ view = "headers" /\ Len(Without(hmap, n)) < MaxHeaders
    /\ hmap' = Append(hmap, <<n, v>>)
    /\ HeaderWrite

(* HttpHeaderControl::set (76-82): set_map_value with Some(value).        *)
HeadersSet(n, v) ==
    /\ view = "headers" /\ Len(SetMapValue(hmap, n, v)) <= MaxHeaders
    /\ hmap' = SetMapValue(hmap, n, v)
    /\ HeaderWrite

(* HttpHeaderControl::set_all (84-90): log_concern logs a refusal.         *)
HeadersSetAll(vs) ==
    /\ view = "headers"
    /\ hmap' = SetMap(hmap, vs)
    /\ last' = [op |-> "setall", values |-> vs, host |-> hmap']
    /\ UNCHANGED <<view, body, bsize, changed>>

(* HttpHeaderControl::add (92-98).                                         *)
HeadersAdd(n, v) ==
    /\ view = "headers" /\ Len(hmap) < MaxHeaders
    /\ hmap' = AddMapValue(hmap, n, v)
    /\ HeaderWrite

(* HttpHeaderControl::remove (100-106): set_map_value with None.            *)
HeadersRemove(n) ==
    /\ view = "headers"
    /\ hmap' = SetMapValue(hmap, n, None)
    /\ HeaderWrite

(* HttpCallResponse::headers (http_call.rs:108-115).                       *)
HttpCallHeaders == view = "http_call" /\ ReportAll /\ Reads

(* GrpcCallResponse::headers (grpc_call.rs:241-247): it asks for          *)
(* HttpCallResponseHeaders, like an HTTP call response.                    *)
GrpcCallHeaders == view = "grpc_call" /\ ReportAll /\ Reads

(* hostcalls::get_buffer (294-316) and the host's get_buffer_bytes: the    *)
(* slice from `start`, clamped to the buffer; an empty slice comes back as *)
(* a null pointer, which NonNull::new turns into None.                     *)
GetBuffer(b, start, size) ==
    LET n == IF start + size > Len(b) THEN Len(b) - start ELSE size IN
    IF start > Len(b) \/ n = 0 THEN None ELSE SubSeq(b, start + 1, start + n)

(* The bytes of `b` a Rust range selects, a contiguous run (the reference). *)
RangeOf(b, s, e) ==
    LET idx == {i \in 0..Len(b) - 1 : R!AfterStart(i, s) /\ R!BeforeEnd(i, e)} IN
    IF idx = {} THEN <<>> ELSE SubSeq(b, Min(idx) + 1, Max(idx) + 1)

(* A get() with the (start, size) pair `o`: what it returns, next to the   *)
(* bytes its range selects.                                                *)
ReportGet(o, s, e) ==
    last' = [op |-> "get", want |-> RangeOf(body, s, e),
             got |-> GetBuffer(body, o[1], o[2]), fresh |-> ~changed]

(* A read of the running view's buffer through the range computation     *)
(* `outcomes`.                                                             *)
ReadBuffer(v, outcomes, s, e) ==
    /\ view = v /\ Reads
    /\ \E o \in outcomes : o # R!Panic /\ ReportGet(o, s, e)

(* A mutant of get: the range is computed against one byte less than the   *)
(* snapshot size.                                                          *)
BodyGetShort(s, e) == ReadBuffer("body", R!CalculateRange(s, e, bsize - 1), s, e)

(* HttpBodyControl::get (114-121) and all(): calculate_range against the   *)
(* body_size snapshot, then get_buffer.                                    *)
BodyGet(s, e) == ReadBuffer("body", R!CalculateRange(s, e, bsize), s, e)

(* StreamDataControl::get (stream.rs:53-60) and all(), against data_size.  *)
StreamDataGet(s, e) == ReadBuffer("stream", R!CalculateRange(s, e, bsize), s, e)

(* The start/size computation HttpCallResponse::body (http_call.rs:126-138) *)
(* inlines, identical to calculate_range; GrpcCallResponse::body and       *)
(* GrpcStreamMessage::body inline it again.                                *)
InlinedRange(s, e, size) == R!CalculateRange(s, e, size)

(* HttpCallResponse::body and full_body (http_call.rs:125-149).            *)
HttpCallBody(s, e) == ReadBuffer("http_call", InlinedRange(s, e, bsize), s, e)

(* GrpcCallResponse::body and full_body (grpc_call.rs:258-287).            *)
GrpcCallBody(s, e) == ReadBuffer("grpc_call", InlinedRange(s, e, bsize), s, e)

(* GrpcStreamMessage::body and full_body (grpc_stream.rs:268-291).         *)
GrpcStreamBody(s, e) == ReadBuffer("grpc_stream", InlinedRange(s, e, bsize), s, e)

(* A mutant of the host's set_buffer_bytes: a write at 0 prepends without  *)
(* draining the `size` bytes it replaces.                                  *)
SetBufferNoDrain(b, start, size, v) ==
    CASE start = 0 -> [ok |-> TRUE, buf |-> v \o b]
      [] start >= Len(b) -> [ok |-> TRUE, buf |-> b \o v]
      [] OTHER -> [ok |-> FALSE, buf |-> b]

(* hostcalls::set_buffer (318-330) and the host's set_buffer_bytes.        *)
SetBuffer(b, start, size, v) ==
    CASE start = 0 -> [ok |-> TRUE,
                       buf |-> v \o SubSeq(b, IF size > Len(b) THEN Len(b) + 1 ELSE size + 1, Len(b))]
      [] start >= Len(b) -> [ok |-> TRUE, buf |-> b \o v]
      [] OTHER -> [ok |-> FALSE, buf |-> b]

(* Reference: `b` with the slice a Rust range selects replaced by `v`; an  *)
(* empty range is an insertion at its start (at the end when it starts     *)
(* past it).                                                               *)
RangeFirst(s) == CASE s.kind = "Included" -> s.x [] s.kind = "Excluded" -> s.x + 1 [] OTHER -> 0
RangeStop(e, n) == CASE e.kind = "Included" -> e.x + 1 [] e.kind = "Excluded" -> e.x [] OTHER -> n
Replaced(b, s, e, v) ==
    LET lo == R!MinUsize(RangeFirst(s), Len(b))
        hi == IF R!MinUsize(RangeStop(e, Len(b)), Len(b)) > lo
              THEN R!MinUsize(RangeStop(e, Len(b)), Len(b)) ELSE lo
    IN SubSeq(b, 1, lo) \o v \o SubSeq(b, hi + 1, Len(b))

(* A set() of the running view's buffer: calculate_range against the size *)
(* snapshot, then set_buffer; log_concern swallows a refusal.              *)
WriteBuffer(v, s, e, val) ==
    /\ view = v
    /\ \E o \in R!CalculateRange(s, e, bsize) :
         LET r == SetBuffer(body, o[1], o[2], val) IN
         /\ o # R!Panic
         /\ Len(r.buf) <= MaxBody
         /\ body' = r.buf
         /\ changed' = (changed \/ r.ok)
         /\ last' = IF r.ok THEN [op |-> "set", want |-> Replaced(body, s, e, val),
                                  got |-> r.buf, fresh |-> ~changed]
                    ELSE [op |-> "refused", fresh |-> ~changed]
    /\ UNCHANGED <<view, hmap, bsize>>

(* HttpBodyControl::set (123-145), and replace() and clear() through it.   *)
BodySet(s, e, val) == WriteBuffer("body", s, e, val)

(* StreamDataControl::set (stream.rs:62-69), replace() and clear().        *)
StreamDataSet(s, e, val) == WriteBuffer("stream", s, e, val)

(* A callback starts: its kind, header block and buffer, with the sizes    *)
(* snapshot into the struct the plugin gets.                               *)
Deliver(v, m, b) ==
    /\ view' = v /\ hmap' = m /\ body' = b /\ bsize' = Len(b)
    /\ changed' = FALSE /\ last' = NoReport

(* on_http_request_headers and the other header and trailer events        *)
(* (dispatcher.rs:640-664): a new header block and header_count.           *)
OnHttpHeaders(m) == Deliver("headers", m, <<>>)

(* on_http_request_body and on_http_response_body (666-686).              *)
OnHttpBody(b) == Deliver("body", <<>>, b)

(* on_downstream_data and on_upstream_data (576-592, 607-623).             *)
OnStreamData(b) == Deliver("stream", <<>>, b)

(* on_http_call_response (762-791): HttpCallResponse::new with the         *)
(* response's header count and body size.                                  *)
OnHttpCallResponse(m, b) == Deliver("http_call", m, b)

(* on_grpc_receive for a unary call (822-839): GrpcCallResponse::new with  *)
(* the response size; `m` is the metadata the response came with.         *)
OnGrpcReceive(m, b) == Deliver("grpc_call", m, b)

(* on_grpc_receive for a stream (840-866): GrpcStreamMessage::new.         *)
OnGrpcStreamMessage(b) == Deliver("grpc_stream", <<>>, b)

Init ==
    /\ view = "none" /\ hmap = <<>> /\ body = <<>> /\ bsize = 0
    /\ changed = FALSE /\ last = NoReport

Next ==
    \/ HeadersAll \/ HttpCallHeaders \/ GrpcCallHeaders
    \/ \E n \in Names : HeadersGet(n) \/ HeadersRemove(n)
    \/ \E n \in Names, v \in Values : HeadersSet(n, v) \/ HeadersAdd(n, v)
    \/ \E vs \in Maps : HeadersSetAll(vs)
    \/ \E s \in StartBounds, e \in EndBounds :
         \/ BodyGet(s, e) \/ StreamDataGet(s, e)
         \/ HttpCallBody(s, e) \/ GrpcCallBody(s, e) \/ GrpcStreamBody(s, e)
    \/ \E s \in StartBounds, e \in EndBounds, v \in SetValues :
         BodySet(s, e, v) \/ StreamDataSet(s, e, v)
    \/ \E m \in Maps : OnHttpHeaders(m)
    \/ \E b \in Bodies : OnHttpBody(b) \/ OnStreamData(b) \/ OnGrpcStreamMessage(b)
    \/ \E m \in Maps, b \in Bodies : OnHttpCallResponse(m, b) \/ OnGrpcReceive(m, b)

Spec == Init /\ [][Next]_vars

(***************************************************************************)
(* Properties                                                              *)
(***************************************************************************)

TypeOK ==
    /\ view \in Views \cup {"none"}
    /\ hmap \in Maps /\ body \in Bodies
    /\ bsize \in 0..MaxBody /\ changed \in BOOLEAN
    /\ last.op \in {"none", "all", "value", "setall", "get", "set", "refused"}
    /\ last.op \in {"all", "setall"} => last.host \in Maps

(* all() of a filter's header block and of an HTTP call's response returns *)
(* every header of the block, in the host's order, with names and values   *)
(* intact: get_map asks for the map the host holds and                     *)
(* deserialize_map_bytes reads back exactly what the host encoded.         *)
AllMatchesHost == last.op = "all" /\ last.view \notin Excluded => last.got = last.host

(* set_all(values) leaves the block holding exactly `values`: the host    *)
(* accepts the bytes serialize_map produces and decodes them to the same  *)
(* pairs.                                                                  *)
SetAllStores == last.op = "setall" => last.host = last.values

(* Before plugin code changes the buffer, get(range) of every view (HTTP  *)
(* body, L4 data, call and stream responses) returns exactly the bytes the *)
(* range selects, and None only when it selects none.                      *)
GetReturnsRange ==
    last.op = "get" /\ last.fresh => last.got = IF last.want = <<>> THEN None ELSE last.want

(* The same after a set(): body_size is the size at callback entry.        *)
GetReturnsRangeAfterSet ==
    last.op = "get" => last.got = IF last.want = <<>> THEN None ELSE last.want

(* A set(range, value) of an HTTP body or of L4 data that the host accepts *)
(* on a buffer plugin code has not changed yet replaces exactly the range  *)
(* by `value`: calculate_range's size is what set_buffer_bytes drains      *)
(* before it prepends, so set(.., v), replace(v) and clear() leave exactly *)
(* `v`.                                                                    *)
SetReplacesRange == last.op = "set" /\ last.fresh => last.got = last.want

(* set(range, value) of a buffer plugin code has not changed yet takes    *)
(* effect, as HttpBodyControl::set and StreamDataControl::set promise ("Set *)
(* a range"): log_concern would hide a refusal of the host.               *)
SetTakesEffect == last.op = "refused" => ~last.fresh

(* get(name) returns the first value of the name, None only when the block *)
(* has no such header.                                                     *)
GetReturnsHeader ==
    last.op = "value" => last.got = IF last.want = None THEN None ELSE last.want
=============================================================================
