----------------------------- MODULE HeaderMap -----------------------------
(***************************************************************************)
(* The wire encoding proxy-sdk uses to pass header maps to and from the    *)
(* host (src/src/hostcalls.rs, mod utils, lines 945-985).                  *)
(*                                                                         *)
(* A byte string is a sequence of integers in 0..255.  A header map is a   *)
(* sequence of <<name, value>> pairs of byte strings.  The map encoding of *)
(* the proxy-wasm ABI is: the pair count as a little-endian u32, then for  *)
(* each pair the name length and the value length as little-endian u32s,   *)
(* then for each pair the name, a NUL, the value and a NUL.                *)
(*                                                                         *)
(* SerializeMap and DeserializeMapBytes translate the plugin's code;       *)
(* HostEncode and HostDecode are the host's side of the same ABI, written  *)
(* as reference definitions: the host encodes pair by pair, and decodes a  *)
(* byte string to the one map whose encoding it is.                        *)
(***************************************************************************)
EXTENDS Integers, Sequences, SequencesExt

(* u32::to_le_bytes and u32::from_le_bytes.                                *)
LE32(n) == [i \in 1..4 |-> (n \div (256 ^ (i - 1))) % 256]
FromLE32(s) == s[1] + 256 * s[2] + 65536 * s[3] + 16777216 * s[4]

(* The results of deserialize_map_bytes: Ok(map) or Err(ParseFailure).     *)
Ok(m) == [ok |-> TRUE, map |-> m]
ParseFailure == [ok |-> FALSE, map |-> <<>>]

(* A mutant of serialize_map: the NUL after each value is left out.        *)
SerializeMapNoNul(m) ==
    LE32(Len(m))
    \o FlattenSeq([i \in 1..Len(m) |-> LE32(Len(m[i][1])) \o LE32(Len(m[i][2]))])
    \o FlattenSeq([i \in 1..Len(m) |-> m[i][1] \o <<0>> \o m[i][2]])

(* serialize_map (hostcalls.rs:945-963); the capacity computed first only  *)
(* sizes the allocation.                                                   *)
SerializeMap(m) ==
    LE32(Len(m))
    \o FlattenSeq([i \in 1..Len(m) |-> LE32(Len(m[i][1])) \o LE32(Len(m[i][2]))])
    \o FlattenSeq([i \in 1..Len(m) |-> m[i][1] \o <<0>> \o m[i][2] \o <<0>>])

(* bytes.get(a..b): the bytes a..b-1 (counting from 0), or None when the   *)
(* range is reversed or runs past the end.                                 *)
InRange(bytes, a, b) == a <= b /\ b <= Len(bytes)
Slice(bytes, a, b) == SubSeq(bytes, a + 1, b)

(* A mutant of the decoding loop: the NUL after each name and value is not *)
(* skipped.                                                                *)
RECURSIVE DecodePairsNoSkip(_, _, _, _, _)
DecodePairsNoSkip(bytes, size, n, p, acc) ==
    IF n = size THEN Ok(acc)
    ELSE LET s == 4 + n * 8 IN
         IF ~InRange(bytes, s, s + 4) THEN ParseFailure ELSE
         LET ksize == FromLE32(Slice(bytes, s, s + 4)) IN
         IF ~InRange(bytes, p, p + ksize) THEN ParseFailure ELSE
         LET key == Slice(bytes, p, p + ksize)
             p2 == p + ksize
         IN IF ~InRange(bytes, s + 4, s + 8) THEN ParseFailure ELSE
         LET vsize == FromLE32(Slice(bytes, s + 4, s + 8)) IN
         IF ~InRange(bytes, p2, p2 + vsize) THEN ParseFailure ELSE
         DecodePairsNoSkip(bytes, size, n + 1, p2 + vsize,
                           Append(acc, <<key, Slice(bytes, p2, p2 + vsize)>>))

(* The loop of deserialize_map_bytes (hostcalls.rs:973-983): pair n's name *)
(* and value lengths sit at 4 + 8n; `p` walks the data area and skips the  *)
(* byte after each name and value without looking at it.  Every get(..)?   *)
(* that falls outside the bytes returns Err(ParseFailure).                 *)
RECURSIVE DecodePairs(_, _, _, _, _)
DecodePairs(bytes, size, n, p, acc) ==
    IF n = size THEN Ok(acc)
    ELSE LET s == 4 + n * 8 IN
         IF ~InRange(bytes, s, s + 4) THEN ParseFailure ELSE
         LET ksize == FromLE32(Slice(bytes, s, s + 4)) IN
         IF ~InRange(bytes, p, p + ksize) THEN ParseFailure ELSE
         LET key == Slice(bytes, p, p + ksize)
             p2 == p + ksize + 1
         IN IF ~InRange(bytes, s + 4, s + 8) THEN ParseFailure ELSE
         LET vsize == FromLE32(Slice(bytes, s + 4, s + 8)) IN
         IF ~InRange(bytes, p2, p2 + vsize) THEN ParseFailure ELSE
         DecodePairs(bytes, size, n + 1, p2 + vsize + 1,
                     Append(acc, <<key, Slice(bytes, p2, p2 + vsize)>>))

(* deserialize_map_bytes (hostcalls.rs:965-985): an empty byte string is   *)
(* the empty map; otherwise the pair count comes first and the data area   *)
(* starts after the 8-byte length pairs.                                   *)
DeserializeMapBytes(bytes) ==
    IF bytes = <<>> THEN Ok(<<>>)
    ELSE IF ~InRange(bytes, 0, 4) THEN ParseFailure
    ELSE LET size == FromLE32(Slice(bytes, 0, 4)) IN
         DecodePairs(bytes, size, 0, 4 + size * 8, <<>>)

(***************************************************************************)
(* The host's side of the ABI (reference definitions).                     *)
(***************************************************************************)

(* The host writes the count, the length table and the data area, each     *)
(* built pair by pair.                                                     *)
RECURSIVE LengthTable(_), DataArea(_)
LengthTable(m) ==
    IF m = <<>> THEN <<>>
    ELSE LE32(Len(Head(m)[1])) \o LE32(Len(Head(m)[2])) \o LengthTable(Tail(m))
DataArea(m) ==
    IF m = <<>> THEN <<>>
    ELSE Head(m)[1] \o <<0>> \o Head(m)[2] \o <<0>> \o DataArea(Tail(m))

HostEncode(m) == LE32(Len(m)) \o LengthTable(m) \o DataArea(m)

(* The host reads a byte string as the one map that it encodes; anything   *)
(* else is rejected.  `Enc` is HostEncode tabulated over the maps in play. *)
HostDecode(bytes, Enc) ==
    IF \E m \in DOMAIN Enc : Enc[m] = bytes
    THEN Ok(CHOOSE m \in DOMAIN Enc : Enc[m] = bytes)
    ELSE ParseFailure

=============================================================================
