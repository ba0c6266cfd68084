----------------------------- MODULE BodyRange -----------------------------
(***************************************************************************)
(* calculate_range (src/src/lib.rs) turns a Rust RangeBounds<usize> over a *)
(* buffer of `limit` bytes into the (start, size) pair passed to the host's *)
(* get_buffer / set_buffer.  HttpCallResponse::body, GrpcCallResponse::body *)
(* and GrpcStreamMessage::body inline the same computation.                 *)
(*                                                                         *)
(* usize has Width bits.  `*x + 1` overflows at usize::MAX: a build with    *)
(* overflow checks panics, one without wraps to 0.                          *)
(*                                                                         *)
(* The inputs are fixed in Init and never change: each state is one call.   *)
(***************************************************************************)
EXTENDS Integers, FiniteSets

CONSTANTS
    Width,          \* bits of usize
    StartKinds,     \* start bounds the callers build: "Included", "Excluded", "Unbounded"
    OverflowChecks  \* the build panics on arithmetic overflow

ASSUME Width \in Nat \ {0} /\ OverflowChecks \in BOOLEAN
ASSUME StartKinds \subseteq {"Included", "Excluded", "Unbounded"}

MaxUsize == 2^Width - 1
Usize == 0..MaxUsize
Panic == <<>>       \* the call panics (overflow check)
Overflow == -1      \* the end computation overflowed in a checked build

(* Bound<&usize>, a tagged union.                                          *)
Bounds(kinds) == {[kind |-> k, x |-> n] : k \in kinds \ {"Unbounded"}, n \in Usize}
                 \cup (IF "Unbounded" \in kinds THEN {[kind |-> "Unbounded", x |-> 0]} ELSE {})

VARIABLES sb, eb, limit
vars == <<sb, eb, limit>>

SaturatingSub(a, b) == IF a > b THEN a - b ELSE 0
MinUsize(a, b) == IF a < b THEN a ELSE b

(* Faulty variant: an excluded start is decremented without saturation.    *)
StartOfUnsaturated(b) ==
    CASE b.kind = "Included" -> b.x
      [] b.kind = "Excluded" -> b.x - 1
      [] OTHER -> 0

(* The start bound: an excluded start x becomes x.saturating_sub(1).       *)
StartOf(b) ==
    CASE b.kind = "Included" -> b.x
      [] b.kind = "Excluded" -> SaturatingSub(b.x, 1)
      [] OTHER -> 0

(* Faulty variant: the end bound is not capped at the buffer size.         *)
CalculateRangeUncapped(s, e, lim) ==
    LET ends == CASE e.kind = "Included" /\ e.x = MaxUsize ->
                       IF OverflowChecks THEN {Overflow} ELSE {0}
                  [] e.kind = "Included" -> {e.x + 1}
                  [] e.kind = "Excluded" -> {e.x}
                  [] OTHER -> {lim}
    IN {IF n = Overflow THEN Panic ELSE <<StartOf(s), SaturatingSub(n, StartOf(s))>> : n \in ends}

(* The (start, size) pairs the build can produce, or Panic.  The end is    *)
(* x + 1 for an included bound (overflowing at usize::MAX), x for an       *)
(* excluded one, the limit when unbounded; it is capped at the limit and   *)
(* the start is subtracted with saturation.                                *)
CalculateRange(s, e, lim) ==
    LET ends == CASE e.kind = "Included" /\ e.x = MaxUsize ->
                       IF OverflowChecks THEN {Overflow} ELSE {0}
                  [] e.kind = "Included" -> {e.x + 1}
                  [] e.kind = "Excluded" -> {e.x}
                  [] OTHER -> {lim}
    IN {IF n = Overflow THEN Panic
        ELSE <<StartOf(s), SaturatingSub(MinUsize(n, lim), StartOf(s))>> : n \in ends}

(* The byte indices a (start, size) pair asks the host for.                *)
Requested(o) == o[1] .. (o[1] + o[2] - 1)

(* Reference: the indices of the buffer the Rust range contains.          *)
AfterStart(i, b) == CASE b.kind = "Included" -> i >= b.x
                      [] b.kind = "Excluded" -> i > b.x
                      [] OTHER -> TRUE
BeforeEnd(i, b) == CASE b.kind = "Included" -> i <= b.x
                     [] b.kind = "Excluded" -> i < b.x
                     [] OTHER -> TRUE
InRange(i) == AfterStart(i, sb) /\ BeforeEnd(i, eb)
Wanted == {i \in 0..(limit - 1) : InRange(i)}

Init == sb \in Bounds(StartKinds) /\ eb \in Bounds({"Included", "Excluded", "Unbounded"})
        /\ limit \in Usize
Next == UNCHANGED vars
Spec == Init /\ [][Next]_vars

Outcomes == CalculateRange(sb, eb, limit) \ {Panic}

TypeOK == /\ sb \in Bounds(StartKinds)
          /\ limit \in Usize
          /\ \A o \in Outcomes : o[1] \in Usize /\ o[2] \in Usize

(* get_buffer/set_buffer are never asked for a byte past the buffer or     *)
(* past the range's end bound, whatever the start bound and the build.     *)
RequestWithinBounds ==
    \A o \in Outcomes : \A i \in Requested(o) : i < limit /\ BeforeEnd(i, eb)

(* The bytes asked for are exactly the bytes of the range (body(a..b)      *)
(* reads and set(a..b) overwrites exactly the slice a Rust range denotes). *)
RequestIsRange == \A o \in Outcomes : Requested(o) = Wanted
=============================================================================
