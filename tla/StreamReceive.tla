--------------------------- MODULE StreamReceive ----------------------------
(***************************************************************************)
(* The receiving half of one QUIC stream: class stream_receive_state of    *)
(* include/flowq/quic/stream.hpp.                                          *)
(*                                                                         *)
(* A buffer is a function from the absolute offsets it covers to bytes.    *)
(* pending_, a map from start offset to buffer, is the set of its entries  *)
(* [start, end, bytes].                                                    *)
(***************************************************************************)
EXTENDS Integers, FiniteSetsExt

CONSTANTS
  Byte,             \* values of a byte
  MaxOffset,        \* the largest representable offset
  MaxLength,        \* bound: longest frame that arrives
  InitialMaxData,   \* receive credit the state is constructed with
  NoFinalSize       \* final_size_ without a value

ASSUME ReceiveConstants ==
  /\ MaxOffset \in Nat
  /\ MaxLength \in Nat
  /\ InitialMaxData \in 0..MaxOffset
  /\ NoFinalSize \notin Nat

VARIABLES
  next_offset,
  max_data,
  delivered,        \* delivered_: the bytes given to the application
  pending,          \* pending_
  final_size,
  reset_received,
  error             \* error of the last call: none, stream or flow_control

vars == <<next_offset, max_data, delivered, pending, final_size,
          reset_received, error>>

Larger(a, b) == IF a >= b THEN a ELSE b

End(f) == f.offset + f.length

Holds(s, o) == s.start <= o /\ o < s.end

(* The byte that the entries S hold at offset o. *)
ByteIn(S, o) == (CHOOSE s \in S : Holds(s, o)).bytes[o]

closed ==
  reset_received \/ (final_size # NoFinalSize /\ next_offset = final_size)

-----------------------------------------------------------------------------
(* validate_overlap(): byte_at() looks into delivered_, then into the last *)
(* entry of pending_ that starts at or before the offset.                  *)

byte_before(o) ==
  {s \in pending : s.start <= o /\ \A t \in pending : t.start <= o => t.start <= s.start}

known_at(o) ==
  IF o < next_offset
  THEN {delivered[o]}
  ELSE {s.bytes[o] : s \in {t \in byte_before(o) : o < t.end}}

validate_overlap(f) ==
  \A o \in f.offset .. End(f) - 1 : \A b \in known_at(o) : b = f.bytes[o]

-----------------------------------------------------------------------------
(* buffer_new_suffix(). *)

new_start(f) == Larger(f.offset, next_offset)

has_new(f) == f.length > 0 /\ new_start(f) < End(f)

touches_previous(s, at) ==
  /\ s.start < at
  /\ \A t \in pending : t.start < at => t.start <= s.start
  /\ s.end >= at

(* The entries from "first" on. *)
candidates(f) ==
  {s \in pending : s.start >= new_start(f) \/ touches_previous(s, new_start(f))}

(* The entries from "first" to "last": the loop goes on while the next one *)
(* starts at or before the end reached so far.                             *)
merged_with(f) ==
  {s \in candidates(f) :
     \A t \in candidates(f) :
       t.start <= s.start =>
         \/ t.start <= End(f)
         \/ \E u \in candidates(f) : u.start < t.start /\ t.start <= u.end}

merged_start(f) == Min({new_start(f)} \union {s.start : s \in merged_with(f)})

(* The merged entry ends with the frame. *)
merged_end_of_frame(f) == End(f)

merged_end(f) == Max({End(f)} \union {s.end : s \in merged_with(f)})

merged(f) ==
  [start |-> merged_start(f),
   end   |-> merged_end(f),
   bytes |-> [o \in merged_start(f) .. merged_end(f) - 1 |->
                IF f.offset <= o /\ o < End(f)
                THEN f.bytes[o]
                ELSE ByteIn(merged_with(f), o)]]

buffer_new_suffix(f) ==
  IF has_new(f) THEN (pending \ merged_with(f)) \union {merged(f)} ELSE pending

-----------------------------------------------------------------------------
(* drain_contiguous() on the entries P: it goes on while there is an entry *)
(* at the offset reached.                                                  *)

ahead(P) == {s \in P : s.start >= next_offset}

drained(P) ==
  {s \in ahead(P) : \A o \in next_offset .. s.end - 1 : \E t \in ahead(P) : Holds(t, o)}

drained_to(P) == Max({next_offset} \union {s.end : s \in drained(P)})

drain_contiguous(P) ==
  /\ next_offset' = drained_to(P)
  /\ delivered' = [o \in 0 .. drained_to(P) - 1 |->
                     IF o < next_offset THEN delivered[o] ELSE ByteIn(drained(P), o)]
  /\ pending' = P \ drained(P)

-----------------------------------------------------------------------------
overflows(f) == f.offset > MaxOffset - f.length

(* A FIN is not compared with the final size known already. *)
final_size_unchecked(f) ==
  ~f.fin /\ final_size # NoFinalSize => End(f) <= final_size

final_size_agrees(f) ==
  IF f.fin THEN final_size \in {NoFinalSize, End(f)}
           ELSE final_size # NoFinalSize => End(f) <= final_size

accepted(f) ==
  /\ ~reset_received
  /\ ~overflows(f)
  /\ End(f) <= max_data
  /\ final_size_agrees(f)
  /\ validate_overlap(f)

receive_accepted(f) ==
  /\ accepted(f)
  /\ final_size' = IF f.fin THEN End(f) ELSE final_size
  /\ drain_contiguous(buffer_new_suffix(f))
  /\ error' = "none"
  /\ UNCHANGED <<max_data, reset_received>>

receive_rejected(f) ==
  /\ ~accepted(f)
  /\ error' = IF ~reset_received /\ ~overflows(f) /\ End(f) > max_data
              THEN "flow_control" ELSE "stream"
  /\ UNCHANGED <<next_offset, max_data, delivered, pending, final_size, reset_received>>

receive(f) == receive_accepted(f) \/ receive_rejected(f)

largest_received_offset == Max({next_offset} \union {s.end : s \in pending})

reset(size) ==
  IF final_size \notin {NoFinalSize, size} \/ size < largest_received_offset
  THEN /\ error' = "stream"
       /\ UNCHANGED <<next_offset, max_data, delivered, pending, final_size, reset_received>>
  ELSE /\ final_size' = size
       /\ reset_received' = TRUE
       /\ error' = "none"
       /\ UNCHANGED <<next_offset, max_data, delivered, pending>>

update_max_data(v) ==
  /\ max_data' = Larger(max_data, v)
  /\ error' = "none"
  /\ UNCHANGED <<next_offset, delivered, pending, final_size, reset_received>>

-----------------------------------------------------------------------------
Init ==
  /\ next_offset = 0
  /\ max_data = InitialMaxData
  /\ delivered = [o \in {} |-> 0]
  /\ pending = {}
  /\ final_size = NoFinalSize
  /\ reset_received = FALSE
  /\ error = "none"

Next ==
  \/ \E o \in 0..MaxOffset, n \in 0..MaxLength, fin \in BOOLEAN :
       \E d \in [o .. o + n - 1 -> Byte] :
         receive([offset |-> o, length |-> n, bytes |-> d, fin |-> fin])
  \/ \E size \in 0..MaxOffset : reset(size)
  \/ \E v \in 0..MaxOffset : update_max_data(v)

Spec == Init /\ [][Next]_vars

-----------------------------------------------------------------------------
(* The members keep their types; delivered_ has next_offset_ bytes.        *)
TypeOK ==
  /\ next_offset \in 0..MaxOffset
  /\ max_data \in 0..MaxOffset
  /\ delivered \in [0 .. next_offset - 1 -> Byte]
  /\ \A s \in pending : /\ s.start \in 0..MaxOffset /\ s.end \in 0..MaxOffset
                        /\ s.bytes \in [s.start .. s.end - 1 -> Byte]
                        /\ s = [start |-> s.start, end |-> s.end, bytes |-> s.bytes]
  /\ final_size \in {NoFinalSize} \union 0..MaxOffset
  /\ reset_received \in BOOLEAN
  /\ error \in {"none", "stream", "flow_control"}

(* pending_ is canonical: its entries are not empty, lie strictly beyond   *)
(* the delivered prefix and neither overlap nor touch.  byte_at() and the  *)
(* merge rely on it: each looks at one neighbour only.                     *)
Separated ==
  /\ \A s \in pending : next_offset < s.start /\ s.start < s.end
  /\ \A s, t \in pending : s # t => s.end < t.start \/ t.end < s.start

(* Nothing received, delivered or pending, lies beyond the credit granted. *)
WithinCredit ==
  /\ next_offset <= max_data
  /\ \A s \in pending : s.end <= max_data

(* The final size, learned from a FIN or from a RESET_STREAM, never        *)
(* changes, and a stream that is closed() stays closed and delivers        *)
(* nothing more, whichever frames arrive late.                             *)
ClosedForGood ==
  [][/\ final_size # NoFinalSize => final_size' = final_size
     /\ closed => closed' /\ next_offset' = next_offset]_vars

(* Everything accepted: the delivered bytes and the buffered ones.         *)
received ==
  [o \in {o \in 0..MaxOffset : o < next_offset \/ \E s \in pending : Holds(s, o)} |->
     IF o < next_offset THEN delivered[o] ELSE ByteIn(pending, o)]

Reassembly == INSTANCE StreamReassembly WITH Byte <- Byte, MaxOffset <- MaxOffset,
                                            received <- received, delivered <- delivered

(* stream_receive_state implements StreamReassembly: overlapping, repeated *)
(* and reordered frames never change, lose or withhold an accepted byte.   *)
Reassembles == Reassembly!Spec

(* No byte lies beyond a known final size: what the tests of               *)
(* stream_receive_state say of data that follows the FIN, and what reset() *)
(* checks of data that precedes it.                                        *)
NothingBeyondFinalSize ==
  final_size # NoFinalSize =>
    next_offset <= final_size /\ \A s \in pending : s.end <= final_size
=============================================================================
